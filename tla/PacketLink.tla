----------------------------- MODULE PacketLink -----------------------------
(***************************************************************************)
(* A queue between two ends that carries packets as records, which is what *)
(* DDServer and DDClient are modelled with: send is refused for a packet   *)
(* that is too long or when the queue is full, and receive takes the       *)
(* oldest packet, for good or to drop it.                                  *)
(***************************************************************************)
EXTENDS Integers, Sequences

CONSTANTS
    Outgoing,      \* the packets that may be sent
    OnWire(_),     \* what becomes of a packet that is sent
    Size(_),       \* its length in bytes
    SendLimit,     \* maxPacketSize of the sender
    ReceiveLimit,  \* maxPacketSize of the receiver
    Capacity,      \* packets the queue holds
    Awaited,       \* the types a receiver may wait for
    Nothing        \* the result of a receive that took no packet

VARIABLES
    channel,   \* the packets in the queue
    received   \* what the last receive returned

vars == <<channel, received>>

Init == channel = <<>> /\ received = Nothing

Send ==
    /\ Len(channel) < Capacity
    /\ \E packet \in Outgoing :
          Size(packet) <= SendLimit /\ channel' = Append(channel, OnWire(packet))
    /\ UNCHANGED received

Receive ==
    /\ channel # <<>>
    /\ channel' = Tail(channel)
    /\ \E type \in Awaited :
          received' = IF Size(Head(channel)) <= ReceiveLimit /\ Head(channel).type = type
                      THEN Head(channel) ELSE Nothing

Next == Send \/ Receive

Spec == Init /\ [][Next]_vars
=============================================================================
