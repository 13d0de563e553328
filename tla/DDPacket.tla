------------------------------ MODULE DDPacket ------------------------------
(***************************************************************************)
(* The bytes of a packet (dataDump/DDPacket.cpp) and DataDump::send and    *)
(* DataDump::receive (dataDump/DDBase.cpp), which turn a packet into bytes *)
(* for the queue and back.                                                 *)
(*                                                                         *)
(* A packet in the memory of an end is the record DDBase has of it, less   *)
(* its history field.  The FSM states build every packet in a fresh        *)
(* object, so that the bits setFrameNumber and setContinueBit leave alone  *)
(* are 0.  No transaction packet carries data.                             *)
(***************************************************************************)
EXTENDS Integers, Sequences

CONSTANTS
    Outgoing,        \* the packets one end sends
    MaxTransactionID,  \* the largest transactionID_t, 2^32 - 1
    MaxSendSize,     \* maxPacketSize of the sender
    MaxReceiveSize,  \* maxPacketSize of the receiver
    QueueSize        \* messages the queue holds

Byte == 0..255

(* msgType_e                                                               *)
Types == <<"REQUEST", "RESPONSE", "INITIATE_BLOCK_TRANSFER", "BLOCK_TRANSFER", "BLOCK_ACK",
           "BLOCK_ACKNOT">>

TransactionTypes == {"REQUEST", "RESPONSE", "INITIATE_BLOCK_TRANSFER", "BLOCK_ACK", "BLOCK_ACKNOT"}

(* The payload of a frame: what fits a packet of at most 255 bytes.        *)
Payloads == {data \in Seq(Byte) : Len(data) \in 1..250}

TransactionPackets ==
    [type : TransactionTypes, tid : 0..MaxTransactionID, blocks : Byte, plen : Byte, ack : Byte]

BlockPackets ==
    [type : {"BLOCK_TRANSFER"}, frame : 0..127, last : BOOLEAN, data : Payloads]

ASSUME PacketAssumption ==
    /\ MaxTransactionID \in Nat /\ MaxTransactionID \div (256 * 256) < 256 * 256
    /\ Outgoing \subseteq TransactionPackets \cup BlockPackets
    /\ MaxSendSize \in 11..255
    /\ MaxReceiveSize \in 11..255
    /\ QueueSize \in Nat \ {0}

-----------------------------------------------------------------------------
(* Fields to bytes, least significant byte first.                          *)

(* Nothing is written for BLOCK_ACKNOT: send has zeroed the buffer.        *)
TypeByte(type) ==
    [REQUEST |-> 1, RESPONSE |-> 2, INITIATE_BLOCK_TRANSFER |-> 3, BLOCK_TRANSFER |-> 4,
     BLOCK_ACK |-> 5, BLOCK_ACKNOT |-> 0][type]

Bytes4Cut(n) == <<n % 256, (n \div 256) % 256, (n \div (256 * 256)) % 256, 0>>
Bytes4(n) ==
    <<n % 256, (n \div 256) % 256, (n \div (256 * 256)) % 256, (n \div (256 * 256 * 256)) % 256>>

(* The continue bit is the top bit of the metadata, over the frame number. *)
Metadata(frame, last) == (frame % 128) + (IF last THEN 0 ELSE 128)

IsBlock(packet) == packet.type = "BLOCK_TRANSFER"

(* generateCRC writes nothing, so that the two bytes of the crc are 0.     *)
TermsBytes(packet) == <<packet.blocks, packet.plen, packet.ack, 0, 0, 0>>

TransactionBytes(packet) ==
    LET tid == Bytes4(packet.tid)
        terms == TermsBytes(packet)
    IN  <<TypeByte(packet.type), tid[1], tid[2], tid[3], tid[4],
          terms[1], terms[2], terms[3], terms[4], terms[5], terms[6]>>

BlockBytesWhole(packet) ==
    <<TypeByte(packet.type), Metadata(packet.frame, packet.last), 0, 0, 5 + Len(packet.data)>>
        \o packet.data

BlockBytes(packet) ==
    <<TypeByte(packet.type), Metadata(packet.frame, packet.last), 0, 0, Len(packet.data)>>
        \o packet.data

Serialized(packet) == IF IsBlock(packet) THEN BlockBytes(packet) ELSE TransactionBytes(packet)

PacketSize(packet) == IF IsBlock(packet) THEN 5 + Len(packet.data) ELSE 11

-----------------------------------------------------------------------------
(* Bytes to fields.                                                        *)
TypeOf(byte) == IF byte \in 1..6 THEN Types[byte] ELSE "UNASSIGNED"

Number4(a, b, c, d) == a + 256 * (b + 256 * (c + 256 * d))

TransactionOf(bytes) ==
    [type |-> TypeOf(bytes[1]), tid |-> Number4(bytes[2], bytes[3], bytes[4], bytes[5]),
     blocks |-> bytes[6], plen |-> bytes[7], ack |-> bytes[8]]

(* The data is as long as the size field of the packet says.               *)
DataOf(bytes) == SubSeq(bytes, 6, 5 + bytes[5])

BlockOf(bytes) ==
    [type |-> TypeOf(bytes[1]), frame |-> bytes[2] % 128, last |-> bytes[2] < 128,
     data |-> DataOf(bytes)]

Deserialized(bytes) ==
    IF TypeOf(bytes[1]) = "BLOCK_TRANSFER" THEN BlockOf(bytes) ELSE TransactionOf(bytes)

-----------------------------------------------------------------------------
VARIABLES
    queue,   \* the messages in the queue, each a sequence of bytes
    result   \* what the last receive returned

vars == <<queue, result>>

Nothing == [type |-> "NOTHING"]

Init == queue = <<>> /\ result = Nothing

Send(packet) ==
    /\ PacketSize(packet) % 256 <= MaxSendSize
    /\ Len(queue) < QueueSize
    /\ queue' = Append(queue, Serialized(packet))
    /\ UNCHANGED result

(* The message is taken off the queue before its size and type are looked  *)
(* at; the crc field is compared with CRC16::generate, which returns 0.    *)
Accepts(bytes, type) == Len(bytes) <= MaxReceiveSize /\ TypeOf(bytes[1]) = type

Receive(type) ==
    /\ queue # <<>>
    /\ queue' = Tail(queue)
    /\ result' = IF Accepts(Head(queue), type) THEN Deserialized(Head(queue)) ELSE Nothing

AwaitedTypes == {Types[i] : i \in 1..5}

Next == (\E packet \in Outgoing : Send(packet)) \/ (\E type \in AwaitedTypes : Receive(type))

Spec == Init /\ [][Next]_vars

-----------------------------------------------------------------------------
(* deserialize believes the size field of a packet: a packet that will be  *)
(* accepted is as long as that field says, so that no byte behind the      *)
(* message is read (DDPacket.cpp:792-824, 975-997).                        *)
SizesTruthful == \A i \in 1..Len(queue) :
    LET bytes == queue[i] IN
        Len(bytes) = IF TypeOf(bytes[1]) = "BLOCK_TRANSFER" THEN 5 + bytes[5] ELSE 11 + bytes[11]

(* What arrives of a packet: a refusal arrives as UNASSIGNED.              *)
OnWire(packet) == [packet EXCEPT !.type = IF @ = "BLOCK_ACKNOT" THEN "UNASSIGNED" ELSE @]

Records == INSTANCE PacketLink WITH
    SendLimit <- MaxSendSize,
    ReceiveLimit <- MaxReceiveSize,
    Capacity <- QueueSize,
    Size <- PacketSize,
    Awaited <- AwaitedTypes,
    channel <- [i \in 1..Len(queue) |-> Deserialized(queue[i])],
    received <- result

(* The queue of bytes is the queue of records the two ends are modelled    *)
(* with: serialize and deserialize (DDPacket.cpp:792-873, 975-1034) lose   *)
(* and confuse nothing but the type of a refusal.                          *)
ImplementsLink == Records!Spec
=============================================================================
