----------------------------- MODULE MCDDPacket -----------------------------
(* An instance of DDPacket for TLC: every type, transaction ids and frame  *)
(* numbers with each of their bits and bytes at stake, short payloads and  *)
(* one that no packet of the receiver may have.                            *)
EXTENDS DDPacket

Ids == {0, 1, 255, 256, 65535, 65536, 16777216, 305419896, 2147483647}

Terms(type, tid, blocks, plen, ack) ==
    [type |-> type, tid |-> tid, blocks |-> blocks, plen |-> plen, ack |-> ack]

Frame(frame, last, data) ==
    [type |-> "BLOCK_TRANSFER", frame |-> frame, last |-> last, data |-> data]

Sent ==
    {Terms("REQUEST", tid, 127, 200, 10) : tid \in Ids}
        \cup {Terms(type, 4660, 3, 12, 255) : type \in TransactionTypes}
        \cup {Frame(frame, last, data) :
                  frame \in {1, 64, 127}, last \in BOOLEAN,
                  data \in {<<0>>, <<255, 7>>, [i \in 1..8 |-> i]}}

LargestInt == 2147483647
=============================================================================
