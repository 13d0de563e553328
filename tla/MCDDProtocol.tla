---------------------------- MODULE MCDDProtocol ----------------------------
(* Instances of DDProtocol for TLC.  Packet lengths of 11 to 14 bytes give *)
(* payloads of 6 to 9 bytes and frames a transaction packet still fits in. *)
EXTENDS DDLockstep

Asked(blocks, plen) == [tid |-> 4660, blocks |-> blocks, plen |-> plen, ack |-> 5]
Offered(blocks, plen) == [tid |-> 0, blocks |-> blocks, plen |-> plen, ack |-> 6]

ClientOf3 == Asked(3, 12)
ServerOf7 == Offered(7, 11)
ServerOf3 == Offered(3, 11)
ServerWide == Offered(3, 12)
ClientNarrow == Asked(3, 11)

Bytes13 == [i \in 1..13 |-> i]
NoBytes == <<>>
=============================================================================
