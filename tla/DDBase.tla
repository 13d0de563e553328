------------------------------- MODULE DDBase -------------------------------
(***************************************************************************)
(* What the two ends of the Data Dump Protocol share (dataDump/DDBase.cpp, *)
(* packets as an end sees them, of which DDPacket has the bytes) and the   *)
(* two queues that connect them in dataDump/DDTest.cpp.                    *)
(*                                                                         *)
(* A packet is a record.  Its CRC field is left out: generateCRC writes    *)
(* nothing and CRC16::generate returns 0, so the comparison in receive is  *)
(* always 0 = 0.                                                           *)
(***************************************************************************)
EXTENDS StateTimer, Integers, Sequences

CONSTANTS
    ServerConfig,      \* constructor arguments of the server, a Config
    ClientConfig,      \* constructor arguments of the client, a Config
    Capacity,          \* packets one queue holds (20 in DDTest.cpp)
    Storage,           \* the bytes the server application has to dump
    ClientBufferSize,  \* size of the buffer given to startNewTransfer
    MaxTransfers,      \* bound: calls of startNewTransfer that succeed
    MaxStarts,         \* bound: calls of startServer that are not refused
    MaxStops           \* bound: calls of stopServer

TransactionPacketSize == 11    \* msgType 1, id 4, blocks 1, length 1, timeout 1, crc 2, size 1
BlockHeaderSize == 5           \* msgType 1, metadata 1, crc 2, size 1

FSMStates == {"IDLE", "REQUEST", "RESPONSE", "INITIATE_BLOCK", "BLOCK", "TERMINATE"}

TransactionTypes == {"REQUEST", "RESPONSE", "INITIATE_BLOCK_TRANSFER", "BLOCK_ACK", "BLOCK_ACKNOT"}

Byte == 0..255

(* The terms of a transaction as TranscationHeader carries them.           *)
Config == [tid : Nat, blocks : 0..255, plen : 0..255, ack : 0..255]

NoTerms == [tid |-> 0, blocks |-> 0, plen |-> 0, ack |-> 0]

(* blocksPerTransaction_t is documented as 1..127; a packet shorter than   *)
(* the block header would make the payload size wrap around.               *)
ASSUME ConfigAssumption ==
    /\ ServerConfig \in Config /\ ServerConfig.blocks \in 1..127
    /\ ClientConfig \in Config /\ ClientConfig.blocks \in 1..127
    /\ ServerConfig.plen >= BlockHeaderSize

ASSUME SizeAssumption ==
    /\ Capacity \in Nat \ {0}
    /\ Storage \in Seq(Byte)
    /\ ClientBufferSize \in Nat \ {0}
    /\ MaxTransfers \in Nat
    /\ MaxStarts \in Nat
    /\ MaxStops \in Nat

MinOf(a, b) == IF a < b THEN a ELSE b
MaxOf(a, b) == IF a > b THEN a ELSE b

-----------------------------------------------------------------------------
(* Packets.  Field batch is a history field, not on the wire: the number   *)
(* of the storage read a frame was cut from, or an ACK answers.            *)

(* msgType_to_Bytes has no assignment for BLOCK_ACKNOT, so the byte stays  *)
(* 0 of the zeroed send buffer, the code of UNASSIGNED.                    *)
WireType(type) == IF type = "BLOCK_ACKNOT" THEN "UNASSIGNED" ELSE type

TransactionPacket(type, terms, batch) ==
    [type |-> WireType(type), tid |-> terms.tid, blocks |-> terms.blocks,
     plen |-> terms.plen, ack |-> terms.ack, batch |-> batch]

BlockPacket(frame, last, data, batch) ==
    [type |-> "BLOCK_TRANSFER", frame |-> frame, last |-> last, data |-> data, batch |-> batch]

(* The terms of a received packet, field by field.                         *)
TermsOfSwapped(packet) ==
    [tid |-> packet.tid, blocks |-> packet.plen, plen |-> packet.blocks, ack |-> packet.ack]

TermsOf(packet) ==
    [tid |-> packet.tid, blocks |-> packet.blocks, plen |-> packet.plen, ack |-> packet.ack]

TransactionPackets ==
    [type : {WireType(t) : t \in TransactionTypes}, tid : Nat, blocks : 0..255,
     plen : 0..255, ack : 0..255, batch : Nat]

BlockPackets ==
    [type : {"BLOCK_TRANSFER"}, frame : Nat, last : BOOLEAN, data : Seq(Byte), batch : Nat]

Packets == TransactionPackets \cup BlockPackets

(* getPacketSize: no transaction packet of the protocol carries data.      *)
PacketSize(packet) ==
    IF packet.type = "BLOCK_TRANSFER" THEN BlockHeaderSize + Len(packet.data)
    ELSE TransactionPacketSize

-----------------------------------------------------------------------------
(* The two queues, named after the server's view of them.                  *)
VARIABLES
    inChannel,   \* serverInChannel: client to server
    outChannel   \* serverOutChannel: server to client

channels == <<inChannel, outChannel>>

ChannelsTypeOK == inChannel \in Seq(Packets) /\ outChannel \in Seq(Packets)

ChannelsInit == inChannel = <<>> /\ outChannel = <<>>

(* DataDump::send with serverSend / clientSend: refused when the packet is *)
(* longer than the end's own maxPacketSize or when the queue is full.      *)
CanSend(packet, config, channel) ==
    PacketSize(packet) <= config.plen /\ Len(channel) < Capacity

(* DataDump::receive with serverReceive / clientReceive returns a packet   *)
(* only if the oldest one fits the end's own buffer and has the awaited    *)
(* type.  The oldest packet is popped in either case.                      *)
Receives(type, config, channel) ==
    /\ channel # <<>>
    /\ PacketSize(Head(channel)) <= config.plen
    /\ Head(channel).type = type

Popped(channel) == IF channel = <<>> THEN <<>> ELSE Tail(channel)

=============================================================================
