-------------------------- MODULE DDLockstep_proofs --------------------------
(* Theorems about the lock step of the protocol as built, for every value  *)
(* of the constants with AsBuilt.                                          *)
EXTENDS DDLockstep, DDTransfer_proofs, DDFrames_proofs

-----------------------------------------------------------------------------
(* The lock step, with what holds of the terms, the frames and the         *)
(* application's buffer whether or not the timers run.                     *)
LInv ==
    /\ AsBuilt /\ FInv /\ TInv
    /\ InStep /\ ServerHolds /\ ClientHolds /\ NoExpiry

-----------------------------------------------------------------------------
(* The cut of the batch.                                                   *)

LEMMA BatchFacts ==
    ASSUME AsBuilt
    PROVE  /\ Batch \in Seq(Byte)
           /\ Len(Batch) \in Nat \ {0} /\ Len(Batch) <= ClientBufferSize
           /\ ServerPayload \in Nat \ {0}
           /\ Len(Batch) <= ServerPayload * Settled.blocks
<1>1. Batch \in Seq(Byte) /\ Len(Batch) <= ServerPayload * Settled.blocks
  BY SettledType, BatchType DEF Batch
<1>2. Len(Batch) \in Nat \ {0} /\ Len(Batch) <= ClientBufferSize
  BY SizeAssumption DEF AsBuilt
<1>3. ServerConfig.plen \in Nat
  BY ConfigAssumption DEF Config
<1>4. ServerPayload \in Nat \ {0}
  BY <1>3 DEF AsBuilt, ServerPayload, TransactionPacketSize, BlockHeaderSize
<1>5. QED
  BY <1>1, <1>2, <1>4

(* A multiple of the payload grows with the number of frames.              *)
LEMMA MoreFrames ==
    ASSUME NEW payload \in Nat, NEW m \in Nat, NEW n \in Nat, m <= n
    PROVE  /\ m * payload \in Nat /\ n * payload \in Nat
           /\ m * payload <= n * payload
           /\ (n + 1) * payload = n * payload + payload
<1>1. m * payload \in Nat /\ n * payload \in Nat
  OBVIOUS
<1>2. (n - m) * payload >= 0
  OBVIOUS
<1>3. (n - m) * payload = n * payload - m * payload
  OBVIOUS
<1>4. (n + 1) * payload = n * payload + payload
  OBVIOUS
<1>5. QED
  BY <1>1, <1>2, <1>3, <1>4

LEMMA CutGrows ==
    ASSUME AsBuilt, NEW n \in Nat
    PROVE  /\ Cut(n) \in 0..Len(Batch)
           /\ Cut(0) = 0
           /\ \A m \in 0..n : Cut(m) <= Cut(n)
           /\ Cut(n + 1) = Cut(n) + MinOf(ServerPayload, Len(Batch) - Cut(n))
           /\ Cut(n) < Len(Batch) => Cut(n) < Cut(n + 1)
           /\ n >= Settled.blocks => Cut(n) = Len(Batch)
<1> DEFINE size == Len(Batch)
           payload == ServerPayload
<1>1. size \in Nat \ {0} /\ payload \in Nat \ {0} /\ size <= payload * Settled.blocks
  BY BatchFacts
<1>2. Settled.blocks \in Nat
  BY SettledType
<1>3. /\ n * payload \in Nat /\ 0 * payload = 0
      /\ (n + 1) * payload = n * payload + payload
  BY <1>1, MoreFrames
<1>4. \A m \in 0..n : m * payload \in Nat /\ m * payload <= n * payload
  BY <1>1, MoreFrames
<1>5. n >= Settled.blocks => size <= n * payload
  <2>1. n >= Settled.blocks => Settled.blocks * payload <= n * payload
    BY <1>1, <1>2, MoreFrames
  <2>2. payload * Settled.blocks = Settled.blocks * payload
    BY <1>1, <1>2
  <2>3. Settled.blocks * payload \in Nat
    BY <1>1, <1>2
  <2>4. QED
    BY <1>1, <1>3, <2>1, <2>2, <2>3
<1> HIDE DEF size, payload
<1>6. \A m : Cut(m) = MinOf(m * payload, size)
  BY DEF Cut, size, payload
<1>7. Cut(n) \in 0..size /\ Cut(0) = 0
  BY <1>1, <1>3, <1>6 DEF MinOf
<1>8. \A m \in 0..n : Cut(m) <= Cut(n)
  BY <1>1, <1>3, <1>4, <1>6 DEF MinOf
<1>9. Cut(n + 1) = Cut(n) + MinOf(payload, size - Cut(n))
  BY <1>1, <1>3, <1>6 DEF MinOf
<1>10. Cut(n) < size => Cut(n) < Cut(n + 1)
  BY <1>1, <1>7, <1>9 DEF MinOf
<1>11. n >= Settled.blocks => Cut(n) = size
  BY <1>1, <1>3, <1>5, <1>6 DEF MinOf
<1>12. QED
  BY <1>7, <1>8, <1>9, <1>10, <1>11 DEF size, payload

(* A part of a sequence, and the two parts of what comes after a place.    *)
LEMMA PartType ==
    ASSUME NEW seq \in Seq(Byte), NEW from \in 0..Len(seq), NEW to \in from..Len(seq)
    PROVE  /\ SubSeq(seq, from + 1, to) \in Seq(Byte)
           /\ Len(SubSeq(seq, from + 1, to)) = to - from
           /\ \A i \in 1..to - from : SubSeq(seq, from + 1, to)[i] = seq[from + i]
<1>1. Len(seq) \in Nat
  BY LenProperties
<1>2. \A i \in from + 1 .. to : seq[i] \in Byte
  BY <1>1, ElementOfSeq
<1>3. from + 1 \in Int /\ to \in Int /\ to - (from + 1) + 1 = to - from
  BY <1>1
<1>4. /\ SubSeq(seq, from + 1, to) \in Seq(Byte)
      /\ Len(SubSeq(seq, from + 1, to)) = IF from + 1 <= to THEN to - (from + 1) + 1 ELSE 0
      /\ \A i \in 1 .. to - (from + 1) + 1 : SubSeq(seq, from + 1, to)[i] = seq[from + 1 + i - 1]
  BY <1>2, <1>3, SubSeqProperties
<1>5. \A i \in 1..to - from : from + 1 + i - 1 = from + i
  BY <1>1
<1>6. QED
  BY <1>1, <1>3, <1>4, <1>5

LEMMA PartsOfRest ==
    ASSUME NEW seq \in Seq(Byte), NEW from \in 0..Len(seq), NEW to \in from..Len(seq)
    PROVE  LET rest == SubSeq(seq, from + 1, Len(seq))
           IN  /\ SubSeq(rest, 1, to - from) = SubSeq(seq, from + 1, to)
               /\ SubSeq(rest, to - from + 1, Len(seq) - from) = SubSeq(seq, to + 1, Len(seq))
<1> DEFINE rest == SubSeq(seq, from + 1, Len(seq))
           size == Len(seq) - from
           cut == to - from
<1>1. Len(seq) \in Nat
  BY LenProperties
<1>2. cut \in 0..size /\ size \in Nat /\ 0 \in 0..size /\ size \in cut..size /\ cut \in 0..cut
  BY <1>1
<1>3. rest \in Seq(Byte) /\ Len(rest) = size /\ \A i \in 1..size : rest[i] = seq[from + i]
  BY <1>1, PartType
<1>4. /\ SubSeq(seq, from + 1, to) \in Seq(Byte) /\ Len(SubSeq(seq, from + 1, to)) = cut
      /\ \A i \in 1..cut : SubSeq(seq, from + 1, to)[i] = seq[from + i]
  BY PartType
<1>5. /\ SubSeq(seq, to + 1, Len(seq)) \in Seq(Byte)
      /\ Len(SubSeq(seq, to + 1, Len(seq))) = size - cut
      /\ \A i \in 1..size - cut : SubSeq(seq, to + 1, Len(seq))[i] = seq[to + i]
  BY <1>1, PartType
<1>6. \A i \in 1..size - cut : from + (cut + i) = to + i
  BY <1>1
<1> HIDE DEF rest, size, cut
<1>7. /\ SubSeq(rest, 0 + 1, cut) \in Seq(Byte)
      /\ Len(SubSeq(rest, 0 + 1, cut)) = cut - 0
      /\ \A i \in 1..cut - 0 : SubSeq(rest, 0 + 1, cut)[i] = rest[0 + i]
  BY <1>2, <1>3, PartType
<1>8. /\ SubSeq(rest, 1, cut) \in Seq(Byte)
      /\ Len(SubSeq(rest, 1, cut)) = cut
      /\ \A i \in 1..cut : SubSeq(rest, 1, cut)[i] = rest[i]
  BY <1>2, <1>7
<1>9. SubSeq(rest, 1, cut) = SubSeq(seq, from + 1, to)
  BY <1>2, <1>3, <1>4, <1>8, SeqEqual
<1>10. /\ SubSeq(rest, cut + 1, size) \in Seq(Byte)
       /\ Len(SubSeq(rest, cut + 1, size)) = size - cut
       /\ \A i \in 1..size - cut : SubSeq(rest, cut + 1, size)[i] = rest[cut + i]
  BY <1>2, <1>3, PartType
<1>11. \A i \in 1..size - cut : rest[cut + i] = seq[to + i]
  <2> SUFFICES ASSUME NEW i \in 1..size - cut PROVE rest[cut + i] = seq[to + i]
    OBVIOUS
  <2>1. cut + i \in 1..size
    BY <1>2
  <2>2. rest[cut + i] = seq[from + (cut + i)]
    BY <1>3, <2>1
  <2>3. QED
    BY <1>6, <2>2
<1>12. SubSeq(rest, cut + 1, size) = SubSeq(seq, to + 1, Len(seq))
  BY <1>5, <1>10, <1>11, SeqEqual
<1>13. QED
  BY <1>9, <1>12 DEF rest, size, cut

(* Nothing is cut at first, and in the end everything.                     *)
LEMMA CutEnds ==
    ASSUME AsBuilt, NEW n \in Nat
    PROVE  /\ Rest(0) = Batch /\ Pieces(0) = <<>>
           /\ Cut(n) = Len(Batch) => Rest(n) = <<>> /\ Pieces(n) = Batch
           /\ Cut(n) < Len(Batch) => Rest(n) # <<>>
           /\ Rest(n) \in Seq(Byte) /\ Len(Rest(n)) = Len(Batch) - Cut(n)
           /\ Pieces(n) \in Seq(Byte) /\ Len(Pieces(n)) = Cut(n)
<1>1. Batch \in Seq(Byte) /\ Len(Batch) \in Nat \ {0}
  BY BatchFacts
<1>2. Cut(0) = 0 /\ Cut(n) \in 0..Len(Batch)
  BY CutGrows
<1>3. \A i \in 1..Len(Batch) : Batch[i] \in Byte
  BY <1>1, ElementOfSeq
<1>4. Rest(0) = Batch /\ Pieces(0) = <<>>
  <2>1. Rest(0) = SubSeq(Batch, 1, Len(Batch)) /\ Pieces(0) = SubSeq(Batch, 1, 0)
    BY <1>2 DEF Rest, Pieces
  <2>2. QED
    BY <1>1, <2>1, SubSeqFull, SubSeqEmpty
<1>5. Rest(n) \in Seq(Byte) /\ Len(Rest(n)) = Len(Batch) - Cut(n)
  BY <1>1, <1>2, PartType DEF Rest
<1>6. Pieces(n) \in Seq(Byte) /\ Len(Pieces(n)) = Cut(n)
  <2>1. \A i \in 1 .. Cut(n) : Batch[i] \in Byte
    BY <1>1, <1>2, <1>3
  <2>2. /\ Pieces(n) \in Seq(Byte)
        /\ Len(Pieces(n)) = IF 1 <= Cut(n) THEN Cut(n) - 1 + 1 ELSE 0
    BY <1>2, <2>1, SubSeqProperties DEF Pieces
  <2>3. QED
    BY <1>2, <2>2
<1>7. Cut(n) = Len(Batch) => Rest(n) = <<>> /\ Pieces(n) = Batch
  BY <1>1, SubSeqEmpty, SubSeqFull DEF Rest, Pieces
<1>8. Cut(n) < Len(Batch) => Rest(n) # <<>>
  BY <1>1, <1>2, <1>5, EmptySeq
<1>9. QED
  BY <1>4, <1>5, <1>6, <1>7, <1>8

(* The server cuts the next piece off, and the client puts it behind those *)
(* before it.                                                              *)
LEMMA NextPiece ==
    ASSUME AsBuilt, NEW n \in Nat, Cut(n) < Len(Batch)
    PROVE  /\ FrameData(Rest(n)) = Piece(n + 1)
           /\ Remaining(Rest(n)) = Rest(n + 1)
           /\ Pieces(n) \o Piece(n + 1) = Pieces(n + 1)
           /\ Piece(n + 1) \in Seq(Byte)
           /\ Len(Piece(n + 1)) = Cut(n + 1) - Cut(n)
           /\ Len(Piece(n + 1)) \in 1..ServerPayload
<1> DEFINE size == Len(Batch)
           from == Cut(n)
           to == Cut(n + 1)
<1>1. Batch \in Seq(Byte) /\ size \in Nat /\ ServerPayload \in Nat \ {0}
  BY BatchFacts
<1>2. from \in 0..size /\ to = from + MinOf(ServerPayload, size - from) /\ from < to
  BY CutGrows
<1>3. to \in 1..size /\ to - from \in 1..ServerPayload
  BY <1>1, <1>2 DEF MinOf
<1>4. Len(Rest(n)) = size - from
  BY CutEnds
<1>6. Piece(n + 1) = SubSeq(Batch, from + 1, to)
  <2>1. (n + 1) - 1 = n
    OBVIOUS
  <2>2. QED
    BY <2>1 DEF Piece
<1> HIDE DEF size, from, to
<1>7. size = Len(Batch) /\ Rest(n) = SubSeq(Batch, from + 1, size) /\ Rest(n + 1) = SubSeq(Batch, to + 1, size)
  BY DEF Rest, from, to, size
<1>5. FrameSize(Rest(n)) = to - from
  BY <1>1, <1>2, <1>3, <1>4 DEF FrameSize, MinOf
<1>8. from \in 0..Len(Batch) /\ to \in from..Len(Batch)
  BY <1>1, <1>2, <1>3, <1>7
<1>9. FrameData(Rest(n)) = Piece(n + 1)
  BY <1>1, <1>5, <1>6, <1>7, <1>8, PartsOfRest DEF FrameData
<1>10. Remaining(Rest(n)) = Rest(n + 1)
  BY <1>1, <1>4, <1>5, <1>7, <1>8, PartsOfRest DEF Remaining
<1>11. Pieces(n) \o Piece(n + 1) = Pieces(n + 1)
  <2>1. 1 \in 1..Len(Batch) + 1 /\ from \in 1 - 1 .. Len(Batch) /\ to \in from..Len(Batch)
    BY <1>1, <1>2, <1>3, <1>8
  <2>2. SubSeq(Batch, 1, from) \o SubSeq(Batch, from + 1, to) = SubSeq(Batch, 1, to)
    BY <1>1, <2>1, ConcatAdjacentSubSeq
  <2>3. QED
    BY <1>6, <2>2 DEF Pieces, from, to
<1>12. Piece(n + 1) \in Seq(Byte) /\ Len(Piece(n + 1)) = to - from
  BY <1>1, <1>6, <1>8, PartType
<1>13. QED
  BY <1>3, <1>9, <1>10, <1>11, <1>12 DEF from, to

-----------------------------------------------------------------------------
(* Packets and timers.                                                     *)

LEMMA PacketFields ==
    /\ Request.type = "REQUEST" /\ TermsOf(Request) = ClientConfig
    /\ Response.type = "RESPONSE" /\ TermsOf(Response) = Settled
    /\ Initiation.type = "INITIATE_BLOCK_TRANSFER" /\ Initiation.tid = Settled.tid
    /\ Ack.type = "BLOCK_ACK" /\ Ack.batch = srvBatch
<1>1. /\ Request.type = "REQUEST" /\ Response.type = "RESPONSE"
      /\ Initiation.type = "INITIATE_BLOCK_TRANSFER" /\ Ack.type = "BLOCK_ACK"
      /\ Initiation.tid = Settled.tid /\ Ack.batch = srvBatch
  BY DEF Request, Response, Initiation, Ack, TransactionPacket, WireType
<1>2. TermsOf(Request) = ClientConfig /\ TermsOf(Response) = Settled
  BY SettledType, TermsTravel DEF Request, Response
<1>3. QED
  BY <1>1, <1>2

(* Every packet fits both ends.                                            *)
LEMMA PacketsFit ==
    ASSUME AsBuilt
    PROVE  /\ \A packet \in {Request, Response, Initiation, Ack} :
                 PacketSize(packet) <= ServerConfig.plen /\ PacketSize(packet) <= ClientConfig.plen
           /\ \A n \in Nat : Cut(n) < Len(Batch)
                 => /\ PacketSize(Frame(n + 1)) <= ServerConfig.plen
                    /\ PacketSize(Frame(n + 1)) <= ClientConfig.plen
<1>1. /\ TransactionPacketSize <= ServerConfig.plen /\ ServerConfig.plen <= ClientConfig.plen
      /\ TransactionPacketSize \in Nat /\ ServerConfig.plen \in Nat /\ ClientConfig.plen \in Nat
  <2>1. ServerConfig.plen \in 0..255 /\ ClientConfig.plen \in 0..255
    BY ConfigAssumption DEF Config
  <2>2. TransactionPacketSize <= ServerConfig.plen /\ ServerConfig.plen <= ClientConfig.plen
    BY DEF AsBuilt
  <2>3. QED
    BY <2>1, <2>2 DEF TransactionPacketSize
<1>2. ASSUME NEW packet \in {Request, Response, Initiation, Ack}
      PROVE  PacketSize(packet) <= ServerConfig.plen /\ PacketSize(packet) <= ClientConfig.plen
  <2>1. packet.type # "BLOCK_TRANSFER"
    BY PacketFields
  <2>2. QED
    BY <1>1, <2>1 DEF PacketSize
<1>3. ASSUME NEW n \in Nat, Cut(n) < Len(Batch)
      PROVE  PacketSize(Frame(n + 1)) <= ServerConfig.plen /\ PacketSize(Frame(n + 1)) <= ClientConfig.plen
  <2>1. Len(Piece(n + 1)) \in 1..ServerPayload
    BY <1>3, NextPiece
  <2>2. PacketSize(Frame(n + 1)) = BlockHeaderSize + Len(Piece(n + 1))
    BY DEF PacketSize, Frame, BlockPacket
  <2>3. QED
    BY <1>1, <2>1, <2>2 DEF ServerPayload, BlockHeaderSize
<1>4. QED
  BY <1>2, <1>3

(* A timer no thread serves is armed and stopped, and never expires.       *)
LEMMA TimerAsBuilt ==
    ASSUME AsBuilt, NEW t \in Timers, ~t.expiry
    PROVE  /\ ~ReadsExpired(t)
           /\ NotArmed(t) = {}
           /\ ~Armed.expiry
           /\ \A u \in Started(t) \cup Stopped(t) : ~u.expiry
<1>1. ~LockMayFail
  BY DEF AsBuilt, LockMayFail
<1>2. ~[t EXCEPT !.pending = FALSE].expiry
  BY DEF Timers
<1>3. Stopped(t) = {[t EXCEPT !.pending = FALSE]} /\ Started(t) = {Armed} /\ NotArmed(t) = {}
  BY <1>1 DEF Stopped, Started, NotArmed
<1>4. QED
  BY <1>2, <1>3 DEF ReadsExpired, Armed

LEMMA NeverExpires ==
    ASSUME AsBuilt, TypeOK, NoExpiry, [Next]_vars
    PROVE  NoExpiry'
<1>1. srvTimer \in Timers /\ cliTimer \in Timers /\ ~srvTimer.expiry /\ ~cliTimer.expiry
  BY DEF TypeOK, ServerTypeOK, ClientTypeOK, NoExpiry
<1>2. /\ ~ReadsExpired(srvTimer) /\ ~ReadsExpired(cliTimer) /\ ~Armed.expiry
      /\ NotArmed(cliTimer) = {}
      /\ \A u \in Started(srvTimer) \cup Stopped(srvTimer) : ~u.expiry
      /\ \A u \in Started(cliTimer) \cup Stopped(cliTimer) : ~u.expiry
  BY <1>1, TimerAsBuilt
<1>3. CASE ServerNext
  <2>1. srvTimer' = srvTimer \/ srvTimer' \in Started(srvTimer) \cup Stopped(srvTimer)
    BY <1>2, <1>3
       DEF ServerNext, ServerStep, ServerIdle, ServerCleanup, ServerRequest, ServerRequestReceived,
           ServerResponse, ServerResponseSent, ServerInitiate, ServerInitiateReceived, ServerBlock,
           ServerBlockSent, ServerAckReceived, ServerDiscards, ServerReceiveTimesOut,
           ServerSendTimesOut, ServerTerminate, srvVars, ownVars
  <2>2. cliTimer' = cliTimer
    BY <1>3 DEF ServerNext, cliVars
  <2>3. QED
    BY <1>1, <1>2, <2>1, <2>2 DEF NoExpiry
<1>4. CASE ClientNext
  <2>1. \/ cliTimer' = cliTimer \/ cliTimer' = Armed
        \/ cliTimer' \in Started(cliTimer) \cup Stopped(cliTimer)
    BY <1>2, <1>4
       DEF ClientNext, ClientStep, ClientIdle, ClientRequest, ClientRequestSent, ClientResponse,
           ClientResponseReceived, ClientInitiate, ClientInitiateSent, ClientBlock, ClientBlockStored,
           ClientBlockRefused, ClientAckSent, ClientAckNotSent, ClientDiscards,
           ClientResponseTimesOut, ClientBlockTimesOut, ClientSendTimesOut, ClientTerminate, cliVars
  <2>2. srvTimer' = srvTimer
    BY <1>4 DEF ClientNext, srvVars, ownVars
  <2>3. QED
    BY <1>1, <1>2, <2>1, <2>2 DEF NoExpiry
<1>5. CASE AppNext \/ UNCHANGED vars
  BY <1>1, <1>5, CallsLeave DEF AppNext, StartNewTransfer, vars, srvVars, ownVars, cliVars, NoExpiry
<1>6. ~ServerTimerFires /\ ~ClientTimerFires
  BY DEF AsBuilt, ServerTimerFires, ClientTimerFires
<1>7. QED
  BY <1>3, <1>4, <1>5, <1>6 DEF Next

-----------------------------------------------------------------------------
(* From where one end is to where the other is and what the queues hold.   *)
LEMMA ServerPlaces ==
    ASSUME InStep
    PROVE  /\ AwaitsRequest => Resting \/ Requested
           /\ Answers => Answering
           /\ AwaitsInitiation => Answered \/ Accepting \/ Initiated
           /\ SendsFrames => Dumping
           /\ AwaitsAck => Acknowledged \/ RequestedEarly \/ Dumping \/ Dumped
BY DEF InStep, Resting, Acknowledged, Requested, RequestedEarly, Answering, Answered, Accepting,
       Initiated, Dumping, Dumped, AwaitsRequest, Answers, AwaitsInitiation, SendsFrames, AwaitsAck,
       ServerTo

LEMMA ClientPlaces ==
    ASSUME InStep
    PROVE  /\ BeforeRequest => Resting \/ Acknowledged
           /\ AwaitsResponse => Requested \/ RequestedEarly \/ Answering \/ Answered
           /\ BeforeInitiation => Accepting
           /\ AwaitsFrames => Initiated \/ Dumping
           /\ BeforeAck => Dumped
           /\ cliPc # "sendAckNot"
BY DEF InStep, Resting, Acknowledged, Requested, RequestedEarly, Answering, Answered, Accepting,
       Initiated, Dumping, Dumped, BeforeRequest, AwaitsResponse, BeforeInitiation, AwaitsFrames,
       BeforeAck, ClientTo

-----------------------------------------------------------------------------
(* What keeps the lock step.                                               *)

(* A queue of one packet or two.                                           *)
LEMMA ShortQueues ==
    ASSUME NEW a, NEW b
    PROVE  /\ <<a>> # <<>> /\ Head(<<a>>) = a /\ Tail(<<a>>) = <<>>
           /\ <<a, b>> # <<>> /\ Head(<<a, b>>) = a /\ Tail(<<a, b>>) = <<b>>
           /\ Append(<<>>, a) = <<a>> /\ Append(<<a>>, b) = <<a, b>>
           /\ Len(<<>>) = 0 /\ Len(<<a>>) = 1
<1>1. Append(<<a>>, b) = <<a, b>>
  <2> DEFINE S == {a, b}
  <2>1. <<a>> \in Seq(S) /\ <<a, b>> \in Seq(S) /\ b \in S /\ Len(<<a>>) = 1 /\ Len(<<a, b>>) = 2
    OBVIOUS
  <2>2. /\ Append(<<a>>, b) \in Seq(S) /\ Len(Append(<<a>>, b)) = 2
        /\ Append(<<a>>, b)[1] = a /\ Append(<<a>>, b)[2] = b
    BY <2>1, AppendProperties
  <2>3. \A i \in 1..2 : Append(<<a>>, b)[i] = <<a, b>>[i]
    BY <2>2
  <2> HIDE DEF S
  <2>4. QED
    BY <2>1, <2>2, <2>3, SeqEqual
<1>2. /\ <<a>> # <<>> /\ Head(<<a>>) = a /\ Tail(<<a>>) = <<>>
      /\ <<a, b>> # <<>> /\ Head(<<a, b>>) = a /\ Tail(<<a, b>>) = <<b>>
      /\ Append(<<>>, a) = <<a>> /\ Len(<<>>) = 0 /\ Len(<<a>>) = 1
  OBVIOUS
<1>3. QED
  BY <1>1, <1>2

LEMMA ServerStays ==
    ASSUME InStep, UNCHANGED <<cliPc, cliNext, cliBatches, srvBatch, inChannel, outChannel>>,
           \/ AwaitsRequest /\ AwaitsRequest'
           \/ AwaitsInitiation /\ AwaitsInitiation'
    PROVE  InStep'
<1>1. CASE AwaitsRequest /\ AwaitsRequest'
  <2>1. Resting \/ Requested
    BY <1>1, ServerPlaces
  <2>2. Resting' \/ Requested'
    BY <1>1, <2>1 DEF Resting, Requested, BeforeRequest, AwaitsResponse, ClientTo, Queued, Request
  <2>3. QED
    BY <2>2 DEF InStep
<1>2. CASE AwaitsInitiation /\ AwaitsInitiation'
  <2>1. Answered \/ Accepting \/ Initiated
    BY <1>2, ServerPlaces
  <2>2. Answered' \/ Accepting' \/ Initiated'
    BY <1>2, <2>1 DEF Answered, Accepting, Initiated, AwaitsResponse, BeforeInitiation, AwaitsFrames,
                      ClientTo, Queued, StoredFrames
  <2>3. QED
    BY <2>2 DEF InStep
<1>3. QED
  BY <1>1, <1>2

LEMMA ClientStays ==
    ASSUME InStep, UNCHANGED <<srvPc, srvNext, srvCounter, srvBatch, inChannel, outChannel>>,
           \/ BeforeRequest /\ BeforeRequest'
           \/ AwaitsResponse /\ AwaitsResponse'
           \/ BeforeInitiation /\ BeforeInitiation'
           \/ AwaitsFrames /\ AwaitsFrames' /\ UNCHANGED cliBatches
    PROVE  InStep'
<1>1. CASE BeforeRequest /\ BeforeRequest'
  <2>1. Resting \/ Acknowledged
    BY <1>1, ClientPlaces
  <2>2. Resting' \/ Acknowledged'
    BY <1>1, <2>1 DEF Resting, Acknowledged, AwaitsRequest, AwaitsAck, ServerTo, Queued, Ack
  <2>3. QED
    BY <2>2 DEF InStep
<1>2. CASE AwaitsResponse /\ AwaitsResponse'
  <2>1. Requested \/ RequestedEarly \/ Answering \/ Answered
    BY <1>2, ClientPlaces
  <2>2. Requested' \/ RequestedEarly' \/ Answering' \/ Answered'
    BY <1>2, <2>1 DEF Requested, RequestedEarly, Answering, Answered, AwaitsRequest, AwaitsAck, Answers,
                      AwaitsInitiation, ServerTo, Queued, Ack
  <2>3. QED
    BY <2>2 DEF InStep
<1>3. CASE BeforeInitiation /\ BeforeInitiation'
  <2>1. Accepting
    BY <1>3, ClientPlaces
  <2>2. Accepting'
    BY <1>3, <2>1 DEF Accepting, AwaitsInitiation, ServerTo, Queued
  <2>3. QED
    BY <2>2 DEF InStep
<1>4. CASE AwaitsFrames /\ AwaitsFrames' /\ UNCHANGED cliBatches
  <2>1. Initiated \/ Dumping
    BY <1>4, ClientPlaces
  <2>2. Initiated => Initiated'
    BY <1>4 DEF Initiated, AwaitsInitiation, ServerTo, Queued, StoredFrames
  <2>3. Dumping => Dumping'
    <3>1. FramesQueued => FramesQueued'
      BY <1>4 DEF FramesQueued, StoredFrames, SentFrames, Frame
    <3>2. QED
      BY <1>4, <3>1 DEF Dumping, SendsFrames, AwaitsAck, ServerTo
  <2>4. QED
    BY <2>1, <2>2, <2>3 DEF InStep
<1>5. QED
  BY <1>1, <1>2, <1>3, <1>4

LEMMA ClientKeeps ==
    ASSUME ClientHolds, UNCHANGED cliVars, srvBatch' = srvBatch \/ AwaitsResponse
    PROVE  ClientHolds'
<1>1. UNCHANGED <<cliPc, cliNext, cliTerms, cliReceived, cliBatches, cliSuccess>>
  BY DEF cliVars
<1>2. QED
  BY <1>1 DEF ClientHolds, FromBatch, StoredFrames, NothingStored, AwaitsFrames, BeforeAck, ClientTo,
              AwaitsResponse

LEMMA ServerKeeps ==
    ASSUME ServerHolds, UNCHANGED srvVars
    PROVE  ServerHolds'
<1>1. /\ UNCHANGED <<srvPc, srvNext, srvBuffer, srvCounter, srvPacket, srvSuccess, srvBatch, srvAcked>>
      /\ UNCHANGED <<srvCall, starts>>
  BY DEF srvVars, ownVars, callVars
<1>2. QED
  BY <1>1 DEF ServerHolds, StartedOnce, SentFrames, AwaitsInitiation, SendsFrames, AwaitsAck, ServerTo, Frame

-----------------------------------------------------------------------------
(* One step of the server.                                                 *)

(* No step of the FSM thread takes a server out of IDLE.                   *)
LEMMA StartsOnce ==
    ASSUME StartedOnce, ServerStep
    PROVE  StartedOnce'
<1>1. UNCHANGED <<srvCall, starts>>
  BY DEF ServerStep, ServerIdle, ServerRequest, ServerRequestReceived, ServerResponse,
         ServerResponseSent, ServerInitiate, ServerInitiateReceived, ServerBlock, ServerBlockSent,
         ServerAckReceived, ServerDiscards, ServerReceiveTimesOut, ServerSendTimesOut,
         ServerTerminate, callVars, srvVars
<1>2. ASSUME ServerTo({"IDLE"}) PROVE ServerTo({"IDLE"})'
  <2>1. srvPc = "loop" /\ srvNext = "IDLE" /\ "loop" \notin DOMAIN ServerAwaits
    BY <1>2 DEF ServerTo, ServerAwaits
  <2>2. ServerIdle
    BY <2>1
       DEF ServerStep, ServerEnters, ServerRequest, ServerRequestReceived, ServerResponse,
           ServerResponseSent, ServerInitiate, ServerInitiateReceived, ServerBlock,
           ServerBlockSent, ServerAckReceived, ServerDiscards, ServerReceiveTimesOut,
           ServerSendTimesOut, ServerTerminate
  <2>3. QED
    BY <2>1, <2>2 DEF ServerIdle, ServerTo
<1>3. QED
  BY <1>1, <1>2 DEF StartedOnce

LEMMA ServerRests ==
    ASSUME LInv, UNCHANGED cliVars, StartedOnce', ServerIdle \/ ServerRequest \/ ServerTerminate
    PROVE  InStep' /\ ServerHolds'
<1>1. AwaitsRequest /\ UNCHANGED <<srvBatch, inChannel, outChannel>>
  BY DEF ServerIdle, ServerRequest, ServerTerminate, ServerEnters, AwaitsRequest, ServerTo, channels
<1>0. SUFFICES AwaitsRequest' /\ ServerHolds'
  <2>1. InStep /\ UNCHANGED <<cliPc, cliNext, cliBatches, srvBatch, inChannel, outChannel>>
    BY <1>1 DEF LInv, cliVars
  <2>2. AwaitsRequest' => InStep'
    BY <1>1, <2>1, ServerStays
  <2>3. QED
    BY <2>2
<1>2. CASE ServerIdle
  <2>1. srvPc' = "loop" /\ srvNext' = "IDLE" /\ ~srvSuccess'
    BY <1>2 DEF ServerIdle, ServerEnters, ServerCleanup
  <2>2. QED
    BY <2>1 DEF AwaitsRequest, ServerHolds, AwaitsInitiation, SendsFrames, AwaitsAck, ServerTo
<1>3. CASE ServerRequest
  <2>1. srvPc' = "recvRequest" /\ srvNext' = "REQUEST" /\ srvSuccess' = srvSuccess
    BY <1>3 DEF ServerRequest, ServerEnters
  <2>2. ~srvSuccess
    BY <1>3 DEF LInv, ServerHolds, ServerTo, ServerRequest, ServerEnters
  <2>3. QED
    BY <2>1, <2>2 DEF AwaitsRequest, ServerHolds, AwaitsInitiation, SendsFrames, AwaitsAck, ServerTo
<1>4. CASE ServerTerminate
  <2>1. srvPc' = "loop" /\ srvNext' = "REQUEST" /\ ~srvSuccess'
    BY <1>4 DEF ServerTerminate, ServerEnters, ServerCleanup
  <2>2. QED
    BY <2>1 DEF AwaitsRequest, ServerHolds, AwaitsInitiation, SendsFrames, AwaitsAck, ServerTo
<1>5. QED
  BY <1>2, <1>3, <1>4

LEMMA ServerTakesRequest ==
    ASSUME LInv, UNCHANGED cliVars, StartedOnce', ServerRequestReceived
    PROVE  InStep' /\ ServerHolds'
<1>1. /\ srvPc = "recvRequest" /\ srvPc' = "loop" /\ srvNext' = "RESPONSE" /\ inChannel # <<>>
      /\ UNCHANGED <<cliPc, cliNext, srvSuccess, outChannel>> /\ inChannel' = Tail(inChannel)
  BY DEF ServerRequestReceived, ServerLeaves, Receives, cliVars
<1>2. Requested
  BY <1>1, ServerPlaces DEF LInv, AwaitsRequest, Resting, Queued
<1>3. Answering'
  BY <1>1, <1>2, ShortQueues DEF Requested, Answering, AwaitsResponse, ClientTo, Answers, ServerTo, Queued
<1>4. ServerHolds'
  BY <1>1 DEF LInv, ServerHolds, AwaitsInitiation, SendsFrames, AwaitsAck, ServerTo
<1>5. QED
  BY <1>3, <1>4 DEF InStep

LEMMA ServerAnswers ==
    ASSUME LInv, UNCHANGED cliVars, StartedOnce', ServerResponse
    PROVE  InStep' /\ ServerHolds'
<1>1. srvPc = "loop" /\ srvNext = "RESPONSE" /\ ~srvSuccess
  BY DEF LInv, ServerHolds, ServerTo, ServerResponse, ServerEnters
<1>2. Answering
  BY <1>1, ServerPlaces DEF LInv, Answers, ServerTo
<1>3. Negotiated(srvTerms) = Settled
  BY <1>1 DEF LInv, FInv, ServerTerms, Settled
<1>4. Batch # <<>>
  BY BatchFacts DEF LInv
<1>5. /\ srvBuffer' = Batch /\ srvPacket' = Response /\ srvPc' = "sendResponse"
      /\ srvSuccess' = srvSuccess
      /\ UNCHANGED <<cliPc, cliNext, inChannel, outChannel>>
  BY <1>3, <1>4 DEF ServerResponse, ServerEnters, Batch, Response, channels, cliVars
<1>6. Answering'
  BY <1>2, <1>5 DEF Answering, AwaitsResponse, ClientTo, Answers, ServerTo, Queued
<1>7. ServerHolds'
  BY <1>1, <1>5 DEF ServerHolds, AwaitsInitiation, SendsFrames, AwaitsAck, ServerTo
<1>8. QED
  BY <1>6, <1>7 DEF InStep

LEMMA ServerSendsResponse ==
    ASSUME LInv, UNCHANGED cliVars, StartedOnce', ServerResponseSent
    PROVE  InStep' /\ ServerHolds'
<1>1. /\ srvPc = "sendResponse" /\ srvPc' = "loop" /\ srvNext' = "INITIATE_BLOCK"
      /\ outChannel' = Append(outChannel, srvPacket)
      /\ UNCHANGED <<cliPc, cliNext, srvSuccess, srvBuffer, inChannel>>
  BY DEF ServerResponseSent, ServerLeaves, cliVars
<1>2. Answering
  BY <1>1, ServerPlaces DEF LInv, Answers
<1>3. srvPacket = Response /\ srvBuffer = Batch /\ ~srvSuccess
  BY <1>1 DEF LInv, ServerHolds, ServerTo
<1>4. Answered'
  BY <1>1, <1>2, <1>3, ShortQueues
     DEF Answering, Answered, AwaitsResponse, ClientTo, AwaitsInitiation, ServerTo, Queued
<1>5. ServerHolds'
  BY <1>1, <1>3 DEF ServerHolds, AwaitsInitiation, SendsFrames, AwaitsAck, ServerTo
<1>6. QED
  BY <1>4, <1>5 DEF InStep

LEMMA ServerAwaitsInitiation ==
    ASSUME LInv, UNCHANGED cliVars, StartedOnce', ServerInitiate
    PROVE  InStep' /\ ServerHolds'
<1>1. /\ AwaitsInitiation /\ srvPc = "loop" /\ srvNext = "INITIATE_BLOCK"
      /\ srvPc' = "recvInitiate"
      /\ UNCHANGED <<cliPc, cliNext, cliBatches, srvBatch, srvSuccess, srvBuffer, inChannel, outChannel>>
  BY DEF ServerInitiate, ServerEnters, AwaitsInitiation, ServerTo, channels, cliVars
<1>2. srvBuffer = Batch /\ ~srvSuccess
  BY <1>1 DEF LInv, ServerHolds, ServerTo
<1>3. AwaitsInitiation'
  BY <1>1 DEF AwaitsInitiation
<1>4. InStep'
  BY <1>1, <1>3, ServerStays DEF LInv
<1>5. ServerHolds'
  BY <1>1, <1>2 DEF ServerHolds, AwaitsInitiation, SendsFrames, AwaitsAck, ServerTo
<1>6. QED
  BY <1>4, <1>5

(* The first frame is still to be cut.                                     *)
LEMMA ServerTakesInitiation ==
    ASSUME LInv, UNCHANGED cliVars, StartedOnce', ServerInitiateReceived
    PROVE  InStep' /\ ServerHolds' /\ srvNext' = "BLOCK"
<1>1. /\ srvPc = "recvInitiate" /\ srvPc' = "loop" /\ inChannel # <<>> /\ inChannel' = Tail(inChannel)
      /\ UNCHANGED <<cliPc, cliNext, cliBatches, srvSuccess, srvBuffer, outChannel>>
  BY DEF ServerInitiateReceived, ServerLeaves, Receives, cliVars
<1>2. Initiated
  BY <1>1, ServerPlaces DEF LInv, AwaitsInitiation, Answered, Accepting, Queued
<1>3. inChannel = <<Initiation>> /\ outChannel = <<>> /\ AwaitsFrames /\ StoredFrames = 0
  BY <1>2 DEF Initiated, Queued
<1>4. Head(inChannel).tid = srvTerms.tid
  <2>1. srvTerms = Settled
    BY <1>1 DEF LInv, FInv, ServerTerms, InTransaction
  <2>2. QED
    BY <1>3, <2>1, PacketFields, ShortQueues
<1>5. srvNext' = "BLOCK" /\ srvCounter' = 1
  BY <1>4 DEF ServerInitiateReceived, ServerLeaves, FirstFrame
<1>6. srvBuffer = Batch /\ ~srvSuccess
  BY <1>1 DEF LInv, ServerHolds, AwaitsInitiation, ServerTo
<1>7. SentFrames' = 0
  BY <1>1, <1>5 DEF SentFrames
<1>8. Dumping'
  <2>1. inChannel' = <<>> /\ outChannel' = <<>> /\ Len(outChannel') = 0 /\ StoredFrames' = 0
    BY <1>1, <1>3, ShortQueues DEF StoredFrames
  <2>2. FramesQueued'
    BY <1>7, <2>1 DEF FramesQueued
  <2>3. AwaitsFrames' /\ SendsFrames'
    BY <1>1, <1>3, <1>5 DEF AwaitsFrames, ClientTo, SendsFrames, ServerTo
  <2>4. QED
    BY <2>2, <2>3 DEF Dumping
<1>9. ServerHolds'
  <2>1. srvBuffer' = Rest(srvCounter' - 1) /\ Cut(SentFrames') < Len(Batch)
    BY <1>1, <1>5, <1>6, <1>7, BatchFacts, CutGrows, CutEnds DEF LInv
  <2>2. QED
    BY <1>1, <1>5, <1>6, <1>7, <2>1 DEF ServerHolds, AwaitsInitiation, SendsFrames, AwaitsAck, ServerTo
<1>10. QED
  BY <1>5, <1>8, <1>9 DEF InStep

(* The next frame is cut, and marked as the last one exactly when nothing  *)
(* is left.                                                                *)
LEMMA ServerCuts ==
    ASSUME LInv, UNCHANGED cliVars, StartedOnce', ServerBlock
    PROVE  InStep' /\ ServerHolds'
<1> DEFINE n == SentFrames
<1>1. /\ srvPc = "loop" /\ srvNext = "BLOCK"
      /\ srvPc' = "sendBlock" /\ srvCounter' = srvCounter + 1 /\ srvBuffer' = Remaining(srvBuffer)
      /\ srvPacket' = BlockPacket(srvCounter, IsLast(srvCounter, Remaining(srvBuffer)),
                                  FrameData(srvBuffer), srvBatch)
      /\ UNCHANGED <<cliPc, cliNext, cliBatches, srvSuccess, srvTerms, srvBatch, inChannel, outChannel>>
  BY DEF ServerBlock, ServerEnters, channels, cliVars
<1>2. SendsFrames /\ ~srvSuccess
  BY <1>1 DEF LInv, ServerHolds, SendsFrames, ServerTo
<1>3. n \in Nat /\ Cut(n) < Len(Batch) /\ srvBuffer = Rest(srvCounter - 1)
  BY <1>2 DEF LInv, ServerHolds
<1>4. n = srvCounter - 1 /\ srvCounter \in Nat
  BY <1>1 DEF SentFrames, LInv, TInv, TypeOK, ServerTypeOK
<1> HIDE DEF n
<1>5. srvCounter = n + 1 /\ srvBuffer = Rest(n) /\ AsBuilt
  BY <1>3, <1>4 DEF LInv
<1>6. SentFrames' = n
  BY <1>1, <1>5, <1>3 DEF SentFrames
<1>7. Remaining(srvBuffer) = Rest(n + 1) /\ FrameData(srvBuffer) = Piece(n + 1)
  BY <1>3, <1>5, NextPiece
<1>8. IsLast(n + 1, Rest(n + 1)) = (Cut(n + 1) = Len(Batch))
  <2>1. srvTerms = Settled
    BY <1>1 DEF LInv, FInv, ServerTerms, InTransaction
  <2>2. n + 1 \in Nat
    BY <1>3
  <2>3. n + 1 >= Settled.blocks => Cut(n + 1) = Len(Batch)
    BY <1>5, <2>2, CutGrows
  <2>4. Rest(n + 1) = <<>> <=> Cut(n + 1) = Len(Batch)
    <3>1. Cut(n + 1) \in 0..Len(Batch) /\ Len(Batch) \in Nat
      BY <1>5, <2>2, CutGrows, BatchFacts
    <3>2. Cut(n + 1) < Len(Batch) => Rest(n + 1) # <<>>
      BY <1>5, <2>2, CutEnds
    <3>3. Cut(n + 1) = Len(Batch) => Rest(n + 1) = <<>>
      BY <1>5, <2>2, CutEnds
    <3>4. QED
      BY <3>1, <3>2, <3>3
  <2>5. IsLast(n + 1, Rest(n + 1)) <=> Cut(n + 1) = Len(Batch)
    BY <2>1, <2>3, <2>4 DEF IsLast
  <2>6. QED
    BY <2>5 DEF IsLast
<1>9. srvPacket' = Frame(srvCounter - 1)'
  <2>1. srvPacket' = BlockPacket(n + 1, Cut(n + 1) = Len(Batch), Piece(n + 1), srvBatch)
    BY <1>1, <1>5, <1>7, <1>8
  <2>2. srvCounter' - 1 = n + 1
    BY <1>1, <1>3, <1>5
  <2>3. QED
    BY <1>1, <2>1, <2>2 DEF Frame
<1>10. srvBuffer' = Rest(srvCounter' - 1)
  <2>1. srvCounter' - 1 = n + 1
    BY <1>1, <1>3, <1>5
  <2>2. QED
    BY <1>1, <1>7, <2>1
<1>11. Dumping'
  <2>1. Dumping
    BY <1>2, ServerPlaces DEF LInv
  <2>2. SentFrames' = SentFrames
    BY <1>6 DEF n
  <2>3. FramesQueued'
    BY <1>1, <2>1, <2>2 DEF Dumping, FramesQueued, StoredFrames, Frame
  <2>4. AwaitsFrames' /\ SendsFrames'
    BY <1>1, <2>1 DEF Dumping, AwaitsFrames, ClientTo, SendsFrames
  <2>5. QED
    BY <2>3, <2>4 DEF Dumping
<1>12. ServerHolds'
  BY <1>1, <1>2, <1>3, <1>6, <1>9, <1>10
     DEF ServerHolds, AwaitsInitiation, SendsFrames, AwaitsAck, ServerTo
<1>13. QED
  BY <1>11, <1>12 DEF InStep

(* The frame is queued behind those before it; after the last one the      *)
(* server waits for the ACK.                                               *)
LEMMA ServerSendsFrame ==
    ASSUME LInv, UNCHANGED cliVars, StartedOnce', ServerBlockSent
    PROVE  InStep' /\ ServerHolds'
<1> DEFINE n == SentFrames
<1>1. /\ srvPc = "sendBlock" /\ outChannel' = Append(outChannel, srvPacket)
      /\ UNCHANGED <<cliPc, cliNext, cliBatches, srvSuccess, srvBatch, srvCounter, srvBuffer,
                     inChannel>>
  BY DEF ServerBlockSent, ServerLeaves, cliVars
<1>2. /\ SendsFrames /\ ~srvSuccess
      /\ n \in Nat /\ Cut(n) < Len(Batch) /\ srvBuffer = Rest(srvCounter - 1)
      /\ srvPacket = Frame(srvCounter - 1)
  BY <1>1 DEF LInv, ServerHolds, SendsFrames, ServerTo
<1>3. srvCounter - 1 = n + 1 /\ n + 1 \in Nat
  <2>1. n = srvCounter - 2 /\ srvCounter \in Nat
    BY <1>1 DEF SentFrames, LInv, TInv, TypeOK, ServerTypeOK
  <2>2. QED
    BY <1>2, <2>1
<1> HIDE DEF n
<1>4. srvPacket = Frame(n + 1) /\ (srvPacket.last <=> Cut(n + 1) = Len(Batch))
  BY <1>2, <1>3 DEF Frame, BlockPacket
<1>5. srvPc' # "sendBlock" => SentFrames' = n + 1
  BY <1>1, <1>3 DEF SentFrames
<1>6. Dumping
  BY <1>2, ServerPlaces DEF LInv
<1>7. srvPc' # "sendBlock" => FramesQueued'
  <2>1. /\ outChannel \in Seq(Packets) /\ Len(outChannel) \in Nat
        /\ srvPacket \in Packets /\ StoredFrames \in Nat
    BY LenProperties DEF LInv, TInv, TypeOK, ChannelsTypeOK, ServerTypeOK, ClientTypeOK, StoredFrames
  <2>2. /\ Len(outChannel') = Len(outChannel) + 1
        /\ \A i \in 1..Len(outChannel) : outChannel'[i] = outChannel[i]
        /\ outChannel'[Len(outChannel) + 1] = srvPacket
    BY <1>1, <2>1, AppendProperties
  <2>3. /\ inChannel = <<>> /\ StoredFrames + Len(outChannel) = n
        /\ \A i \in 1..Len(outChannel) : outChannel[i] = Frame(StoredFrames + i)
    BY <1>6 DEF Dumping, FramesQueued, n
  <2>4. StoredFrames + (Len(outChannel) + 1) = n + 1
    BY <1>2, <2>1, <2>3
  <2>5. \A i \in 1..Len(outChannel') : outChannel'[i] = Frame(StoredFrames + i)
    <3> SUFFICES ASSUME NEW i \in 1..Len(outChannel') PROVE outChannel'[i] = Frame(StoredFrames + i)
      OBVIOUS
    <3>1. CASE i \in 1..Len(outChannel)
      BY <2>2, <2>3, <3>1
    <3>2. CASE i = Len(outChannel) + 1
      BY <1>4, <2>2, <2>4, <3>2
    <3>3. QED
      BY <2>1, <2>2, <3>1, <3>2
  <2>6. \A i \in Nat : Frame(StoredFrames + i)' = Frame(StoredFrames + i)
    BY <1>1 DEF Frame, StoredFrames
  <2>7. \A i \in 1..Len(outChannel') : outChannel'[i] = Frame(StoredFrames + i)'
    BY <2>1, <2>2, <2>5, <2>6
  <2>8. StoredFrames' = StoredFrames /\ inChannel' = <<>>
    BY <1>1, <2>3 DEF StoredFrames
  <2>9. QED
    BY <1>5, <2>2, <2>4, <2>7, <2>8 DEF FramesQueued
<1>8. AwaitsFrames'
  BY <1>1, <1>6 DEF Dumping, AwaitsFrames, ClientTo
<1>9. CASE srvPacket.last
  <2>1. srvPc' = "recvAck" /\ Cut(n + 1) = Len(Batch)
    BY <1>4, <1>9 DEF ServerBlockSent
  <2>2. SentFrames' = n + 1 /\ FramesQueued' /\ SentFrames' - 1 = n
    BY <1>2, <1>5, <1>7, <2>1
  <2>3. Dumping'
    BY <1>8, <2>1, <2>2 DEF Dumping, AwaitsAck
  <2>4. SentFrames' \in Nat \ {0} /\ Cut(SentFrames' - 1) < Len(Batch) /\ Cut(SentFrames') = Len(Batch)
    BY <1>2, <2>1, <2>2
  <2>5. ServerHolds'
    BY <1>1, <1>2, <2>1, <2>4 DEF ServerHolds, AwaitsInitiation, SendsFrames, AwaitsAck, ServerTo
  <2>6. QED
    BY <2>3, <2>5 DEF InStep
<1>10. CASE ~srvPacket.last
  <2>1. srvPc' = "loop" /\ srvNext' = "BLOCK" /\ Cut(n + 1) # Len(Batch)
    BY <1>4, <1>10 DEF ServerBlockSent, ServerLeaves
  <2>2. Cut(n + 1) < Len(Batch)
    <3>1. Cut(n + 1) \in 0..Len(Batch) /\ Len(Batch) \in Nat
      BY <1>3, CutGrows, BatchFacts DEF LInv
    <3>2. QED
      BY <2>1, <3>1
  <2>3. SentFrames' = n + 1 /\ FramesQueued'
    BY <1>5, <1>7, <2>1
  <2>4. Dumping'
    BY <1>8, <2>1, <2>3 DEF Dumping, SendsFrames, ServerTo
  <2>5. SentFrames' \in Nat /\ Cut(SentFrames') < Len(Batch) /\ srvBuffer' = Rest(srvCounter' - 1)
    BY <1>1, <1>2, <1>3, <2>2, <2>3
  <2>6. ServerHolds'
    BY <1>1, <1>2, <2>1, <2>5 DEF ServerHolds, AwaitsInitiation, SendsFrames, AwaitsAck, ServerTo
  <2>7. QED
    BY <2>4, <2>6 DEF InStep
<1>11. QED
  BY <1>9, <1>10

(* The ACK in the queue is the one for the batch just sent.                *)
LEMMA ServerTakesAck ==
    ASSUME LInv, UNCHANGED cliVars, StartedOnce', ServerAckReceived
    PROVE  InStep' /\ ServerHolds'
<1>1. /\ srvPc = "recvAck" /\ inChannel # <<>> /\ inChannel' = Tail(inChannel)
      /\ srvPc' = "loop" /\ srvNext' = "TERMINATE"
      /\ UNCHANGED <<cliPc, cliNext, cliBatches, srvBatch, outChannel>>
  BY DEF ServerAckReceived, ServerLeaves, Receives, cliVars
<1>2. Acknowledged \/ RequestedEarly
  BY <1>1, ServerPlaces DEF LInv, AwaitsAck, Dumping, FramesQueued, Dumped, Queued
<1>3. Head(inChannel) = Ack
  <2>1. inChannel = <<Ack>> \/ inChannel = <<Ack, Request>>
    BY <1>2 DEF Acknowledged, RequestedEarly, Queued
  <2>2. QED
    BY <2>1, ShortQueues
<1>4. Resting' \/ Requested'
  <2>1. AwaitsRequest'
    BY <1>1 DEF AwaitsRequest, ServerTo
  <2>2. CASE Acknowledged
    <3>1. inChannel = <<Ack>> /\ outChannel = <<>> /\ BeforeRequest
      BY <2>2 DEF Acknowledged, Queued
    <3>2. inChannel' = <<>> /\ outChannel' = <<>> /\ BeforeRequest'
      BY <1>1, <3>1, ShortQueues DEF BeforeRequest, ClientTo
    <3>3. QED
      BY <2>1, <3>2 DEF Resting, Queued
  <2>3. CASE RequestedEarly
    <3>1. inChannel = <<Ack, Request>> /\ outChannel = <<>> /\ AwaitsResponse
      BY <2>3 DEF RequestedEarly, Queued
    <3>2. inChannel' = <<Request>> /\ outChannel' = <<>> /\ AwaitsResponse'
      BY <1>1, <3>1, ShortQueues DEF AwaitsResponse, ClientTo
    <3>3. QED
      BY <2>1, <3>2 DEF Requested, Queued, Request
  <2>4. QED
    BY <1>2, <2>2, <2>3
<1>5. ~srvSuccess
  BY <1>1 DEF LInv, ServerHolds, ServerTo
<1>6. srvSuccess' => srvAcked' = srvBatch'
  BY <1>1, <1>3, <1>5, PacketFields DEF ServerAckReceived
<1>7. ServerHolds'
  BY <1>1, <1>5, <1>6 DEF ServerHolds, AwaitsInitiation, SendsFrames, AwaitsAck, ServerTo
<1>8. QED
  BY <1>4, <1>7 DEF InStep

(* A receiving end always finds the packet it waits for, or none.          *)
LEMMA ServerNeverDiscards ==
    ASSUME LInv
    PROVE  ~ServerDiscards /\ ~ServerReceiveTimesOut /\ ~ServerSendTimesOut
<1>1. ~ReadsExpired(srvTimer)
  BY TimerAsBuilt DEF LInv, NoExpiry, TInv, TypeOK, ServerTypeOK
<1>2. ASSUME srvPc \in DOMAIN ServerAwaits, inChannel # <<>>
      PROVE  Receives(ServerAwaits[srvPc], ServerConfig, inChannel)
  <2>1. /\ Head(inChannel) \in {Request, Initiation, Ack}
        /\ Head(inChannel).type = ServerAwaits[srvPc]
    <3>1. CASE srvPc = "recvRequest"
      <4>1. Requested
        BY <1>2, <3>1, ServerPlaces DEF LInv, AwaitsRequest, Resting, Queued
      <4>2. inChannel = <<Request>>
        BY <4>1 DEF Requested, Queued
      <4>3. QED
        BY <3>1, <4>2, ShortQueues, PacketFields DEF ServerAwaits
    <3>2. CASE srvPc = "recvInitiate"
      <4>1. Initiated
        BY <1>2, <3>2, ServerPlaces DEF LInv, AwaitsInitiation, Answered, Accepting, Queued
      <4>2. inChannel = <<Initiation>>
        BY <4>1 DEF Initiated, Queued
      <4>3. QED
        BY <3>2, <4>2, ShortQueues, PacketFields DEF ServerAwaits
    <3>3. CASE srvPc = "recvAck"
      <4>1. Acknowledged \/ RequestedEarly
        BY <1>2, <3>3, ServerPlaces DEF LInv, AwaitsAck, Dumping, FramesQueued, Dumped, Queued
      <4>2. inChannel = <<Ack>> \/ inChannel = <<Ack, Request>>
        BY <4>1 DEF Acknowledged, RequestedEarly, Queued
      <4>3. QED
        BY <3>3, <4>2, ShortQueues, PacketFields DEF ServerAwaits
    <3>4. QED
      BY <1>2, <3>1, <3>2, <3>3 DEF ServerAwaits
  <2>2. PacketSize(Head(inChannel)) <= ServerConfig.plen
    BY <2>1, PacketsFit DEF LInv
  <2>3. QED
    BY <1>2, <2>1, <2>2 DEF Receives
<1>3. ~ServerDiscards
  BY <1>2 DEF ServerDiscards
<1>4. ~ServerReceiveTimesOut /\ ~ServerSendTimesOut
  BY <1>1 DEF ServerReceiveTimesOut, ServerSendTimesOut
<1>5. QED
  BY <1>3, <1>4

LEMMA ServerStepInStep ==
    ASSUME LInv, ServerNext
    PROVE  InStep' /\ ServerHolds' /\ ClientHolds'
<1>1. ServerStep /\ UNCHANGED cliVars
  BY DEF ServerNext
<1>0. StartedOnce'
  BY <1>1, StartsOnce DEF LInv, ServerHolds
<1>2. InStep' /\ ServerHolds'
  BY <1>0, <1>1, ServerRests, ServerTakesRequest, ServerAnswers, ServerSendsResponse, ServerAwaitsInitiation,
     ServerTakesInitiation, ServerCuts, ServerSendsFrame, ServerTakesAck, ServerNeverDiscards
     DEF ServerStep
<1>3. ClientHolds'
  <2>1. CASE ServerResponse
    <3>1. Answers
      BY <2>1 DEF ServerResponse, ServerEnters, Answers, ServerTo
    <3>2. AwaitsResponse
      BY <3>1, ServerPlaces DEF LInv, Answering
    <3>3. QED
      BY <1>1, <3>2, ClientKeeps DEF LInv
  <2>2. CASE ~ServerResponse
    <3>1. srvBatch' = srvBatch
      BY <1>1, <2>2
         DEF ServerStep, ServerIdle, ServerCleanup, ServerRequest, ServerRequestReceived,
             ServerResponseSent, ServerInitiate, ServerInitiateReceived, ServerBlock,
             ServerBlockSent, ServerAckReceived, ServerDiscards, ServerReceiveTimesOut,
             ServerSendTimesOut, ServerTerminate, srvVars, ownVars
    <3>2. QED
      BY <1>1, <3>1, ClientKeeps DEF LInv
  <2>3. QED
    BY <2>1, <2>2
<1>4. QED
  BY <1>2, <1>3

-----------------------------------------------------------------------------
(* One step of the client.                                                 *)

LEMMA ClientRests ==
    ASSUME LInv, UNCHANGED srvVars,
           ClientIdle \/ ClientRequest \/ ClientTerminate \/ StartNewTransfer
    PROVE  InStep' /\ ClientHolds'
<1>1. BeforeRequest /\ cliPc = "loop" /\ UNCHANGED <<inChannel, outChannel>>
  <2>1. CASE StartNewTransfer
    <3>1. cliPc = "loop" /\ cliNext = "IDLE"
      BY <2>1 DEF StartNewTransfer, LInv, TInv, ClientInLoop, NotifiedOnce
    <3>2. QED
      BY <2>1, <3>1 DEF BeforeRequest, ClientTo, StartNewTransfer, channels
  <2>2. CASE ClientIdle \/ ClientRequest \/ ClientTerminate
    BY <2>2 DEF ClientIdle, ClientRequest, ClientTerminate, ClientEnters, BeforeRequest, ClientTo, channels
  <2>3. QED
    BY <2>1, <2>2
<1>2. SUFFICES BeforeRequest' /\ ClientHolds'
  <2>1. InStep /\ UNCHANGED <<srvPc, srvNext, srvCounter, srvBatch, inChannel, outChannel>>
    BY <1>1 DEF LInv, srvVars, ownVars
  <2>2. BeforeRequest' => InStep'
    BY <1>1, <2>1, ClientStays
  <2>3. QED
    BY <2>2
<1> USE DEF BeforeRequest, ClientHolds, ClientTo, AwaitsFrames, BeforeAck
<1>3. CASE ClientIdle
  <2>1. cliPc' = "loop" /\ cliNext' = "IDLE" /\ cliNext = "IDLE" /\ cliSuccess' = cliSuccess
    BY <1>3 DEF ClientIdle, ClientEnters
  <2>2. ~cliSuccess
    BY <2>1 DEF LInv
  <2>3. QED
    BY <2>1, <2>2
<1>4. CASE ClientRequest
  <2>1. NotArmed(cliTimer) = {}
    BY TimerAsBuilt DEF LInv, NoExpiry, TInv, TypeOK, ClientTypeOK
  <2>2. /\ cliPc' = "sendRequest" /\ cliNext = "REQUEST" /\ cliNext' = "REQUEST"
        /\ UNCHANGED <<cliSuccess, cliReceived, cliBatches>>
    BY <1>4, <2>1 DEF ClientRequest, ClientEnters
  <2>3. ~cliSuccess /\ NothingStored
    BY <1>1, <2>2 DEF LInv
  <2>4. QED
    BY <2>2, <2>3 DEF NothingStored
<1>5. CASE ClientTerminate
  <2>1. cliPc' = "loop" /\ cliNext' = "IDLE" /\ ~cliSuccess'
    BY <1>1, <1>5 DEF ClientTerminate, ClientCleanup
  <2>2. QED
    BY <2>1
<1>6. CASE StartNewTransfer
  <2>1. /\ cliPc' = "loop" /\ cliNext' = "REQUEST" /\ cliSuccess' = cliSuccess
        /\ cliReceived' = <<>> /\ cliBatches' = <<>>
    BY <1>1, <1>6 DEF StartNewTransfer
  <2>2. ~cliSuccess
    <3>1. cliNext = "IDLE"
      BY <1>6 DEF StartNewTransfer, LInv, TInv, NotifiedOnce
    <3>2. QED
      BY <3>1 DEF LInv
  <2>3. QED
    BY <2>1, <2>2 DEF NothingStored
<1>7. QED
  BY <1>3, <1>4, <1>5, <1>6

(* The request is queued, perhaps behind the ACK of the transfer before.   *)
LEMMA ClientSendsRequest ==
    ASSUME LInv, UNCHANGED srvVars, ClientRequestSent
    PROVE  InStep' /\ ClientHolds'
<1>1. /\ cliPc = "sendRequest" /\ cliPc' = "loop" /\ cliNext' = "RESPONSE"
      /\ inChannel' = Append(inChannel, ClientPacket)
      /\ UNCHANGED <<srvPc, srvNext, srvBatch, cliReceived, cliBatches, cliSuccess, outChannel>>
  BY DEF ClientRequestSent, ClientLeaves, srvVars, ownVars
<1>2. ClientPacket = Request
  BY <1>1 DEF ClientPacket, Request
<1>3. NothingStored /\ ~cliSuccess /\ BeforeRequest
  BY <1>1 DEF LInv, ClientHolds, ClientTo, BeforeRequest
<1>4. AwaitsResponse'
  BY <1>1 DEF AwaitsResponse, ClientTo
<1>5. Requested' \/ RequestedEarly'
  <2>1. CASE Resting
    <3>1. inChannel = <<>> /\ outChannel = <<>> /\ AwaitsRequest
      BY <2>1 DEF Resting, Queued
    <3>2. inChannel' = <<Request>> /\ outChannel' = <<>> /\ AwaitsRequest'
      BY <1>1, <1>2, <3>1, ShortQueues DEF AwaitsRequest, ServerTo
    <3>3. QED
      BY <1>4, <3>2 DEF Requested, Queued, Request
  <2>2. CASE Acknowledged
    <3>1. inChannel = <<Ack>> /\ outChannel = <<>> /\ AwaitsAck
      BY <2>2 DEF Acknowledged, Queued
    <3>2. inChannel' = <<Ack, Request>> /\ outChannel' = <<>> /\ AwaitsAck'
      BY <1>1, <1>2, <3>1, ShortQueues DEF AwaitsAck
    <3>3. QED
      BY <1>1, <1>4, <3>2 DEF RequestedEarly, Queued, Request, Ack
  <2>3. QED
    BY <1>3, <2>1, <2>2, ClientPlaces DEF LInv
<1>6. ClientHolds'
  BY <1>1, <1>3 DEF ClientHolds, ClientTo, NothingStored, AwaitsFrames, BeforeAck
<1>7. QED
  BY <1>5, <1>6 DEF InStep

LEMMA ClientAwaitsResponse ==
    ASSUME LInv, UNCHANGED srvVars, ClientResponse
    PROVE  InStep' /\ ClientHolds'
<1>1. /\ cliPc = "loop" /\ cliNext = "RESPONSE" /\ cliPc' = "recvResponse" /\ cliNext' = "RESPONSE"
      /\ UNCHANGED <<srvPc, srvNext, srvCounter, srvBatch, cliReceived, cliBatches, cliSuccess,
                     inChannel, outChannel>>
  BY DEF ClientResponse, ClientEnters, channels, srvVars, ownVars
<1>2. NothingStored /\ ~cliSuccess /\ AwaitsResponse /\ AwaitsResponse'
  BY <1>1 DEF LInv, ClientHolds, ClientTo, AwaitsResponse
<1>3. InStep'
  BY <1>1, <1>2, ClientStays DEF LInv
<1>4. ClientHolds'
  BY <1>1, <1>2 DEF ClientHolds, ClientTo, NothingStored, AwaitsFrames, BeforeAck
<1>5. QED
  BY <1>3, <1>4

LEMMA ClientTakesResponse ==
    ASSUME LInv, UNCHANGED srvVars, ClientResponseReceived
    PROVE  InStep' /\ ClientHolds'
<1>1. /\ cliPc = "recvResponse" /\ cliPc' = "loop" /\ cliNext' = "INITIATE_BLOCK"
      /\ outChannel # <<>> /\ outChannel' = Tail(outChannel)
      /\ UNCHANGED <<srvPc, srvNext, srvBatch, cliReceived, cliBatches, cliSuccess, inChannel>>
  BY DEF ClientResponseReceived, ClientLeaves, Receives, srvVars, ownVars
<1>2. NothingStored /\ ~cliSuccess /\ AwaitsResponse
  BY <1>1 DEF LInv, ClientHolds, ClientTo, AwaitsResponse
<1>3. Answered
  BY <1>1, <1>2, ClientPlaces DEF LInv, Requested, RequestedEarly, Answering, Queued
<1>4. Accepting'
  <2>1. inChannel = <<>> /\ outChannel = <<Response>> /\ AwaitsInitiation
    BY <1>3 DEF Answered, Queued
  <2>2. inChannel' = <<>> /\ outChannel' = <<>> /\ AwaitsInitiation'
    BY <1>1, <2>1, ShortQueues DEF AwaitsInitiation, ServerTo
  <2>3. QED
    BY <1>1, <2>2 DEF Accepting, BeforeInitiation, ClientTo, Queued
<1>5. ClientHolds'
  BY <1>1, <1>2 DEF ClientHolds, ClientTo, NothingStored, AwaitsFrames, BeforeAck
<1>6. QED
  BY <1>4, <1>5 DEF InStep

LEMMA ClientAccepts ==
    ASSUME LInv, UNCHANGED srvVars, ClientInitiate
    PROVE  InStep' /\ ClientHolds'
<1>1. /\ cliPc = "loop" /\ cliNext = "INITIATE_BLOCK"
      /\ UNCHANGED <<srvPc, srvNext, srvCounter, srvBatch, cliReceived, cliBatches, cliSuccess,
                     inChannel, outChannel>>
  BY DEF ClientInitiate, ClientEnters, channels, srvVars, ownVars
<1>2. cliPc' = "sendInitiate" /\ cliNext' = cliNext
  <2>1. cliTerms = Settled
    BY <1>1 DEF LInv, FInv, ClientTerms
  <2>2. Settled.tid # 0
    BY DEF LInv, AsBuilt, Settled, Negotiated
  <2>3. QED
    BY <2>1, <2>2 DEF ClientInitiate
<1>3. NothingStored /\ ~cliSuccess /\ BeforeInitiation /\ BeforeInitiation'
  BY <1>1, <1>2 DEF LInv, ClientHolds, ClientTo, BeforeInitiation
<1>4. InStep'
  BY <1>1, <1>3, ClientStays DEF LInv
<1>5. ClientHolds'
  BY <1>1, <1>2, <1>3 DEF ClientHolds, ClientTo, NothingStored, AwaitsFrames, BeforeAck
<1>6. QED
  BY <1>4, <1>5

(* Nothing is stored yet of what the server will send.                     *)
LEMMA ClientSendsInitiation ==
    ASSUME LInv, UNCHANGED srvVars, ClientInitiateSent
    PROVE  InStep' /\ ClientHolds'
<1>1. /\ cliPc = "sendInitiate" /\ cliPc' = "loop" /\ cliNext' = "BLOCK"
      /\ inChannel' = Append(inChannel, ClientPacket)
      /\ UNCHANGED <<srvPc, srvNext, srvBatch, cliReceived, cliBatches, cliSuccess, outChannel>>
  BY DEF ClientInitiateSent, ClientLeaves, srvVars, ownVars
<1>2. ClientPacket = Initiation
  <2>1. cliTerms = Settled
    BY <1>1 DEF LInv, FInv, ClientTerms
  <2>2. QED
    BY <1>1, <2>1 DEF ClientPacket, Initiation
<1>3. NothingStored /\ ~cliSuccess /\ BeforeInitiation
  BY <1>1 DEF LInv, ClientHolds, ClientTo, BeforeInitiation
<1>4. Accepting
  BY <1>3, ClientPlaces DEF LInv
<1>5. StoredFrames' = 0 /\ AwaitsFrames'
  BY <1>1, <1>3, ShortQueues DEF NothingStored, StoredFrames, AwaitsFrames, ClientTo
<1>6. Initiated'
  <2>1. inChannel = <<>> /\ outChannel = <<>> /\ AwaitsInitiation
    BY <1>4 DEF Accepting, Queued
  <2>2. inChannel' = <<Initiation>> /\ outChannel' = <<>> /\ AwaitsInitiation'
    BY <1>1, <1>2, <2>1, ShortQueues DEF AwaitsInitiation, ServerTo
  <2>3. QED
    BY <1>5, <2>2 DEF Initiated, Queued
<1>7. ClientHolds'
  <2>1. Cut(0) < Len(Batch) /\ Pieces(0) = <<>>
    BY BatchFacts, CutGrows, CutEnds DEF LInv
  <2>2. cliReceived' = <<>> /\ cliBatches' = <<>> /\ Len(cliBatches') = 0 /\ ~cliSuccess'
    BY <1>1, <1>3, ShortQueues DEF NothingStored
  <2>3. \A batch : FromBatch(batch)'
    BY <2>2 DEF FromBatch
  <2>4. QED
    BY <1>1, <1>5, <2>1, <2>2, <2>3 DEF ClientHolds, ClientTo, BeforeAck
<1>8. QED
  BY <1>6, <1>7 DEF InStep

LEMMA ClientAwaitsFrame ==
    ASSUME LInv, UNCHANGED srvVars, ClientBlock
    PROVE  InStep' /\ ClientHolds'
<1>1. /\ cliPc = "loop" /\ cliNext = "BLOCK" /\ cliPc' = "recvBlock" /\ cliNext' = "BLOCK"
      /\ UNCHANGED <<srvPc, srvNext, srvCounter, srvBatch, cliReceived, cliBatches, cliSuccess,
                     inChannel, outChannel>>
  BY DEF ClientBlock, ClientEnters, channels, srvVars, ownVars
<1>2. ~cliSuccess /\ AwaitsFrames /\ AwaitsFrames'
  BY <1>1 DEF LInv, ClientHolds, ClientTo, AwaitsFrames
<1>3. InStep'
  BY <1>1, <1>2, ClientStays DEF LInv
<1>4. Cut(StoredFrames) < Len(Batch) /\ cliReceived = Pieces(StoredFrames) /\ FromBatch(srvBatch)
  BY <1>2 DEF LInv, ClientHolds
<1>5. ClientHolds'
  BY <1>1, <1>2, <1>4 DEF ClientHolds, ClientTo, StoredFrames, FromBatch, BeforeAck
<1>6. QED
  BY <1>3, <1>5

(* The oldest frame in the queue is the next one of the batch.             *)
LEMMA ReceivedFrame ==
    ASSUME LInv, cliPc = "recvBlock", outChannel # <<>>
    PROVE  /\ Dumping
           /\ StoredFrames \in Nat /\ Cut(StoredFrames) < Len(Batch)
           /\ cliReceived = Pieces(StoredFrames) /\ FromBatch(srvBatch)
           /\ Head(outChannel) = Frame(StoredFrames + 1)
<1>1. AwaitsFrames
  BY DEF AwaitsFrames
<1>2. Cut(StoredFrames) < Len(Batch) /\ cliReceived = Pieces(StoredFrames) /\ FromBatch(srvBatch)
  BY <1>1 DEF LInv, ClientHolds
<1>3. Dumping
  BY <1>1, ClientPlaces DEF LInv, Initiated, Queued
<1>4. outChannel \in Seq(Packets) /\ Len(outChannel) \in Nat \ {0} /\ StoredFrames \in Nat
  BY LenProperties, EmptySeq DEF LInv, TInv, TypeOK, ChannelsTypeOK, ClientTypeOK, StoredFrames
<1>5. outChannel[1] = Frame(StoredFrames + 1)
  BY <1>3, <1>4 DEF Dumping, FramesQueued
<1>6. Head(outChannel) = outChannel[1]
  BY <1>4, HeadTailProperties
<1>7. QED
  BY <1>2, <1>3, <1>4, <1>5, <1>6

(* There is room for the whole batch, so for the next frame of it.         *)
LEMMA NextFrameFits ==
    ASSUME LInv, cliPc = "recvBlock", outChannel # <<>>
    PROVE  Fits(Head(outChannel))
<1> DEFINE n == StoredFrames
<1>1. /\ n \in Nat /\ Cut(n) < Len(Batch)
      /\ cliReceived = Pieces(n) /\ Head(outChannel) = Frame(n + 1)
  BY ReceivedFrame
<1> HIDE DEF n
<1>2. Len(Piece(n + 1)) = Cut(n + 1) - Cut(n) /\ Len(Piece(n + 1)) \in Nat \ {0}
  BY <1>1, NextPiece DEF LInv
<1>3. Len(cliReceived) = Cut(n)
  BY <1>1, CutEnds DEF LInv
<1>4. Cut(n) \in 0..Len(Batch) /\ Cut(n + 1) \in 0..Len(Batch)
  BY <1>1, CutGrows DEF LInv
<1>5. Len(cliReceived) + cliRoom = ClientBufferSize
  BY DEF LInv, TInv, LoopHasNext, NotifiedOnce, BufferAccounted
<1>6. Len(Batch) \in Nat /\ Len(Batch) <= ClientBufferSize /\ ClientBufferSize \in Nat
  BY BatchFacts, SizeAssumption DEF LInv
<1>7. cliRoom \in Nat
  BY DEF LInv, TInv, TypeOK, ClientTypeOK
<1>8. Len(Piece(n + 1)) \in 1..cliRoom
  BY <1>2, <1>3, <1>4, <1>5, <1>6, <1>7
<1>9. Frame(n + 1).data = Piece(n + 1)
  BY DEF Frame, BlockPacket
<1>10. QED
  BY <1>1, <1>8, <1>9 DEF Fits

(* The frame stored leaves the queue, and those behind it stay in order.   *)
LEMMA QueueMovesUp ==
    ASSUME LInv, UNCHANGED srvVars, ClientBlockStored
    PROVE  StoredFrames' = StoredFrames + 1 /\ FramesQueued'
<1> DEFINE n == StoredFrames
           sent == SentFrames
<1>1. cliPc = "recvBlock" /\ outChannel # <<>>
  BY DEF ClientBlockStored, Receives
<1>2. n \in Nat /\ Dumping
  BY <1>1, ReceivedFrame
<1>3. /\ inChannel = <<>> /\ n + Len(outChannel) = sent
      /\ \A i \in 1..Len(outChannel) : outChannel[i] = Frame(n + i)
  BY <1>2 DEF Dumping, FramesQueued
<1>4. n' = n + 1
  <2>1. cliBatches \in Seq(Nat) /\ Head(outChannel) \in BlockPackets
    BY ReceivedBlock DEF ClientBlockStored, LInv, TInv, TypeOK, ChannelsTypeOK, ClientTypeOK
  <2>2. cliBatches' = Append(cliBatches, Head(outChannel).batch) /\ Head(outChannel).batch \in Nat
    BY <2>1 DEF ClientBlockStored, BlockPackets
  <2>3. QED
    BY <2>1, <2>2, AppendProperties DEF StoredFrames
<1>5. outChannel' = Tail(outChannel) /\ UNCHANGED <<inChannel, srvPc, srvCounter, srvBatch>>
  BY DEF ClientBlockStored, srvVars, ownVars
<1>6. sent' = sent
  BY <1>5 DEF SentFrames
<1>7. /\ outChannel \in Seq(Packets) /\ Len(outChannel) \in Nat
      /\ Len(outChannel') = Len(outChannel) - 1 /\ Len(outChannel') \in Nat
      /\ \A i \in 1..Len(outChannel') : outChannel'[i] = outChannel[i + 1]
  <2>1. outChannel \in Seq(Packets) /\ Len(outChannel) \in Nat
    BY LenProperties DEF LInv, TInv, TypeOK, ChannelsTypeOK
  <2>2. /\ Tail(outChannel) \in Seq(Packets) /\ Len(Tail(outChannel)) = Len(outChannel) - 1
        /\ \A i \in 1..Len(Tail(outChannel)) : Tail(outChannel)[i] = outChannel[i + 1]
    BY <1>1, <2>1, HeadTailProperties
  <2>3. Len(Tail(outChannel)) \in Nat
    BY <2>2, LenProperties
  <2>4. QED
    BY <1>5, <2>1, <2>2, <2>3
<1>8. \A i \in 1..Len(outChannel') : outChannel'[i] = Frame((n + 1) + i)
  <2> SUFFICES ASSUME NEW i \in 1..Len(outChannel') PROVE outChannel'[i] = Frame((n + 1) + i)
    OBVIOUS
  <2>1. i + 1 \in 1..Len(outChannel) /\ n + (i + 1) = (n + 1) + i
    BY <1>2, <1>7
  <2>2. outChannel'[i] = outChannel[i + 1]
    BY <1>7
  <2>3. QED
    BY <1>3, <2>1, <2>2
<1>9. \A k \in Nat : BlockPacket(k, Cut(k) = Len(Batch), Piece(k), srvBatch) = Frame(k)
  BY DEF Frame
<1>10. \A k \in Nat : BlockPacket(k, Cut(k) = Len(Batch), Piece(k), srvBatch') = Frame(k)
  BY <1>5, <1>9
<1>11. \A i \in 1..Len(outChannel') : outChannel'[i] = BlockPacket((n + 1) + i, Cut((n + 1) + i) = Len(Batch), Piece((n + 1) + i), srvBatch')
  BY <1>2, <1>7, <1>8, <1>10
<1>12. n' + Len(outChannel') = sent'
  BY <1>2, <1>3, <1>4, <1>6, <1>7
<1> HIDE DEF n, sent
<1>13. \A i \in 1..Len(outChannel') : outChannel'[i] = BlockPacket(n' + i, Cut(n' + i) = Len(Batch), Piece(n' + i), srvBatch')
  BY <1>4, <1>11
<1>14. inChannel' = <<>>
  BY <1>3, <1>5
<1>15. FramesQueued'
  BY <1>12, <1>13, <1>14 DEF FramesQueued, Frame, n, sent
<1>16. QED
  BY <1>4, <1>15 DEF n

(* A frame marked as the last one has nothing behind it, and the server    *)
(* waits for the ACK.                                                      *)
LEMMA NothingBehindLast ==
    ASSUME LInv, UNCHANGED srvVars, ClientBlockStored, Cut(StoredFrames + 1) = Len(Batch)
    PROVE  inChannel' = <<>> /\ outChannel' = <<>> /\ AwaitsAck'
<1> DEFINE n == StoredFrames
           sent == SentFrames
<1>1. cliPc = "recvBlock" /\ outChannel # <<>>
  BY DEF ClientBlockStored, Receives
<1>2. n \in Nat /\ (SendsFrames \/ AwaitsAck)
  BY <1>1, ReceivedFrame DEF Dumping
<1>3. n' = n + 1 /\ FramesQueued'
  BY QueueMovesUp
<1>4. outChannel' \in Seq(Packets) /\ Len(outChannel') \in Nat
  <2>1. outChannel \in Seq(Packets)
    BY DEF LInv, TInv, TypeOK, ChannelsTypeOK
  <2>2. outChannel' = Tail(outChannel) /\ Tail(outChannel) \in Seq(Packets)
    BY <1>1, <2>1, HeadTailProperties DEF ClientBlockStored
  <2>3. QED
    BY <2>2, LenProperties
<1>5. n' + Len(outChannel') = sent' /\ inChannel' = <<>>
  BY <1>3 DEF FramesQueued
<1>6. UNCHANGED <<srvPc, srvNext, srvCounter>>
  BY DEF srvVars, ownVars
<1>7. sent' = sent
  BY <1>6 DEF SentFrames
<1> HIDE DEF n, sent
<1>8. sent \in Nat /\ n + 1 <= sent /\ (n + 1) + Len(outChannel') = sent
  BY <1>2, <1>3, <1>4, <1>5, <1>7
<1>9. Cut(n + 1) = Len(Batch) /\ Len(Batch) \in Nat /\ AsBuilt
  BY BatchFacts DEF n, LInv
<1>10. \A m \in Nat : n + 1 <= m => Cut(m) >= Len(Batch)
  <2> SUFFICES ASSUME NEW m \in Nat, n + 1 <= m PROVE Cut(m) >= Len(Batch)
    OBVIOUS
  <2>1. n + 1 \in 0..m
    BY <1>2
  <2>2. Cut(n + 1) <= Cut(m) /\ Cut(m) \in 0..Len(Batch)
    BY <1>9, <2>1, CutGrows
  <2>3. QED
    BY <1>9, <2>2
<1>11. AwaitsAck
  <2>1. SendsFrames => Cut(sent) < Len(Batch)
    BY DEF LInv, ServerHolds, sent
  <2>2. Cut(sent) >= Len(Batch) /\ Cut(sent) \in 0..Len(Batch)
    BY <1>8, <1>9, <1>10, CutGrows
  <2>3. QED
    BY <1>2, <1>9, <2>1, <2>2
<1>12. sent - 1 \in Nat /\ Cut(sent - 1) < Len(Batch)
  <2>1. sent \in Nat \ {0} /\ Cut(sent - 1) < Len(Batch)
    BY <1>11 DEF LInv, ServerHolds, sent
  <2>2. QED
    BY <2>1
<1>13. ~(n + 1 <= sent - 1)
  <2>1. Cut(sent - 1) \in 0..Len(Batch)
    BY <1>9, <1>12, CutGrows
  <2>2. QED
    BY <1>9, <1>10, <1>12, <2>1
<1>14. Len(outChannel') = 0
  BY <1>2, <1>4, <1>8, <1>13
<1>15. outChannel' = <<>>
  BY <1>4, <1>14, EmptySeq
<1>16. AwaitsAck'
  BY <1>6, <1>11 DEF AwaitsAck
<1>17. QED
  BY <1>5, <1>15, <1>16

LEMMA ClientStoresFrame ==
    ASSUME LInv, UNCHANGED srvVars, ClientBlockStored
    PROVE  InStep' /\ ClientHolds'
<1> DEFINE n == StoredFrames
<1>1. cliPc = "recvBlock" /\ outChannel # <<>>
  BY DEF ClientBlockStored, Receives
<1>2. /\ n \in Nat /\ Dumping /\ Cut(n) < Len(Batch)
      /\ cliReceived = Pieces(n) /\ FromBatch(srvBatch)
      /\ Head(outChannel) = Frame(n + 1)
  BY <1>1, ReceivedFrame
<1>3. n' = n + 1 /\ FramesQueued'
  BY QueueMovesUp
<1>4. UNCHANGED <<srvPc, srvNext, srvBatch, cliTerms, cliSuccess>>
  BY DEF ClientBlockStored, srvVars, ownVars
<1> HIDE DEF n
<1>5. n + 1 \in Nat /\ Cut(n + 1) \in 0..Len(Batch) /\ Len(Batch) \in Nat
  BY <1>2, BatchFacts, CutGrows DEF LInv
<1>6. /\ Frame(n + 1).data = Piece(n + 1) /\ Frame(n + 1).batch = srvBatch
      /\ (Frame(n + 1).last <=> Cut(n + 1) = Len(Batch))
  BY DEF Frame, BlockPacket
<1>7. cliReceived' = Pieces(n + 1)
  <2>1. cliReceived' = Pieces(n) \o Piece(n + 1)
    BY <1>2, <1>6 DEF ClientBlockStored, Stored
  <2>2. QED
    BY <1>2, <2>1, NextPiece DEF LInv
<1>8. cliBatches' # <<>> /\ FromBatch(srvBatch)'
  <2>1. cliBatches \in Seq(Nat) /\ Len(cliBatches) \in Nat /\ srvBatch \in Nat
    BY LenProperties DEF LInv, TInv, TypeOK, ClientTypeOK, ServerTypeOK
  <2>2. cliBatches' = Append(cliBatches, srvBatch)
    BY <1>2, <1>6 DEF ClientBlockStored
  <2>3. /\ cliBatches' \in Seq(Nat) /\ Len(cliBatches') = Len(cliBatches) + 1
        /\ \A i \in 1..Len(cliBatches) : cliBatches'[i] = cliBatches[i]
        /\ cliBatches'[Len(cliBatches) + 1] = srvBatch
    BY <2>1, <2>2, AppendProperties
  <2>4. \A i \in 1..Len(cliBatches) : cliBatches[i] = srvBatch
    BY <1>2 DEF FromBatch
  <2>5. \A i \in 1..Len(cliBatches') : cliBatches'[i] = srvBatch
    BY <2>1, <2>3, <2>4
  <2>6. cliBatches' # <<>>
    BY <2>1, <2>3, EmptySeq
  <2>7. QED
    BY <1>4, <2>5, <2>6 DEF FromBatch
<1>9. ~cliSuccess'
  BY <1>1, <1>4 DEF LInv, ClientHolds, ClientTo
<1>10. CASE Cut(n + 1) = Len(Batch)
  <2>1. cliPc' = "sendAck"
    BY <1>2, <1>6, <1>10 DEF ClientBlockStored
  <2>2. Dumped'
    BY <1>10, <2>1, NothingBehindLast DEF Dumped, BeforeAck, Queued, n
  <2>3. cliTerms' = Settled
    BY <1>1, <1>4 DEF LInv, FInv, ClientTerms
  <2>4. cliReceived' = Batch
    BY <1>5, <1>7, <1>10, CutEnds DEF LInv
  <2>5. ClientHolds'
    BY <1>8, <1>9, <2>1, <2>3, <2>4 DEF ClientHolds, ClientTo, AwaitsFrames
  <2>6. QED
    BY <2>2, <2>5 DEF InStep
<1>11. CASE Cut(n + 1) # Len(Batch)
  <2>1. cliPc' = "loop" /\ cliNext' = "BLOCK"
    BY <1>2, <1>6, <1>11 DEF ClientBlockStored, ClientLeaves
  <2>2. AwaitsFrames' /\ (SendsFrames' \/ AwaitsAck')
    BY <1>2, <1>4, <2>1 DEF Dumping, AwaitsFrames, ClientTo, SendsFrames, AwaitsAck, ServerTo
  <2>3. Dumping'
    BY <1>3, <2>2 DEF Dumping
  <2>4. Cut(n + 1) < Len(Batch)
    BY <1>5, <1>11
  <2>5. StoredFrames' = n + 1
    BY <1>3 DEF n
  <2>6. ClientHolds'
    BY <1>7, <1>8, <1>9, <2>1, <2>4, <2>5 DEF ClientHolds, ClientTo, BeforeAck
  <2>7. QED
    BY <2>3, <2>6 DEF InStep
<1>12. QED
  BY <1>10, <1>11

(* The ACK carries the settled id and answers the batch of the frames.     *)
LEMMA ClientAcknowledges ==
    ASSUME LInv, UNCHANGED srvVars, ClientAckSent
    PROVE  InStep' /\ ClientHolds'
<1>1. /\ cliPc = "sendAck" /\ cliPc' = "loop" /\ cliNext' = "TERMINATE" /\ cliSuccess'
      /\ inChannel' = Append(inChannel, ClientPacket)
      /\ UNCHANGED <<srvPc, srvBatch, cliReceived, cliBatches, outChannel>>
  BY DEF ClientAckSent, ClientLeaves, srvVars, ownVars
<1>2. Dumped
  BY <1>1, ClientPlaces DEF LInv, BeforeAck
<1>3. cliTerms = Settled /\ cliReceived = Batch /\ cliBatches # <<>> /\ FromBatch(srvBatch)
  BY <1>1 DEF LInv, ClientHolds, BeforeAck
<1>4. cliBatches[1] = srvBatch /\ cliBatches[Len(cliBatches)] = srvBatch
  <2>1. Len(cliBatches) \in Nat \ {0}
    BY <1>3, LenProperties, EmptySeq DEF LInv, TInv, TypeOK, ClientTypeOK
  <2>2. QED
    BY <1>3, <2>1 DEF FromBatch
<1>5. ClientPacket = Ack
  BY <1>1, <1>3, <1>4 DEF ClientPacket, Ack
<1>6. Acknowledged'
  <2>1. inChannel = <<>> /\ outChannel = <<>> /\ AwaitsAck
    BY <1>2 DEF Dumped, Queued
  <2>2. inChannel' = <<Ack>> /\ outChannel' = <<>> /\ AwaitsAck' /\ BeforeRequest'
    BY <1>1, <1>5, <2>1, ShortQueues DEF AwaitsAck, BeforeRequest, ClientTo
  <2>3. QED
    BY <1>1, <2>2 DEF Acknowledged, Queued, Ack
<1>7. ClientHolds'
  BY <1>1, <1>3, <1>4 DEF ClientHolds, ClientTo, FromBatch, AwaitsFrames, BeforeAck
<1>8. QED
  BY <1>6, <1>7 DEF InStep

LEMMA ClientNeverDiscards ==
    ASSUME LInv
    PROVE  /\ ~ClientBlockRefused /\ ~ClientAckNotSent /\ ~ClientDiscards
           /\ ~ClientResponseTimesOut /\ ~ClientBlockTimesOut /\ ~ClientSendTimesOut
<1>1. ~ReadsExpired(cliTimer)
  BY TimerAsBuilt DEF LInv, NoExpiry, TInv, TypeOK, ClientTypeOK
<1>2. ASSUME cliPc \in DOMAIN ClientAwaits, outChannel # <<>>
      PROVE  Receives(ClientAwaits[cliPc], ClientConfig, outChannel)
  <2>1. CASE cliPc = "recvResponse"
    <3>1. Answered
      BY <1>2, <2>1, ClientPlaces DEF LInv, AwaitsResponse, Requested, RequestedEarly, Answering, Queued
    <3>2. outChannel = <<Response>>
      BY <3>1 DEF Answered, Queued
    <3>3. Head(outChannel) = Response /\ Response.type = "RESPONSE"
      BY <3>2, ShortQueues, PacketFields
    <3>4. PacketSize(Response) <= ClientConfig.plen
      BY PacketsFit DEF LInv
    <3>5. QED
      BY <1>2, <2>1, <3>3, <3>4 DEF Receives, ClientAwaits
  <2>2. CASE cliPc = "recvBlock"
    <3>1. /\ StoredFrames \in Nat /\ Cut(StoredFrames) < Len(Batch)
          /\ Head(outChannel) = Frame(StoredFrames + 1)
      BY <1>2, <2>2, ReceivedFrame
    <3>2. PacketSize(Frame(StoredFrames + 1)) <= ClientConfig.plen
      BY <3>1, PacketsFit DEF LInv
    <3>3. Frame(StoredFrames + 1).type = "BLOCK_TRANSFER"
      BY DEF Frame, BlockPacket
    <3>4. QED
      BY <1>2, <2>2, <3>1, <3>2, <3>3 DEF Receives, ClientAwaits
  <2>3. QED
    BY <1>2, <2>1, <2>2 DEF ClientAwaits
<1>3. ~ClientDiscards
  BY <1>2 DEF ClientDiscards
<1>4. ~ClientBlockRefused
  BY NextFrameFits DEF ClientBlockRefused, Receives
<1>5. ~ClientAckNotSent
  BY ClientPlaces DEF LInv, ClientAckNotSent
<1>6. ~ClientResponseTimesOut /\ ~ClientBlockTimesOut /\ ~ClientSendTimesOut
  BY <1>1 DEF ClientResponseTimesOut, ClientBlockTimesOut, ClientSendTimesOut
<1>7. QED
  BY <1>3, <1>4, <1>5, <1>6

LEMMA ClientStepInStep ==
    ASSUME LInv, ClientNext
    PROVE  InStep' /\ ServerHolds' /\ ClientHolds'
<1>1. ClientStep /\ UNCHANGED srvVars
  BY DEF ClientNext
<1>2. InStep' /\ ClientHolds'
  BY <1>1, ClientRests, ClientSendsRequest, ClientAwaitsResponse, ClientTakesResponse, ClientAccepts,
     ClientSendsInitiation, ClientAwaitsFrame, ClientStoresFrame, ClientAcknowledges,
     ClientNeverDiscards
     DEF ClientStep
<1>3. ServerHolds'
  BY <1>1, ServerKeeps DEF LInv
<1>4. QED
  BY <1>2, <1>3

-----------------------------------------------------------------------------
(* One step of an application.  The server is started before it takes its  *)
(* first request.                                                          *)
LEMMA ServerIsStarted ==
    ASSUME AsBuilt, StartedOnce, starts \in 0..MaxStarts, stops \in 0..MaxStops, CallsServer
    PROVE  StartedOnce' /\ ServerTo({"IDLE"}) /\ ServerTo({"IDLE", "REQUEST"})'
<1>1. MaxStarts = 1 /\ MaxStops = 0 /\ starts \in 0..1 /\ stops = 0
  BY DEF AsBuilt
<1>2. srvPc' = srvPc
  BY CallsLeave DEF ownVars
<1>3. CASE StartServerChecks
  <2>1. starts = 0 /\ srvCall' = "start" /\ starts' = 1 /\ srvNext' = srvNext
    BY <1>1, <1>3 DEF StartServerChecks
  <2>2. QED
    BY <1>2, <2>1 DEF StartedOnce, ServerTo
<1>4. CASE StartServerSets
  <2>1. srvCall = "start" /\ srvCall' = "none" /\ starts' = starts /\ srvNext' \in {"REQUEST", srvNext}
    BY <1>4 DEF StartServerSets, SetsNext
  <2>2. QED
    BY <1>2, <2>1 DEF StartedOnce, ServerTo
<1>5. ~StopServerChecks /\ ~StopServerSets
  BY <1>1 DEF StopServerChecks, StopServerSets, StartedOnce
<1>6. QED
  BY <1>3, <1>4, <1>5 DEF CallsServer

LEMMA AppStepInStep ==
    ASSUME LInv, AppNext
    PROVE  InStep' /\ ServerHolds' /\ ClientHolds'
<1>1. CASE CallsServer /\ UNCHANGED cliVars
  <2>1. UNCHANGED <<cliPc, cliNext, cliBatches, srvPc, srvBatch, srvSuccess, inChannel, outChannel>>
    BY <1>1, CallsLeave DEF ownVars, channels, cliVars
  <2>2. StartedOnce' /\ ServerTo({"IDLE"}) /\ ServerTo({"IDLE", "REQUEST"})'
    BY <1>1, ServerIsStarted DEF LInv, TInv, TypeOK, ServerTypeOK, ServerHolds
  <2>3. AwaitsRequest /\ AwaitsRequest' /\ ~srvSuccess'
    BY <2>1, <2>2 DEF AwaitsRequest, ServerTo, LInv, ServerHolds
  <2>4. InStep'
    BY <2>1, <2>3, ServerStays DEF LInv
  <2>5. ServerHolds'
    BY <2>2, <2>3 DEF ServerHolds, AwaitsInitiation, SendsFrames, AwaitsAck, ServerTo
  <2>6. ClientHolds'
    BY <1>1, <2>1, ClientKeeps DEF LInv
  <2>7. QED
    BY <2>4, <2>5, <2>6
<1>2. CASE StartNewTransfer /\ UNCHANGED srvVars
  BY <1>2, ClientRests, ServerKeeps DEF LInv
<1>3. QED
  BY <1>1, <1>2 DEF AppNext

LEMMA LInvInductive ==
    /\ Init /\ AsBuilt => LInv
    /\ LInv /\ [Next]_vars => LInv'
<1>1. ASSUME Init, AsBuilt PROVE LInv
  <2>1. FInv /\ TInv
    BY <1>1, FInvInductive, TInvInductive
  <2>2. /\ srvPc = "loop" /\ srvNext = "IDLE" /\ srvCall = "none" /\ ~srvSuccess
        /\ cliPc = "loop" /\ cliNext = "IDLE" /\ ~cliSuccess
        /\ inChannel = <<>> /\ outChannel = <<>>
        /\ ~srvTimer.expiry /\ ~cliTimer.expiry
    BY <1>1 DEF Init, ServerInit, ClientInit, ChannelsInit, NewTimer
  <2>3. InStep
    BY <2>2 DEF InStep, Resting, BeforeRequest, ClientTo, AwaitsRequest, ServerTo, Queued
  <2>4. ServerHolds
    BY <2>2 DEF ServerHolds, StartedOnce, AwaitsInitiation, SendsFrames, AwaitsAck, ServerTo
  <2>5. ClientHolds
    BY <2>2 DEF ClientHolds, ClientTo, AwaitsFrames, BeforeAck
  <2>6. QED
    BY <1>1, <2>1, <2>2, <2>3, <2>4, <2>5 DEF LInv, NoExpiry
<1>2. ASSUME LInv, [Next]_vars PROVE LInv'
  <2>1. AsBuilt' /\ FInv' /\ TInv' /\ NoExpiry'
    <3>1. AsBuilt' = AsBuilt
      BY DEF AsBuilt
    <3>2. QED
      BY <1>2, <3>1, FInvInductive, TInvInductive, NeverExpires DEF LInv, TInv
  <2>2. ~ServerTimerFires /\ ~ClientTimerFires
    BY <1>2 DEF LInv, AsBuilt, ServerTimerFires, ClientTimerFires
  <2>3. CASE UNCHANGED vars
    <3>1. UNCHANGED <<cliPc, cliNext, cliBatches, srvPc, srvNext, srvCounter, srvBatch, inChannel,
                      outChannel>>
      BY <2>3 DEF vars, srvVars, ownVars, cliVars, channels
    <3>2. InStep'
      BY <1>2, <3>1
         DEF LInv, InStep, Resting, Acknowledged, Requested, RequestedEarly, Answering, Answered,
             Accepting, Initiated, Dumping, Dumped, BeforeRequest, AwaitsResponse, BeforeInitiation,
             AwaitsFrames, BeforeAck, AwaitsRequest, Answers, AwaitsInitiation, SendsFrames,
             AwaitsAck, ClientTo, ServerTo, Queued, FramesQueued, StoredFrames, SentFrames, Frame,
             Ack, Request
    <3>3. ServerHolds' /\ ClientHolds'
      BY <1>2, <2>3, <3>1, ServerKeeps, ClientKeeps DEF LInv, vars
    <3>4. QED
      BY <2>1, <3>2, <3>3 DEF LInv
  <2>4. InStep' /\ ServerHolds' /\ ClientHolds'
    BY <1>2, <2>2, <2>3, ServerStepInStep, ClientStepInStep, AppStepInStep DEF Next, LInv
  <2>5. QED
    BY <2>1, <2>4 DEF LInv
<1>3. QED
  BY <1>1, <1>2

-----------------------------------------------------------------------------
(* How far internalBuffer moves.  Before the storage is read again, a      *)
(* transfer has been started that was not read for.                        *)
BeforeRead ==
    \/ cliPc = "sendRequest" \/ ClientTo({"REQUEST"})
    \/ AwaitsResponse /\ ~(srvPc = "sendResponse" \/ AwaitsInitiation)

Reads == srvBatch <= transfers /\ (BeforeRead => srvBatch < transfers)

(* The end of what was read is as many batches from where new[] put the    *)
(* buffer as were read.                                                    *)
BufferMoved ==
    /\ srvOffset + Len(srvBuffer) = srvBatch * Len(Batch)
    /\ AwaitsRequest \/ ServerTo({"RESPONSE"}) => srvBuffer = <<>>

OInv == LInv /\ Reads /\ BufferMoved

(* What the constructor allocated has room for the batches of all          *)
(* transfers.                                                              *)
RoomForAll == MaxTransfers * Len(Batch) <= ServerBufferSize

LEMMA ServerMovesBuffer ==
    ASSUME OInv, ServerNext
    PROVE  Reads' /\ BufferMoved'
<1>0. /\ LInv /\ Reads /\ BufferMoved /\ ServerStep /\ UNCHANGED cliVars
      /\ UNCHANGED <<cliPc, cliNext, transfers>>
  BY DEF OInv, ServerNext, cliVars
<1>1. /\ srvBuffer \in Seq(Byte) /\ Len(srvBuffer) \in Nat /\ Len(<<>>) = 0
      /\ srvBatch \in Nat /\ srvOffset \in Nat /\ transfers \in Nat
  BY <1>0, LenProperties, SizeAssumption
     DEF LInv, TInv, TypeOK, ServerTypeOK, ClientTypeOK
<1>2. ASSUME UNCHANGED <<srvBatch, srvOffset>>, Len(srvBuffer') = Len(srvBuffer),
             BeforeRead' => BeforeRead,
             AwaitsRequest' \/ ServerTo({"RESPONSE"})' => srvBuffer' = <<>>
      PROVE  Reads' /\ BufferMoved'
  <2>1. Batch' = Batch
    BY DEF Batch
  <2>2. QED
    BY <1>0, <1>2, <2>1 DEF Reads, BufferMoved
<1> USE DEF BeforeRead, AwaitsResponse, ClientTo
<1>3. CASE ServerIdle \/ ServerRequest \/ ServerRequestReceived \/ ServerTerminate
  <2>1. AwaitsRequest /\ UNCHANGED <<srvBatch, srvOffset>> /\ (srvBuffer' = <<>> \/ srvBuffer' = srvBuffer)
    BY <1>3
       DEF ServerIdle, ServerRequest, ServerRequestReceived, ServerTerminate, ServerEnters,
           ServerCleanup, AwaitsRequest, ServerTo
  <2>2. srvBuffer = <<>> /\ srvBuffer' = <<>>
    BY <1>0, <2>1 DEF BufferMoved
  <2>3. ~(srvPc = "sendResponse" \/ AwaitsInitiation)
    BY <2>1 DEF AwaitsRequest, AwaitsInitiation, ServerTo
  <2>4. BeforeRead' => BeforeRead
    BY <1>0, <2>3
  <2>5. QED
    BY <1>2, <2>1, <2>2, <2>4
<1>4. CASE ServerResponse
  <2>1. srvPc = "loop" /\ srvNext = "RESPONSE"
    BY <1>4 DEF ServerResponse, ServerEnters
  <2>2. srvBuffer = <<>> /\ AwaitsResponse
    BY <1>0, <2>1, ServerPlaces DEF LInv, BufferMoved, Answers, ServerTo, Answering
  <2>3. srvBatch < transfers
    BY <1>0, <2>1, <2>2 DEF Reads, AwaitsInitiation, ServerTo
  <2>4. srvBatch' = srvBatch + 1 /\ srvOffset' = srvOffset /\ srvBuffer' = Batch /\ srvPc' = "sendResponse"
    <3>1. Negotiated(srvTerms) = Settled
      BY <1>0, <2>1 DEF LInv, FInv, ServerTerms, Settled
    <3>2. Batch # <<>>
      BY <1>0, BatchFacts DEF LInv
    <3>3. QED
      BY <1>4, <3>1, <3>2 DEF ServerResponse, Batch
  <2>5. Reads'
    <3>1. ~BeforeRead'
      BY <1>0, <2>2, <2>4
    <3>2. srvBatch' <= transfers'
      BY <1>0, <1>1, <2>3, <2>4
    <3>3. QED
      BY <3>1, <3>2 DEF Reads
  <2>6. BufferMoved'
    <3>1. Len(Batch) \in Nat /\ srvBatch * Len(Batch) \in Nat
          /\ (srvBatch + 1) * Len(Batch) = srvBatch * Len(Batch) + Len(Batch)
      BY <1>0, <1>1, BatchFacts, MoreFrames DEF LInv
    <3>2. srvOffset = srvBatch * Len(Batch)
      BY <1>0, <1>1, <2>2 DEF BufferMoved
    <3>3. srvOffset' + Len(srvBuffer') = srvBatch' * Len(Batch)
      BY <2>4, <3>1, <3>2
    <3>4. ~AwaitsRequest' /\ ~ServerTo({"RESPONSE"})'
      BY <2>4 DEF AwaitsRequest, ServerTo
    <3>5. QED
      BY <3>3, <3>4 DEF BufferMoved, Batch
  <2>7. QED
    BY <2>5, <2>6
<1>5. CASE ServerResponseSent \/ ServerInitiate
  <2>1. /\ UNCHANGED <<srvBatch, srvOffset, srvBuffer>> /\ AwaitsInitiation'
    BY <1>5
       DEF ServerResponseSent, ServerInitiate, ServerEnters, ServerLeaves, AwaitsInitiation, ServerTo
  <2>2. BeforeRead' => BeforeRead
    BY <1>0, <2>1
  <2>3. ~AwaitsRequest' /\ ~ServerTo({"RESPONSE"})'
    BY <2>1 DEF AwaitsRequest, AwaitsInitiation, ServerTo
  <2>4. QED
    BY <1>2, <2>1, <2>2, <2>3
<1>6. CASE ServerInitiateReceived
  <2>1. /\ UNCHANGED <<srvBatch, srvOffset, srvBuffer>> /\ srvPc = "recvInitiate"
        /\ srvPc' = "loop" /\ srvNext' = "BLOCK"
    BY <1>0, <1>6, StartsOnce, ServerTakesInitiation
       DEF LInv, ServerHolds, ServerInitiateReceived, ServerLeaves
  <2>2. AwaitsFrames
    BY <1>0, <1>6, <2>1, ServerPlaces
       DEF LInv, ServerInitiateReceived, Receives, AwaitsInitiation, Answered, Accepting, Initiated, Queued
  <2>3. BeforeRead' => BeforeRead
    BY <1>0, <2>2 DEF AwaitsFrames
  <2>4. ~AwaitsRequest' /\ ~ServerTo({"RESPONSE"})'
    BY <2>1 DEF AwaitsRequest, ServerTo
  <2>5. QED
    BY <1>2, <2>1, <2>3, <2>4
<1>7. CASE ServerBlock
  <2>1. /\ srvPc = "loop" /\ srvNext = "BLOCK" /\ srvPc' = "sendBlock" /\ srvBatch' = srvBatch
        /\ srvBuffer' = Remaining(srvBuffer) /\ srvOffset' = srvOffset + FrameSize(srvBuffer)
    BY <1>7 DEF ServerBlock, ServerEnters
  <2>2. FrameSize(srvBuffer) \in Nat /\ Len(srvBuffer') = Len(srvBuffer) - FrameSize(srvBuffer)
    BY <1>1, <2>1, CutType
  <2>3. srvOffset' + Len(srvBuffer') = srvOffset + Len(srvBuffer)
    BY <1>1, <2>1, <2>2
  <2>4. BeforeRead' => BeforeRead
    BY <1>0, <2>1 DEF AwaitsInitiation, ServerTo
  <2>5. ~AwaitsRequest' /\ ~ServerTo({"RESPONSE"})'
    BY <2>1 DEF AwaitsRequest, ServerTo
  <2>6. QED
    BY <1>0, <2>1, <2>3, <2>4, <2>5 DEF Reads, BufferMoved, Batch
<1>8. CASE ServerBlockSent
  <2>1. /\ UNCHANGED <<srvBatch, srvOffset, srvBuffer>> /\ srvPc = "sendBlock"
        /\ \/ srvPc' = "recvAck"
           \/ srvPc' = "loop" /\ srvNext' = "BLOCK"
    BY <1>8 DEF ServerBlockSent, ServerLeaves
  <2>2. BeforeRead' => BeforeRead
    BY <1>0, <2>1 DEF AwaitsInitiation, ServerTo
  <2>3. ~AwaitsRequest' /\ ~ServerTo({"RESPONSE"})'
    BY <2>1 DEF AwaitsRequest, ServerTo
  <2>4. QED
    BY <1>2, <2>1, <2>2, <2>3
<1>9. CASE ServerAckReceived
  <2>1. UNCHANGED <<srvBatch, srvOffset, srvBuffer>> /\ srvPc = "recvAck"
    BY <1>9 DEF ServerAckReceived
  <2>2. srvBuffer = <<>>
    BY <1>0, <2>1 DEF LInv, FInv, ServerFrames
  <2>3. BeforeRead' => BeforeRead
    BY <1>0, <2>1 DEF AwaitsInitiation, ServerTo
  <2>4. QED
    BY <1>2, <2>1, <2>2, <2>3
<1>10. QED
  BY <1>0, <1>3, <1>4, <1>5, <1>6, <1>7, <1>8, <1>9, ServerNeverDiscards DEF ServerStep

LEMMA ClientKeepsBuffer ==
    ASSUME OInv, ClientNext
    PROVE  Reads' /\ BufferMoved'
<1>1. LInv /\ Reads /\ BufferMoved /\ ClientStep /\ UNCHANGED <<srvPc, srvNext, srvBatch, srvOffset, srvBuffer>>
  BY DEF OInv, ClientNext, srvVars, ownVars
<1>2. BeforeRead' => BeforeRead
  <2>1. ASSUME cliPc' = "sendRequest" \/ ClientTo({"REQUEST"})' \/ AwaitsResponse'
        PROVE  ClientIdle \/ ClientRequest \/ ClientRequestSent \/ ClientResponse
    BY <1>1, <2>1, ClientNeverDiscards
       DEF ClientStep, ClientIdle, ClientRequest, ClientRequestSent, ClientResponse,
           ClientResponseReceived, ClientInitiate, ClientInitiateSent, ClientBlock,
           ClientBlockStored, ClientAckSent, ClientTerminate, ClientEnters, ClientLeaves, ClientTo,
           AwaitsResponse
  <2>2. CASE ClientIdle
    BY <2>2 DEF ClientIdle, ClientEnters, BeforeRead, ClientTo, AwaitsResponse
  <2>3. CASE ClientRequest \/ ClientRequestSent
    BY <2>3 DEF ClientRequest, ClientRequestSent, ClientEnters, BeforeRead, ClientTo
  <2>4. CASE ClientResponse
    BY <1>1, <2>4 DEF ClientResponse, ClientEnters, BeforeRead, ClientTo, AwaitsResponse,
                      AwaitsInitiation, ServerTo
  <2>5. QED
    BY <2>1, <2>2, <2>3, <2>4 DEF BeforeRead
<1>3. transfers' = transfers
  BY <1>1
     DEF ClientStep, ClientIdle, ClientRequest, ClientRequestSent, ClientResponse,
         ClientResponseReceived, ClientInitiate, ClientInitiateSent, ClientBlock, ClientBlockStored,
         ClientBlockRefused, ClientAckSent, ClientAckNotSent, ClientDiscards,
         ClientResponseTimesOut, ClientBlockTimesOut, ClientSendTimesOut, ClientTerminate, cliVars
<1>4. QED
  BY <1>1, <1>2, <1>3 DEF Reads, BufferMoved, Batch, AwaitsRequest, ServerTo

LEMMA OInvInductive ==
    /\ Init /\ AsBuilt => OInv
    /\ OInv /\ [Next]_vars => OInv'
<1>1. ASSUME Init, AsBuilt PROVE OInv
  <2>1. /\ LInv /\ srvBatch = 0 /\ srvOffset = 0 /\ srvBuffer = <<>> /\ transfers = 0
        /\ cliPc = "loop" /\ cliNext = "IDLE"
    BY <1>1, LInvInductive DEF Init, ServerInit, ClientInit
  <2>2. Len(Batch) \in Nat /\ 0 * Len(Batch) = 0 /\ Len(<<>>) = 0
    BY <1>1, BatchFacts
  <2>3. Reads
    BY <2>1 DEF Reads, BeforeRead, ClientTo, AwaitsResponse
  <2>4. BufferMoved
    BY <2>1, <2>2 DEF BufferMoved
  <2>5. QED
    BY <2>1, <2>3, <2>4 DEF OInv
<1>2. ASSUME OInv, [Next]_vars PROVE OInv'
  <2>1. LInv' /\ LInv /\ Reads /\ BufferMoved
    BY <1>2, LInvInductive DEF OInv
  <2>2. CASE CallsServer /\ UNCHANGED cliVars
    <3>1. UNCHANGED <<cliPc, cliNext, transfers, srvPc, srvBatch, srvOffset, srvBuffer>>
      BY <2>2, CallsLeave DEF ownVars, cliVars
    <3>2. ServerTo({"IDLE"}) /\ ServerTo({"IDLE", "REQUEST"})'
      BY <2>1, <2>2, ServerIsStarted DEF LInv, TInv, TypeOK, ServerTypeOK, ServerHolds
    <3>3. srvBuffer = <<>> /\ ~AwaitsInitiation /\ srvPc # "sendResponse"
      BY <2>1, <3>2 DEF BufferMoved, AwaitsRequest, AwaitsInitiation, ServerTo
    <3>4. Reads'
      BY <2>1, <3>1, <3>3 DEF Reads, BeforeRead, ClientTo, AwaitsResponse
    <3>5. BufferMoved'
      BY <2>1, <3>1, <3>3 DEF BufferMoved, Batch
    <3>6. QED
      BY <2>1, <3>4, <3>5 DEF OInv
  <2>3. CASE StartNewTransfer /\ UNCHANGED srvVars
    <3>1. /\ transfers' = transfers + 1
          /\ UNCHANGED <<srvPc, srvNext, srvBatch, srvOffset, srvBuffer>>
      BY <2>3 DEF StartNewTransfer, srvVars, ownVars
    <3>2. srvBatch \in Nat /\ transfers \in Nat
      BY <2>1, SizeAssumption DEF LInv, TInv, TypeOK, ServerTypeOK, ClientTypeOK
    <3>3. srvBatch' < transfers' /\ srvBatch' <= transfers'
      BY <2>1, <3>1, <3>2 DEF Reads
    <3>4. BufferMoved'
      BY <2>1, <3>1 DEF BufferMoved, Batch, AwaitsRequest, ServerTo
    <3>5. QED
      BY <2>1, <3>3, <3>4 DEF OInv, Reads
  <2>4. CASE UNCHANGED vars
    <3>1. UNCHANGED <<cliPc, cliNext, transfers, srvPc, srvNext, srvBatch, srvOffset, srvBuffer>>
      BY <2>4 DEF vars, srvVars, ownVars, cliVars
    <3>2. Reads'
      BY <2>1, <3>1 DEF Reads, BeforeRead, ClientTo, AwaitsResponse, AwaitsInitiation, ServerTo
    <3>3. BufferMoved'
      BY <2>1, <3>1 DEF BufferMoved, Batch, AwaitsRequest, ServerTo
    <3>4. QED
      BY <2>1, <3>2, <3>3 DEF OInv
  <2>5. ~ServerTimerFires /\ ~ClientTimerFires
    BY <2>1 DEF ServerTimerFires, ClientTimerFires, LInv, AsBuilt
  <2>6. QED
    BY <1>2, <2>1, <2>2, <2>3, <2>4, <2>5, ServerMovesBuffer, ClientKeepsBuffer DEF Next, AppNext, OInv
<1>3. QED
  BY <1>1, <1>2

-----------------------------------------------------------------------------
(* What the lock step gives.                                               *)

(* An end that waits to send waits for room in the queue.                  *)
LEMMA SendsIntoRoom ==
    ASSUME LInv
    PROVE  /\ srvPc \in {"sendResponse", "sendBlock"} /\ outChannel = <<>>
              => CanSend(srvPacket, ServerConfig, outChannel)
           /\ cliPc \in {"sendRequest", "sendInitiate", "sendAck"} /\ inChannel = <<>>
              => CanSend(ClientPacket, ClientConfig, inChannel)
<1>1. \A packet, config : PacketSize(packet) <= config.plen => CanSend(packet, config, <<>>)
  BY SizeAssumption, ShortQueues DEF CanSend
<1>2. ASSUME srvPc = "sendResponse" PROVE PacketSize(srvPacket) <= ServerConfig.plen
  BY <1>2, PacketsFit DEF LInv, ServerHolds
<1>3. ASSUME srvPc = "sendBlock" PROVE PacketSize(srvPacket) <= ServerConfig.plen
  <2> DEFINE n == SentFrames
  <2>1. n \in Nat /\ Cut(n) < Len(Batch) /\ srvPacket = Frame(srvCounter - 1)
    BY <1>3 DEF LInv, ServerHolds, SendsFrames
  <2>2. n = srvCounter - 2 /\ srvCounter \in Nat
    BY <1>3 DEF SentFrames, LInv, TInv, TypeOK, ServerTypeOK
  <2> HIDE DEF n
  <2>3. srvCounter - 1 = n + 1
    BY <2>1, <2>2
  <2>4. QED
    BY <2>1, <2>3, PacketsFit DEF LInv
<1>4. ASSUME cliPc \in {"sendRequest", "sendInitiate", "sendAck"}
      PROVE  PacketSize(ClientPacket) <= ClientConfig.plen
  <2>1. PacketSize(ClientPacket) = TransactionPacketSize
    BY <1>4 DEF ClientPacket, TransactionPacket, WireType, PacketSize
  <2>2. PacketSize(Request) = TransactionPacketSize /\ PacketSize(Request) <= ClientConfig.plen
    BY PacketsFit, PacketFields DEF LInv, PacketSize
  <2>3. QED
    BY <2>1, <2>2
<1>5. QED
  BY <1>1, <1>2, <1>3, <1>4

LEMMA NotBothSpin == LInv => NoMutualWait
<1> SUFFICES ASSUME LInv, ServerSpins, ClientSpins PROVE FALSE
  BY DEF NoMutualWait
<1>1. \/ srvPc \in {"recvRequest", "recvInitiate", "recvAck"} /\ inChannel = <<>>
      \/ srvPc \in {"sendResponse", "sendBlock"} /\ outChannel # <<>>
  <2>1. DOMAIN ServerAwaits = {"recvRequest", "recvInitiate", "recvAck"}
    BY DEF ServerAwaits
  <2>2. QED
    BY <2>1, SendsIntoRoom DEF ServerSpins
<1>2. \/ cliPc \in {"recvResponse", "recvBlock"} /\ outChannel = <<>>
      \/ cliPc \in {"sendRequest", "sendInitiate", "sendAck"} /\ inChannel # <<>>
  <2>1. DOMAIN ClientAwaits = {"recvResponse", "recvBlock"}
    BY DEF ClientAwaits
  <2>2. cliPc # "sendAckNot"
    BY ClientPlaces DEF LInv
  <2>3. QED
    BY <2>1, <2>2, SendsIntoRoom DEF ClientSpins
<1>3. CASE cliPc = "recvResponse" /\ outChannel = <<>>
  <2>1. Requested \/ RequestedEarly \/ Answering
    BY <1>3, ClientPlaces DEF LInv, AwaitsResponse, Answered, Queued
  <2>2. QED
    BY <1>1, <1>3, <2>1
       DEF Requested, RequestedEarly, Answering, AwaitsRequest, AwaitsAck, Answers, ServerTo, Queued
<1>4. CASE cliPc = "recvBlock" /\ outChannel = <<>>
  <2>1. Initiated \/ Dumping
    BY <1>4, ClientPlaces DEF LInv, AwaitsFrames
  <2>2. CASE Initiated
    BY <1>1, <1>4, <2>2 DEF Initiated, AwaitsInitiation, ServerTo, Queued
  <2>3. CASE Dumping
    <3>1. AwaitsAck /\ SentFrames \in Nat
      BY <1>1, <1>4, <2>3 DEF Dumping, SendsFrames, AwaitsAck, ServerTo, LInv, ServerHolds
    <3>2. StoredFrames = SentFrames
      <4>1. StoredFrames \in Nat /\ Len(outChannel) = 0 /\ StoredFrames + Len(outChannel) = SentFrames
        BY <1>4, <2>3, LenProperties, ShortQueues
           DEF Dumping, FramesQueued, StoredFrames, LInv, TInv, TypeOK, ClientTypeOK
      <4>2. QED
        BY <4>1
    <3>3. Cut(StoredFrames) < Len(Batch) /\ Cut(SentFrames) = Len(Batch) /\ Len(Batch) \in Nat
      BY <1>4, <3>1, BatchFacts DEF LInv, ClientHolds, AwaitsFrames, ServerHolds
    <3>4. QED
      BY <3>2, <3>3
  <2>4. QED
    BY <2>1, <2>2, <2>3
<1>5. CASE cliPc \in {"sendRequest", "sendInitiate", "sendAck"} /\ inChannel # <<>>
  <2>1. Acknowledged
    BY <1>5, ClientPlaces
       DEF LInv, BeforeRequest, BeforeInitiation, BeforeAck, Resting, Accepting, Dumped, Queued
  <2>2. QED
    BY <1>1, <1>5, <2>1 DEF Acknowledged, AwaitsAck
<1>6. QED
  BY <1>2, <1>3, <1>4, <1>5

(* No more frames are under way than the batch is cut into: all but one of *)
(* them are not yet the batch.  Before the client's, nothing but an ACK    *)
(* and the next request.                                                   *)
QueuesBounded ==
    /\ Len(inChannel) <= 2
    /\ outChannel # <<>> => Cut(Len(outChannel) - 1) < Len(Batch)

LEMMA FewUnderWay == LInv => QueuesBounded
<1> SUFFICES ASSUME LInv PROVE QueuesBounded
  OBVIOUS
<1>1. Len(Batch) \in Nat \ {0} /\ Cut(0) = 0
  BY BatchFacts, CutGrows DEF LInv
<1>2. ASSUME NEW m \in Nat, NEW n \in Nat, m <= n, Cut(n) < Len(Batch)
      PROVE  Cut(m) < Len(Batch)
  <2>1. AsBuilt /\ m \in 0..n
    BY <1>2 DEF LInv
  <2>2. Cut(m) \in 0..Len(Batch) /\ Cut(n) \in 0..Len(Batch)
    BY <2>1, CutGrows
  <2>3. Cut(m) <= Cut(n)
    BY <2>1, CutGrows
  <2>4. QED
    BY <1>1, <1>2, <2>2, <2>3
<1>3. CASE /\ inChannel \in {<<>>, <<Ack>>, <<Request>>, <<Ack, Request>>, <<Initiation>>}
           /\ outChannel \in {<<>>, <<Response>>}
  <2>1. Len(inChannel) <= 2
    BY <1>3
  <2>2. outChannel # <<>> => Len(outChannel) - 1 = 0
    BY <1>3
  <2>3. outChannel # <<>> => Cut(Len(outChannel) - 1) = 0
    BY <1>1, <2>2, Zenon
  <2>4. 0 < Len(Batch)
    BY <1>1
  <2>5. QED
    BY <2>1, <2>3, <2>4 DEF QueuesBounded
<1>4. CASE Dumping
  <2>1. inChannel = <<>> /\ StoredFrames + Len(outChannel) = SentFrames
    BY <1>4 DEF Dumping, FramesQueued
  <2>2. /\ StoredFrames \in Nat /\ Len(outChannel) \in Nat
        /\ outChannel # <<>> => Len(outChannel) - 1 \in Nat
    BY LenProperties DEF LInv, TInv, TypeOK, ChannelsTypeOK, ClientTypeOK, StoredFrames
  <2>3. Len(inChannel) <= 2
    BY <2>1
  <2>4. CASE SendsFrames
    <3>1. SentFrames \in Nat /\ Cut(SentFrames) < Len(Batch)
      BY <2>4 DEF LInv, ServerHolds
    <3>2. Len(outChannel) - 1 <= SentFrames
      BY <2>1, <2>2, <3>1
    <3>3. outChannel # <<>> => Cut(Len(outChannel) - 1) < Len(Batch)
      BY <1>2, <2>2, <3>1, <3>2
    <3>4. QED
      BY <2>3, <3>3 DEF QueuesBounded
  <2>5. CASE AwaitsAck
    <3>1. SentFrames \in Nat \ {0} /\ Cut(SentFrames - 1) < Len(Batch)
      BY <2>5 DEF LInv, ServerHolds
    <3>2. SentFrames - 1 \in Nat /\ Len(outChannel) - 1 <= SentFrames - 1
      BY <2>1, <2>2, <3>1
    <3>3. outChannel # <<>> => Cut(Len(outChannel) - 1) < Len(Batch)
      BY <1>2, <2>2, <3>1, <3>2
    <3>4. QED
      BY <2>3, <3>3 DEF QueuesBounded
  <2>6. QED
    BY <1>4, <2>4, <2>5 DEF Dumping
<1>5. QED
  BY <1>3, <1>4
     DEF LInv, InStep, Resting, Acknowledged, Requested, RequestedEarly, Answering, Answered, Accepting,
         Initiated, Dumped, Queued

(* One step of the protocol is one of the service, or none.                *)
LEMMA ServiceStep == LInv /\ [Next]_vars => [Service!Next]_(Service!vars)
<1> SUFFICES ASSUME LInv, [Next]_vars PROVE [Service!Next]_<<transfer, cliReceived>>
  BY DEF Service!vars
<1>0. BatchOf(Settled) = Batch
  BY DEF Batch
<1>1. CASE StartNewTransfer
  BY <1>1 DEF StartNewTransfer, Service!Next, Service!Start
<1>2. CASE ClientNext /\ ClientBlockStored
  <2> DEFINE n == StoredFrames
             block == Head(outChannel)
  <2>1. cliPc = "recvBlock" /\ outChannel # <<>>
    BY <1>2 DEF ClientBlockStored, Receives
  <2>2. /\ n \in Nat /\ Cut(n) < Len(Batch)
        /\ cliReceived = Pieces(n) /\ block = Frame(n + 1)
    BY <2>1, ReceivedFrame
  <2>3. transfer = "running" /\ transfer' = transfer
    BY <1>2, <2>1 DEF LInv, TInv, LoopHasNext, NotifiedOnce, ClientBlockStored
  <2> HIDE DEF n
  <2>4. cliReceived' = Pieces(n + 1)
    <3>1. cliReceived' = Pieces(n) \o Piece(n + 1)
      BY <1>2, <2>2 DEF ClientBlockStored, Stored, Frame, BlockPacket
    <3>2. QED
      BY <2>2, <3>1, NextPiece DEF LInv
  <2>5. Len(cliReceived) = Cut(n)
    BY <2>2, CutEnds DEF LInv
  <2>6. Cut(n) < Cut(n + 1) /\ Cut(n) \in 0..Len(Batch) /\ Cut(n + 1) \in 0..Len(Batch)
    BY <2>2, CutGrows DEF LInv
  <2>7. Len(Batch) \in Nat /\ Len(Batch) <= ClientBufferSize /\ ClientBufferSize \in Nat
    BY BatchFacts, SizeAssumption DEF LInv
  <2>8. Cut(n + 1) \in Len(cliReceived) + 1 .. Len(Batch) /\ Cut(n + 1) <= ClientBufferSize
    BY <2>5, <2>6, <2>7
  <2>9. cliReceived' = Service!PrefixOfBatch(Cut(n + 1))
    BY <1>0, <2>4 DEF Pieces, Service!PrefixOfBatch
  <2>10. Service!Deliver
    BY <1>0, <2>3, <2>8, <2>9 DEF Service!Deliver
  <2>11. QED
    BY <2>10 DEF Service!Next
<1>3. CASE ClientNext /\ ClientTerminate
  <2>1. ClientTo({"TERMINATE"})
    BY <1>3 DEF ClientTerminate, ClientEnters, ClientTo
  <2>2. cliSuccess /\ cliReceived = Batch
    BY <2>1 DEF LInv, ClientHolds
  <2>3. transfer = "running"
    BY <2>1 DEF LInv, TInv, NotifiedOnce, ClientTo
  <2>4. transfer' = "success" /\ cliReceived' = <<>>
    BY <1>3, <2>2 DEF ClientTerminate, ClientCleanup
  <2>5. QED
    BY <1>0, <2>2, <2>3, <2>4 DEF Service!Next, Service!Succeed
<1>4. CASE ClientNext /\ ~ClientBlockStored /\ ~ClientTerminate
  <2>1. UNCHANGED <<transfer, cliReceived>>
    BY <1>4
       DEF ClientNext, ClientStep, ClientIdle, ClientRequest, ClientRequestSent, ClientResponse,
           ClientResponseReceived, ClientInitiate, ClientInitiateSent, ClientBlock,
           ClientBlockRefused, ClientAckSent, ClientAckNotSent, ClientDiscards,
           ClientResponseTimesOut, ClientBlockTimesOut, ClientSendTimesOut, cliVars
  <2>2. QED
    BY <2>1
<1>5. CASE ServerNext \/ (AppNext /\ ~StartNewTransfer) \/ ServerTimerFires \/ ClientTimerFires
           \/ UNCHANGED vars
  BY <1>5 DEF ServerNext, AppNext, ServerTimerFires, ClientTimerFires, vars, cliVars
<1>6. QED
  BY <1>1, <1>2, <1>3, <1>4, <1>5 DEF Next

-----------------------------------------------------------------------------
(* The two ends go in lock step, for every length and number of frames,    *)
(* every capacity of the queues and every number of transfers              *)
(* (DDServer.cpp:14-330, DDClient.cpp:14-364).                             *)
THEOREM AlwaysInStep == AsBuilt /\ Spec => []LockStep
<1>1. LInv => LockStep
  BY DEF LInv, LockStep
<1>2. QED
  BY <1>1, LInvInductive, PTL DEF Spec

(* A server that reports success was acknowledged for the batch it has     *)
(* just read and sent.  The client takes a second request to the queue     *)
(* while the ACK of the transaction before it may still be in there, and   *)
(* the id of the two is the same, so that only the order of the queue      *)
(* tells the ACKs apart (DDServer.cpp:260-302, DDClient.cpp:59-63).        *)
THEOREM AckAnswersBatch == AsBuilt /\ Spec => []AckOfThisBatch
<1>1. LInv => AckOfThisBatch
  BY DEF LInv, ServerHolds, AckOfThisBatch
<1>2. QED
  BY <1>1, LInvInductive, PTL DEF Spec

(* A client that is about to report success holds the bytes of one storage *)
(* read, all of them and in their order, for every split into frames and   *)
(* every capacity of the queues (DDClient.cpp:222-258, DDServer.cpp:        *)
(* 232-258).                                                               *)
THEOREM BatchDelivered == AsBuilt /\ Spec => []DeliveredIntact
<1>1. LInv => DeliveredIntact
  BY DEF LInv, ClientHolds, FromBatch, DeliveredIntact, Batch, Settled
<1>2. QED
  BY <1>1, LInvInductive, PTL DEF Spec

(* Although no timer expires, the two FSM threads are never both in a loop *)
(* that no packet under way will end, whatever the queues hold at most     *)
(* (the do-while loops of DDServer.cpp:18-304 and DDClient.cpp:52-322).    *)
THEOREM SomebodyGoesOn == AsBuilt /\ Spec => []NoMutualWait
<1>1. QED
  BY NotBothSpin, LInvInductive, PTL DEF Spec

(* The queue to the client never holds more packets than the batch has     *)
(* frames, and the one to the server an ACK and a request: the 256 bytes   *)
(* of DDTest.cpp in frames of 15 are 18, so that of its 20 places (line    *)
(* 58) there is always one left.                                          *)
THEOREM FewPacketsUnderWay == AsBuilt /\ Spec => []QueuesBounded
<1>1. QED
  BY FewUnderWay, LInvInductive, PTL DEF Spec

(* No packet is thrown away and no frame refused: the receive loops never  *)
(* pop what they do not wait for (DDServer.cpp:63-66, 199-203, 283-287,    *)
(* DDClient.cpp:117-121, 215-242).                                         *)
THEOREM NothingThrownAway ==
    AsBuilt /\ Spec => [][~ServerDiscards /\ ~ClientDiscards /\ ~ClientBlockRefused]_vars
<1>1. LInv /\ [Next]_vars => ~ServerDiscards /\ ~ClientDiscards /\ ~ClientBlockRefused
  BY ServerNeverDiscards, ClientNeverDiscards
<1>2. QED
  BY <1>1, LInvInductive, PTL DEF Spec

(* internalBuffer moves with the frames and never back (DDServer.cpp:246), *)
(* by one batch with each transfer: the reads stay inside what the         *)
(* constructor allocated (DDServer.cpp:387-389) if that has room for the   *)
(* batches of all transfers.                                               *)
THEOREM ReadsStayInside == AsBuilt /\ RoomForAll /\ Spec => []ReadFitsBuffer
<1>1. OInv /\ RoomForAll => ReadFitsBuffer
  <2> SUFFICES ASSUME OInv, RoomForAll PROVE ReadFitsBuffer
    OBVIOUS
  <2>1. srvBatch \in Nat /\ transfers \in 0..MaxTransfers /\ MaxTransfers \in Nat
    BY SizeAssumption DEF OInv, LInv, TInv, TypeOK, ServerTypeOK, ClientTypeOK
  <2>2. srvBatch <= MaxTransfers
    BY <2>1 DEF OInv, Reads
  <2>3. Len(Batch) \in Nat /\ ServerBufferSize \in Nat
    <3>1. Len(Batch) \in Nat /\ ServerPayload \in Nat
      BY BatchFacts DEF OInv, LInv
    <3>2. ServerConfig.blocks \in Nat
      BY ConfigAssumption DEF Config
    <3>3. QED
      BY <3>1, <3>2 DEF ServerBufferSize
  <2>4. /\ srvBatch * Len(Batch) \in Nat /\ MaxTransfers * Len(Batch) \in Nat
        /\ srvBatch * Len(Batch) <= MaxTransfers * Len(Batch)
    BY <2>1, <2>2, <2>3, MoreFrames
  <2>5. srvOffset + Len(srvBuffer) = srvBatch * Len(Batch)
    BY DEF OInv, BufferMoved
  <2> DEFINE end == srvOffset + Len(srvBuffer)
             reads == srvBatch * Len(Batch)
             most == MaxTransfers * Len(Batch)
             size == ServerBufferSize
  <2>6. end = reads /\ reads <= most /\ most <= size /\ reads \in Nat /\ most \in Nat /\ size \in Nat
    BY <2>3, <2>4, <2>5 DEF RoomForAll
  <2> HIDE DEF end, reads, most, size
  <2>7. end <= size
    BY <2>6
  <2>8. QED
    BY <2>7 DEF ReadFitsBuffer, end, size
<1>2. RoomForAll => RoomForAll'
  BY DEF RoomForAll
<1>3. QED
  BY <1>1, <1>2, OInvInductive, PTL DEF Spec

(* The client and the server together implement the service: the buffer of *)
(* a transfer fills with longer and longer parts of the batch, and what is *)
(* reported as a success is the whole of it (DDClient.cpp:222-364).        *)
THEOREM ServiceImplemented == AsBuilt /\ Spec => ImplementsService
<1>1. Init => Service!Init
  BY DEF Init, ClientInit, Service!Init
<1>2. QED
  BY <1>1, ServiceStep, LInvInductive, PTL DEF Spec, ImplementsService, Service!Spec
=============================================================================
