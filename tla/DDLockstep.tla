----------------------------- MODULE DDLockstep -----------------------------
(***************************************************************************)
(* The protocol as built: no timer expires, nobody stops the server, and   *)
(* the two ends go in lock step through the queues.  What each end is at,  *)
(* what the queues then hold, and what each end holds.                     *)
(***************************************************************************)
EXTENDS DDProtocol

(* What one transfer delivers.                                             *)
Batch == BatchOf(Settled)

(* What DDTest.cpp configures: timers whose io_service no thread runs      *)
(* (bTimer.cpp:42), one call of startServer and none of stopServer, packets *)
(* that fit both ends, an id the client does not decline, and a storage    *)
(* with something to dump that the application's buffer has room for.      *)
AsBuilt ==
    /\ ~TimersRun
    /\ MaxStarts = 1 /\ MaxStops = 0
    /\ TransactionPacketSize <= ServerConfig.plen
    /\ ServerConfig.plen <= ClientConfig.plen
    /\ ClientConfig.tid # 0
    /\ Len(Batch) \in 1..ClientBufferSize

-----------------------------------------------------------------------------
(* The batch in frames: after n frames the server has cut Cut(n) bytes.    *)
Cut(n) == MinOf(n * ServerPayload, Len(Batch))

Piece(n) == SubSeq(Batch, Cut(n - 1) + 1, Cut(n))
Pieces(n) == SubSeq(Batch, 1, Cut(n))
Rest(n) == SubSeq(Batch, Cut(n) + 1, Len(Batch))

-----------------------------------------------------------------------------
(* The packets of the transaction.                                         *)
Request == TransactionPacket("REQUEST", ClientConfig, 0)
Response == TransactionPacket("RESPONSE", Settled, 0)
Initiation == TransactionPacket("INITIATE_BLOCK_TRANSFER", Settled, 0)
Frame(n) == BlockPacket(n, Cut(n) = Len(Batch), Piece(n), srvBatch)
Ack == TransactionPacket("BLOCK_ACK", [NoTerms EXCEPT !.tid = Settled.tid], srvBatch)

-----------------------------------------------------------------------------
(* Where the two ends are between a receive and the next.                  *)
ClientTo(states) == cliPc = "loop" /\ cliNext \in states
ServerTo(states) == srvPc = "loop" /\ srvNext \in states

BeforeRequest == cliPc = "sendRequest" \/ ClientTo({"IDLE", "REQUEST", "TERMINATE"})
AwaitsResponse == cliPc = "recvResponse" \/ ClientTo({"RESPONSE"})
BeforeInitiation == cliPc = "sendInitiate" \/ ClientTo({"INITIATE_BLOCK"})
AwaitsFrames == cliPc = "recvBlock" \/ ClientTo({"BLOCK"})
BeforeAck == cliPc = "sendAck"

AwaitsRequest == srvPc = "recvRequest" \/ ServerTo({"IDLE", "REQUEST", "TERMINATE"})
Answers == srvPc = "sendResponse" \/ ServerTo({"RESPONSE"})
AwaitsInitiation == srvPc = "recvInitiate" \/ ServerTo({"INITIATE_BLOCK"})
SendsFrames == srvPc = "sendBlock" \/ ServerTo({"BLOCK"})
AwaitsAck == srvPc = "recvAck"

Queued(in, out) == inChannel = in /\ outChannel = out

(* The frames the client has stored, and those the server has sent.        *)
StoredFrames == Len(cliBatches)
SentFrames == IF srvPc = "sendBlock" THEN srvCounter - 2 ELSE srvCounter - 1

(* The frames sent and not yet stored are in the queue, in order.          *)
FramesQueued ==
    /\ inChannel = <<>>
    /\ StoredFrames + Len(outChannel) = SentFrames
    /\ \A i \in 1..Len(outChannel) : outChannel[i] = Frame(StoredFrames + i)

Resting         == BeforeRequest /\ AwaitsRequest /\ Queued(<<>>, <<>>)
Acknowledged    == BeforeRequest /\ AwaitsAck /\ Queued(<<Ack>>, <<>>)
Requested       == AwaitsResponse /\ AwaitsRequest /\ Queued(<<Request>>, <<>>)
RequestedEarly  == AwaitsResponse /\ AwaitsAck /\ Queued(<<Ack, Request>>, <<>>)
Answering       == AwaitsResponse /\ Answers /\ Queued(<<>>, <<>>)
Answered        == AwaitsResponse /\ AwaitsInitiation /\ Queued(<<>>, <<Response>>)
Accepting       == BeforeInitiation /\ AwaitsInitiation /\ Queued(<<>>, <<>>)
Initiated       == AwaitsFrames /\ AwaitsInitiation /\ Queued(<<Initiation>>, <<>>) /\ StoredFrames = 0
Dumping         == AwaitsFrames /\ (SendsFrames \/ AwaitsAck) /\ FramesQueued
Dumped          == BeforeAck /\ AwaitsAck /\ Queued(<<>>, <<>>)

InStep ==
    \/ Resting \/ Acknowledged \/ Requested \/ RequestedEarly
    \/ Answering \/ Answered \/ Accepting \/ Initiated \/ Dumping \/ Dumped

-----------------------------------------------------------------------------
(* The server stays in IDLE until the one startServer sets its next state. *)
StartedOnce ==
    /\ srvCall = "none" \/ (srvCall = "start" /\ starts = 1)
    /\ starts = 0 \/ srvCall = "start" => ServerTo({"IDLE"})

(* What each end holds there.  Both end a transaction only with success.   *)
ServerHolds ==
    /\ StartedOnce
    /\ srvSuccess => ServerTo({"TERMINATE"}) /\ srvAcked = srvBatch
    /\ srvPc = "sendResponse" => srvPacket = Response
    /\ srvPc = "sendResponse" \/ AwaitsInitiation => srvBuffer = Batch
    /\ SendsFrames => /\ SentFrames \in Nat
                      /\ Cut(SentFrames) < Len(Batch)
                      /\ srvBuffer = Rest(srvCounter - 1)
    /\ srvPc = "sendBlock" => srvPacket = Frame(srvCounter - 1)
    /\ AwaitsAck => /\ SentFrames \in Nat \ {0}
                    /\ Cut(SentFrames - 1) < Len(Batch)
                    /\ Cut(SentFrames) = Len(Batch)

FromBatch(batch) == \A i \in 1..Len(cliBatches) : cliBatches[i] = batch

NothingStored == cliReceived = <<>> /\ cliBatches = <<>>

ClientHolds ==
    /\ cliSuccess <=> ClientTo({"TERMINATE"})
    /\ \/ cliPc \in {"sendRequest", "recvResponse", "sendInitiate"}
       \/ ClientTo({"REQUEST", "RESPONSE", "INITIATE_BLOCK"})
       => NothingStored
    /\ AwaitsFrames => /\ Cut(StoredFrames) < Len(Batch)
                       /\ cliReceived = Pieces(StoredFrames)
                       /\ FromBatch(srvBatch)
    /\ BeforeAck => /\ cliTerms = Settled
                    /\ cliReceived = Batch
                    /\ cliBatches # <<>> /\ FromBatch(srvBatch)
    /\ ClientTo({"TERMINATE"}) => cliReceived = Batch /\ FromBatch(cliBatches[1])

NoExpiry == ~srvTimer.expiry /\ ~cliTimer.expiry

(* The two ends are in one of ten phases, with exactly these packets under *)
(* way, and hold what belongs to it: the bytes sent are the batch up to    *)
(* the frames cut, those stored the same batch up to the frames taken out  *)
(* of the queue (DDServer.cpp:14-330, DDClient.cpp:14-364).                *)
LockStep == AsBuilt /\ InStep /\ ServerHolds /\ ClientHolds /\ NoExpiry
=============================================================================
