----------------------------- MODULE DDProtocol -----------------------------
(***************************************************************************)
(* The server and the client of DDTest.cpp, each with its FSM thread and   *)
(* the thread that runs its timer, the two queues between them, and the    *)
(* application that starts the server and the transfers.                   *)
(***************************************************************************)
EXTENDS DDServer, DDClient

vars == <<srvVars, cliVars, channels>>

Init == ServerInit /\ ClientInit /\ ChannelsInit

(* timeoutCB on the thread that runs a timer's io_service.                 *)
ServerTimerFires ==
    /\ TimersRun
    /\ srvTimer.pending
    /\ srvTimer' \in Fired(srvTimer)
    /\ UNCHANGED <<srvCurrent, srvNext, srvBusy, srvPc, srvTerms, srvBuffer, srvOffset, srvCounter,
                   srvPacket, srvSuccess, srvBatch, srvAcked, callVars, cliVars, channels>>

ClientTimerFires ==
    /\ TimersRun
    /\ cliTimer.pending
    /\ cliTimer' \in Fired(cliTimer)
    /\ UNCHANGED <<cliCurrent, cliNext, cliBusy, cliPc, cliTerms, cliReceived, cliRoom, cliSuccess,
                   cliBatches, transfer, transfers, srvVars, channels>>

ServerNext == ServerStep /\ UNCHANGED cliVars

ClientNext == ClientStep /\ UNCHANGED srvVars

AppNext ==
    \/ CallsServer /\ UNCHANGED cliVars
    \/ StartNewTransfer /\ UNCHANGED srvVars

Next == ServerNext \/ ClientNext \/ AppNext \/ ServerTimerFires \/ ClientTimerFires

Spec == Init /\ [][Next]_vars

(* The two task loops never stop calling FSMLoop, a thread in io_service   *)
(* run() completes every wait that is due, and DDTest calls startServer    *)
(* once.  A call that has begun goes on; nobody is obliged to stop the     *)
(* server or to start a transfer.                                          *)
Fairness ==
    /\ WF_vars(ServerNext)
    /\ WF_vars(ClientNext)
    /\ WF_vars(ServerTimerFires)
    /\ WF_vars(ClientTimerFires)
    /\ WF_vars(starts = 0 /\ StartServerChecks /\ UNCHANGED cliVars)
    /\ WF_vars((StartServerSets \/ StopServerSets) /\ UNCHANGED cliVars)

FairSpec == Spec /\ Fairness

-----------------------------------------------------------------------------
(* The terms the two ends settle on.                                       *)
Settled == Negotiated(ClientConfig)

(* Every variable has its type.                                            *)
TypeOK == ServerTypeOK /\ ClientTypeOK /\ ChannelsTypeOK

(* A client that is about to report success holds the whole batch of one   *)
(* storage read, every byte in its place: no frame of an earlier           *)
(* transaction was mixed in, although BLOCK never looks at the frame       *)
(* numbers (DDClient.cpp:227-242) and the transaction id never changes     *)
(* (DDClient.cpp:59-63).                                                   *)
DeliveredIntact ==
    cliSuccess => /\ cliReceived = BatchOf(Settled)
                  /\ \A i \in 1..Len(cliBatches) : cliBatches[i] = cliBatches[1]

(* A server that reports success was acknowledged for the batch it has     *)
(* just sent, not for one before it (DDServer.cpp:294-302).                *)
AckOfThisBatch == srvSuccess => srvAcked = srvBatch

(* When the server waits for the ACK it has sent all it read: the cut into *)
(* frames and the count of frames end together (DDServer.cpp:239-254).     *)
BatchComplete == srvPc = "recvAck" => srvBuffer = <<>>

(* A frame number fits the seven bits the block header has for it          *)
(* (DDPacket.cpp:476-481).                                                 *)
FrameNumberFits == \A i \in 1..Len(outChannel) :
    outChannel[i].type = "BLOCK_TRANSFER" => outChannel[i].frame \in 1..127

(* The bytes stored and the room left always make up the buffer the        *)
(* application gave, and the client has let go of it once the application  *)
(* is told the outcome (DDClient.cpp:231-242, 338-339).                    *)
BufferAccounted ==
    IF transfer = "running" THEN Len(cliReceived) + cliRoom = ClientBufferSize
    ELSE cliReceived = <<>> /\ cliRoom = 0

(* The client works on a transfer exactly while the application waits for  *)
(* its outcome: every transfer that was started is notified, once.         *)
NotifiedOnce == transfer = "running" <=> cliNext # "IDLE"

(* The FSM thread of the server, or of the client, spins in a do-while     *)
(* loop that no packet now in the queues will end.                         *)
ServerSpins ==
    \/ srvPc \in DOMAIN ServerAwaits /\ inChannel = <<>>
    \/ srvPc \in {"sendResponse", "sendBlock"} /\ ~CanSend(srvPacket, ServerConfig, outChannel)

ClientSpins ==
    \/ cliPc \in DOMAIN ClientAwaits /\ outChannel = <<>>
    \/ /\ cliPc \in {"sendRequest", "sendInitiate", "sendAck", "sendAckNot"}
       /\ ~CanSend(ClientPacket, ClientConfig, inChannel)

(* The two threads never spin at the same time.  As built no timer expires *)
(* (bTimer.cpp:42), so they would spin for ever.                           *)
NoMutualWait == ~(ServerSpins /\ ClientSpins)

(* Once the terms are settled the two ends hold the same: smallest blocks  *)
(* and length, largest timeout of the two, for the client's id, whichever  *)
(* RESPONSE the client took (DDServer.cpp:109-143, DDClient.cpp:128-132).  *)
AgreedTerms ==
    /\ srvCurrent \in {"INITIATE_BLOCK", "BLOCK"} => srvTerms = Settled
    /\ cliCurrent \in {"INITIATE_BLOCK", "BLOCK"} => cliTerms = Settled

(* A transaction that has begun ends through TERMINATE, which tells the    *)
(* application the outcome, whatever expires or is refused, unless a call  *)
(* of the application writes the next state after its check has become     *)
(* stale: a second startServer, or a stopServer (DDServer.cpp:417-418,     *)
(* 440-446, 325).                                                          *)
EndsInTerminate ==
    [][/\ srvCurrent \in {"RESPONSE", "INITIATE_BLOCK", "BLOCK"}
       /\ srvCurrent' \in {"IDLE", "REQUEST"}
       => starts > 1 \/ stops > 0]_vars

-----------------------------------------------------------------------------
(* What comments of the code say, and the code does not do.                *)

(* "Read data from storage WITHOUT ERASING and store in it buffer"         *)
(* (DDServer.cpp:146): the read stays inside the bytes the constructor     *)
(* allocated (DDServer.cpp:387-389).                                       *)
ReadFitsBuffer == srvOffset + Len(srvBuffer) <= ServerBufferSize

(* "erase the data from storage application" (DDServer.cpp:293): the erase *)
(* call, whose size is internalBufferLen, covers the acknowledged batch.   *)
AckedIsErased == srvSuccess => Len(srvBuffer) = Len(BatchOf(srvTerms))

(* "Select smallest Max Packet Length between client and server."          *)
(* (DDServer.cpp:112): a frame is no longer than the length settled on.    *)
FramesWithinTerms == srvPc = "sendBlock" => PacketSize(srvPacket) <= srvTerms.plen

-----------------------------------------------------------------------------
(* The buffers and the outcome of a transfer as its application sees them. *)
Service == INSTANCE TransferService WITH
    Batch <- BatchOf(Settled),
    Room <- ClientBufferSize,
    outcome <- transfer,
    delivered <- cliReceived

(* The client and the server implement the service.                        *)
ImplementsService == Service!Spec

-----------------------------------------------------------------------------
(* A transfer that was started is reported as a success.                   *)
TransferSucceeds == transfer = "running" ~> transfer = "success"

(* The application always hears the outcome of its transfer.               *)
TransferEnds == transfer = "running" ~> transfer # "running"

(* "wait till server comes to REQUEST state", then "push to TERMINATE      *)
(* state" (DDServer.cpp:439-446): once a stop has made IDLE the next state *)
(* of a server in REQUEST, no step but a startServer takes that back.      *)
StopTakesEffect == [][srvNext = "IDLE" => srvNext' = "IDLE" \/ StartServerSets]_vars

(* A server that has taken a request is back to waiting for the next one.  *)
ServerReturns == srvCurrent \notin {"IDLE", "REQUEST"} ~> srvPc = "recvRequest"
=============================================================================
