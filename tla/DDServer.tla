------------------------------ MODULE DDServer ------------------------------
(***************************************************************************)
(* DDServer::FSMLoop, called for ever by serverTaskloop, and the calls     *)
(* startServer and stopServer of another thread.                           *)
(*                                                                         *)
(* One call of FSMLoop is one step when the state's code has no loop in    *)
(* it.  A state that sends or receives in a do-while loop is entered in    *)
(* one step, which leaves srvPc at the loop; each later step is one pass   *)
(* of that loop.  A pass is receive (or send) and then isExpired: no other *)
(* thread's step between the two is told apart from the same step before   *)
(* or after the pass.  A pass that changes nothing is left out, so that a  *)
(* state without successors is one where every loop spins in vain.         *)
(***************************************************************************)
EXTENDS DDBase

VARIABLES
    srvCurrent,   \* currentState
    srvNext,      \* nextState
    srvBusy,      \* isBusy
    srvPc,        \* where the FSM thread is: "loop" or the do-while loop it is in
    srvTimer,     \* stateTransitionTimerHandle
    srvTerms,     \* clientConfig, the terms of the running transaction
    srvBuffer,    \* the internalBufferLen bytes at internalBuffer
    srvOffset,    \* how far internalBuffer is from where new[] put it
    srvCounter,   \* internal_counter
    srvPacket,    \* the packet being sent: response, blockDataPacket
    srvSuccess,   \* isTransferSuccess
    srvBatch,     \* history: number of storage reads
    srvAcked,     \* history: batch the last accepted ACK answers
    srvCall,      \* the call the application's thread is in, past its check, or "none"
    starts,       \* history: calls of startServer that were not refused
    stops         \* history: calls of stopServer

callVars == <<srvCall, starts, stops>>
ownVars == <<srvCurrent, srvBusy, srvPc, srvTimer, srvTerms, srvBuffer, srvOffset, srvCounter,
             srvPacket, srvSuccess, srvBatch, srvAcked>>
srvVars == <<srvNext, ownVars, callVars>>

(* Payload of a frame: the server cuts by its own maxPacketSize.           *)
ServerPayloadWhole == ServerConfig.plen
ServerPayload == ServerConfig.plen - BlockHeaderSize

(* What the constructor allocates for internalBuffer.                      *)
ServerBufferShort == ServerPayload * (ServerConfig.blocks - 1)
ServerBufferSize == ServerPayload * ServerConfig.blocks

NoPacket == TransactionPacket("UNASSIGNED", NoTerms, 0)

ServerTypeOK ==
    /\ srvCurrent \in FSMStates
    /\ srvNext \in FSMStates
    /\ srvBusy \in BOOLEAN
    /\ srvPc \in {"loop", "recvRequest", "sendResponse", "recvInitiate", "sendBlock", "recvAck"}
    /\ srvTimer \in Timers
    /\ srvTerms \in Config
    /\ srvBuffer \in Seq(Byte)
    /\ srvOffset \in Nat
    /\ srvCounter \in Nat
    /\ srvPacket \in Packets
    /\ srvSuccess \in BOOLEAN
    /\ srvBatch \in Nat
    /\ srvAcked \in Nat
    /\ srvCall \in {"none", "start", "stop"}
    /\ starts \in 0..MaxStarts
    /\ stops \in 0..MaxStops

ServerInit ==
    /\ srvCurrent = "IDLE" /\ srvNext = "IDLE"
    /\ srvBusy = FALSE
    /\ srvPc = "loop"
    /\ srvTimer = NewTimer
    /\ srvTerms = NoTerms
    /\ srvBuffer = <<>>
    /\ srvOffset = 0
    /\ srvCounter = 1
    /\ srvPacket = NoPacket
    /\ srvSuccess = FALSE
    /\ srvBatch = 0
    /\ srvAcked = 0
    /\ srvCall = "none"
    /\ starts = 0 /\ stops = 0

-----------------------------------------------------------------------------
(* Detection of a state change and the busy flag, for every FSM state.     *)
ServerEnters(state) ==
    /\ srvPc = "loop"
    /\ srvNext = state
    /\ srvCurrent' = state
    /\ srvBusy' = (state # "IDLE")

(* The FSM thread leaves a do-while loop and the state's code ends.        *)
ServerLeaves(next) ==
    /\ srvPc' = "loop"
    /\ srvNext' = next
    /\ UNCHANGED <<srvCurrent, srvBusy>>

(* The cleanup of IDLE and TERMINATE.  It sets internalBufferLen to 0 and  *)
(* leaves internalBuffer where the frames have moved it.                   *)
ServerCleanupKeepsSuccess ==
    /\ srvTimer' \in Stopped(srvTimer)
    /\ srvTerms' = NoTerms
    /\ srvBuffer' = <<>>
    /\ UNCHANGED srvSuccess

ServerCleanup ==
    /\ srvTimer' \in Stopped(srvTimer)
    /\ srvTerms' = NoTerms
    /\ srvBuffer' = <<>>
    /\ srvSuccess' = FALSE

ServerIdle ==
    /\ ServerEnters("IDLE")
    /\ ServerCleanup
    /\ UNCHANGED <<srvNext, srvPc, srvOffset, srvCounter, srvPacket, srvBatch, srvAcked, callVars,
                   channels>>

ServerRequest ==
    /\ ServerEnters("REQUEST")
    /\ srvPc' = "recvRequest"
    /\ UNCHANGED <<srvNext, srvTimer, srvTerms, srvBuffer, srvOffset, srvCounter, srvPacket,
                   srvSuccess, srvBatch, srvAcked, callVars, channels>>

ServerRequestReceived ==
    /\ srvPc = "recvRequest"
    /\ Receives("REQUEST", ServerConfig, inChannel)
    /\ srvTerms' = TermsOf(Head(inChannel))
    /\ inChannel' = Tail(inChannel)
    /\ srvTimer' \in Started(srvTimer)
    /\ ServerLeaves("RESPONSE")
    /\ UNCHANGED <<srvBuffer, srvOffset, srvCounter, srvPacket, srvSuccess, srvBatch, srvAcked,
                   callVars, outChannel>>

(* Smallest blocks and packet length, largest timeout of the two ends.     *)
Negotiated(terms) ==
    [tid |-> terms.tid,
     blocks |-> MinOf(terms.blocks, ServerConfig.blocks),
     plen |-> MinOf(terms.plen, ServerConfig.plen),
     ack |-> MaxOf(terms.ack, ServerConfig.ack)]

(* serverStorageReadcb reads from the start of the storage and takes no    *)
(* notice of its erase flag.                                               *)
StorageRead(maxSize) == SubSeq(Storage, 1, MinOf(maxSize, Len(Storage)))

(* The batch of a transaction: what one storage read asks for and gets.    *)
BatchOf(terms) == StorageRead(ServerPayload * terms.blocks)

ServerResponse ==
    /\ ServerEnters("RESPONSE")
    /\ LET terms == Negotiated(srvTerms)
           batch == BatchOf(terms)
       IN  /\ srvTerms' = terms
           /\ srvBuffer' = batch
           /\ srvBatch' = srvBatch + 1
           /\ srvPacket' = TransactionPacket("RESPONSE", terms, 0)
           /\ IF batch # <<>>
              THEN srvPc' = "sendResponse" /\ srvNext' = srvNext
              ELSE srvPc' = "loop" /\ srvNext' = "TERMINATE"
    /\ UNCHANGED <<srvTimer, srvOffset, srvCounter, srvSuccess, srvAcked, callVars, channels>>

ServerResponseSent ==
    /\ srvPc = "sendResponse"
    /\ CanSend(srvPacket, ServerConfig, outChannel)
    /\ outChannel' = Append(outChannel, srvPacket)
    /\ srvTimer' \in Started(srvTimer)
    /\ ServerLeaves("INITIATE_BLOCK")
    /\ UNCHANGED <<srvTerms, srvBuffer, srvOffset, srvCounter, srvPacket, srvSuccess, srvBatch,
                   srvAcked, callVars, inChannel>>

ServerInitiate ==
    /\ ServerEnters("INITIATE_BLOCK")
    /\ srvPc' = "recvInitiate"
    /\ UNCHANGED <<srvNext, srvTimer, srvTerms, srvBuffer, srvOffset, srvCounter, srvPacket,
                   srvSuccess, srvBatch, srvAcked, callVars, channels>>

FirstFrameZero == 0
FirstFrame == 1

ServerInitiateReceived ==
    /\ srvPc = "recvInitiate"
    /\ Receives("INITIATE_BLOCK_TRANSFER", ServerConfig, inChannel)
    /\ inChannel' = Tail(inChannel)
    /\ IF Head(inChannel).tid = srvTerms.tid
       THEN /\ ServerLeaves("BLOCK")
            /\ srvTimer' \in Started(srvTimer)
            /\ srvCounter' = FirstFrame
       ELSE /\ ServerLeaves("TERMINATE")
            /\ UNCHANGED <<srvTimer, srvCounter>>
    /\ UNCHANGED <<srvTerms, srvBuffer, srvOffset, srvPacket, srvSuccess, srvBatch, srvAcked,
                   callVars, outChannel>>

(* The next frame is cut off the buffer; internalBuffer moves with it.     *)
FrameSize(buffer) == MinOf(ServerPayload, Len(buffer))

FrameData(buffer) == SubSeq(buffer, 1, FrameSize(buffer))

RemainingUnmoved(buffer) == SubSeq(buffer, 1, Len(buffer) - FrameSize(buffer))
Remaining(buffer) == SubSeq(buffer, FrameSize(buffer) + 1, Len(buffer))

IsLastEarly(frame, rest) == frame + 1 >= srvTerms.blocks \/ rest = <<>>
IsLastLate(frame, rest) == frame > srvTerms.blocks
IsLast(frame, rest) == frame >= srvTerms.blocks \/ rest = <<>>

ServerBlock ==
    /\ ServerEnters("BLOCK")
    /\ srvPacket' = BlockPacket(srvCounter, IsLast(srvCounter, Remaining(srvBuffer)),
                                FrameData(srvBuffer), srvBatch)
    /\ srvBuffer' = Remaining(srvBuffer)
    /\ srvOffset' = srvOffset + FrameSize(srvBuffer)
    /\ srvCounter' = srvCounter + 1
    /\ srvPc' = "sendBlock"
    /\ UNCHANGED <<srvNext, srvTimer, srvTerms, srvSuccess, srvBatch, srvAcked, callVars, channels>>

(* After the last frame the same call goes on to wait for the ACK, with    *)
(* the timer still the one started before the frame.                       *)
ServerBlockSent ==
    /\ srvPc = "sendBlock"
    /\ CanSend(srvPacket, ServerConfig, outChannel)
    /\ outChannel' = Append(outChannel, srvPacket)
    /\ IF srvPacket.last
       THEN /\ srvPc' = "recvAck"
            /\ UNCHANGED <<srvCurrent, srvNext, srvBusy, srvTimer>>
       ELSE /\ ServerLeaves("BLOCK")
            /\ srvTimer' \in Started(srvTimer)
    /\ UNCHANGED <<srvTerms, srvBuffer, srvOffset, srvCounter, srvPacket, srvSuccess, srvBatch,
                   srvAcked, callVars, inChannel>>

(* The erase call passes what is left of internalBufferLen; the transfer   *)
(* succeeded if the storage application says it erased that many bytes.    *)
ServerAckReceived ==
    /\ srvPc = "recvAck"
    /\ Receives("BLOCK_ACK", ServerConfig, inChannel)
    /\ inChannel' = Tail(inChannel)
    /\ IF Head(inChannel).tid = srvTerms.tid /\ Len(StorageRead(Len(srvBuffer))) = Len(srvBuffer)
       THEN srvSuccess' = TRUE /\ srvAcked' = Head(inChannel).batch
       ELSE UNCHANGED <<srvSuccess, srvAcked>>
    /\ ServerLeaves("TERMINATE")
    /\ UNCHANGED <<srvTimer, srvTerms, srvBuffer, srvOffset, srvCounter, srvPacket, srvBatch,
                   callVars, outChannel>>

(* The type each receive loop waits for.                                   *)
ServerAwaits == [recvRequest |-> "REQUEST", recvInitiate |-> "INITIATE_BLOCK_TRANSFER",
                 recvAck |-> "BLOCK_ACK"]

(* The oldest packet is not the awaited one and is dropped.  The loop of   *)
(* REQUEST never looks at the timer.                                       *)
ServerDiscards ==
    /\ srvPc \in DOMAIN ServerAwaits
    /\ inChannel # <<>>
    /\ ~Receives(ServerAwaits[srvPc], ServerConfig, inChannel)
    /\ srvPc = "recvRequest" \/ ReadsNotExpired(srvTimer)
    /\ inChannel' = Tail(inChannel)
    /\ UNCHANGED <<srvVars, outChannel>>

ServerReceiveTimesOutUnnotified ==
    /\ srvPc \in {"recvInitiate", "recvAck"}
    /\ ~Receives(ServerAwaits[srvPc], ServerConfig, inChannel)
    /\ ReadsExpired(srvTimer)
    /\ inChannel' = Popped(inChannel)
    /\ srvTimer' = ExpiryCleared(srvTimer)
    /\ ServerLeaves("REQUEST")
    /\ UNCHANGED <<srvTerms, srvBuffer, srvOffset, srvCounter, srvPacket, srvSuccess, srvBatch,
                   srvAcked, callVars, outChannel>>

ServerReceiveTimesOut ==
    /\ srvPc \in {"recvInitiate", "recvAck"}
    /\ ~Receives(ServerAwaits[srvPc], ServerConfig, inChannel)
    /\ ReadsExpired(srvTimer)
    /\ inChannel' = Popped(inChannel)
    /\ srvTimer' = ExpiryCleared(srvTimer)
    /\ ServerLeaves("TERMINATE")
    /\ UNCHANGED <<srvTerms, srvBuffer, srvOffset, srvCounter, srvPacket, srvSuccess, srvBatch,
                   srvAcked, callVars, outChannel>>

ServerSendTimesOut ==
    /\ srvPc \in {"sendResponse", "sendBlock"}
    /\ ~CanSend(srvPacket, ServerConfig, outChannel)
    /\ ReadsExpired(srvTimer)
    /\ srvTimer' = ExpiryCleared(srvTimer)
    /\ ServerLeaves("TERMINATE")
    /\ UNCHANGED <<srvTerms, srvBuffer, srvOffset, srvCounter, srvPacket, srvSuccess, srvBatch,
                   srvAcked, callVars, channels>>

(* notifyCB(isTransferSuccess), which only logs, and the cleanup.          *)
ServerTerminate ==
    /\ ServerEnters("TERMINATE")
    /\ ServerCleanup
    /\ srvNext' = "REQUEST"
    /\ UNCHANGED <<srvPc, srvOffset, srvCounter, srvPacket, srvBatch, srvAcked, callVars, channels>>

-----------------------------------------------------------------------------
(* The calls of the application's thread: each checks, and then writes the *)
(* next state, with steps of the FSM thread in between.                    *)

(* The FSM thread is past the last look at the next state in a state whose *)
(* code is one step here, and will yet set the next one itself.            *)
SetsNextItself == srvCurrent = "TERMINATE" \/ (srvCurrent = "RESPONSE" /\ srvNext = "TERMINATE")

(* setNextFSMState, which does nothing when it gives up its lock.  A write *)
(* that falls into the work of such a state is overwritten at its end.     *)
SetsNext(state) ==
    \/ srvNext' = state
    \/ (LockTimeouts \/ SetsNextItself) /\ UNCHANGED srvNext

StartServerChecks ==
    /\ srvCall = "none"
    /\ starts < MaxStarts
    /\ ~srvBusy
    /\ srvCall' = "start"
    /\ starts' = starts + 1
    /\ UNCHANGED <<srvNext, stops, ownVars, channels>>

StartServerSets ==
    /\ srvCall = "start"
    /\ srvCall' = "none"
    /\ SetsNext("REQUEST")
    /\ UNCHANGED <<starts, stops, ownVars, channels>>

(* The caller spins until the current state is REQUEST.                    *)
StopServerChecks ==
    /\ srvCall = "none"
    /\ stops < MaxStops
    /\ srvCurrent = "REQUEST"
    /\ srvCall' = "stop"
    /\ stops' = stops + 1
    /\ UNCHANGED <<srvNext, starts, ownVars, channels>>

StopServerSets ==
    /\ srvCall = "stop"
    /\ srvCall' = "none"
    /\ SetsNext("IDLE")
    /\ UNCHANGED <<starts, stops, ownVars, channels>>

CallsServer == StartServerChecks \/ StartServerSets \/ StopServerChecks \/ StopServerSets

ServerStep ==
    \/ ServerIdle
    \/ ServerRequest \/ ServerRequestReceived
    \/ ServerResponse \/ ServerResponseSent
    \/ ServerInitiate \/ ServerInitiateReceived
    \/ ServerBlock \/ ServerBlockSent \/ ServerAckReceived
    \/ ServerDiscards \/ ServerReceiveTimesOut \/ ServerSendTimesOut
    \/ ServerTerminate
=============================================================================
