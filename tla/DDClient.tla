------------------------------ MODULE DDClient ------------------------------
(***************************************************************************)
(* DDClient::FSMLoop, called for ever by clientTaskloop, and the calls of  *)
(* startNewTransfer of the application.  The grain is that of DDServer.    *)
(***************************************************************************)
EXTENDS DDBase

VARIABLES
    cliCurrent,   \* currentState
    cliNext,      \* nextState
    cliBusy,      \* isBusy
    cliPc,        \* where the FSM thread is: "loop" or the do-while loop it is in
    cliTimer,     \* stateTransitionTimerHandle
    cliTerms,     \* serverConfig, the terms of the RESPONSE
    cliReceived,  \* the bytes stored in the application's buffer
    cliRoom,      \* internalBufferLen, the bytes left in that buffer
    cliSuccess,   \* isTransferSuccess
    cliBatches,   \* history: the batches the stored frames were cut from
    transfer,     \* the application: "none", "running", or what clientNotify last said
    transfers     \* history: transfers started

cliVars == <<cliCurrent, cliNext, cliBusy, cliPc, cliTimer, cliTerms, cliReceived, cliRoom,
             cliSuccess, cliBatches, transfer, transfers>>

ClientTypeOK ==
    /\ cliCurrent \in FSMStates
    /\ cliNext \in FSMStates
    /\ cliBusy \in BOOLEAN
    /\ cliPc \in {"loop", "sendRequest", "recvResponse", "sendInitiate", "recvBlock", "sendAck",
                  "sendAckNot"}
    /\ cliTimer \in Timers
    /\ cliTerms \in Config
    /\ cliReceived \in Seq(Byte)
    /\ cliRoom \in Nat
    /\ cliSuccess \in BOOLEAN
    /\ cliBatches \in Seq(Nat)
    /\ transfer \in {"none", "running", "success", "failure"}
    /\ transfers \in 0..MaxTransfers

ClientInit ==
    /\ cliCurrent = "IDLE" /\ cliNext = "IDLE"
    /\ cliBusy = FALSE
    /\ cliPc = "loop"
    /\ cliTimer = NewTimer
    /\ cliTerms = NoTerms
    /\ cliReceived = <<>>
    /\ cliRoom = 0
    /\ cliSuccess = FALSE
    /\ cliBatches = <<>>
    /\ transfer = "none"
    /\ transfers = 0

(* The packet of each send loop, with what it takes from the terms.        *)
ClientPacket ==
    CASE cliPc = "sendRequest"  -> TransactionPacket("REQUEST", ClientConfig, 0)
      [] cliPc = "sendInitiate" -> TransactionPacket("INITIATE_BLOCK_TRANSFER", cliTerms, 0)
      [] cliPc = "sendAck"      -> TransactionPacket("BLOCK_ACK", [NoTerms EXCEPT !.tid = cliTerms.tid],
                                                     cliBatches[Len(cliBatches)])
      [] cliPc = "sendAckNot"   -> TransactionPacket("BLOCK_ACKNOT", [NoTerms EXCEPT !.tid = cliTerms.tid], 0)

-----------------------------------------------------------------------------
(* The application's call.  It is made only after the last transfer was    *)
(* notified, and is refused while the client is busy.                      *)
StartNewTransfer ==
    /\ transfers < MaxTransfers
    /\ transfer # "running"
    /\ ~cliBusy
    /\ cliReceived' = <<>>
    /\ cliRoom' = ClientBufferSize
    /\ cliBatches' = <<>>
    /\ cliNext' = "REQUEST"
    /\ transfer' = "running"
    /\ transfers' = transfers + 1
    /\ UNCHANGED <<cliCurrent, cliBusy, cliPc, cliTimer, cliTerms, cliSuccess, channels>>

-----------------------------------------------------------------------------
ClientEnters(state) ==
    /\ cliPc = "loop"
    /\ cliNext = state
    /\ cliCurrent' = state
    /\ cliBusy' = (state # "IDLE")

ClientLeaves(next) ==
    /\ cliPc' = "loop"
    /\ cliNext' = next
    /\ UNCHANGED <<cliCurrent, cliBusy>>

ClientIdle ==
    /\ ClientEnters("IDLE")
    /\ UNCHANGED <<cliNext, cliPc, cliTimer, cliTerms, cliReceived, cliRoom, cliSuccess, cliBatches,
                   transfer, transfers, channels>>

(* Without its timer the client does not send the request.                 *)
ClientRequest ==
    /\ ClientEnters("REQUEST")
    /\ \/ cliTimer' = Armed /\ cliPc' = "sendRequest" /\ cliNext' = cliNext
       \/ cliTimer' \in NotArmed(cliTimer) /\ cliPc' = "loop" /\ cliNext' = "TERMINATE"
    /\ UNCHANGED <<cliTerms, cliReceived, cliRoom, cliSuccess, cliBatches, transfer, transfers, channels>>

ClientRequestSent ==
    /\ cliPc = "sendRequest"
    /\ CanSend(ClientPacket, ClientConfig, inChannel)
    /\ inChannel' = Append(inChannel, ClientPacket)
    /\ cliTimer' \in Started(cliTimer)
    /\ ClientLeaves("RESPONSE")
    /\ UNCHANGED <<cliTerms, cliReceived, cliRoom, cliSuccess, cliBatches, transfer, transfers, outChannel>>

ClientResponse ==
    /\ ClientEnters("RESPONSE")
    /\ cliPc' = "recvResponse"
    /\ UNCHANGED <<cliNext, cliTimer, cliTerms, cliReceived, cliRoom, cliSuccess, cliBatches,
                   transfer, transfers, channels>>

ClientResponseReceived ==
    /\ cliPc = "recvResponse"
    /\ Receives("RESPONSE", ClientConfig, outChannel)
    /\ cliTerms' = TermsOf(Head(outChannel))
    /\ outChannel' = Tail(outChannel)
    /\ cliTimer' \in Started(cliTimer)
    /\ ClientLeaves("INITIATE_BLOCK")
    /\ UNCHANGED <<cliReceived, cliRoom, cliSuccess, cliBatches, transfer, transfers, inChannel>>

(* The terms are declined only for the transaction id 0.                   *)
ClientInitiate ==
    /\ ClientEnters("INITIATE_BLOCK")
    /\ IF cliTerms.tid # 0
       THEN cliPc' = "sendInitiate" /\ cliNext' = cliNext
       ELSE cliPc' = "loop" /\ cliNext' = "TERMINATE"
    /\ UNCHANGED <<cliTimer, cliTerms, cliReceived, cliRoom, cliSuccess, cliBatches, transfer,
                   transfers, channels>>

ClientInitiateSent ==
    /\ cliPc = "sendInitiate"
    /\ CanSend(ClientPacket, ClientConfig, inChannel)
    /\ inChannel' = Append(inChannel, ClientPacket)
    /\ cliTimer' \in Started(cliTimer)
    /\ ClientLeaves("BLOCK")
    /\ UNCHANGED <<cliTerms, cliReceived, cliRoom, cliSuccess, cliBatches, transfer, transfers, outChannel>>

ClientBlock ==
    /\ ClientEnters("BLOCK")
    /\ cliPc' = "recvBlock"
    /\ UNCHANGED <<cliNext, cliTimer, cliTerms, cliReceived, cliRoom, cliSuccess, cliBatches,
                   transfer, transfers, channels>>

(* The frame has data (else getBuffer is NULL) and the buffer has room.    *)
FitsStrictly(block) == Len(block.data) \in 1..cliRoom - 1
FitsAlways(block) == block.data # <<>>
Fits(block) == Len(block.data) \in 1..cliRoom

StoredOver(data) == data
Stored(data) == cliReceived \o data

(* A frame that fits the rest of the buffer is stored behind the others,   *)
(* whatever its frame number.                                              *)
ClientBlockStored ==
    /\ cliPc = "recvBlock"
    /\ Receives("BLOCK_TRANSFER", ClientConfig, outChannel)
    /\ outChannel' = Tail(outChannel)
    /\ LET block == Head(outChannel)
       IN  /\ Fits(block)
           /\ cliReceived' = Stored(block.data)
           /\ cliRoom' = cliRoom - Len(block.data)
           /\ cliBatches' = Append(cliBatches, block.batch)
           /\ IF block.last
              THEN cliPc' = "sendAck" /\ UNCHANGED <<cliCurrent, cliNext, cliBusy>>
              ELSE ClientLeaves("BLOCK")
    /\ cliTimer' \in Started(cliTimer)
    /\ UNCHANGED <<cliTerms, cliSuccess, transfer, transfers, inChannel>>

ClientBlockRefused ==
    /\ cliPc = "recvBlock"
    /\ Receives("BLOCK_TRANSFER", ClientConfig, outChannel)
    /\ ~Fits(Head(outChannel))
    /\ outChannel' = Tail(outChannel)
    /\ cliPc' = "sendAckNot"
    /\ cliTimer' \in Started(cliTimer)
    /\ UNCHANGED <<cliCurrent, cliNext, cliBusy, cliTerms, cliReceived, cliRoom, cliSuccess,
                   cliBatches, transfer, transfers, inChannel>>

ClientAckSent ==
    /\ cliPc = "sendAck"
    /\ CanSend(ClientPacket, ClientConfig, inChannel)
    /\ inChannel' = Append(inChannel, ClientPacket)
    /\ cliSuccess' = TRUE
    /\ ClientLeaves("TERMINATE")
    /\ UNCHANGED <<cliTimer, cliTerms, cliReceived, cliRoom, cliBatches, transfer, transfers, outChannel>>

ClientAckNotSent ==
    /\ cliPc = "sendAckNot"
    /\ CanSend(ClientPacket, ClientConfig, inChannel)
    /\ inChannel' = Append(inChannel, ClientPacket)
    /\ ClientLeaves("TERMINATE")
    /\ UNCHANGED <<cliTimer, cliTerms, cliReceived, cliRoom, cliSuccess, cliBatches, transfer,
                   transfers, outChannel>>

ClientAwaits == [recvResponse |-> "RESPONSE", recvBlock |-> "BLOCK_TRANSFER"]

ClientDiscards ==
    /\ cliPc \in DOMAIN ClientAwaits
    /\ outChannel # <<>>
    /\ ~Receives(ClientAwaits[cliPc], ClientConfig, outChannel)
    /\ ReadsNotExpired(cliTimer)
    /\ outChannel' = Tail(outChannel)
    /\ UNCHANGED <<cliVars, inChannel>>

ClientResponseTimesOutUnnotified ==
    /\ cliPc = "recvResponse"
    /\ ~Receives("RESPONSE", ClientConfig, outChannel)
    /\ ReadsExpired(cliTimer)
    /\ outChannel' = Popped(outChannel)
    /\ cliTimer' = ExpiryCleared(cliTimer)
    /\ ClientLeaves("IDLE")
    /\ UNCHANGED <<cliTerms, cliReceived, cliRoom, cliSuccess, cliBatches, transfer, transfers, inChannel>>

ClientResponseTimesOut ==
    /\ cliPc = "recvResponse"
    /\ ~Receives("RESPONSE", ClientConfig, outChannel)
    /\ ReadsExpired(cliTimer)
    /\ outChannel' = Popped(outChannel)
    /\ cliTimer' = ExpiryCleared(cliTimer)
    /\ ClientLeaves("TERMINATE")
    /\ UNCHANGED <<cliTerms, cliReceived, cliRoom, cliSuccess, cliBatches, transfer, transfers, inChannel>>

(* The two further isExpired calls only choose a log line.                 *)
ClientBlockTimesOut ==
    /\ cliPc = "recvBlock"
    /\ ~Receives("BLOCK_TRANSFER", ClientConfig, outChannel)
    /\ ReadsExpired(cliTimer)
    /\ outChannel' = Popped(outChannel)
    /\ cliPc' = "sendAckNot"
    /\ cliTimer' \in Started(ExpiryCleared(cliTimer))
    /\ UNCHANGED <<cliCurrent, cliNext, cliBusy, cliTerms, cliReceived, cliRoom, cliSuccess,
                   cliBatches, transfer, transfers, inChannel>>

ClientSendTimesOut ==
    /\ cliPc \in {"sendRequest", "sendInitiate", "sendAck", "sendAckNot"}
    /\ ~CanSend(ClientPacket, ClientConfig, inChannel)
    /\ ReadsExpired(cliTimer)
    /\ cliTimer' = ExpiryCleared(cliTimer)
    /\ ClientLeaves("TERMINATE")
    /\ UNCHANGED <<cliTerms, cliReceived, cliRoom, cliSuccess, cliBatches, transfer, transfers, channels>>

(* The client lets go of the application's buffer.                         *)
ClientCleanupKeepsRoom ==
    /\ cliSuccess' = FALSE
    /\ cliTerms' = NoTerms
    /\ cliReceived' = <<>>
    /\ UNCHANGED cliRoom

ClientCleanup ==
    /\ cliSuccess' = FALSE
    /\ cliTerms' = NoTerms
    /\ cliReceived' = <<>>
    /\ cliRoom' = 0

(* clientNotify(isTransferSuccess), then the cleanup.                      *)
ClientTerminate ==
    /\ ClientEnters("TERMINATE")
    /\ cliTimer' \in Stopped(cliTimer)
    /\ transfer' = IF cliSuccess THEN "success" ELSE "failure"
    /\ ClientCleanup
    /\ cliNext' = "IDLE"
    /\ UNCHANGED <<cliPc, cliBatches, transfers, channels>>

ClientStep ==
    \/ ClientIdle
    \/ ClientRequest \/ ClientRequestSent
    \/ ClientResponse \/ ClientResponseReceived
    \/ ClientInitiate \/ ClientInitiateSent
    \/ ClientBlock \/ ClientBlockStored \/ ClientBlockRefused
    \/ ClientAckSent \/ ClientAckNotSent
    \/ ClientDiscards \/ ClientResponseTimesOut \/ ClientBlockTimesOut \/ ClientSendTimesOut
    \/ ClientTerminate
=============================================================================
