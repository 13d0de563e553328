-------------------------- MODULE DDTransfer_proofs --------------------------
(* Theorems about the transfers of the client and the application's        *)
(* buffer, for every value of the constants of DDProtocol.                 *)
EXTENDS DDProtocol_proofs

-----------------------------------------------------------------------------
(* A client in a do-while loop has work to do: whatever ends the loop, it  *)
(* leaves for a state that is not IDLE, and comes from one.                *)
LoopHasNext == cliPc # "loop" => cliNext # "IDLE"

TInv == TypeOK /\ ClientInLoop /\ LoopHasNext /\ NotifiedOnce /\ BufferAccounted

(* The steps that leave the application's buffer alone move the client     *)
(* from a state that is not IDLE to another one.                           *)
LEMMA StillRunning ==
    ASSUME LoopHasNext, NotifiedOnce, BufferAccounted,
           cliNext # "IDLE", cliNext' # "IDLE",
           UNCHANGED <<cliReceived, cliRoom, transfer>>
    PROVE  LoopHasNext' /\ NotifiedOnce' /\ BufferAccounted'
BY DEF LoopHasNext, NotifiedOnce, BufferAccounted

(* A stored frame takes from the room what it adds to the bytes.           *)
LEMMA StoredAccounted ==
    ASSUME TypeOK, LoopHasNext, NotifiedOnce, BufferAccounted, ClientBlockStored
    PROVE  LoopHasNext' /\ NotifiedOnce' /\ BufferAccounted'
<1> DEFINE block == Head(outChannel)
<1>1. block \in BlockPackets
  BY ReceivedBlock DEF ClientBlockStored, TypeOK, ChannelsTypeOK
<1>2. block.data \in Seq(Byte) /\ Len(block.data) \in Nat
  BY <1>1, LenProperties DEF BlockPackets
<1>3. /\ cliReceived' = cliReceived \o block.data
      /\ cliRoom' = cliRoom - Len(block.data)
      /\ UNCHANGED transfer
  BY DEF ClientBlockStored, Stored
<1>4. cliNext # "IDLE" /\ cliNext' # "IDLE"
  BY DEF ClientBlockStored, LoopHasNext, ClientLeaves
<1>5. cliReceived \in Seq(Byte) /\ cliRoom \in Nat /\ Len(cliReceived) \in Nat
  BY LenProperties DEF TypeOK, ClientTypeOK
<1>6. Len(cliReceived') = Len(cliReceived) + Len(block.data)
  BY <1>2, <1>3, <1>5, ConcatProperties
<1>7. transfer = "running" /\ transfer' = "running"
  BY <1>3, <1>4 DEF NotifiedOnce
<1>8. Len(cliReceived) + cliRoom = ClientBufferSize
  BY <1>7 DEF BufferAccounted
<1>9. Len(cliReceived') + cliRoom' = ClientBufferSize
  BY <1>2, <1>3, <1>5, <1>6, <1>8
<1>10. QED
  BY <1>4, <1>7, <1>9 DEF LoopHasNext, NotifiedOnce, BufferAccounted

LEMMA ClientTransfer ==
    ASSUME TInv, ClientStep
    PROVE  LoopHasNext' /\ NotifiedOnce' /\ BufferAccounted'
<1>0. LoopHasNext /\ NotifiedOnce /\ BufferAccounted /\ TypeOK
  BY DEF TInv
<1> USE DEF ClientEnters, ClientLeaves
<1>1. CASE ClientIdle
  BY <1>0, <1>1 DEF ClientIdle, LoopHasNext, NotifiedOnce, BufferAccounted
<1>2. CASE ClientRequest \/ ClientResponse \/ ClientInitiate \/ ClientBlock
  <2>1. cliNext # "IDLE" /\ cliNext' # "IDLE" /\ UNCHANGED <<cliReceived, cliRoom, transfer>>
    BY <1>2 DEF ClientRequest, ClientResponse, ClientInitiate, ClientBlock
  <2>2. QED
    BY <1>0, <2>1, StillRunning
<1>3. CASE ClientRequestSent \/ ClientResponseReceived \/ ClientInitiateSent
  <2>1. cliNext # "IDLE" /\ cliNext' # "IDLE" /\ UNCHANGED <<cliReceived, cliRoom, transfer>>
    BY <1>0, <1>3 DEF ClientRequestSent, ClientResponseReceived, ClientInitiateSent, LoopHasNext
  <2>2. QED
    BY <1>0, <2>1, StillRunning
<1>4. CASE ClientBlockStored
  BY <1>0, <1>4, StoredAccounted
<1>5. CASE ClientBlockRefused \/ ClientAckSent \/ ClientAckNotSent
  <2>1. cliNext # "IDLE" /\ cliNext' # "IDLE" /\ UNCHANGED <<cliReceived, cliRoom, transfer>>
    BY <1>0, <1>5 DEF ClientBlockRefused, ClientAckSent, ClientAckNotSent, LoopHasNext
  <2>2. QED
    BY <1>0, <2>1, StillRunning
<1>6. CASE ClientDiscards
  BY <1>0, <1>6 DEF ClientDiscards, cliVars, LoopHasNext, NotifiedOnce, BufferAccounted
<1>7. CASE ClientResponseTimesOut \/ ClientBlockTimesOut \/ ClientSendTimesOut
  <2>1. cliNext # "IDLE" /\ cliNext' # "IDLE" /\ UNCHANGED <<cliReceived, cliRoom, transfer>>
    BY <1>0, <1>7 DEF ClientResponseTimesOut, ClientBlockTimesOut, ClientSendTimesOut, LoopHasNext
  <2>2. QED
    BY <1>0, <2>1, StillRunning
<1>8. CASE ClientTerminate
  BY <1>0, <1>8 DEF ClientTerminate, ClientCleanup, LoopHasNext, NotifiedOnce, BufferAccounted
<1>9. QED
  BY <1>1, <1>2, <1>3, <1>4, <1>5, <1>6, <1>7, <1>8 DEF ClientStep

LEMMA TInvInductive ==
    /\ Init => TInv
    /\ TInv /\ [Next]_vars => TInv'
<1>1. Init => TInv
  <2> SUFFICES ASSUME Init PROVE TInv
    OBVIOUS
  <2>1. cliPc = "loop" /\ cliNext = "IDLE" /\ transfer = "none" /\ cliReceived = <<>> /\ cliRoom = 0
    BY DEF Init, ClientInit
  <2>2. QED
    BY <2>1, InitType DEF TInv, LoopHasNext, NotifiedOnce, BufferAccounted
<1>2. ASSUME TInv, [Next]_vars PROVE TInv'
  <2>1. TypeOK' /\ ClientInLoop'
    BY <1>2, NextType DEF TInv
  <2>2. CASE ClientNext
    BY <1>2, <2>1, <2>2, ClientTransfer DEF ClientNext, TInv
  <2>3. CASE StartNewTransfer
    <3>1. /\ transfer' = "running" /\ cliNext' = "REQUEST"
          /\ cliReceived' = <<>> /\ cliRoom' = ClientBufferSize
      BY <2>3 DEF StartNewTransfer
    <3>2. Len(cliReceived') + cliRoom' = ClientBufferSize
      BY <3>1, SizeAssumption, EmptySeq
    <3>3. QED
      BY <2>1, <3>1, <3>2 DEF TInv, LoopHasNext, NotifiedOnce, BufferAccounted
  <2>4. CASE UNCHANGED <<cliPc, cliNext, transfer, cliReceived, cliRoom>>
    BY <1>2, <2>1, <2>4 DEF TInv, LoopHasNext, NotifiedOnce, BufferAccounted
  <2>5. \/ ClientNext \/ StartNewTransfer
        \/ UNCHANGED <<cliPc, cliNext, transfer, cliReceived, cliRoom>>
    BY <1>2 DEF Next, ServerNext, AppNext, ServerTimerFires, ClientTimerFires, vars, cliVars
  <2>6. QED
    BY <2>2, <2>3, <2>4, <2>5
<1>3. QED
  BY <1>1, <1>2

(* Every transfer that was accepted is notified, and notified once: the    *)
(* client is out of IDLE exactly while the application waits, whatever     *)
(* expires, is refused or is left over (DDClient.cpp:14-364).              *)
THEOREM EachTransferNotified == Spec => []NotifiedOnce
<1>1. TInv => NotifiedOnce
  BY DEF TInv
<1>2. QED
  BY <1>1, TInvInductive, PTL DEF Spec

(* The bytes stored and the room left are the application's buffer, so     *)
(* that no frame is stored behind its end (DDClient.cpp:229-242).          *)
THEOREM NothingBehindBuffer == Spec => []BufferAccounted
<1>1. TInv => BufferAccounted
  BY DEF TInv
<1>2. QED
  BY <1>1, TInvInductive, PTL DEF Spec

-----------------------------------------------------------------------------
(* A server nobody disturbs: one startServer, in IDLE, and no stopServer.  *)
WithinTransaction == {"RESPONSE", "INITIATE_BLOCK", "BLOCK"}

NotYetStarted == srvPc = "loop" /\ srvNext = "IDLE" /\ srvCurrent = "IDLE"

EndsItself ==
    /\ srvCall = "none" \/ (srvCall = "start" /\ starts # 0)
    /\ starts = 0 \/ srvCall = "start" => NotYetStarted
    /\ srvCurrent \in WithinTransaction /\ srvPc = "loop" => srvNext \notin {"IDLE", "REQUEST"}

EndInv == TypeOK /\ ClientInLoop /\ (starts <= 1 /\ stops = 0 => EndsItself)

LEMMA ServerCallsNone == ServerStep => UNCHANGED callVars
BY DEF ServerStep, ServerIdle, ServerRequest, ServerRequestReceived, ServerResponse,
       ServerResponseSent, ServerInitiate, ServerInitiateReceived, ServerBlock, ServerBlockSent,
       ServerAckReceived, ServerDiscards, ServerReceiveTimesOut, ServerSendTimesOut,
       ServerTerminate, srvVars

(* A step of the FSM thread: into a state, or on to the next one.          *)
LEMMA ServerGoesOn ==
    ASSUME EndsItself, ServerStep
    PROVE  /\ EndsItself'
           /\ srvCurrent \in WithinTransaction => srvCurrent' \notin {"IDLE", "REQUEST"}
<1> USE DEF ServerEnters, ServerLeaves, WithinTransaction
<1>1. UNCHANGED <<srvCall, starts>>
  BY ServerCallsNone DEF callVars
<1>2. CASE ServerIdle
  BY <1>1, <1>2 DEF EndsItself, NotYetStarted, ServerIdle
<1>3. CASE ServerDiscards
  BY <1>1, <1>3 DEF EndsItself, NotYetStarted, ServerDiscards, srvVars, ownVars
<1>4. CASE ServerStep /\ ~ServerIdle /\ ~ServerDiscards
  <2>1. ~NotYetStarted
    <3>1. "loop" \notin {"recvInitiate", "recvAck"} \cup {"sendResponse", "sendBlock"}
      OBVIOUS
    <3>2. QED
      BY <1>4, <3>1
         DEF NotYetStarted, ServerStep, ServerRequest, ServerRequestReceived, ServerResponse,
             ServerResponseSent, ServerInitiate, ServerInitiateReceived, ServerBlock,
             ServerBlockSent, ServerAckReceived, ServerReceiveTimesOut, ServerSendTimesOut,
             ServerTerminate
  <2>2. starts' # 0 /\ srvCall' = "none"
    BY <1>1, <2>1 DEF EndsItself
  <2>3. /\ srvPc' = "loop" => \/ srvNext' \notin {"IDLE", "REQUEST"}
                              \/ srvCurrent' = "TERMINATE"
        /\ srvCurrent' # srvCurrent => srvPc = "loop" /\ srvCurrent' = srvNext
    BY <1>4
       DEF ServerStep, ServerRequest, ServerRequestReceived, ServerResponse, ServerResponseSent,
           ServerInitiate, ServerInitiateReceived, ServerBlock, ServerBlockSent,
           ServerAckReceived, ServerReceiveTimesOut, ServerSendTimesOut, ServerTerminate
  <2>4. QED
    BY <2>2, <2>3 DEF EndsItself
<1>5. QED
  BY <1>2, <1>3, <1>4

(* The one call of startServer finds the server in IDLE.                   *)
LEMMA CallsDisturbNot ==
    ASSUME EndsItself, CallsServer, starts \in Nat, stops \in Nat, starts' <= 1, stops' = 0
    PROVE  EndsItself' /\ srvCurrent' = srvCurrent
<1>1. UNCHANGED <<srvCurrent, srvPc>>
  BY CallsLeave DEF ownVars
<1>2. CASE StartServerChecks
  <2>1. starts = 0 /\ srvCall' = "start" /\ starts' = 1 /\ srvNext' = srvNext
    BY <1>2 DEF StartServerChecks
  <2>2. QED
    BY <1>1, <2>1 DEF EndsItself, NotYetStarted, WithinTransaction
<1>3. CASE StartServerSets
  <2>1. srvCall = "start" /\ srvCall' = "none" /\ starts' = starts
    BY <1>3 DEF StartServerSets
  <2>2. QED
    BY <1>1, <2>1 DEF EndsItself, NotYetStarted, WithinTransaction
<1>4. ~StopServerChecks /\ ~StopServerSets
  BY DEF StopServerChecks, StopServerSets, EndsItself
<1>5. QED
  BY <1>2, <1>3, <1>4 DEF CallsServer

EndsProperly ==
    srvCurrent \in WithinTransaction /\ srvCurrent' \in {"IDLE", "REQUEST"} => starts > 1 \/ stops > 0

LEMMA EndInvInductive ==
    /\ Init => EndInv
    /\ EndInv /\ [Next]_vars => EndInv' /\ [EndsProperly]_vars
<1>1. ASSUME Init PROVE EndInv
  BY <1>1, InitType DEF Init, ServerInit, EndInv, EndsItself, NotYetStarted, WithinTransaction
<1>2. ASSUME EndInv, [Next]_vars PROVE EndInv' /\ [EndsProperly]_vars
  <2>1. TypeOK' /\ ClientInLoop' /\ starts \in Nat /\ stops \in Nat
    BY <1>2, NextType, SizeAssumption DEF EndInv, TypeOK, ServerTypeOK
  <2>2. CASE ServerNext
    <3>1. UNCHANGED <<starts, stops>>
      BY <2>2, ServerCallsNone DEF ServerNext, callVars
    <3>2. QED
      BY <1>2, <2>1, <2>2, <3>1, ServerGoesOn DEF ServerNext, EndInv, EndsProperly
  <2>3. CASE CallsServer
    <3>1. starts' >= starts /\ stops' >= stops
      BY <2>1, <2>3 DEF CallsServer, StartServerChecks, StartServerSets, StopServerChecks, StopServerSets
    <3>2. srvCurrent' = srvCurrent
      BY <2>3, CallsLeave DEF ownVars
    <3>3. ASSUME starts' <= 1, stops' = 0 PROVE EndsItself'
      <4>1. starts' \in Nat /\ stops' \in Nat
        BY <2>1, SizeAssumption DEF TypeOK, ServerTypeOK
      <4>2. starts <= 1 /\ stops = 0
        BY <2>1, <3>1, <3>3, <4>1
      <4>3. QED
        BY <1>2, <2>1, <2>3, <3>3, <4>2, CallsDisturbNot DEF EndInv
    <3>4. QED
      BY <2>1, <3>2, <3>3 DEF EndInv, EndsProperly, WithinTransaction
  <2>4. CASE UNCHANGED <<srvNext, srvCurrent, srvPc, srvCall, starts, stops>>
    BY <1>2, <2>1, <2>4 DEF EndInv, EndsItself, NotYetStarted, EndsProperly, WithinTransaction
  <2>5. \/ ServerNext \/ CallsServer
        \/ UNCHANGED <<srvNext, srvCurrent, srvPc, srvCall, starts, stops>>
    BY <1>2 DEF Next, ClientNext, AppNext, ServerTimerFires, ClientTimerFires, vars, srvVars,
                ownVars, callVars
  <2>6. QED
    BY <2>2, <2>3, <2>4, <2>5
<1>3. QED
  BY <1>1, <1>2

(* No transaction of the server ends without TERMINATE, whatever expires,  *)
(* is refused or is left over, unless there is a second startServer or a   *)
(* stopServer (DDServer.cpp:14-330).                                       *)
THEOREM TransactionsTerminate == Spec => EndsInTerminate
<1>1. QED
  BY EndInvInductive, PTL
     DEF Spec, EndsInTerminate, EndsProperly, WithinTransaction
=============================================================================
