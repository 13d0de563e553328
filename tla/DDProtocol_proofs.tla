-------------------------- MODULE DDProtocol_proofs --------------------------
(* Theorems about DDProtocol, for every value of its constants.            *)
EXTENDS DDProtocol, SequenceTheorems, TLAPS

-----------------------------------------------------------------------------
(* What the helpers of DDBase return.                                      *)

LEMMA TransactionPacketType ==
    ASSUME NEW type \in TransactionTypes \cup {"UNASSIGNED"}, NEW terms \in Config, NEW batch \in Nat
    PROVE  /\ TransactionPacket(type, terms, batch) \in Packets
           /\ TransactionPacket(type, terms, batch).type # "BLOCK_TRANSFER"
BY DEF TransactionPacket, TransactionPackets, Packets, TransactionTypes, WireType, Config

LEMMA BlockPacketType ==
    ASSUME NEW frame \in Nat, NEW last \in BOOLEAN, NEW data \in Seq(Byte), NEW batch \in Nat
    PROVE  /\ BlockPacket(frame, last, data, batch) \in Packets
           /\ BlockPacket(frame, last, data, batch).type = "BLOCK_TRANSFER"
BY DEF BlockPacket, BlockPackets, Packets

(* A received packet of a transaction type has the fields of one.          *)
LEMMA ReceivedTransaction ==
    ASSUME NEW type, type # "BLOCK_TRANSFER", NEW config, NEW channel \in Seq(Packets),
           Receives(type, config, channel)
    PROVE  /\ Head(channel) \in TransactionPackets
           /\ Tail(channel) \in Seq(Packets)
           /\ TermsOf(Head(channel)) \in Config
<1>1. Head(channel) \in Packets /\ Tail(channel) \in Seq(Packets)
  BY HeadTailProperties DEF Receives
<1>2. Head(channel) \in TransactionPackets
  BY <1>1 DEF Receives, Packets, BlockPackets
<1>3. QED
  BY <1>1, <1>2 DEF TermsOf, TransactionPackets, Config

LEMMA ReceivedBlock ==
    ASSUME NEW config, NEW channel \in Seq(Packets),
           Receives("BLOCK_TRANSFER", config, channel)
    PROVE  Head(channel) \in BlockPackets /\ Tail(channel) \in Seq(Packets)
<1>1. Head(channel) \in Packets /\ Tail(channel) \in Seq(Packets)
  BY HeadTailProperties DEF Receives
<1>2. QED
  BY <1>1 DEF Receives, Packets, BlockPackets, TransactionPackets, TransactionTypes, WireType

LEMMA PoppedType ==
    ASSUME NEW channel \in Seq(Packets)
    PROVE  Popped(channel) \in Seq(Packets)
BY HeadTailProperties, EmptySeq DEF Popped

LEMMA SendType ==
    ASSUME NEW channel \in Seq(Packets), NEW packet \in Packets
    PROVE  Append(channel, packet) \in Seq(Packets)
BY AppendProperties

LEMMA TimerTypes ==
    ASSUME NEW t \in Timers
    PROVE  /\ Stopped(t) \subseteq Timers
           /\ NotArmed(t) \subseteq Timers
           /\ Started(t) \subseteq Timers
           /\ Fired(t) \subseteq Timers
           /\ ExpiryCleared(t) \in Timers
           /\ Armed \in Timers
<1>1. Armed \in Timers /\ ExpiryCleared(t) \in Timers /\ [t EXCEPT !.pending = FALSE] \in Timers
  BY DEF Timers, ExpiryCleared, Armed
<1>2. Stopped(t) \subseteq Timers
  BY <1>1 DEF Stopped
<1>3. NotArmed(t) \subseteq Timers
  BY <1>2 DEF NotArmed
<1>4. Started(t) \subseteq Timers
  BY <1>1, <1>3 DEF Started
<1>5. Fired(t) \subseteq Timers
  <2>1. \A more \in BOOLEAN : [pending |-> more, expiry |-> TRUE] \in Timers
    BY DEF Timers
  <2>2. QED
    BY <1>1, <2>1 DEF Fired
<1>6. QED
  BY <1>1, <1>2, <1>3, <1>4, <1>5

LEMMA NegotiatedType ==
    ASSUME NEW terms \in Config
    PROVE  Negotiated(terms) \in Config
BY ConfigAssumption DEF Negotiated, Config, MinOf, MaxOf

LEMMA PayloadType == ServerPayload \in Nat
BY ConfigAssumption DEF ServerPayload, Config, BlockHeaderSize

(* A storage read returns bytes, at most as many as were asked for.        *)
LEMMA StorageReadType ==
    ASSUME NEW n \in Nat
    PROVE  /\ StorageRead(n) \in Seq(Byte)
           /\ Len(StorageRead(n)) = MinOf(n, Len(Storage))
<1>1. Storage \in Seq(Byte) /\ Len(Storage) \in Nat
  BY SizeAssumption, LenProperties
<1>2. MinOf(n, Len(Storage)) \in 0..Len(Storage)
  BY <1>1 DEF MinOf
<1>3. \A i \in 1..MinOf(n, Len(Storage)) : Storage[i] \in Byte
  BY <1>1, <1>2, ElementOfSeq
<1>4. QED
  BY <1>2, <1>3, SubSeqProperties DEF StorageRead

LEMMA BatchType ==
    ASSUME NEW terms \in Config
    PROVE  /\ BatchOf(terms) \in Seq(Byte)
           /\ Len(BatchOf(terms)) <= ServerPayload * terms.blocks
<1>1. terms.blocks \in Nat /\ ServerPayload * terms.blocks \in Nat
  BY PayloadType DEF Config
<1>2. Len(Storage) \in Nat
  BY SizeAssumption, LenProperties
<1>3. \A n \in Nat : StorageRead(n) \in Seq(Byte) /\ Len(StorageRead(n)) <= n
  BY <1>2, StorageReadType, SMTT(30) DEF MinOf
<1>4. QED
  BY <1>1, <1>3 DEF BatchOf

(* Cutting a frame off the buffer loses no byte.                           *)
LEMMA CutType ==
    ASSUME NEW buffer \in Seq(Byte)
    PROVE  /\ FrameSize(buffer) \in Nat
           /\ FrameData(buffer) \in Seq(Byte) /\ Len(FrameData(buffer)) = FrameSize(buffer)
           /\ Remaining(buffer) \in Seq(Byte) /\ Len(Remaining(buffer)) = Len(buffer) - FrameSize(buffer)
<1> DEFINE size == FrameSize(buffer)
<1>1. size \in Nat /\ Len(buffer) \in Nat /\ size <= Len(buffer)
  BY PayloadType, LenProperties DEF FrameSize, MinOf
<1>2. \A i \in 1..Len(buffer) : buffer[i] \in Byte
  BY ElementOfSeq
<1>3. FrameData(buffer) \in Seq(Byte) /\ Len(FrameData(buffer)) = size
  <2>1. \A i \in 1..size : buffer[i] \in Byte
    BY <1>1, <1>2
  <2>2. QED
    BY <1>1, <2>1, SubSeqProperties DEF FrameData
<1>4. Remaining(buffer) \in Seq(Byte) /\ Len(Remaining(buffer)) = Len(buffer) - size
  <2>1. \A i \in size + 1 .. Len(buffer) : buffer[i] \in Byte
    BY <1>1, <1>2
  <2>2. QED
    BY <1>1, <2>1, SubSeqProperties DEF Remaining
<1>5. QED
  BY <1>1, <1>3, <1>4
-----------------------------------------------------------------------------
(* Type correctness, one side at a time.                                   *)

LEMMA ServerStepType ==
    ASSUME ServerTypeOK, ChannelsTypeOK, ServerStep
    PROVE  ServerTypeOK' /\ ChannelsTypeOK'
<1> USE DEF ServerTypeOK, callVars, ChannelsTypeOK, ServerEnters, ServerLeaves, channels, FSMStates
<1>0. NoTerms \in Config /\ ServerPayload \in Nat /\ <<>> \in Seq(Byte)
  BY PayloadType, EmptySeq DEF NoTerms, Config
<1>C. ServerCleanup => srvTimer' \in Timers /\ srvTerms' \in Config /\ srvBuffer' \in Seq(Byte)
                       /\ srvSuccess' \in BOOLEAN
  BY <1>0, TimerTypes DEF ServerCleanup
<1>1. CASE ServerIdle
  BY <1>1, <1>C DEF ServerIdle
<1>2. CASE ServerRequest
  BY <1>2 DEF ServerRequest
<1>3. CASE ServerRequestReceived
  <2>1. srvTerms' \in Config /\ inChannel' \in Seq(Packets)
    BY <1>3, ReceivedTransaction DEF ServerRequestReceived
  <2>2. QED
    BY <1>3, <2>1, TimerTypes DEF ServerRequestReceived
<1>4. CASE ServerResponse
  <2>1. Negotiated(srvTerms) \in Config
    BY NegotiatedType
  <2>2. BatchOf(Negotiated(srvTerms)) \in Seq(Byte)
    BY <2>1, BatchType
  <2>3. TransactionPacket("RESPONSE", Negotiated(srvTerms), 0) \in Packets
    BY <2>1, TransactionPacketType DEF TransactionTypes
  <2>4. QED
    BY <1>4, <2>1, <2>2, <2>3 DEF ServerResponse
<1>5. CASE ServerResponseSent
  <2>1. outChannel' \in Seq(Packets)
    BY <1>5, SendType DEF ServerResponseSent
  <2>2. QED
    BY <1>5, <2>1, TimerTypes DEF ServerResponseSent
<1>6. CASE ServerInitiate
  BY <1>6 DEF ServerInitiate
<1>7. CASE ServerInitiateReceived
  <2>1. inChannel' \in Seq(Packets)
    BY <1>7, ReceivedTransaction DEF ServerInitiateReceived
  <2>2. QED
    BY <1>7, <2>1, TimerTypes DEF ServerInitiateReceived, FirstFrame
<1>8. CASE ServerBlock
  <2>1. srvPacket' \in Packets
    <3> DEFINE last == IsLast(srvCounter, Remaining(srvBuffer))
    <3>1. last \in BOOLEAN
      BY DEF IsLast
    <3>2. FrameData(srvBuffer) \in Seq(Byte)
      BY CutType
    <3>3. srvPacket' = BlockPacket(srvCounter, last, FrameData(srvBuffer), srvBatch)
      BY <1>8 DEF ServerBlock
    <3> HIDE DEF last
    <3>4. QED
      BY <3>1, <3>2, <3>3, BlockPacketType
  <2>2. srvBuffer' \in Seq(Byte) /\ srvOffset' \in Nat
    <3>1. FrameSize(srvBuffer) \in Nat /\ Remaining(srvBuffer) \in Seq(Byte)
      BY CutType
    <3>2. srvBuffer' = Remaining(srvBuffer) /\ srvOffset' = srvOffset + FrameSize(srvBuffer)
      BY <1>8 DEF ServerBlock
    <3>3. QED
      BY <3>1, <3>2
  <2>3. QED
    BY <1>8, <2>1, <2>2 DEF ServerBlock
<1>9. CASE ServerBlockSent
  <2>1. outChannel' \in Seq(Packets)
    BY <1>9, SendType DEF ServerBlockSent
  <2>2. QED
    BY <1>9, <2>1, TimerTypes DEF ServerBlockSent
<1>10. CASE ServerAckReceived
  <2>1. inChannel' \in Seq(Packets) /\ Head(inChannel).batch \in Nat
    BY <1>10, ReceivedTransaction, ZenonT(40) DEF ServerAckReceived, TransactionPackets
  <2>2. QED
    BY <1>10, <2>1 DEF ServerAckReceived
<1>11. CASE ServerDiscards
  <2>1. inChannel' \in Seq(Packets)
    BY <1>11, HeadTailProperties DEF ServerDiscards
  <2>2. QED
    BY <1>11, <2>1 DEF ServerDiscards, srvVars, ownVars, callVars
<1>12. CASE ServerReceiveTimesOut
  BY <1>12, PoppedType, TimerTypes DEF ServerReceiveTimesOut
<1>13. CASE ServerSendTimesOut
  BY <1>13, TimerTypes DEF ServerSendTimesOut
<1>14. CASE ServerTerminate
  BY <1>14, <1>C DEF ServerTerminate
<1>15. QED
  BY <1>1, <1>2, <1>3, <1>4, <1>5, <1>6, <1>7, <1>8, <1>9, <1>10, <1>11, <1>12, <1>13, <1>14
     DEF ServerStep
(* The ACK names the batch of the last stored frame, so its type rests on  *)
(* there being one; a transfer is not started while the client is in a     *)
(* loop because it is busy there.                                          *)
ClientInLoop ==
    /\ cliPc # "loop" => cliBusy
    /\ cliPc = "sendAck" => cliBatches # <<>>

LEMMA ClientPacketType ==
    ASSUME ClientTypeOK, ClientInLoop,
           cliPc \in {"sendRequest", "sendInitiate", "sendAck", "sendAckNot"}
    PROVE  ClientPacket \in Packets
<1>1. /\ ClientConfig \in Config /\ cliTerms \in Config
      /\ [NoTerms EXCEPT !.tid = cliTerms.tid] \in Config
  <2>1. ClientConfig \in Config /\ cliTerms \in Config
    BY ConfigAssumption DEF ClientTypeOK
  <2>2. NoTerms \in Config /\ cliTerms.tid \in Nat
    BY <2>1 DEF Config, NoTerms
  <2>3. QED
    BY <2>1, <2>2 DEF Config
<1>2. cliPc = "sendAck" => cliBatches[Len(cliBatches)] \in Nat
  <2> SUFFICES ASSUME cliPc = "sendAck" PROVE cliBatches[Len(cliBatches)] \in Nat
    OBVIOUS
  <2>1. cliBatches \in Seq(Nat) /\ cliBatches # <<>>
    BY DEF ClientTypeOK, ClientInLoop
  <2>2. Len(cliBatches) \in 1..Len(cliBatches)
    BY <2>1, EmptySeq
  <2>3. QED
    BY <2>1, <2>2, ElementOfSeq
<1>3. CASE cliPc = "sendRequest"
  BY <1>1, <1>3, TransactionPacketType DEF ClientPacket, TransactionTypes
<1>4. CASE cliPc = "sendInitiate"
  BY <1>1, <1>4, TransactionPacketType DEF ClientPacket, TransactionTypes
<1>5. CASE cliPc = "sendAck"
  BY <1>1, <1>2, <1>5, TransactionPacketType DEF ClientPacket, TransactionTypes
<1>6. CASE cliPc = "sendAckNot"
  BY <1>1, <1>6, TransactionPacketType DEF ClientPacket, TransactionTypes
<1>7. QED
  BY <1>3, <1>4, <1>5, <1>6

LEMMA ClientStepType ==
    ASSUME ClientTypeOK, ClientInLoop, ChannelsTypeOK, ClientStep
    PROVE  ClientTypeOK' /\ ClientInLoop' /\ ChannelsTypeOK'
<1> USE DEF ClientTypeOK, ClientInLoop, ChannelsTypeOK, ClientEnters, ClientLeaves, channels, FSMStates
<1>0. NoTerms \in Config /\ <<>> \in Seq(Byte)
  BY EmptySeq DEF NoTerms, Config
<1>1. CASE ClientIdle
  BY <1>1 DEF ClientIdle
<1>2. CASE ClientRequest
  BY <1>2, TimerTypes DEF ClientRequest
<1>3. CASE ClientRequestSent
  <2>1. inChannel' \in Seq(Packets)
    BY <1>3, ClientPacketType, SendType DEF ClientRequestSent
  <2>2. QED
    BY <1>3, <2>1, TimerTypes DEF ClientRequestSent
<1>4. CASE ClientResponse
  BY <1>4 DEF ClientResponse
<1>5. CASE ClientResponseReceived
  <2>1. cliTerms' \in Config /\ outChannel' \in Seq(Packets)
    BY <1>5, ReceivedTransaction DEF ClientResponseReceived
  <2>2. QED
    BY <1>5, <2>1, TimerTypes DEF ClientResponseReceived
<1>6. CASE ClientInitiate
  BY <1>6 DEF ClientInitiate
<1>7. CASE ClientInitiateSent
  <2>1. inChannel' \in Seq(Packets)
    BY <1>7, ClientPacketType, SendType DEF ClientInitiateSent
  <2>2. QED
    BY <1>7, <2>1, TimerTypes DEF ClientInitiateSent
<1>8. CASE ClientBlock
  BY <1>8 DEF ClientBlock
<1>9. CASE ClientBlockStored
  <2> DEFINE block == Head(outChannel)
  <2>1. block \in BlockPackets /\ outChannel' \in Seq(Packets)
    BY <1>9, ReceivedBlock DEF ClientBlockStored
  <2>2. block.data \in Seq(Byte) /\ Len(block.data) \in Nat /\ block.batch \in Nat
    BY <2>1, LenProperties DEF BlockPackets
  <2>3. cliReceived' \in Seq(Byte)
    BY <1>9, <2>2, ConcatProperties DEF ClientBlockStored, Stored
  <2>4. cliRoom' \in Nat
    BY <1>9, <2>2 DEF ClientBlockStored, Fits
  <2>5. cliBatches' \in Seq(Nat) /\ cliBatches' # <<>>
    <3>1. cliBatches' = Append(cliBatches, block.batch)
      BY <1>9 DEF ClientBlockStored
    <3>2. Len(cliBatches') = Len(cliBatches) + 1 /\ cliBatches' \in Seq(Nat) /\ Len(cliBatches) \in Nat
      BY <2>2, <3>1, AppendProperties, LenProperties
    <3>3. QED
      BY <3>2, EmptySeq
  <2>6. QED
    BY <1>9, <2>1, <2>3, <2>4, <2>5, TimerTypes DEF ClientBlockStored
<1>10. CASE ClientBlockRefused
  <2>1. outChannel' \in Seq(Packets)
    BY <1>10, ReceivedBlock DEF ClientBlockRefused
  <2>2. QED
    BY <1>10, <2>1, TimerTypes DEF ClientBlockRefused
<1>11. CASE ClientAckSent
  <2>1. inChannel' \in Seq(Packets)
    BY <1>11, ClientPacketType, SendType DEF ClientAckSent
  <2>2. QED
    BY <1>11, <2>1 DEF ClientAckSent
<1>12. CASE ClientAckNotSent
  <2>1. inChannel' \in Seq(Packets)
    BY <1>12, ClientPacketType, SendType DEF ClientAckNotSent
  <2>2. QED
    BY <1>12, <2>1 DEF ClientAckNotSent
<1>13. CASE ClientDiscards
  <2>1. outChannel' \in Seq(Packets)
    BY <1>13, HeadTailProperties DEF ClientDiscards
  <2>2. QED
    BY <1>13, <2>1 DEF ClientDiscards, cliVars
<1>14. CASE ClientResponseTimesOut
  BY <1>14, PoppedType, TimerTypes DEF ClientResponseTimesOut
<1>15. CASE ClientBlockTimesOut
  BY <1>15, PoppedType, TimerTypes DEF ClientBlockTimesOut
<1>16. CASE ClientSendTimesOut
  BY <1>16, TimerTypes DEF ClientSendTimesOut
<1>17. CASE ClientTerminate
  BY <1>17, <1>0, TimerTypes DEF ClientTerminate, ClientCleanup
<1>18. QED
  BY <1>1, <1>2, <1>3, <1>4, <1>5, <1>6, <1>7, <1>8, <1>9, <1>10, <1>11, <1>12, <1>13, <1>14,
     <1>15, <1>16, <1>17 DEF ClientStep

(* The calls of the application change nothing of the server but its next  *)
(* state.                                                                  *)
LEMMA CallsLeave ==
    ASSUME CallsServer
    PROVE  UNCHANGED <<ownVars, channels>> /\ srvNext' \in {srvNext, "REQUEST", "IDLE"}
BY DEF CallsServer, StartServerChecks, StartServerSets, StopServerChecks, StopServerSets, SetsNext

LEMMA AppNextType ==
    ASSUME TypeOK, ClientInLoop, AppNext
    PROVE  TypeOK' /\ ClientInLoop'
<1> USE DEF TypeOK, ServerTypeOK, ClientTypeOK, ChannelsTypeOK, ClientInLoop, channels, FSMStates
<1>1. CASE CallsServer /\ UNCHANGED cliVars
  <2>1. /\ srvCall' \in {"none", "start", "stop"}
        /\ starts' \in 0..MaxStarts /\ stops' \in 0..MaxStops
    BY <1>1, SizeAssumption DEF CallsServer, StartServerChecks, StartServerSets, StopServerChecks,
       StopServerSets
  <2>2. srvNext' \in FSMStates
    BY <1>1, CallsLeave
  <2>3. ServerTypeOK'
    BY <1>1, <2>1, <2>2, CallsLeave DEF ownVars
  <2>4. ClientTypeOK' /\ ClientInLoop' /\ ChannelsTypeOK'
    BY <1>1, CallsLeave DEF cliVars
  <2>5. QED
    BY <2>3, <2>4
<1>2. CASE StartNewTransfer /\ UNCHANGED srvVars
  <2>1. <<>> \in Seq(Byte) /\ <<>> \in Seq(Nat)
    BY EmptySeq
  <2>2. QED
    BY <1>2, <2>1, SizeAssumption DEF StartNewTransfer, srvVars, ownVars, callVars
<1>3. QED
  BY <1>1, <1>2 DEF AppNext

LEMMA TimerFiresType ==
    ASSUME TypeOK, ClientInLoop, ServerTimerFires \/ ClientTimerFires
    PROVE  TypeOK' /\ ClientInLoop'
<1> USE DEF TypeOK, ServerTypeOK, ClientTypeOK, ChannelsTypeOK, ClientInLoop, channels
<1>1. CASE ServerTimerFires
  BY <1>1, TimerTypes DEF ServerTimerFires, callVars, cliVars
<1>2. CASE ClientTimerFires
  BY <1>2, TimerTypes DEF ClientTimerFires, srvVars, ownVars, callVars
<1>3. QED
  BY <1>1, <1>2

LEMMA InitType == Init => TypeOK /\ ClientInLoop
<1>1. <<>> \in Seq(Byte) /\ <<>> \in Seq(Nat) /\ <<>> \in Seq(Packets)
  BY EmptySeq
<1>2. NoTerms \in Config /\ NewTimer \in Timers
  BY DEF NoTerms, Config, NewTimer, Timers
<1>3. NoPacket \in Packets
  BY <1>2, TransactionPacketType DEF NoPacket
<1>4. ServerInit => ServerTypeOK
  <2> SUFFICES ASSUME ServerInit PROVE ServerTypeOK
    OBVIOUS
  <2>1. srvTimer \in Timers /\ srvTerms \in Config /\ srvPacket \in Packets /\ srvBuffer \in Seq(Byte)
    BY <1>1, <1>2, <1>3 DEF ServerInit
  <2>2. srvCurrent \in FSMStates /\ srvNext \in FSMStates
    BY DEF ServerInit, FSMStates
  <2>3. srvCall = "none" /\ starts \in 0..MaxStarts /\ stops \in 0..MaxStops
    BY SizeAssumption DEF ServerInit
  <2>4. srvBusy \in BOOLEAN /\ srvSuccess \in BOOLEAN
    BY DEF ServerInit
  <2>5. srvPc = "loop" /\ srvOffset \in Nat /\ srvCounter \in Nat /\ srvBatch \in Nat /\ srvAcked \in Nat
    BY DEF ServerInit
  <2>6. QED
    BY <2>1, <2>2, <2>3, <2>4, <2>5 DEF ServerTypeOK
<1>5. ClientInit => ClientTypeOK /\ ClientInLoop
  <2> SUFFICES ASSUME ClientInit PROVE ClientTypeOK /\ ClientInLoop
    OBVIOUS
  <2>1. cliTimer \in Timers /\ cliTerms \in Config /\ cliReceived \in Seq(Byte) /\ cliBatches \in Seq(Nat)
    BY <1>1, <1>2 DEF ClientInit
  <2>2. cliCurrent \in FSMStates /\ cliNext \in FSMStates
    BY DEF ClientInit, FSMStates
  <2>3. transfers \in 0..MaxTransfers
    BY SizeAssumption DEF ClientInit
  <2>4. cliBusy \in BOOLEAN /\ cliSuccess \in BOOLEAN
    BY DEF ClientInit
  <2>5. cliPc = "loop" /\ cliRoom \in Nat /\ transfer = "none"
    BY DEF ClientInit
  <2>6. ClientInLoop
    BY <2>5 DEF ClientInLoop
  <2>7. QED
    BY <2>1, <2>2, <2>3, <2>4, <2>5, <2>6 DEF ClientTypeOK
<1>6. QED
  BY <1>1, <1>4, <1>5 DEF Init, ChannelsInit, TypeOK, ChannelsTypeOK

LEMMA NextType ==
    ASSUME TypeOK, ClientInLoop, [Next]_vars
    PROVE  TypeOK' /\ ClientInLoop'
<1>1. CASE ServerNext
  BY <1>1, ServerStepType DEF ServerNext, TypeOK, ClientTypeOK, ClientInLoop, cliVars
<1>2. CASE ClientNext
  BY <1>2, ClientStepType DEF ClientNext, TypeOK, ServerTypeOK, srvVars, ownVars, callVars
<1>3. CASE AppNext
  BY <1>3, AppNextType
<1>4. CASE ServerTimerFires \/ ClientTimerFires
  BY <1>4, TimerFiresType
<1>5. CASE UNCHANGED vars
  BY <1>5 DEF TypeOK, ServerTypeOK, ClientTypeOK, ChannelsTypeOK, ClientInLoop, vars, srvVars, ownVars, callVars, cliVars,
              channels
<1>6. QED
  BY <1>1, <1>2, <1>3, <1>4, <1>5 DEF Next

(* Every variable keeps its type, for all configurations, queue sizes and  *)
(* timer behaviours.                                                       *)
THEOREM TypeCorrect == Spec => []TypeOK
<1>1. Init => TypeOK /\ ClientInLoop
  BY InitType
<1>2. (TypeOK /\ ClientInLoop) /\ [Next]_vars => (TypeOK /\ ClientInLoop)'
  BY NextType
<1>3. QED
  BY <1>1, <1>2, PTL DEF Spec
=============================================================================
