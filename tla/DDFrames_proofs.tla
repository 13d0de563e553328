--------------------------- MODULE DDFrames_proofs ---------------------------
(* Theorems about the terms the two ends settle on and the frames the      *)
(* server cuts, for every value of the constants of DDProtocol.            *)
EXTENDS DDProtocol_proofs

-----------------------------------------------------------------------------
(* Requests carry the client's configuration and responses what the server *)
(* makes of it, those of abandoned transactions too, and every frame has a *)
(* number of seven bits.                                                   *)
FromClient == {packet \in Packets : packet.type = "REQUEST" => TermsOf(packet) = ClientConfig}

FromServer == {packet \in Packets :
    /\ packet.type = "RESPONSE" => TermsOf(packet) = Settled
    /\ packet.type = "BLOCK_TRANSFER" => packet.frame \in 1..127}

ChannelsSettled == inChannel \in Seq(FromClient) /\ outChannel \in Seq(FromServer)

(* The server holds the terms from its RESPONSE to TERMINATE.              *)
InTransaction ==
    \/ srvPc \in {"sendResponse", "recvInitiate", "sendBlock", "recvAck"}
    \/ srvPc = "loop" /\ srvNext \in {"INITIATE_BLOCK", "BLOCK"}

ServerTerms ==
    /\ InTransaction => srvTerms = Settled
    /\ srvCurrent \in {"INITIATE_BLOCK", "BLOCK"} => srvTerms = Settled
    /\ srvPc = "loop" /\ srvNext = "RESPONSE" => srvTerms = ClientConfig
    /\ srvPc = "recvRequest" => srvCurrent = "REQUEST"

(* What is left in the buffer fits the frames that are left.               *)
Left(frames) == Len(srvBuffer) <= ServerPayload * frames

NextFrame == srvCounter \in 1..127 /\ Left(srvTerms.blocks - srvCounter + 1)

ServerFrames ==
    /\ \/ srvPc \in {"sendResponse", "recvInitiate"}
       \/ srvPc = "loop" /\ srvNext = "INITIATE_BLOCK"
       => Left(srvTerms.blocks)
    /\ srvPc = "loop" /\ srvNext = "BLOCK" => NextFrame
    /\ srvPc = "sendResponse" => srvPacket \in FromServer
    /\ srvPc = "sendBlock" => /\ srvPacket \in FromServer
                              /\ srvPacket.last \in BOOLEAN
                              /\ IF srvPacket.last THEN srvBuffer = <<>> ELSE NextFrame
    /\ srvPc = "recvAck" => srvBuffer = <<>>

ClientTerms ==
    /\ cliPc = "loop" /\ cliNext \in {"INITIATE_BLOCK", "BLOCK"} => cliTerms = Settled
    /\ cliCurrent \in {"INITIATE_BLOCK", "BLOCK"} => cliTerms = Settled
    /\ cliPc = "recvResponse" => cliCurrent = "RESPONSE"
    /\ cliPc \in {"sendInitiate", "recvBlock"} => cliCurrent \in {"INITIATE_BLOCK", "BLOCK"}

Typed == TypeOK /\ ClientInLoop

FInv == Typed /\ ChannelsSettled /\ ServerTerms /\ ServerFrames /\ ClientTerms

-----------------------------------------------------------------------------
LEMMA SettledType ==
    /\ Settled \in Config /\ Settled.blocks \in 1..127
    /\ ClientConfig \in Config
<1>1. Settled \in Config /\ ClientConfig \in Config
  BY NegotiatedType, ConfigAssumption DEF Settled
<1>2. Settled.blocks \in 1..127
  BY ConfigAssumption DEF Settled, Negotiated, MinOf, Config
<1>3. QED
  BY <1>1, <1>2

(* The terms of a packet are those it was made with.                       *)
LEMMA TermsTravel ==
    ASSUME NEW type, NEW terms \in Config, NEW batch
    PROVE  TermsOf(TransactionPacket(type, terms, batch)) = terms
BY DEF TermsOf, TransactionPacket, Config

(* A queue passes on what its sender put into it.                          *)
LEMMA QueueKeeps ==
    ASSUME NEW Kind, NEW channel \in Seq(Kind)
    PROVE  /\ channel # <<>> => Head(channel) \in Kind /\ Tail(channel) \in Seq(Kind)
           /\ Popped(channel) \in Seq(Kind)
           /\ \A packet \in Kind : Append(channel, packet) \in Seq(Kind)
BY HeadTailProperties, EmptySeq, AppendProperties DEF Popped

(* A frame leaves room for a full frame less, or nothing; when the number  *)
(* of frames is used up, it leaves nothing.                                *)
LEMMA CutLeaves ==
    ASSUME NEW payload \in Nat, NEW frames \in Int, NEW size \in Nat,
           size <= payload * frames
    PROVE  LET rest == size - MinOf(payload, size)
           IN  /\ rest <= payload * (frames - 1) \/ rest = 0
               /\ frames <= 1 => rest = 0
<1>1. CASE size <= payload
  BY <1>1 DEF MinOf
<1>2. CASE size > payload
  <2>1. MinOf(payload, size) = payload
    BY <1>2 DEF MinOf
  <2>2. payload * (frames - 1) = payload * frames - payload
    OBVIOUS
  <2>3. frames > 1
    <3>1. CASE frames <= 1
      <4>1. payload * (1 - frames) >= 0
        BY <3>1
      <4>2. payload * (1 - frames) = payload - payload * frames
        OBVIOUS
      <4>3. payload * frames \in Int
        OBVIOUS
      <4>4. QED
        BY <1>2, <4>1, <4>2, <4>3
    <3>2. QED
      BY <3>1
  <2>4. payload * frames \in Int
    OBVIOUS
  <2>5. QED
    BY <2>1, <2>2, <2>3, <2>4
<1>3. QED
  BY <1>1, <1>2

-----------------------------------------------------------------------------
(* One step of the server.                                                 *)

LEMMA ConstantTerms ==
    /\ Settled' = Settled /\ FromClient' = FromClient /\ FromServer' = FromServer
    /\ ServerPayload' = ServerPayload
BY DEF Settled, FromClient, FromServer, ServerPayload

LEMMA ServerDataType ==
    ASSUME Typed
    PROVE  srvTerms.blocks \in Nat /\ srvCounter \in Nat /\ srvBuffer \in Seq(Byte)
<1>1. srvTerms \in Config /\ srvCounter \in Nat /\ srvBuffer \in Seq(Byte)
  BY DEF Typed, TypeOK, ServerTypeOK
<1>2. srvTerms.blocks \in 0..255
  BY <1>1 DEF Config
<1>3. srvTerms.blocks \in Nat
  BY <1>2
<1>4. QED
  BY <1>1, <1>3

(* A step that ends the transaction leaves nothing to be shown.            *)
LEMMA EndsTransaction ==
    ASSUME ServerTerms, srvPc' = "loop", srvNext' \in {"IDLE", "REQUEST", "TERMINATE"},
           \/ srvCurrent' \in {"IDLE", "TERMINATE"}
           \/ UNCHANGED <<srvCurrent, srvTerms>>
    PROVE  ServerTerms' /\ ServerFrames'
BY ConstantTerms DEF ServerTerms, ServerFrames, InTransaction

(* A step that enters or leaves a loop for the next one carries the terms  *)
(* and the buffer along.                                                   *)
LEMMA CarriesOn ==
    ASSUME ServerTerms, InTransaction, UNCHANGED <<srvTerms, srvBuffer>>,
           srvPc' \in {"loop", "recvInitiate", "recvAck"}, srvNext' # "RESPONSE",
           /\ \/ srvPc' = "recvInitiate"
              \/ srvPc' = "loop" /\ srvNext' = "INITIATE_BLOCK"
              => Left(srvTerms.blocks)
           /\ srvPc' = "loop" /\ srvNext' = "BLOCK"
              => srvCounter' \in 1..127 /\ Left(srvTerms.blocks - srvCounter' + 1)
           /\ srvPc' = "recvAck" => srvBuffer = <<>>
    PROVE  ServerTerms' /\ ServerFrames'
BY ConstantTerms DEF ServerTerms, ServerFrames, InTransaction, Left, NextFrame

(* A request gives the server the client's configuration.                  *)
LEMMA RequestTaken ==
    ASSUME FInv, ServerRequestReceived
    PROVE  ChannelsSettled' /\ ServerTerms' /\ ServerFrames'
<1>1. Head(inChannel) \in FromClient /\ Tail(inChannel) \in Seq(FromClient)
  BY QueueKeeps DEF FInv, ChannelsSettled, ServerRequestReceived, Receives
<1>2. srvTerms' = ClientConfig
  BY <1>1 DEF ServerRequestReceived, Receives, FromClient
<1>3. ChannelsSettled'
  BY <1>1, ConstantTerms DEF FInv, ChannelsSettled, ServerRequestReceived
<1>4. srvCurrent' = "REQUEST" /\ srvPc' = "loop" /\ srvNext' = "RESPONSE"
  BY DEF FInv, ServerTerms, ServerRequestReceived, ServerLeaves
<1>5. QED
  BY <1>2, <1>3, <1>4, ConstantTerms DEF ServerTerms, ServerFrames, InTransaction

(* The response carries the terms settled on, and the batch fits them.     *)
LEMMA ResponseMade ==
    ASSUME FInv, ServerResponse
    PROVE  ChannelsSettled' /\ ServerTerms' /\ ServerFrames'
<1>1. srvPc = "loop" /\ srvNext = "RESPONSE" /\ srvCurrent' = "RESPONSE"
  BY DEF ServerResponse, ServerEnters
<1>2. Negotiated(srvTerms) = Settled
  BY <1>1 DEF FInv, ServerTerms, Settled
<1>3. /\ srvTerms' = Settled
      /\ srvBuffer' = BatchOf(Settled)
      /\ srvPacket' = TransactionPacket("RESPONSE", Settled, 0)
      /\ \/ srvPc' = "sendResponse" /\ srvNext' = "RESPONSE"
         \/ srvPc' = "loop" /\ srvNext' = "TERMINATE"
  BY <1>1, <1>2 DEF ServerResponse
<1>4. Len(srvBuffer') <= ServerPayload * srvTerms'.blocks
  BY <1>3, SettledType, BatchType
<1>5. srvPacket' \in FromServer
  BY <1>3, SettledType, TransactionPacketType, TermsTravel DEF FromServer, TransactionTypes
<1>6. ChannelsSettled'
  BY ConstantTerms DEF FInv, ChannelsSettled, ServerResponse, channels
<1>7. QED
  BY <1>1, <1>3, <1>4, <1>5, <1>6, ConstantTerms DEF ServerTerms, ServerFrames, InTransaction, Left

LEMMA ResponseSent ==
    ASSUME FInv, ServerResponseSent
    PROVE  ChannelsSettled' /\ ServerTerms' /\ ServerFrames'
<1>1. srvPacket \in FromServer /\ Left(srvTerms.blocks)
  BY DEF FInv, ServerFrames, ServerResponseSent
<1>2. ChannelsSettled'
  BY <1>1, QueueKeeps, ConstantTerms DEF FInv, ChannelsSettled, ServerResponseSent
<1>3. ServerTerms /\ InTransaction /\ UNCHANGED <<srvTerms, srvBuffer>>
  BY DEF FInv, InTransaction, ServerResponseSent
<1>4. srvPc' = "loop" /\ srvNext' = "INITIATE_BLOCK"
  BY DEF ServerResponseSent, ServerLeaves
<1>5. QED
  BY <1>1, <1>2, <1>3, <1>4, CarriesOn

LEMMA InitiateTaken ==
    ASSUME FInv, ServerInitiateReceived
    PROVE  ChannelsSettled' /\ ServerTerms' /\ ServerFrames'
<1>1. ChannelsSettled'
  BY QueueKeeps, ConstantTerms DEF FInv, ChannelsSettled, ServerInitiateReceived, Receives
<1>2. /\ ServerTerms /\ InTransaction /\ Left(srvTerms.blocks)
      /\ srvPc' = "loop" /\ UNCHANGED <<srvCurrent, srvTerms, srvBuffer>>
  BY DEF FInv, InTransaction, ServerFrames, ServerInitiateReceived, ServerLeaves
<1>3. CASE srvNext' = "TERMINATE"
  BY <1>1, <1>2, <1>3, EndsTransaction
<1>4. CASE srvNext' = "BLOCK" /\ srvCounter' = 1
  <2>1. srvTerms.blocks \in Int
    BY ServerDataType DEF FInv
  <2>2. srvTerms.blocks - srvCounter' + 1 = srvTerms.blocks
    BY <1>4, <2>1
  <2>3. QED
    BY <1>1, <1>2, <1>4, <2>2, CarriesOn
<1>5. QED
  BY <1>3, <1>4 DEF ServerInitiateReceived, ServerLeaves, FirstFrame

(* The same of the frame with number counter out of so many blocks.        *)
LEMMA FrameCount ==
    ASSUME NEW payload \in Nat, NEW blocks \in 1..127, NEW counter \in 1..127,
           NEW size \in Nat, NEW rest \in Nat,
           size <= payload * (blocks - counter + 1), rest = size - MinOf(payload, size)
    PROVE  /\ counter >= blocks => rest = 0
           /\ counter < blocks /\ rest # 0
              => /\ counter + 1 \in 1..127
                 /\ rest <= payload * (blocks - (counter + 1) + 1)
<1> DEFINE frames == blocks - counter + 1
<1>0. frames \in Int /\ size <= payload * frames
  OBVIOUS
<1>2. frames - 1 = blocks - (counter + 1) + 1
  OBVIOUS
<1> HIDE DEF frames
<1>1. /\ rest <= payload * (frames - 1) \/ rest = 0
      /\ frames <= 1 => rest = 0
  BY <1>0, CutLeaves
<1>3. /\ counter >= blocks => frames <= 1
      /\ counter < blocks => counter + 1 \in 1..127
  BY DEF frames
<1>4. rest <= payload * (blocks - (counter + 1) + 1) \/ rest = 0
  BY <1>1, <1>2
<1>5. QED
  BY <1>1, <1>3, <1>4

(* A frame is cut: unless it is the last, what remains fits the frames     *)
(* that remain; with the last one nothing remains.                         *)
LEMMA FrameCut ==
    ASSUME FInv, ServerBlock
    PROVE  ChannelsSettled' /\ ServerTerms' /\ ServerFrames'
<1> DEFINE rest == Remaining(srvBuffer)
           last == IsLast(srvCounter, rest)
<1>1. /\ InTransaction /\ srvTerms = Settled
      /\ srvCounter \in 1..127 /\ Left(srvTerms.blocks - srvCounter + 1)
  BY DEF FInv, ServerTerms, ServerFrames, InTransaction, NextFrame, ServerBlock, ServerEnters
<1>2. /\ srvPc' = "sendBlock" /\ srvCurrent' = "BLOCK" /\ srvNext' = "BLOCK"
      /\ srvTerms' = srvTerms /\ srvBuffer' = rest /\ srvCounter' = srvCounter + 1
      /\ srvPacket' = BlockPacket(srvCounter, last, FrameData(srvBuffer), srvBatch)
  BY DEF ServerBlock, ServerEnters
<1>3. ServerPayload \in Nat /\ srvTerms.blocks \in 1..127 /\ srvBuffer \in Seq(Byte)
  BY <1>1, SettledType, PayloadType, ServerDataType DEF FInv
<1>4. Len(srvBuffer) \in Nat /\ rest \in Seq(Byte) /\ Len(rest) \in Nat
  BY <1>3, CutType, LenProperties
<1>5. Left(srvTerms.blocks - srvCounter + 1)
      => /\ srvCounter >= srvTerms.blocks => Len(rest) = 0
         /\ srvCounter < srvTerms.blocks /\ Len(rest) # 0
            => /\ srvCounter + 1 \in 1..127
               /\ Len(rest) <= ServerPayload * (srvTerms.blocks - (srvCounter + 1) + 1)
  <2>1. Len(rest) = Len(srvBuffer) - MinOf(ServerPayload, Len(srvBuffer))
    BY <1>3, CutType DEF FrameSize
  <2>2. srvCounter \in 1..127
    BY <1>1
  <2> HIDE DEF rest
  <2>3. QED
    BY <1>3, <1>4, <2>1, <2>2, FrameCount DEF Left
<1>6. last <=> srvCounter >= srvTerms.blocks \/ rest = <<>>
  BY DEF IsLast
<1>7. last \in BOOLEAN
  BY DEF IsLast
<1> HIDE DEF rest, last
<1>8. rest = <<>> <=> Len(rest) = 0
  BY <1>4, EmptySeq
<1>9. srvCounter < srvTerms.blocks \/ srvCounter >= srvTerms.blocks
  <2>1. srvCounter \in 1..127
    BY <1>1
  <2>2. srvTerms.blocks \in 1..127
    BY <1>3
  <2>3. QED
    BY <2>1, <2>2
<1>10. srvPacket' \in FromServer /\ srvPacket'.last = last
  <2>1. FrameData(srvBuffer) \in Seq(Byte) /\ srvBatch \in Nat /\ srvCounter \in Nat
    BY <1>3, CutType DEF FInv, Typed, TypeOK, ServerTypeOK
  <2>2. srvPacket' \in Packets /\ srvPacket'.type = "BLOCK_TRANSFER"
    BY <1>2, <1>7, <2>1, BlockPacketType
  <2>3. srvPacket'.frame = srvCounter /\ srvPacket'.last = last
    BY <1>2 DEF BlockPacket
  <2>4. QED
    BY <1>1, <2>2, <2>3 DEF FromServer
<1>11. ChannelsSettled'
  BY ConstantTerms DEF FInv, ChannelsSettled, ServerBlock, channels
<1>12. ServerTerms'
  BY <1>1, <1>2, ConstantTerms DEF ServerTerms
<1>13. IF srvPacket'.last THEN srvBuffer' = <<>> ELSE NextFrame'
  BY <1>1, <1>2, <1>5, <1>6, <1>8, <1>9, <1>10, ConstantTerms DEF NextFrame, Left
<1>14. ServerFrames'
  BY <1>2, <1>7, <1>10, <1>13, ConstantTerms DEF ServerFrames
<1>15. QED
  BY <1>11, <1>12, <1>14

LEMMA FrameSent ==
    ASSUME FInv, ServerBlockSent
    PROVE  ChannelsSettled' /\ ServerTerms' /\ ServerFrames'
<1>1. /\ srvPacket \in FromServer
      /\ IF srvPacket.last THEN srvBuffer = <<>> ELSE NextFrame
  BY DEF FInv, ServerFrames, ServerBlockSent
<1>2. ChannelsSettled'
  BY <1>1, QueueKeeps, ConstantTerms DEF FInv, ChannelsSettled, ServerBlockSent
<1>3. ServerTerms /\ InTransaction /\ UNCHANGED <<srvTerms, srvBuffer, srvCounter>>
  BY DEF FInv, InTransaction, ServerBlockSent
<1>4. CASE srvPacket.last
  <2>1. srvPc' = "recvAck" /\ srvNext' = srvNext /\ srvCurrent' = srvCurrent /\ srvBuffer = <<>>
    BY <1>1, <1>4 DEF ServerBlockSent
  <2>2. QED
    BY <1>2, <1>3, <2>1, ConstantTerms DEF ServerTerms, ServerFrames, InTransaction
<1>5. CASE ~srvPacket.last
  <2>1. srvPc' = "loop" /\ srvNext' = "BLOCK" /\ NextFrame
    BY <1>1, <1>5 DEF ServerBlockSent, ServerLeaves
  <2>2. QED
    BY <1>2, <1>3, <2>1, CarriesOn DEF NextFrame
<1>6. QED
  BY <1>4, <1>5

LEMMA ServerStepSettles ==
    ASSUME FInv, ServerStep
    PROVE  ChannelsSettled' /\ ServerTerms' /\ ServerFrames'
<1>0. ServerTerms /\ ChannelsSettled
  BY DEF FInv
<1>1. CASE ServerIdle \/ ServerTerminate
  <2>1. srvPc' = "loop" /\ srvNext' \in {"IDLE", "REQUEST"} /\ srvCurrent' \in {"IDLE", "TERMINATE"}
    BY <1>1 DEF ServerIdle, ServerTerminate, ServerEnters
  <2>2. UNCHANGED channels
    BY <1>1 DEF ServerIdle, ServerTerminate
  <2>3. QED
    BY <1>0, <2>1, <2>2, EndsTransaction, ConstantTerms DEF ChannelsSettled, channels
<1>2. CASE ServerRequest
  BY <1>0, <1>2, ConstantTerms
     DEF ServerRequest, ServerEnters, ChannelsSettled, channels, ServerTerms, ServerFrames, InTransaction
<1>3. CASE ServerRequestReceived
  BY <1>3, RequestTaken
<1>4. CASE ServerResponse
  BY <1>4, ResponseMade
<1>5. CASE ServerResponseSent
  BY <1>5, ResponseSent
<1>6. CASE ServerInitiate
  <2>1. InTransaction /\ Left(srvTerms.blocks)
    BY <1>6 DEF FInv, ServerFrames, InTransaction, ServerInitiate, ServerEnters
  <2>2. /\ srvPc' = "recvInitiate" /\ srvNext' = "INITIATE_BLOCK"
        /\ UNCHANGED <<srvTerms, srvBuffer, inChannel, outChannel>>
    BY <1>6 DEF ServerInitiate, ServerEnters, channels
  <2>3. ServerTerms' /\ ServerFrames'
    BY <1>0, <2>1, <2>2, CarriesOn
  <2>4. QED
    BY <1>0, <2>2, <2>3, ConstantTerms DEF ChannelsSettled
<1>7. CASE ServerInitiateReceived
  BY <1>7, InitiateTaken
<1>8. CASE ServerBlock
  BY <1>8, FrameCut
<1>9. CASE ServerBlockSent
  BY <1>9, FrameSent
<1>10. CASE ServerAckReceived \/ ServerReceiveTimesOut \/ ServerSendTimesOut
  <2>1. srvPc' = "loop" /\ srvNext' = "TERMINATE" /\ UNCHANGED <<srvCurrent, srvTerms>>
    BY <1>10 DEF ServerAckReceived, ServerReceiveTimesOut, ServerSendTimesOut, ServerLeaves
  <2>2. /\ inChannel' \in {inChannel, Popped(inChannel)}
        /\ outChannel' = outChannel
    BY <1>10 DEF ServerAckReceived, ServerReceiveTimesOut, ServerSendTimesOut, channels, Receives, Popped
  <2>3. QED
    BY <1>0, <2>1, <2>2, EndsTransaction, QueueKeeps, ConstantTerms DEF ChannelsSettled
<1>11. CASE ServerDiscards
  <2>1. ChannelsSettled'
    BY <1>0, <1>11, QueueKeeps, ConstantTerms DEF ServerDiscards, ChannelsSettled
  <2>2. ServerTerms' /\ ServerFrames'
    BY <1>11, ConstantTerms
       DEF FInv, ServerDiscards, srvVars, ownVars, ServerTerms, ServerFrames, InTransaction, Left,
           NextFrame
  <2>3. QED
    BY <2>1, <2>2
<1>12. QED
  BY <1>1, <1>2, <1>3, <1>4, <1>5, <1>6, <1>7, <1>8, <1>9, <1>10, <1>11 DEF ServerStep

-----------------------------------------------------------------------------
(* One step of the client.                                                 *)

(* Only the request carries terms the server takes over.                   *)
LEMMA RequestOfClient ==
    ASSUME Typed, cliPc \in {"sendRequest", "sendInitiate", "sendAck", "sendAckNot"}
    PROVE  ClientPacket \in FromClient
<1>1. ClientPacket \in Packets
  BY ClientPacketType DEF Typed, TypeOK
<1>2. CASE cliPc = "sendRequest"
  BY <1>1, <1>2, SettledType, TermsTravel DEF ClientPacket, FromClient
<1>3. CASE cliPc # "sendRequest"
  <2>1. ClientPacket.type # "REQUEST"
    BY <1>3 DEF ClientPacket, TransactionPacket, WireType
  <2>2. QED
    BY <1>1, <2>1 DEF FromClient
<1>4. QED
  BY <1>2, <1>3

(* A response brings the client the terms the server settled on.           *)
LEMMA ResponseTaken ==
    ASSUME FInv, ClientResponseReceived
    PROVE  ChannelsSettled' /\ ClientTerms'
<1>1. Head(outChannel) \in FromServer /\ Tail(outChannel) \in Seq(FromServer)
  BY QueueKeeps DEF FInv, ChannelsSettled, ClientResponseReceived, Receives
<1>2. cliTerms' = Settled
  BY <1>1 DEF ClientResponseReceived, Receives, FromServer
<1>3. ChannelsSettled'
  BY <1>1, ConstantTerms DEF FInv, ChannelsSettled, ClientResponseReceived
<1>4. cliPc' = "loop"
  BY DEF ClientResponseReceived, ClientLeaves
<1>5. QED
  BY <1>2, <1>3, <1>4, ConstantTerms DEF ClientTerms

LEMMA ClientStepSettles ==
    ASSUME FInv, ClientStep
    PROVE  ChannelsSettled' /\ ClientTerms'
<1>0. ChannelsSettled /\ ClientTerms
  BY DEF FInv
<1> USE DEF ClientEnters, ClientLeaves
<1>1. CASE ClientIdle \/ ClientRequest \/ ClientResponse \/ ClientInitiate \/ ClientBlock \/ ClientTerminate
  <2>1. ChannelsSettled'
    BY <1>0, <1>1, ConstantTerms
       DEF ClientIdle, ClientRequest, ClientResponse, ClientInitiate, ClientBlock, ClientTerminate,
           ChannelsSettled, channels
  <2>2. ClientTerms'
    BY <1>0, <1>1, ConstantTerms
       DEF ClientIdle, ClientRequest, ClientResponse, ClientInitiate, ClientBlock, ClientTerminate,
           ClientTerms
  <2>3. QED
    BY <2>1, <2>2
<1>2. CASE ClientRequestSent \/ ClientInitiateSent \/ ClientAckSent \/ ClientAckNotSent
  <2>1. ClientPacket \in FromClient
    BY <1>2, RequestOfClient
       DEF FInv, ClientRequestSent, ClientInitiateSent, ClientAckSent, ClientAckNotSent
  <2>2. ChannelsSettled'
    BY <1>0, <1>2, <2>1, QueueKeeps, ConstantTerms
       DEF ClientRequestSent, ClientInitiateSent, ClientAckSent, ClientAckNotSent, ChannelsSettled
  <2>3. ClientTerms'
    BY <1>0, <1>2, ConstantTerms
       DEF ClientRequestSent, ClientInitiateSent, ClientAckSent, ClientAckNotSent, ClientTerms
  <2>4. QED
    BY <2>2, <2>3
<1>3. CASE ClientResponseReceived
  BY <1>3, ResponseTaken
<1>4. CASE ClientBlockStored \/ ClientBlockRefused
  <2>1. ChannelsSettled'
    BY <1>0, <1>4, QueueKeeps, ConstantTerms
       DEF ClientBlockStored, ClientBlockRefused, ChannelsSettled, Receives
  <2>2. ClientTerms'
    BY <1>0, <1>4, ConstantTerms DEF ClientBlockStored, ClientBlockRefused, ClientTerms
  <2>3. QED
    BY <2>1, <2>2
<1>5. CASE ClientDiscards
  <2>1. ChannelsSettled'
    BY <1>0, <1>5, QueueKeeps, ConstantTerms DEF ClientDiscards, ChannelsSettled
  <2>2. ClientTerms'
    BY <1>0, <1>5, ConstantTerms DEF ClientDiscards, cliVars, ClientTerms
  <2>3. QED
    BY <2>1, <2>2
<1>6. CASE ClientResponseTimesOut \/ ClientBlockTimesOut \/ ClientSendTimesOut
  <2>1. ChannelsSettled'
    BY <1>0, <1>6, QueueKeeps, ConstantTerms
       DEF ClientResponseTimesOut, ClientBlockTimesOut, ClientSendTimesOut, ChannelsSettled, channels
  <2>2. ClientTerms'
    BY <1>0, <1>6, ConstantTerms
       DEF ClientResponseTimesOut, ClientBlockTimesOut, ClientSendTimesOut, ClientTerms
  <2>3. QED
    BY <2>1, <2>2
<1>7. QED
  BY <1>1, <1>2, <1>3, <1>4, <1>5, <1>6 DEF ClientStep

-----------------------------------------------------------------------------
LEMMA FInvInductive ==
    /\ Init => FInv
    /\ FInv /\ [Next]_vars => FInv'
<1>1. Init => FInv
  <2> SUFFICES ASSUME Init PROVE FInv
    OBVIOUS
  <2>1. Typed
    BY InitType DEF Typed
  <2>2. ChannelsSettled
    BY EmptySeq DEF Init, ChannelsInit, ChannelsSettled
  <2>3. srvPc = "loop" /\ srvNext = "IDLE" /\ srvCurrent = "IDLE"
    BY DEF Init, ServerInit
  <2>4. ServerTerms /\ ServerFrames
    BY <2>3 DEF ServerTerms, ServerFrames, InTransaction
  <2>5. ClientTerms
    BY DEF Init, ClientInit, ClientTerms
  <2>6. QED
    BY <2>1, <2>2, <2>4, <2>5 DEF FInv
<1>2. ASSUME FInv, [Next]_vars PROVE FInv'
  <2>0. Typed'
    BY <1>2, NextType DEF FInv, Typed
  <2>1. CASE ServerNext
    <3>1. ClientTerms'
      BY <1>2, <2>1, ConstantTerms DEF FInv, ServerNext, cliVars, ClientTerms
    <3>2. QED
      BY <1>2, <2>0, <2>1, <3>1, ServerStepSettles DEF ServerNext, FInv
  <2>2. CASE ClientNext
    <3>1. ServerTerms' /\ ServerFrames'
      BY <1>2, <2>2, ConstantTerms
         DEF FInv, ClientNext, srvVars, ownVars, ServerTerms, ServerFrames, InTransaction, Left,
             NextFrame
    <3>2. QED
      BY <1>2, <2>0, <2>2, <3>1, ClientStepSettles DEF ClientNext, FInv
  <2>3. CASE AppNext
    <3>1. ChannelsSettled'
      BY <1>2, <2>3, ConstantTerms, CallsLeave DEF FInv, AppNext, StartNewTransfer, ChannelsSettled, channels
    <3>2. ServerTerms' /\ ServerFrames'
      <4>1. /\ UNCHANGED <<srvCurrent, srvPc, srvTerms, srvBuffer, srvCounter, srvPacket>>
            /\ srvNext' \in {srvNext, "REQUEST", "IDLE"}
        BY <2>3, CallsLeave DEF AppNext, StartNewTransfer, srvVars, ownVars
      <4>2. QED
        BY <1>2, <4>1, ConstantTerms DEF FInv, ServerTerms, ServerFrames, InTransaction, Left, NextFrame
    <3>3. ClientTerms'
      BY <1>2, <2>3, ConstantTerms DEF FInv, AppNext, StartNewTransfer, cliVars, ClientTerms
    <3>4. QED
      BY <2>0, <3>1, <3>2, <3>3 DEF FInv
  <2>4. CASE UNCHANGED <<srvCurrent, srvNext, srvPc, srvTerms, srvBuffer, srvCounter, srvPacket,
                         cliCurrent, cliNext, cliPc, cliTerms, channels>>
    <3>1. ServerTerms' /\ ServerFrames'
      BY <1>2, <2>4, ConstantTerms DEF FInv, ServerTerms, ServerFrames, InTransaction, Left, NextFrame
    <3>2. ClientTerms' /\ ChannelsSettled'
      BY <1>2, <2>4, ConstantTerms DEF FInv, ClientTerms, ChannelsSettled, channels
    <3>3. QED
      BY <2>0, <3>1, <3>2 DEF FInv
  <2>5. ServerTimerFires \/ ClientTimerFires \/ UNCHANGED vars
        => UNCHANGED <<srvCurrent, srvNext, srvPc, srvTerms, srvBuffer, srvCounter, srvPacket,
                       cliCurrent, cliNext, cliPc, cliTerms, channels>>
    BY DEF ServerTimerFires, ClientTimerFires, vars, srvVars, ownVars, cliVars
  <2>6. QED
    BY <1>2, <2>1, <2>2, <2>3, <2>4, <2>5 DEF Next
<1>3. QED
  BY <1>1, <1>2

(* The two ends hold the same terms from INITIATE_BLOCK on, and those are  *)
(* the ones made of both configurations, whatever was left in the queues   *)
(* by transactions that timed out (DDServer.cpp:109-143).                  *)
THEOREM TermsAgreed == Spec => []AgreedTerms
<1>1. FInv => AgreedTerms
  BY DEF FInv, ServerTerms, ClientTerms, AgreedTerms, Settled
<1>2. QED
  BY <1>1, FInvInductive, PTL DEF Spec

(* The last frame takes the last byte: the server never waits for the ACK  *)
(* of a batch it has cut short (DDServer.cpp:239-254).                     *)
THEOREM WholeBatchSent == Spec => []BatchComplete
<1>1. FInv => BatchComplete
  BY DEF FInv, ServerFrames, BatchComplete
<1>2. QED
  BY <1>1, FInvInductive, PTL DEF Spec

(* No frame number needs an eighth bit, for all configurations of up to    *)
(* 127 blocks (DDServer.cpp:239-258, DDPacket.cpp:476-481).                *)
THEOREM FrameNumbersFit == Spec => []FrameNumberFits
<1>1. FInv => FrameNumberFits
  <2> SUFFICES ASSUME FInv, NEW i \in 1..Len(outChannel), outChannel[i].type = "BLOCK_TRANSFER"
               PROVE  outChannel[i].frame \in 1..127
    BY DEF FrameNumberFits
  <2>1. outChannel[i] \in FromServer
    BY ElementOfSeq DEF FInv, ChannelsSettled
  <2>2. QED
    BY <2>1 DEF FromServer
<1>2. QED
  BY <1>1, FInvInductive, PTL DEF Spec

(* A frame is cut to what the server itself can send.                      *)
FrameSized == srvPc = "sendBlock" => PacketSize(srvPacket) <= ServerConfig.plen

LEMMA FrameSizedInductive ==
    /\ Init => FrameSized
    /\ FInv /\ FrameSized /\ [Next]_vars => FrameSized'
<1>1. Init => FrameSized
  BY DEF Init, ServerInit, FrameSized
<1>2. ASSUME FInv, FrameSized, [Next]_vars PROVE FrameSized'
  <2>1. CASE ServerBlock
    <3>1. srvBuffer \in Seq(Byte)
      BY <1>2 DEF FInv, Typed, TypeOK, ServerTypeOK
    <3>2. Len(FrameData(srvBuffer)) = FrameSize(srvBuffer) /\ FrameSize(srvBuffer) \in Nat
      BY <3>1, CutType
    <3>3. FrameSize(srvBuffer) <= ServerPayload
      <4>1. Len(srvBuffer) \in Nat /\ ServerPayload \in Nat
        BY <3>1, PayloadType, LenProperties
      <4>2. QED
        BY <4>1 DEF FrameSize, MinOf
    <3>4. PacketSize(srvPacket') = BlockHeaderSize + FrameSize(srvBuffer)
      BY <2>1, <3>2 DEF ServerBlock, BlockPacket, PacketSize
    <3>5. ServerConfig.plen \in Nat
      BY ConfigAssumption DEF Config
    <3>6. PacketSize(srvPacket') <= ServerConfig.plen
      BY <3>2, <3>3, <3>4, <3>5 DEF ServerPayload, BlockHeaderSize
    <3>7. QED
      BY <3>6 DEF FrameSized
  <2>2. CASE ~ServerBlock
    <3>1. srvPc' = "sendBlock" => srvPc = "sendBlock" /\ srvPacket' = srvPacket
      BY <1>2, <2>2, CallsLeave
         DEF Next, ServerNext, ClientNext, AppNext, ServerTimerFires, ClientTimerFires, ServerStep,
             ServerIdle, ServerRequest, ServerRequestReceived, ServerResponse, ServerResponseSent,
             ServerInitiate, ServerInitiateReceived, ServerBlockSent, ServerAckReceived,
             ServerDiscards, ServerReceiveTimesOut, ServerSendTimesOut, ServerTerminate,
             StartNewTransfer, ServerEnters, ServerLeaves, vars, srvVars, ownVars
    <3>2. QED
      BY <1>2, <3>1 DEF FrameSized
  <2>3. QED
    BY <2>1, <2>2
<1>3. QED
  BY <1>1, <1>2

ServerIsNarrow == ServerConfig.plen <= ClientConfig.plen

(* A frame, cut by the server's own limit, is longer than the length       *)
(* settled on only if the client's limit is the smaller one, whether or    *)
(* not the timers run (DDServer.cpp:109-124, 239-246).                     *)
THEOREM FramesFitTerms == ServerIsNarrow /\ Spec => []FramesWithinTerms
<1>1. FInv /\ FrameSized /\ ServerIsNarrow => FramesWithinTerms
  <2> SUFFICES ASSUME FInv, FrameSized, ServerIsNarrow, srvPc = "sendBlock"
               PROVE PacketSize(srvPacket) <= srvTerms.plen
    BY DEF FramesWithinTerms
  <2>1. srvTerms = Settled
    BY DEF FInv, ServerTerms, InTransaction
  <2>2. ServerConfig.plen \in Nat /\ ClientConfig.plen \in Nat
    BY ConfigAssumption DEF Config
  <2>3. Settled.plen = ServerConfig.plen
    BY <2>2 DEF ServerIsNarrow, Settled, Negotiated, MinOf
  <2>4. QED
    BY <2>1, <2>3 DEF FrameSized
<1>2. ServerIsNarrow => ServerIsNarrow'
  BY DEF ServerIsNarrow
<1>3. QED
  BY <1>1, <1>2, FInvInductive, FrameSizedInductive, PTL DEF Spec
=============================================================================
