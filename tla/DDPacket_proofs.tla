--------------------------- MODULE DDPacket_proofs ---------------------------
(***************************************************************************)
(* What serialize writes deserialize reads back, for every packet; so the  *)
(* queue of bytes implements the queue of records.                         *)
(***************************************************************************)
EXTENDS DDPacket, SequenceTheorems, TLAPS

LEMMA TypesSurvive ==
    /\ \A type \in TransactionTypes \cup {"BLOCK_TRANSFER"} :
          /\ TypeByte(type) \in Byte
          /\ TypeOf(TypeByte(type)) = IF type = "BLOCK_ACKNOT" THEN "UNASSIGNED" ELSE type
  BY DEF TransactionTypes, TypeByte, TypeOf, Types, Byte

LEMMA IdsSurvive ==
    ASSUME NEW n \in 0..MaxTransactionID
    PROVE  LET b == Bytes4(n) IN
           /\ \A i \in 1..4 : b[i] \in Byte
           /\ Number4(b[1], b[2], b[3], b[4]) = n
<1>1. n \in Nat /\ n \div (256 * 256) < 256 * 256
  BY PacketAssumption
<1>2. /\ Bytes4(n)[1] = n % 256
      /\ Bytes4(n)[2] = (n \div 256) % 256
      /\ Bytes4(n)[3] = (n \div (256 * 256)) % 256
      /\ Bytes4(n)[4] = (n \div (256 * 256 * 256)) % 256
  BY DEF Bytes4
<1>3. n = (n % 256) + 256 * (((n \div 256) % 256)
              + 256 * (((n \div (256 * 256)) % 256) + 256 * ((n \div (256 * 256 * 256)) % 256)))
  BY <1>1
<1>4. QED
  BY <1>1, <1>2, <1>3, SMTT(30) DEF Number4, Byte

LEMMA MetadataSurvives ==
    ASSUME NEW frame \in 0..127, NEW last \in BOOLEAN
    PROVE  /\ Metadata(frame, last) \in Byte
           /\ Metadata(frame, last) % 128 = frame
           /\ last = TRUE => Metadata(frame, last) < 128
           /\ last = FALSE => ~(Metadata(frame, last) < 128)
<1>1. CASE last = TRUE
  BY <1>1 DEF Metadata, Byte
<1>2. CASE last = FALSE
  BY <1>2 DEF Metadata, Byte
<1>3. QED
  BY <1>1, <1>2

LEMMA TransactionSurvives ==
    ASSUME NEW packet \in TransactionPackets
    PROVE  /\ Len(Serialized(packet)) = 11 /\ Serialized(packet)[11] = 0
           /\ Serialized(packet)[1] = TypeByte(packet.type)
           /\ Deserialized(Serialized(packet)) = OnWire(packet)
<1> DEFINE bytes == TransactionBytes(packet)
<1>1. packet.type \in TransactionTypes /\ packet.tid \in 0..MaxTransactionID
  BY DEF TransactionPackets
<1>2. Serialized(packet) = bytes
  BY <1>1 DEF Serialized, IsBlock, TransactionTypes
<1>3. /\ bytes[1] = TypeByte(packet.type)
      /\ bytes[2] = Bytes4(packet.tid)[1] /\ bytes[3] = Bytes4(packet.tid)[2]
      /\ bytes[4] = Bytes4(packet.tid)[3] /\ bytes[5] = Bytes4(packet.tid)[4]
      /\ bytes[6] = packet.blocks /\ bytes[7] = packet.plen /\ bytes[8] = packet.ack
      /\ bytes[9] = 0 /\ bytes[10] = 0 /\ bytes[11] = 0
      /\ Len(bytes) = 11
  BY DEF TransactionBytes, TermsBytes
<1> HIDE DEF bytes
<1>6. TypeOf(bytes[1]) = (IF packet.type = "BLOCK_ACKNOT" THEN "UNASSIGNED" ELSE packet.type)
  BY <1>1, <1>3, TypesSurvive
<1>7. Deserialized(bytes) = TransactionOf(bytes)
  BY <1>1, <1>6 DEF Deserialized, TransactionTypes
<1>8. Number4(bytes[2], bytes[3], bytes[4], bytes[5]) = packet.tid
  BY <1>1, <1>3, IdsSurvive
<1>9. TransactionOf(bytes) =
        [type |-> IF packet.type = "BLOCK_ACKNOT" THEN "UNASSIGNED" ELSE packet.type,
         tid |-> packet.tid, blocks |-> packet.blocks, plen |-> packet.plen, ack |-> packet.ack]
  BY <1>3, <1>6, <1>8 DEF TransactionOf
<1>10. OnWire(packet) =
        [type |-> IF packet.type = "BLOCK_ACKNOT" THEN "UNASSIGNED" ELSE packet.type,
         tid |-> packet.tid, blocks |-> packet.blocks, plen |-> packet.plen, ack |-> packet.ack]
  BY DEF OnWire, TransactionPackets
<1>11. QED
  BY <1>2, <1>3, <1>7, <1>9, <1>10

LEMMA BlockSurvives ==
    ASSUME NEW packet \in BlockPackets
    PROVE  /\ Len(Serialized(packet)) = 5 + Len(packet.data)
           /\ Serialized(packet)[1] = TypeByte(packet.type)
           /\ Serialized(packet)[5] = Len(packet.data)
           /\ Deserialized(Serialized(packet)) = OnWire(packet)
<1> DEFINE head == <<TypeByte(packet.type), Metadata(packet.frame, packet.last), 0, 0, Len(packet.data)>>
           bytes == head \o packet.data
<1>1. /\ packet.type = "BLOCK_TRANSFER" /\ packet.frame \in 0..127 /\ packet.last \in BOOLEAN
      /\ packet.data \in Seq(Byte) /\ Len(packet.data) \in 1..250
      /\ packet = [type |-> "BLOCK_TRANSFER", frame |-> packet.frame, last |-> packet.last,
                   data |-> packet.data]
  BY DEF BlockPackets, Payloads
<1>2. Serialized(packet) = bytes
  BY <1>1 DEF Serialized, IsBlock, BlockBytes
<1>3. TypeByte(packet.type) = 4 /\ TypeOf(4) = "BLOCK_TRANSFER"
  BY <1>1 DEF TypeByte, TypeOf, Types
<1>4. /\ Metadata(packet.frame, packet.last) \in Byte
      /\ Metadata(packet.frame, packet.last) % 128 = packet.frame
      /\ packet.last = TRUE => Metadata(packet.frame, packet.last) < 128
      /\ packet.last = FALSE => ~(Metadata(packet.frame, packet.last) < 128)
  <2>1. packet.frame \in 0..127 /\ packet.last \in BOOLEAN
    BY <1>1
  <2>2. QED
    BY <2>1, MetadataSurvives, ZenonT(40)
<1>5. head \in Seq(Byte) /\ Len(head) = 5
  <2>1. Len(packet.data) \in Byte
    BY <1>1 DEF Byte
  <2>2. 0 \in Byte /\ 4 \in Byte
    BY DEF Byte
  <2>3. QED
    BY <1>3, <1>4, <2>1, <2>2
<1>6. /\ bytes \in Seq(Byte) /\ Len(bytes) = 5 + Len(packet.data)
      /\ \A i \in 1..5 : bytes[i] = head[i]
      /\ \A i \in 1..Len(packet.data) : bytes[5 + i] = packet.data[i]
  <2> HIDE DEF head
  <2>1. /\ bytes \in Seq(Byte) /\ Len(bytes) = 5 + Len(packet.data)
        /\ \A i \in 1..5 + Len(packet.data) :
              bytes[i] = IF i <= 5 THEN head[i] ELSE packet.data[i - 5]
    <3>1. /\ bytes \in Seq(Byte) /\ Len(bytes) = Len(head) + Len(packet.data)
          /\ \A i \in 1..Len(head) + Len(packet.data) :
                bytes[i] = IF i <= Len(head) THEN head[i] ELSE packet.data[i - Len(head)]
      BY <1>1, <1>5, ConcatProperties
    <3> HIDE DEF bytes
    <3>2. QED
      BY <1>5, <3>1
  <2> HIDE DEF bytes
  <2>2. ASSUME NEW i \in 1..5 PROVE bytes[i] = head[i]
    BY <1>1, <2>1
  <2>3. ASSUME NEW i \in 1..Len(packet.data) PROVE bytes[5 + i] = packet.data[i]
    BY <1>1, <2>1
  <2>4. QED
    BY <2>1, <2>2, <2>3
<1>7. /\ bytes[1] = 4 /\ bytes[2] = Metadata(packet.frame, packet.last)
      /\ bytes[5] = Len(packet.data)
  BY <1>3, <1>6
<1> HIDE DEF bytes
<1>8. DataOf(bytes) = packet.data
  <2>1. /\ SubSeq(bytes, 6, 5 + Len(packet.data)) \in Seq(Byte)
        /\ Len(SubSeq(bytes, 6, 5 + Len(packet.data))) = Len(packet.data)
        /\ \A i \in 1..Len(packet.data) :
              SubSeq(bytes, 6, 5 + Len(packet.data))[i] = bytes[5 + i]
    BY <1>1, <1>6, SubSeqProperties
  <2>2. SubSeq(bytes, 6, 5 + Len(packet.data)) = packet.data
    BY <1>1, <1>6, <2>1, SeqEqual
  <2>3. QED
    BY <1>7, <2>2 DEF DataOf
<1>9. Deserialized(bytes) = BlockOf(bytes)
  BY <1>3, <1>7 DEF Deserialized
<1>10. (bytes[2] < 128) = packet.last
  <2>1. CASE packet.last = TRUE
    BY <1>4, <1>7, <2>1
  <2>2. CASE packet.last = FALSE
    <3>1. ~(bytes[2] < 128)
      BY <1>4, <1>7, <2>2
    <3>2. (bytes[2] < 128) = FALSE
      BY <3>1
    <3>3. QED
      BY <2>2, <3>2
  <2>3. QED
    BY <1>1, <2>1, <2>2
<1>11. BlockOf(bytes) = packet
  BY <1>1, <1>3, <1>4, <1>7, <1>8, <1>10 DEF BlockOf
<1>12. OnWire(packet) = packet
  BY <1>1 DEF OnWire
<1>13. QED
  BY <1>2, <1>3, <1>6, <1>7, <1>9, <1>11, <1>12

(* Every packet an end can send is read back as it was written, except     *)
(* that a refusal is read as UNASSIGNED (DDPacket.cpp:318).                *)
THEOREM RoundTrip ==
    \A packet \in TransactionPackets \cup BlockPackets :
        Deserialized(Serialized(packet)) = OnWire(packet)
  BY TransactionSurvives, BlockSurvives

-----------------------------------------------------------------------------
(* The messages the queue can hold, and the packets they stand for.        *)
Messages == {Serialized(packet) : packet \in Outgoing}

Arriving == {OnWire(packet) : packet \in Outgoing}

QInv == queue \in Seq(Messages)

LEMMA MessageFacts ==
    ASSUME NEW packet \in Outgoing
    PROVE  /\ Deserialized(Serialized(packet)) = OnWire(packet)
           /\ OnWire(packet).type = TypeOf(Serialized(packet)[1])
           /\ PacketSize(OnWire(packet)) = Len(Serialized(packet))
           /\ PacketSize(packet) = Len(Serialized(packet)) /\ PacketSize(packet) \in 0..255
           /\ Len(Serialized(packet)) = IF TypeOf(Serialized(packet)[1]) = "BLOCK_TRANSFER"
                                        THEN 5 + Serialized(packet)[5] ELSE 11 + Serialized(packet)[11]
<1>1. packet \in TransactionPackets \cup BlockPackets
  BY PacketAssumption
<1>2. CASE packet \in TransactionPackets
  <2>1. packet.type \in TransactionTypes
    BY <1>2 DEF TransactionPackets
  <2>2. OnWire(packet).type = IF packet.type = "BLOCK_ACKNOT" THEN "UNASSIGNED" ELSE packet.type
    BY <1>2 DEF OnWire, TransactionPackets
  <2>3. OnWire(packet).type # "BLOCK_TRANSFER" /\ packet.type # "BLOCK_TRANSFER"
    BY <2>1, <2>2 DEF TransactionTypes
  <2>4. OnWire(packet).type = TypeOf(Serialized(packet)[1])
    BY <1>2, <2>1, <2>2, TransactionSurvives, TypesSurvive
  <2>5. PacketSize(OnWire(packet)) = 11 /\ PacketSize(packet) = 11
    BY <2>3 DEF PacketSize, IsBlock
  <2>6. /\ Len(Serialized(packet)) = 11 /\ Serialized(packet)[11] = 0
        /\ Deserialized(Serialized(packet)) = OnWire(packet)
    BY <1>2, TransactionSurvives
  <2>7. Len(Serialized(packet)) = IF TypeOf(Serialized(packet)[1]) = "BLOCK_TRANSFER"
                                  THEN 5 + Serialized(packet)[5] ELSE 11 + Serialized(packet)[11]
    BY <2>3, <2>4, <2>6
  <2>8. QED
    BY <2>4, <2>5, <2>6, <2>7
<1>3. CASE packet \in BlockPackets
  <2>1. packet.type = "BLOCK_TRANSFER" /\ Len(packet.data) \in 1..250
    BY <1>3 DEF BlockPackets, Payloads
  <2>2. OnWire(packet) = packet
    BY <1>3, <2>1 DEF OnWire, BlockPackets
  <2>3. TypeOf(Serialized(packet)[1]) = "BLOCK_TRANSFER"
    BY <1>3, <2>1, BlockSurvives DEF TypeByte, TypeOf, Types
  <2>4. PacketSize(packet) = 5 + Len(packet.data)
    BY <2>1 DEF PacketSize, IsBlock
  <2>5. /\ Len(Serialized(packet)) = 5 + Len(packet.data)
        /\ Serialized(packet)[5] = Len(packet.data)
        /\ Deserialized(Serialized(packet)) = OnWire(packet)
    BY <1>3, BlockSurvives
  <2>6. Len(Serialized(packet)) = IF TypeOf(Serialized(packet)[1]) = "BLOCK_TRANSFER"
                                  THEN 5 + Serialized(packet)[5] ELSE 11 + Serialized(packet)[11]
    <3>1. Len(Serialized(packet)) = 5 + Serialized(packet)[5]
      BY <2>5
    <3>2. QED
      BY <2>3, <3>1, Zenon
  <2>7. PacketSize(packet) = Len(Serialized(packet)) /\ PacketSize(packet) \in 0..255
    <3>1. PacketSize(packet) = Len(Serialized(packet))
      BY <2>4, <2>5
    <3>2. \A n \in 1..250 : 5 + n \in 0..255
      OBVIOUS
    <3>3. 5 + Len(packet.data) \in 0..255
      BY <2>1, <3>2
    <3>4. PacketSize(packet) \in 0..255
      BY <2>4, <3>3, Zenon
    <3>5. QED
      BY <3>1, <3>4
  <2>8. PacketSize(OnWire(packet)) = Len(Serialized(packet))
    BY <2>2, <2>7
  <2>9. OnWire(packet).type = TypeOf(Serialized(packet)[1])
    BY <2>1, <2>2, <2>3
  <2>10. QED
    BY <2>5, <2>6, <2>7, <2>8, <2>9
<1>4. QED
  BY <1>1, <1>2, <1>3

LEMMA QInvInductive ==
    /\ Init => QInv
    /\ QInv /\ [Next]_vars => QInv'
<1>1. Init => QInv
  BY EmptySeq DEF Init, QInv
<1>2. ASSUME QInv, NEW packet \in Outgoing, Send(packet) PROVE QInv'
  BY <1>2, AppendProperties DEF Send, QInv, Messages
<1>3. ASSUME QInv, NEW type \in AwaitedTypes, Receive(type) PROVE QInv'
  BY <1>3, HeadTailProperties DEF Receive, QInv
<1>4. QInv /\ UNCHANGED vars => QInv'
  BY DEF QInv, vars
<1>5. QED
  BY <1>1, <1>2, <1>3, <1>4 DEF Next

(* No size field makes deserialize read behind the end of its message.     *)
THEOREM NoOverread == Spec => []SizesTruthful
<1>1. QInv => SizesTruthful
  <2> SUFFICES ASSUME QInv, NEW i \in 1..Len(queue)
               PROVE  Len(queue[i]) = IF TypeOf(queue[i][1]) = "BLOCK_TRANSFER"
                                      THEN 5 + queue[i][5] ELSE 11 + queue[i][11]
    BY DEF SizesTruthful
  <2>1. PICK packet \in Outgoing : queue[i] = Serialized(packet)
    BY ElementOfSeq DEF QInv, Messages
  <2>2. QED
    BY <2>1, MessageFacts
<1>2. QED
  BY <1>1, QInvInductive, PTL DEF Spec

-----------------------------------------------------------------------------
(* The queue of records behind a queue of bytes.                           *)
Channel(q) == [i \in 1..Len(q) |-> Deserialized(q[i])]

LEMMA ChannelFacts ==
    ASSUME NEW q \in Seq(Messages)
    PROVE  /\ Channel(q) \in Seq(Arriving) /\ Len(Channel(q)) = Len(q)
           /\ \A i \in 1..Len(q) : Channel(q)[i] = Deserialized(q[i])
<1>1. Len(q) \in Nat
  BY LenProperties
<1>2. ASSUME NEW i \in 1..Len(q) PROVE Deserialized(q[i]) \in Arriving
  <2>1. PICK packet \in Outgoing : q[i] = Serialized(packet)
    BY ElementOfSeq DEF Messages
  <2>2. QED
    BY <2>1, MessageFacts DEF Arriving
<1>3. QED
  BY <1>1, <1>2 DEF Channel

LEMMA ChannelAppend ==
    ASSUME NEW q \in Seq(Messages), NEW packet \in Outgoing
    PROVE  Channel(Append(q, Serialized(packet))) = Append(Channel(q), OnWire(packet))
<1> DEFINE r == Append(q, Serialized(packet))
           c == Append(Channel(q), OnWire(packet))
<1>1. /\ r \in Seq(Messages) /\ Len(r) = Len(q) + 1
      /\ \A i \in 1..Len(q) : r[i] = q[i]
      /\ r[Len(q) + 1] = Serialized(packet)
  BY AppendProperties DEF Messages
<1>2. OnWire(packet) \in Arriving
  BY DEF Arriving
<1>3. /\ c \in Seq(Arriving) /\ Len(c) = Len(q) + 1
      /\ \A i \in 1..Len(q) : c[i] = Deserialized(q[i])
      /\ c[Len(q) + 1] = OnWire(packet)
  BY <1>2, ChannelFacts, AppendProperties
<1>4. /\ Channel(r) \in Seq(Arriving) /\ Len(Channel(r)) = Len(q) + 1
      /\ \A i \in 1..Len(q) + 1 : Channel(r)[i] = Deserialized(r[i])
  BY <1>1, ChannelFacts
<1> HIDE DEF r, c
<1>5. Deserialized(r[Len(q) + 1]) = OnWire(packet)
  BY <1>1, MessageFacts
<1>6. \A i \in 1..Len(q) + 1 : Channel(r)[i] = c[i]
  <2>1. Len(q) \in Nat
    BY LenProperties
  <2>2. \A i \in 1..Len(q) : Channel(r)[i] = c[i]
    BY <1>1, <1>3, <1>4, <2>1
  <2>3. Channel(r)[Len(q) + 1] = c[Len(q) + 1]
    BY <1>3, <1>4, <1>5, <2>1
  <2>4. QED
    BY <2>1, <2>2, <2>3
<1>7. Channel(r) = c
  BY <1>3, <1>4, <1>6, SeqEqual
<1>8. QED
  BY <1>7 DEF r, c

LEMMA ChannelTail ==
    ASSUME NEW q \in Seq(Messages), q # <<>>
    PROVE  /\ Channel(q) # <<>>
           /\ Head(Channel(q)) = Deserialized(Head(q))
           /\ Channel(Tail(q)) = Tail(Channel(q))
<1>1. /\ Tail(q) \in Seq(Messages) /\ Len(Tail(q)) = Len(q) - 1
      /\ \A i \in 1..Len(q) - 1 : Tail(q)[i] = q[i + 1]
      /\ Head(q) = q[1] /\ Len(q) \in Nat /\ Len(q) >= 1
  BY HeadTailProperties, LenProperties, EmptySeq
<1>2. /\ Channel(q) \in Seq(Arriving) /\ Len(Channel(q)) = Len(q)
      /\ \A i \in 1..Len(q) : Channel(q)[i] = Deserialized(q[i])
  BY ChannelFacts
<1>3. Channel(q) # <<>>
  BY <1>1, <1>2, EmptySeq
<1>4. /\ Tail(Channel(q)) \in Seq(Arriving) /\ Len(Tail(Channel(q))) = Len(q) - 1
      /\ \A i \in 1..Len(q) - 1 : Tail(Channel(q))[i] = Channel(q)[i + 1]
      /\ Head(Channel(q)) = Channel(q)[1]
  BY <1>2, <1>3, HeadTailProperties
<1>5. /\ Channel(Tail(q)) \in Seq(Arriving) /\ Len(Channel(Tail(q))) = Len(q) - 1
      /\ \A i \in 1..Len(q) - 1 : Channel(Tail(q))[i] = Deserialized(Tail(q)[i])
  BY <1>1, ChannelFacts
<1>6. \A i \in 1..Len(q) - 1 : Channel(Tail(q))[i] = Tail(Channel(q))[i]
  BY <1>1, <1>2, <1>4, <1>5
<1>7. Channel(Tail(q)) = Tail(Channel(q))
  BY <1>4, <1>5, <1>6, SeqEqual
<1>8. Head(Channel(q)) = Deserialized(Head(q))
  BY <1>1, <1>2, <1>4
<1>9. QED
  BY <1>3, <1>7, <1>8

LEMMA SendSeen ==
    ASSUME QInv, NEW packet \in Outgoing, Send(packet)
    PROVE  Records!Send
<1>1. queue \in Seq(Messages)
  BY DEF QInv
<1>2. Channel(queue') = Append(Channel(queue), OnWire(packet))
  BY <1>1, ChannelAppend DEF Send
<1>3. Len(Channel(queue)) = Len(queue)
  BY <1>1, ChannelFacts
<1>4. PacketSize(packet) <= MaxSendSize
  <2>1. PacketSize(packet) \in 0..255 /\ PacketSize(packet) % 256 <= MaxSendSize
    BY MessageFacts DEF Send
  <2>2. PacketSize(packet) % 256 = PacketSize(packet)
    BY <2>1
  <2>3. QED
    BY <2>1, <2>2
<1>5. QED
  BY <1>2, <1>3, <1>4 DEF Send, Records!Send, Channel

LEMMA ReceiveSeen ==
    ASSUME QInv, NEW type \in AwaitedTypes, Receive(type)
    PROVE  Records!Receive
<1>1. queue \in Seq(Messages) /\ queue # <<>> /\ queue' = Tail(queue)
  BY DEF QInv, Receive
<1>2. PICK packet \in Outgoing : Head(queue) = Serialized(packet)
  BY <1>1, HeadTailProperties DEF Messages
<1>3. /\ Channel(queue) # <<>> /\ Channel(queue') = Tail(Channel(queue))
      /\ Head(Channel(queue)) = OnWire(packet)
  BY <1>1, <1>2, ChannelTail, MessageFacts
<1>4. Accepts(Head(queue), type) <=>
          PacketSize(OnWire(packet)) <= MaxReceiveSize /\ OnWire(packet).type = type
  BY <1>2, MessageFacts DEF Accepts
<1>5. result' = IF PacketSize(OnWire(packet)) <= MaxReceiveSize /\ OnWire(packet).type = type
                THEN OnWire(packet) ELSE Nothing
  BY <1>2, <1>4, MessageFacts DEF Receive
<1>6. QED
  <2> DEFINE c == Channel(queue)
             d == Channel(queue')
  <2>1. c # <<>> /\ d = Tail(c) /\ Head(c) = OnWire(packet)
    BY <1>3
  <2>2. c = [i \in 1..Len(queue) |-> Deserialized(queue[i])]
        /\ d = [i \in 1..Len(queue') |-> Deserialized(queue'[i])]
    BY DEF Channel
  <2> HIDE DEF c, d
  <2>3. QED
    BY <1>5, <2>1, <2>2 DEF Records!Receive

(* What DDServer and DDClient send and receive as records travels as bytes *)
(* (DDBase.cpp:75-215): nothing is lost, added or changed on the way but   *)
(* the type of a refusal.                                                  *)
THEOREM LinkRefinement == Spec => ImplementsLink
<1>1. Init => Records!Init
  <2> SUFFICES ASSUME Init PROVE Records!Init
    OBVIOUS
  <2>1. queue = <<>> /\ Len(<<>>) = 0 /\ result = Nothing
    BY DEF Init
  <2>2. [i \in 1..Len(queue) |-> Deserialized(queue[i])] = <<>>
    BY <2>1
  <2>3. QED
    BY <2>1, <2>2 DEF Records!Init
<1>2. QInv /\ [Next]_vars => [Records!Next]_(Records!vars)
  <2>1. ASSUME QInv, NEW packet \in Outgoing, Send(packet) PROVE Records!Next
    BY <2>1, SendSeen DEF Records!Next
  <2>2. ASSUME QInv, NEW type \in AwaitedTypes, Receive(type) PROVE Records!Next
    BY <2>2, ReceiveSeen DEF Records!Next
  <2>3. UNCHANGED vars => UNCHANGED Records!vars
    BY DEF vars, Records!vars
  <2>4. QED
    BY <2>1, <2>2, <2>3 DEF Next
<1>3. QED
  BY <1>1, <1>2, QInvInductive, PTL DEF Spec, ImplementsLink, Records!Spec
=============================================================================
