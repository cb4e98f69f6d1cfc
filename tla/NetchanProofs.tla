--------------------------- MODULE NetchanProofs ---------------------------
(***************************************************************************)
(* Proofs about Netchan, for every fragment size, every set of message     *)
(* lengths, both writers, both networks and every bound.  The theorems on  *)
(* what receive returns hold while the message numbers fit in 16 bits,     *)
(* which is their hypothesis MaxMessages < Modulus.                        *)
(***************************************************************************)
EXTENDS Netchan, SequenceTheorems, TLAPS

----------------------------------------------------------------------------
\* The inductive invariant, in its parts.

\* The units from + 1 .. to of message n.
Units(n, from, to) == [k \in 1 .. to - from |-> <<n, from + k>>]

\* A message has a length as soon as transmit is called with it, and a number of its
\* own until it is sent or the call throws.
NumbersMatchLengths ==
    /\ Len(length) = IF sending.busy \/ failed THEN outgoingSequence ELSE outgoingSequence - 1
    /\ Len(length) <= MaxMessages
    /\ failed => ~sending.busy

\* Where the loop over transmitNextFragment is.  This code's writer reads its message
\* from where it should only when the message is exactly one fragment long.
LoopPosition ==
    sending.busy =>
        /\ Total >= FragmentSize
        /\ sending.start <= Total
        /\ writtenBy = "server" => sending.position = sending.start
        /\ (writtenBy = "Netchan" /\ Total = FragmentSize) =>
               sending.position = sending.start /\ sending.start \in {0, FragmentSize}

\* A fragment that holds the part of its message that its header says, and is short
\* only where the message ends.
GoodFragment(p) ==
    /\ p.data = Units(p.seq, p.start, p.start + p.len)
    /\ p.start + p.len <= length[p.seq]
    /\ p.len # FragmentSize => p.start + p.len = length[p.seq]

\* What is on the network: whole messages, good fragments, and fragments whose header
\* claims more data than they carry.
SoundPacket(p) ==
    /\ p.seq \in 1 .. Len(length)
    /\ ~p.fragmented => p.data = Data(p.seq)
    /\ p.fragmented => GoodFragment(p) \/ LengthIsBad(p)
PacketsAreSound == \A i \in 1 .. Len(net) : SoundPacket(net[i])

\* What receive has assembled is the beginning of the message it is assembling.
StreamIsAPrefix == fragmentStream = Units(fragmentSequence, 0, Len(fragmentStream))

\* What receive returned was written, and is not newer than the number it keeps.
DeliveredIsPast ==
    \A k \in 1 .. Len(delivered) :
        /\ delivered[k].seq \in 1 .. Len(length)
        /\ delivered[k].seq <= incomingSequence

ChannelInv ==
    /\ TypeOK
    /\ NumbersMatchLengths
    /\ LoopPosition
    /\ PacketsAreSound
    /\ StreamIsAPrefix
    /\ DeliveredIsPast
    /\ DeliveredIntact
    /\ DeliveredInOrder

\* The part of it that is about the writer, and that the types need.
WriterInv == TypeOK /\ NumbersMatchLengths /\ LoopPosition

----------------------------------------------------------------------------
\* A packet, and a message that receive returned.
Packet == [seq : Nat, fragmented : BOOLEAN, start : Nat, len : Nat, data : Seq(Unit)]

\* A unit of a message is a pair of numbers, and so is what an allocation leaves.
LEMMA UnitType ==
    /\ \A n, k \in Nat : <<n, k>> \in Unit
    /\ Garbage \in Unit
<1>1. ASSUME NEW n \in Nat, NEW k \in Nat  PROVE <<n, k>> \in Unit
  BY DEF Unit
<1> QED  BY <1>1 DEF Garbage

\* A sequence of n units.
LEMMA UnitsType ==
    ASSUME NEW n \in Nat, NEW from \in Nat, NEW to \in Nat, from <= to
    PROVE  Units(n, from, to) \in Seq(Unit) /\ Len(Units(n, from, to)) = to - from
<1>1. to - from \in Nat
  OBVIOUS
<1>2. \A k \in 1 .. to - from : <<n, from + k>> \in Unit
  BY UnitType
<1>3. Units(n, from, to) \in [1 .. to - from -> Unit]
  BY <1>2 DEF Units
<1> QED  BY <1>1, <1>3, SeqDef

\* The beginning of a message that is empty.
LEMMA NoUnits == \A n \in Nat : Units(n, 0, 0) = <<>>
<1> SUFFICES ASSUME NEW n \in Nat  PROVE Units(n, 0, 0) = <<>>
  OBVIOUS
<1>1. Units(n, 0, 0) \in Seq(Unit) /\ Len(Units(n, 0, 0)) = 0 - 0
  BY UnitsType, 0 \in Nat, 0 <= 0
<1> QED  BY <1>1, EmptySeq

\* What transmitNextFragment computes while it is sending: the fragments stay inside
\* the message, and only the last one is short.
LEMMA FragmentFacts ==
    ASSUME WriterInv, sending.busy
    PROVE  /\ outgoingSequence \in 1 .. Len(length)
           /\ Total \in Nat
           /\ FragmentLength \in 0 .. FragmentSize
           /\ sending.start + FragmentLength <= Total
           /\ FragmentLength # FragmentSize => sending.start + FragmentLength = Total
           /\ CopyCount \in 0 .. FragmentSize
           /\ LengthField \in Nat
<1>1. outgoingSequence \in 1 .. Len(length) /\ sending.start \in Nat /\ sending.position \in Nat
  BY DEF WriterInv, TypeOK, NumbersMatchLengths
<1>2. Total \in Nat
  <2>1. length \in Seq(Lengths)
    BY DEF WriterInv, TypeOK
  <2>2. length[outgoingSequence] \in Lengths
    BY <1>1, <2>1, ElementOfSeq
  <2> QED  BY <2>2, LengthsAssumption DEF Total
<1>3. sending.start <= Total
  BY DEF WriterInv, LoopPosition
<1>4. /\ FragmentLength \in 0 .. FragmentSize
      /\ sending.start + FragmentLength <= Total
      /\ FragmentLength # FragmentSize => sending.start + FragmentLength = Total
  BY <1>1, <1>2, <1>3, FragmentSizeAssumption DEF FragmentLength
<1>5. CopyCount \in 0 .. FragmentSize
  BY <1>1, <1>4, FragmentSizeAssumption DEF CopyCount
<1>6. LengthField \in Nat
  BY <1>2, <1>4, FragmentSizeAssumption DEF LengthField
<1> QED  BY <1>1, <1>2, <1>4, <1>5, <1>6

\* A fragment never carries more than FRAGMENT_SIZE.
LEMMA FragmentDataType ==
    ASSUME WriterInv, sending.busy
    PROVE  FragmentData \in Seq(Unit) /\ Len(FragmentData) <= FragmentSize
<1> DEFINE m == IF CopyCount > FragmentLength THEN CopyCount ELSE FragmentLength
<1>1. m \in Nat /\ m <= FragmentSize
  BY FragmentFacts, FragmentSizeAssumption
<1>2. sending.position \in Nat /\ outgoingSequence \in Nat
  BY DEF WriterInv, TypeOK
<1>3. FragmentData \in [1 .. m -> Unit]
  BY <1>2, UnitType DEF FragmentData
<1> QED  BY <1>1, <1>3, SeqDef

\* What receive takes from a fragment is p.len units.
LEMMA PayloadType ==
    ASSUME NEW p \in Packet
    PROVE  Payload(p) \in Seq(Unit) /\ Len(Payload(p)) = p.len
<1>1. p.len \in Nat /\ p.data \in Seq(Unit)
  BY DEF Packet
<1>2. ASSUME NEW k \in 1 .. p.len, k <= Len(p.data)  PROVE p.data[k] \in Unit
  BY <1>1, <1>2, ElementOfSeq
<1>3. Payload(p) \in [1 .. p.len -> Unit]
  BY <1>2, UnitType DEF Payload
<1> QED  BY <1>1, <1>3, SeqDef

\* What is on the network when a packet arrives.
LEMMA ArrivingPacket ==
    ASSUME TypeOK, NEW i \in Arriving
    PROVE  i \in 1 .. Len(net) /\ net[i] \in Packet
<1>1. net \in Seq(Packet) /\ cursor \in 0 .. Len(net)
  BY DEF TypeOK, Packet
<1>2. i \in 1 .. Len(net)
  BY <1>1 DEF Arriving
<1> QED  BY <1>1, <1>2, ElementOfSeq

\* receive keeps the types of what it changes, whatever the packet.
LEMMA ReceiveType ==
    ASSUME TypeOK, NEW i \in Arriving, Receive(i)
    PROVE  TypeOK'
<1> DEFINE p == net[i]
<1>1. i \in 1 .. Len(net) /\ p \in Packet
  BY ArrivingPacket
<1>2. p.seq \in Nat /\ p.seq % Modulus \in 0 .. Modulus - 1 /\ p.data \in Seq(Unit)
  BY <1>1, ModulusAssumption DEF Packet
<1>3. Assembled(p) \in Seq(Unit) /\ Payload(p) \in Seq(Unit)
  <2>1. fragmentStream \in Seq(Unit) /\ <<>> \in Seq(Unit)
    BY DEF TypeOK
  <2>2. Assembled(p) \in Seq(Unit)
    BY <2>1 DEF Assembled
  <2> QED  BY <1>1, <2>2, PayloadType
<1>4. Assembled(p) \o Payload(p) \in Seq(Unit)
  BY <1>3, ConcatProperties
<1>5. ASSUME NEW d \in Seq(Unit), Deliver(p, d)
      PROVE  delivered' \in Seq([seq : Nat, data : Seq(Unit)]) /\ incomingSequence' \in 0 .. Modulus - 1
  <2>1. [seq |-> p.seq, data |-> d] \in [seq : Nat, data : Seq(Unit)]
    BY <1>2, <1>5
  <2>2. delivered \in Seq([seq : Nat, data : Seq(Unit)])
    BY DEF TypeOK
  <2>3. Append(delivered, [seq |-> p.seq, data |-> d]) \in Seq([seq : Nat, data : Seq(Unit)])
    BY <2>1, <2>2, AppendProperties
  <2> QED  BY <1>2, <1>5, <2>3 DEF Deliver
<1>6. /\ incomingSequence' \in 0 .. Modulus - 1
      /\ fragmentSequence' \in 0 .. Modulus - 1
      /\ fragmentStream' \in Seq(Unit)
      /\ delivered' \in Seq([seq : Nat, data : Seq(Unit)])
      /\ badLength' \in BOOLEAN
  <2> HIDE DEF p
  <2>1. CASE Discards(p)
    BY <2>1 DEF Receive, receiver, TypeOK, p
  <2>2. CASE ~Discards(p) /\ ~p.fragmented
    <3>1. ReceiveWhole(p)
      BY <2>2 DEF Receive, p
    <3> QED  BY <1>2, <1>5, <3>1 DEF ReceiveWhole, TypeOK
  <2>3. CASE ~Discards(p) /\ p.fragmented
    <3>1. ReceiveFragment(p)
      BY <2>3 DEF Receive, p
    <3>2. fragmentSequence' \in 0 .. Modulus - 1
      BY <1>2, <3>1 DEF ReceiveFragment, TypeOK
    <3>3. badLength' \in BOOLEAN
      BY <3>1 DEF ReceiveFragment, TypeOK
    <3>4. fragmentStream' \in Seq(Unit)
      <4>1. \/ fragmentStream' = Assembled(p)
            \/ fragmentStream' = Assembled(p) \o Payload(p)
            \/ fragmentStream' = <<>>
        BY <3>1 DEF ReceiveFragment
      <4>2. <<>> \in Seq(Unit)
        OBVIOUS
      <4> QED  BY <1>3, <1>4, <4>1, <4>2
    <3>5. /\ incomingSequence' \in 0 .. Modulus - 1
          /\ delivered' \in Seq([seq : Nat, data : Seq(Unit)])
      <4>1. CASE Deliver(p, Assembled(p) \o Payload(p))
        BY <1>4, <1>5, <4>1
      <4>2. CASE UNCHANGED <<incomingSequence, delivered>>
        BY <4>2 DEF TypeOK
      <4> QED  BY <3>1, <4>1, <4>2 DEF ReceiveFragment
    <3> QED  BY <3>2, <3>3, <3>4, <3>5
  <2> QED  BY <2>1, <2>2, <2>3
<1>7. cursor' \in 0 .. Len(net)
  BY <1>1 DEF Receive, TypeOK
<1> QED  BY <1>6, <1>7 DEF Receive, writer, TypeOK

----------------------------------------------------------------------------
\* The writer's part of the invariant holds initially.
LEMMA WriterInit == Init => WriterInv
<1> SUFFICES ASSUME Init PROVE WriterInv
  OBVIOUS
<1>1. sending = [start |-> 0, position |-> 0, busy |-> FALSE]
  BY DEF Init, NotSending
<1>2. TypeOK
  <2>1. /\ outgoingSequence \in 1 .. MaxMessages + 1
        /\ incomingSequence \in 0 .. Modulus - 1
        /\ fragmentSequence \in 0 .. Modulus - 1
    BY ModulusAssumption, BoundsAssumption DEF Init
  <2>2. /\ length \in Seq(Lengths) /\ net \in Seq(Packet) /\ Len(net) = 0
        /\ fragmentStream \in Seq(Unit) /\ delivered \in Seq([seq : Nat, data : Seq(Unit)])
    BY DEF Init
  <2>3. sending \in [start : Nat, position : Nat, busy : BOOLEAN]
    BY <1>1
  <2>4. failed \in BOOLEAN /\ badLength \in BOOLEAN /\ cursor \in 0 .. Len(net)
    <3>1. failed \in BOOLEAN /\ badLength \in BOOLEAN
      BY DEF Init
    <3> QED  BY <2>2, <3>1 DEF Init
  <2> QED  BY <2>1, <2>2, <2>3, <2>4 DEF Init, TypeOK, Packet
<1>3. NumbersMatchLengths
  BY <1>1, BoundsAssumption DEF Init, NumbersMatchLengths
<1>4. LoopPosition
  BY <1>1 DEF LoopPosition
<1> QED  BY <1>2, <1>3, <1>4 DEF WriterInv

\* transmit takes a number for its message and starts to send it.
LEMMA WriterTransmit ==
    ASSUME WriterInv, NEW len \in Lengths, Transmit(len)
    PROVE  WriterInv'
<1>1. /\ len \in Nat /\ outgoingSequence \in 1 .. MaxMessages
      /\ ~sending.busy /\ ~failed /\ failed' = failed
      /\ Len(length) = outgoingSequence - 1
      /\ length \in Seq(Lengths) /\ length' = Append(length, len)
  BY LengthsAssumption, BoundsAssumption DEF Transmit, WriterInv, TypeOK, NumbersMatchLengths
<1>2. /\ length' \in Seq(Lengths)
      /\ Len(length') = outgoingSequence
      /\ length'[outgoingSequence] = len
  BY <1>1, AppendProperties
<1>3. CASE TransmitUnfragmented(len)
  <2>1. outgoingSequence' = outgoingSequence + 1 /\ sending' = sending
    BY <1>3 DEF TransmitUnfragmented
  <2>2. [k \in 1 .. len |-> <<outgoingSequence, k>>] \in Seq(Unit)
    <3>1. \A k \in 1 .. len : <<outgoingSequence, k>> \in Unit
      BY <1>1, UnitType
    <3> QED  BY <1>1, <3>1, SeqDef
  <2>3. net' \in Seq(Packet)
    <3>1. [seq |-> outgoingSequence, fragmented |-> FALSE, start |-> 0, len |-> 0,
           data |-> [k \in 1 .. len |-> <<outgoingSequence, k>>]] \in Packet
      BY <1>1, <2>2 DEF Packet
    <3> QED  BY <1>3, <3>1, AppendProperties DEF TransmitUnfragmented, WriterInv, TypeOK, Packet
  <2>4. Len(net') = Len(net) + 1 /\ Len(net) \in Nat
    BY <1>3, AppendProperties DEF TransmitUnfragmented, WriterInv, TypeOK
  <2>5. TypeOK'
    <3>1. outgoingSequence' \in 1 .. MaxMessages + 1 /\ cursor' \in 0 .. Len(net')
      BY <1>1, <2>1, <2>4, BoundsAssumption DEF Transmit, WriterInv, TypeOK
    <3> QED  BY <1>1, <1>2, <2>1, <2>3, <3>1 DEF Transmit, receiver, WriterInv, TypeOK, Packet
  <2>6. NumbersMatchLengths'
    BY <1>1, <1>2, <2>1 DEF NumbersMatchLengths
  <2>7. LoopPosition'
    BY <1>1, <2>1 DEF LoopPosition
  <2> QED  BY <2>5, <2>6, <2>7 DEF WriterInv
<1>4. CASE TransmitFragmented(len)
  <2>1. /\ outgoingSequence' = outgoingSequence /\ net' = net
        /\ sending' = [start |-> 0, position |-> 0, busy |-> TRUE]
        /\ len >= FragmentSize
    BY <1>4 DEF TransmitFragmented
  <2>2. TypeOK'
    BY <1>1, <1>2, <2>1 DEF Transmit, receiver, WriterInv, TypeOK
  <2>3. NumbersMatchLengths'
    BY <1>1, <1>2, <2>1 DEF NumbersMatchLengths
  <2>4. LoopPosition'
    BY <1>1, <1>2, <2>1 DEF LoopPosition, Total
  <2> QED  BY <2>2, <2>3, <2>4 DEF WriterInv
<1> QED  BY <1>3, <1>4 DEF Transmit

\* transmitNextFragment stays inside the message until it has sent its last fragment.
LEMMA WriterNextFragment ==
    ASSUME WriterInv, TransmitNextFragment
    PROVE  WriterInv'
<1>1. sending.busy /\ length' = length /\ writtenBy' = writtenBy
  BY DEF TransmitNextFragment
<1>2. /\ outgoingSequence \in 1 .. Len(length) /\ Len(length) = outgoingSequence
      /\ outgoingSequence \in 1 .. MaxMessages /\ ~failed
      /\ sending.start \in Nat /\ sending.position \in Nat
  BY <1>1, BoundsAssumption DEF WriterInv, TypeOK, NumbersMatchLengths
<1>3. CASE CopyOverflows
  <2>1. /\ failed' = TRUE /\ outgoingSequence' = outgoingSequence /\ net' = net
        /\ sending' = [start |-> 0, position |-> 0, busy |-> FALSE]
    BY <1>3 DEF TransmitNextFragment, NotSending
  <2>2. TypeOK'
    BY <1>1, <2>1 DEF TransmitNextFragment, receiver, WriterInv, TypeOK
  <2>3. NumbersMatchLengths' /\ LoopPosition'
    BY <1>1, <1>2, <2>1 DEF NumbersMatchLengths, LoopPosition
  <2> QED  BY <2>2, <2>3 DEF WriterInv
<1>4. CASE ~CopyOverflows
  <2>1. net' = Append(net, [seq |-> outgoingSequence, fragmented |-> TRUE, start |-> sending.start,
                            len |-> LengthField, data |-> FragmentData])
    BY <1>4 DEF TransmitNextFragment
  <2>2. net' \in Seq(Packet) /\ Len(net') = Len(net) + 1 /\ Len(net) \in Nat
    <3>1. [seq |-> outgoingSequence, fragmented |-> TRUE, start |-> sending.start,
           len |-> LengthField, data |-> FragmentData] \in Packet
      BY <1>1, <1>2, FragmentFacts, FragmentDataType DEF Packet
    <3> QED  BY <2>1, <3>1, AppendProperties DEF WriterInv, TypeOK, Packet
  <2>3. CASE LastFragment
    <3>1. /\ failed' = failed /\ outgoingSequence' = outgoingSequence + 1
          /\ sending' = [start |-> 0, position |-> 0, busy |-> FALSE]
      BY <1>4, <2>3 DEF TransmitNextFragment, NotSending
    <3>2. TypeOK'
      <4>1. outgoingSequence' \in 1 .. MaxMessages + 1 /\ cursor' \in 0 .. Len(net')
        BY <1>2, <2>2, <3>1, BoundsAssumption DEF TransmitNextFragment, WriterInv, TypeOK
      <4> QED  BY <1>1, <2>2, <3>1, <4>1 DEF TransmitNextFragment, receiver, WriterInv, TypeOK, Packet
    <3>3. NumbersMatchLengths' /\ LoopPosition'
      BY <1>1, <1>2, <3>1 DEF NumbersMatchLengths, LoopPosition
    <3> QED  BY <3>2, <3>3 DEF WriterInv
  <2>4. CASE ~LastFragment
    <3>1. /\ failed' = failed /\ outgoingSequence' = outgoingSequence
          /\ sending' = [start |-> sending.start + FragmentLength,
                         position |-> sending.position + CopyCount, busy |-> TRUE]
      BY <1>4, <2>4 DEF TransmitNextFragment
    <3>2. /\ sending.start + FragmentLength \in Nat /\ sending.position + CopyCount \in Nat
          /\ FragmentLength = FragmentSize
      BY <1>1, <1>2, <2>4, FragmentFacts, FragmentSizeAssumption DEF LastFragment
    <3>3. TypeOK'
      BY <1>1, <1>2, <2>2, <3>1, <3>2 DEF TransmitNextFragment, receiver, WriterInv, TypeOK, Packet
    <3>4. NumbersMatchLengths'
      BY <1>1, <1>2, <3>1 DEF NumbersMatchLengths, WriterInv
    <3>5. LoopPosition'
      <4>1. Total' = Total /\ Total \in Nat
        BY <1>1, <3>1, FragmentFacts DEF Total
      <4>2. Total >= FragmentSize /\ sending.start + FragmentLength <= Total
        BY <1>1, FragmentFacts DEF WriterInv, LoopPosition
      <4>3. writtenBy = "server" => sending'.position = sending'.start
        BY <1>1, <3>1 DEF WriterInv, LoopPosition, CopyCount
      <4>4. ASSUME writtenBy = "Netchan", Total = FragmentSize
            PROVE  sending'.position = sending'.start /\ sending'.start = FragmentSize
        <5>1. sending.start = 0 /\ sending.position = 0
          BY <1>1, <1>2, <3>2, <4>2, <4>4, FragmentSizeAssumption DEF WriterInv, LoopPosition
        <5> QED  BY <3>1, <3>2, <4>4, <5>1, FragmentSizeAssumption DEF CopyCount
      <4> QED  BY <1>1, <3>1, <4>1, <4>2, <4>3, <4>4 DEF LoopPosition
    <3> QED  BY <3>3, <3>4, <3>5 DEF WriterInv
  <2> QED  BY <2>3, <2>4
<1> QED  BY <1>3, <1>4

\* Every step of the channel keeps the writer's part of the invariant.
LEMMA WriterStep == WriterInv /\ [Next]_vars => WriterInv'
<1> SUFFICES ASSUME WriterInv, [Next]_vars  PROVE WriterInv'
  OBVIOUS
<1>1. ASSUME NEW len \in Lengths, Transmit(len)  PROVE WriterInv'
  BY <1>1, WriterTransmit
<1>2. CASE TransmitNextFragment
  BY <1>2, WriterNextFragment
<1>3. ASSUME NEW i \in Arriving, Receive(i)  PROVE WriterInv'
  <2>1. TypeOK'
    BY <1>3, ReceiveType DEF WriterInv
  <2> QED  BY <1>3, <2>1 DEF Receive, writer, WriterInv, NumbersMatchLengths, LoopPosition, Total
<1>4. CASE UNCHANGED vars
  BY <1>4 DEF vars, writer, receiver, WriterInv, TypeOK, NumbersMatchLengths, LoopPosition, Total
<1> QED  BY <1>1, <1>2, <1>3, <1>4 DEF Next

\* Every variable keeps its type: the number and the length of a message, the data of
\* its fragments, and the 16-bit counters of Netchan::receive, for every counter width.
THEOREM TypeCorrect == Spec => []TypeOK
<1>1. WriterInv => TypeOK
  BY DEF WriterInv
<1> QED  BY <1>1, WriterInit, WriterStep, PTL DEF Spec

----------------------------------------------------------------------------
\* The beginning of a message and the units that follow it are a longer beginning.
LEMMA UnitsConcat ==
    ASSUME NEW n \in Nat, NEW a \in Nat, NEW b \in Nat, a <= b
    PROVE  Units(n, 0, a) \o Units(n, a, b) = Units(n, 0, b)
<1> DEFINE s == Units(n, 0, a)
           t == Units(n, a, b)
           u == Units(n, 0, b)
<1>1. /\ s \in Seq(Unit) /\ Len(s) = a
      /\ t \in Seq(Unit) /\ Len(t) = b - a
      /\ u \in Seq(Unit) /\ Len(u) = b
  <2>1. s \in Seq(Unit) /\ Len(s) = a - 0
    BY UnitsType, 0 \in Nat, 0 <= a
  <2>2. u \in Seq(Unit) /\ Len(u) = b - 0
    BY UnitsType, 0 \in Nat, 0 <= b
  <2>3. t \in Seq(Unit) /\ Len(t) = b - a
    BY UnitsType
  <2> QED  BY <2>1, <2>2, <2>3
<1>2. /\ \A k \in 1 .. a : s[k] = <<n, k>>
      /\ \A k \in 1 .. b : u[k] = <<n, k>>
      /\ \A k \in 1 .. b - a : t[k] = <<n, a + k>>
  BY DEF Units
<1> HIDE DEF s, t, u
<1>3. /\ s \o t \in Seq(Unit) /\ Len(s \o t) = b
      /\ \A k \in 1 .. b : (s \o t)[k] = IF k <= a THEN s[k] ELSE t[k - a]
  <2>1. /\ s \o t \in Seq(Unit) /\ Len(s \o t) = Len(s) + Len(t)
        /\ \A k \in 1 .. Len(s) + Len(t) :
             (s \o t)[k] = IF k <= Len(s) THEN s[k] ELSE t[k - Len(s)]
    BY <1>1, ConcatProperties, Zenon
  <2>2. Len(s) + Len(t) = b
    BY <1>1
  <2> QED  BY <1>1, <2>1, <2>2
<1>4. ASSUME NEW k \in 1 .. b  PROVE (s \o t)[k] = u[k]
  <2>1. CASE k <= a
    <3>1. (s \o t)[k] = s[k] /\ k \in 1 .. a
      BY <1>3, <2>1
    <3> QED  BY <1>2, <3>1
  <2>2. CASE k > a
    <3>1. (s \o t)[k] = t[k - a] /\ k - a \in 1 .. b - a
      BY <1>3, <2>2
    <3>2. PICK j \in 1 .. b - a : j = k - a /\ k = a + j
      BY <3>1
    <3>3. t[j] = <<n, k>>
      BY <1>2, <3>2
    <3>4. u[k] = <<n, k>> /\ (s \o t)[k] = t[j]
      BY <1>2, <3>1, <3>2
    <3> QED  BY <3>3, <3>4
  <2>3. k <= a \/ k > a
    OBVIOUS
  <2> QED  BY <2>1, <2>2, <2>3
<1>5. s \o t = u
  <2>1. Len(s \o t) = Len(u) /\ \A k \in 1 .. Len(s \o t) : (s \o t)[k] = u[k]
    BY <1>1, <1>3, <1>4
  <2> QED  BY <1>1, <1>3, <2>1, SeqEqual, Zenon
<1> QED  BY <1>5 DEF s, t, u

\* Every fragment that transmitNextFragment writes is a good one or one that receive
\* refuses: this code's own long messages are of the second kind.
LEMMA NextFragmentIsSound ==
    ASSUME WriterInv, sending.busy
    PROVE  LET p == [seq |-> outgoingSequence, fragmented |-> TRUE, start |-> sending.start,
                     len |-> LengthField, data |-> FragmentData]
           IN  GoodFragment(p) \/ LengthIsBad(p)
<1> DEFINE p == [seq |-> outgoingSequence, fragmented |-> TRUE, start |-> sending.start,
                 len |-> LengthField, data |-> FragmentData]
           n == outgoingSequence
           start == sending.start
<1>1. /\ n \in Nat /\ start \in Nat /\ sending.position \in Nat
      /\ FragmentSize \in Nat /\ FragmentSize > 0
      /\ Total \in Nat /\ Total = length[n]
      /\ FragmentLength \in 0 .. FragmentSize
      /\ start + FragmentLength <= Total
      /\ FragmentLength # FragmentSize => start + FragmentLength = Total
  <2>1. n \in Nat /\ start \in Nat /\ sending.position \in Nat
    BY DEF WriterInv, TypeOK
  <2>2. Total = length[n]
    BY DEF Total
  <2> QED  BY <2>1, <2>2, FragmentFacts, FragmentSizeAssumption
<1>2. ASSUME sending.position = start, CopyCount = FragmentLength, LengthField = FragmentLength
      PROVE  GoodFragment(p)
  <2>1. FragmentData = [k \in 1 .. FragmentLength |-> <<n, start + k>>]
    <3>1. FragmentData =
            [k \in 1 .. FragmentLength |->
               IF k <= FragmentLength /\ start + k <= Total THEN <<n, start + k>> ELSE Garbage]
      BY <1>1, <1>2 DEF FragmentData
    <3>2. \A k \in 1 .. FragmentLength : k <= FragmentLength /\ start + k <= Total
      BY <1>1
    <3> QED  BY <3>1, <3>2
  <2>2. Units(n, start, start + FragmentLength) = [k \in 1 .. FragmentLength |-> <<n, start + k>>]
    <3>1. (start + FragmentLength) - start = FragmentLength
      BY <1>1
    <3> QED  BY <3>1 DEF Units
  <2>3. /\ p.seq = n /\ p.start = start /\ p.len = FragmentLength
        /\ p.data = Units(n, start, start + FragmentLength)
    BY <1>2, <2>1, <2>2
  <2> HIDE DEF p
  <2> QED  BY <1>1, <2>3 DEF GoodFragment
<1>3. CASE writtenBy = "server"
  <2>1. sending.position = start /\ CopyCount = FragmentLength /\ LengthField = FragmentLength
    BY <1>3 DEF WriterInv, LoopPosition, CopyCount, LengthField
  <2> QED  BY <1>2, <2>1
<1>4. CASE writtenBy = "Netchan"
  <2>1. LengthField = Total /\ Total >= FragmentSize
    BY <1>4 DEF WriterInv, LoopPosition, LengthField
  <2>2. CASE Total > FragmentSize
    <3>1. Len(FragmentData) <= FragmentSize /\ Len(FragmentData) \in Nat
      BY FragmentDataType
    <3> QED  BY <1>1, <2>1, <2>2, <3>1 DEF LengthIsBad
  <2>3. CASE Total = FragmentSize
    <3>1. sending.position = start /\ start \in {0, FragmentSize}
      BY <1>4, <2>3 DEF WriterInv, LoopPosition
    <3>2. CASE start = 0
      <4>1. FragmentLength = FragmentSize /\ CopyCount = FragmentSize
        BY <1>1, <1>4, <2>3, <3>1, <3>2 DEF FragmentLength, CopyCount
      <4> QED  BY <1>2, <2>1, <2>3, <3>1, <4>1
    <3>3. CASE start = FragmentSize
      <4>1. FragmentLength = 0 /\ CopyCount = 0
        BY <1>1, <1>4, <2>3, <3>1, <3>3 DEF FragmentLength, CopyCount
      <4>2. DOMAIN FragmentData = 1 .. 0
        BY <4>1 DEF FragmentData
      <4>3. Len(FragmentData) = 0
        BY <4>2, FragmentDataType
      <4> QED  BY <1>1, <2>1, <2>3, <4>3 DEF LengthIsBad
    <3> QED  BY <3>1, <3>2, <3>3
  <2> QED  BY <1>1, <2>1, <2>2, <2>3
<1> QED  BY <1>3, <1>4, WritersAssumption DEF WriterInv, TypeOK

\* A fragment that follows what is assembled makes it a longer beginning of the message.
LEMMA AssembledGrows ==
    ASSUME TypeOK, StreamIsAPrefix, NEW p \in Packet,
           GoodFragment(p), Follows(p)
    PROVE  Assembled(p) \o Payload(p) = Units(p.seq, 0, p.start + p.len)
<1>1. p.seq \in Nat /\ p.start \in Nat /\ p.len \in Nat
  BY DEF Packet
<1>2. Assembled(p) = Units(p.seq, 0, p.start)
  <2>1. CASE SameMessage(p)
    BY <2>1 DEF SameMessage, Assembled, Follows, StreamIsAPrefix
  <2>2. CASE ~SameMessage(p)
    <3>1. Assembled(p) = <<>> /\ p.start = 0
      BY <2>2 DEF Assembled, Follows
    <3> QED  BY <1>1, <3>1, NoUnits
  <2> QED  BY <2>1, <2>2
<1>3. Payload(p) = Units(p.seq, p.start, p.start + p.len)
  <2>1. p.data = Units(p.seq, p.start, p.start + p.len)
    BY DEF GoodFragment
  <2>2. Units(p.seq, p.start, p.start + p.len) \in Seq(Unit)
        /\ Len(Units(p.seq, p.start, p.start + p.len)) = p.len
    <3>1. /\ p.start + p.len \in Nat /\ p.start <= p.start + p.len
          /\ (p.start + p.len) - p.start = p.len
      BY <1>1
    <3> QED  BY <1>1, <3>1, UnitsType
  <2>3. Payload(p) \in Seq(Unit) /\ Len(Payload(p)) = p.len
    BY PayloadType
  <2>4. \A k \in 1 .. p.len : Payload(p)[k] = p.data[k]
    BY <1>1, <2>1, <2>2 DEF Payload
  <2>5. /\ p.data \in Seq(Unit) /\ Len(Payload(p)) = Len(p.data)
        /\ \A k \in 1 .. Len(Payload(p)) : Payload(p)[k] = p.data[k]
    BY <2>1, <2>2, <2>3, <2>4
  <2>6. Payload(p) = p.data
    BY <2>3, <2>5, SeqEqual, Zenon
  <2> QED  BY <2>1, <2>6
<1>4. p.start + p.len \in Nat /\ p.start <= p.start + p.len
  BY <1>1
<1>5. Units(p.seq, 0, p.start) \o Units(p.seq, p.start, p.start + p.len) = Units(p.seq, 0, p.start + p.len)
  BY <1>1, <1>4, UnitsConcat, Zenon
<1> QED  BY <1>2, <1>3, <1>5, Zenon

----------------------------------------------------------------------------
\* The invariant holds initially.
LEMMA ChannelInit == Init => ChannelInv
<1> SUFFICES ASSUME Init PROVE ChannelInv
  OBVIOUS
<1>1. WriterInv
  BY WriterInit
<1>2. Len(net) = 0 /\ Len(delivered) = 0
  BY DEF Init
<1>3. StreamIsAPrefix
  <2>1. fragmentStream = <<>> /\ fragmentSequence = 0 /\ Len(fragmentStream) = 0
    BY DEF Init
  <2> QED  BY <2>1, NoUnits DEF StreamIsAPrefix
<1> QED  BY <1>1, <1>2, <1>3
         DEF ChannelInv, WriterInv, PacketsAreSound, DeliveredIsPast, DeliveredIntact, DeliveredInOrder

\* A message keeps its length once it has one, whoever calls transmit next.
LEMMA LengthsAreKept ==
    ASSUME WriterInv, NEW len \in Lengths, Transmit(len), NEW n \in 1 .. Len(length)
    PROVE  /\ n \in 1 .. Len(length')
           /\ length'[n] = length[n]
           /\ Data(n)' = Data(n)
<1>1. length \in Seq(Lengths) /\ length' = Append(length, len)
  BY DEF WriterInv, TypeOK, Transmit
<1>2. length'[n] = length[n] /\ n \in 1 .. Len(length')
  BY <1>1, AppendProperties
<1> QED  BY <1>2 DEF Data

\* A packet stays sound when a message is written after it.
LEMMA SoundIsKept ==
    ASSUME WriterInv, NEW len \in Lengths, Transmit(len), NEW p, SoundPacket(p)
    PROVE  SoundPacket(p)'
<1>1. p.seq \in 1 .. Len(length)
  BY DEF SoundPacket
<1>2. /\ p.seq \in 1 .. Len(length') /\ length'[p.seq] = length[p.seq]
      /\ Data(p.seq)' = Data(p.seq)
  BY <1>1, LengthsAreKept
<1>3. GoodFragment(p) => GoodFragment(p)'
  BY <1>2 DEF GoodFragment, Units
<1>4. LengthIsBad(p) => LengthIsBad(p)'
  BY DEF LengthIsBad
<1> QED  BY <1>2, <1>3, <1>4 DEF SoundPacket

\* The network after a packet q is written, when q is sound and the others still are.
LEMMA SoundAppend ==
    ASSUME net \in Seq(Packet), NEW q \in Packet, net' = Append(net, q), SoundPacket(q)',
           \A p \in Packet : SoundPacket(p) => SoundPacket(p)',
           PacketsAreSound
    PROVE  PacketsAreSound'
<1> SUFFICES ASSUME NEW i \in 1 .. Len(net')  PROVE SoundPacket(net[i])'
  BY DEF PacketsAreSound
<1>1. /\ Len(net') = Len(net) + 1 /\ Len(net) \in Nat
      /\ \A j \in 1 .. Len(net) : net'[j] = net[j]
      /\ net'[Len(net) + 1] = q
  BY AppendProperties
<1>2. PICK p \in Packet : p = net'[i] /\ SoundPacket(p)'
  <2>1. CASE i \in 1 .. Len(net)
    <3>1. net'[i] = net[i] /\ net[i] \in Packet
      BY <1>1, <2>1, ElementOfSeq
    <3>2. PICK p \in Packet : p = net[i]
      BY <3>1
    <3>3. SoundPacket(p)
      BY <2>1, <3>2 DEF PacketsAreSound
    <3>4. SoundPacket(p)'
      BY <3>2, <3>3
    <3> QED  BY <3>1, <3>2, <3>4
  <2>2. CASE i = Len(net) + 1
    BY <1>1, <2>2
  <2> QED  BY <1>1, <2>1, <2>2
<1> QED  BY <1>2 DEF SoundPacket, GoodFragment, LengthIsBad, Data, Units

\* What is on the network stays sound when transmit is called: a short message is one
\* packet that holds all of it.
LEMMA PacketsTransmit ==
    ASSUME WriterInv, PacketsAreSound, NEW len \in Lengths, Transmit(len)
    PROVE  PacketsAreSound'
<1>1. \A p \in Packet : SoundPacket(p) => SoundPacket(p)'
  BY SoundIsKept
<1>2. net \in Seq(Packet)
  BY DEF WriterInv, TypeOK, Packet
<1>3. CASE TransmitUnfragmented(len)
  <2> DEFINE n == outgoingSequence
             q == [seq |-> n, fragmented |-> FALSE, start |-> 0, len |-> 0,
                   data |-> [k \in 1 .. len |-> <<n, k>>]]
  <2>1. net' = Append(net, q)
    BY <1>3 DEF TransmitUnfragmented
  <2>2. /\ n \in 1 .. MaxMessages /\ len \in Nat /\ Len(length) = n - 1
        /\ length \in Seq(Lengths) /\ length' = Append(length, len)
    BY LengthsAssumption, BoundsAssumption DEF Transmit, WriterInv, TypeOK, NumbersMatchLengths
  <2>3. Len(length') = n /\ length'[n] = len
    BY <2>2, AppendProperties
  <2>4. q \in Packet
    <3>1. \A k \in 1 .. len : <<n, k>> \in Unit
      BY <2>2, UnitType
    <3>2. [k \in 1 .. len |-> <<n, k>>] \in Seq(Unit)
      BY <2>2, <3>1, SeqDef
    <3> QED  BY <2>2, <3>2 DEF Packet
  <2>5. PICK c \in Packet : c = q
    BY <2>4
  <2>6. SoundPacket(c)'
    <3>1. /\ c.seq = n /\ c.fragmented = FALSE
          /\ c.data = [k \in 1 .. len |-> <<n, k>>]
      BY <2>5
    <3>2. c.data = [k \in 1 .. length'[c.seq] |-> <<c.seq, k>>]
      BY <2>3, <3>1
    <3> QED  BY <2>2, <2>3, <3>1, <3>2 DEF SoundPacket, Data
  <2> QED  BY <1>1, <1>2, <2>1, <2>5, <2>6, SoundAppend
<1>4. CASE TransmitFragmented(len)
  <2>1. net' = net
    BY <1>4 DEF TransmitFragmented
  <2> SUFFICES ASSUME NEW i \in 1 .. Len(net)  PROVE SoundPacket(net[i])'
    BY <2>1 DEF PacketsAreSound
  <2>2. PICK p \in Packet : p = net[i]
    BY <1>2, ElementOfSeq
  <2>3. SoundPacket(p)'
    BY <1>1, <2>2 DEF PacketsAreSound
  <2> QED  BY <2>1, <2>2, <2>3 DEF SoundPacket, GoodFragment, LengthIsBad, Data, Units
<1> QED  BY <1>3, <1>4 DEF Transmit

\* And when transmitNextFragment writes a fragment.
LEMMA PacketsNextFragment ==
    ASSUME WriterInv, PacketsAreSound, TransmitNextFragment
    PROVE  PacketsAreSound'
<1>1. sending.busy /\ length' = length
  BY DEF TransmitNextFragment
<1>2. \A p \in Packet : SoundPacket(p) => SoundPacket(p)'
  BY <1>1 DEF SoundPacket, GoodFragment, LengthIsBad, Data, Units
<1>3. net \in Seq(Packet)
  BY DEF WriterInv, TypeOK, Packet
<1>4. CASE CopyOverflows
  BY <1>1, <1>4 DEF TransmitNextFragment, PacketsAreSound, SoundPacket, GoodFragment, LengthIsBad, Data, Units
<1>5. CASE ~CopyOverflows
  <2> DEFINE q == [seq |-> outgoingSequence, fragmented |-> TRUE, start |-> sending.start,
                   len |-> LengthField, data |-> FragmentData]
  <2>1. net' = Append(net, q)
    BY <1>5 DEF TransmitNextFragment
  <2>2. q \in Packet
    <3>1. outgoingSequence \in Nat /\ sending.start \in Nat
      BY DEF WriterInv, TypeOK
    <3> QED  BY <1>1, <3>1, FragmentFacts, FragmentDataType DEF Packet
  <2>3. SoundPacket(q)
    <3>1. GoodFragment(q) \/ LengthIsBad(q)
      BY <1>1, NextFragmentIsSound
    <3>2. q.seq \in 1 .. Len(length) /\ q.fragmented = TRUE
      BY <1>1, FragmentFacts
    <3> HIDE DEF q
    <3> QED  BY <3>1, <3>2 DEF SoundPacket
  <2> HIDE DEF q
  <2>4. PICK c \in Packet : c = q
    BY <2>2
  <2>5. SoundPacket(c)'
    BY <1>2, <2>3, <2>4
  <2> QED  BY <1>2, <1>3, <2>1, <2>4, <2>5, SoundAppend
<1> QED  BY <1>4, <1>5

----------------------------------------------------------------------------
\* The steps of receive on a sound packet, while the numbers fit in 16 bits.
LEMMA ChannelReceive ==
    ASSUME MaxMessages < Modulus, ChannelInv, NEW i \in Arriving, Receive(i)
    PROVE  /\ StreamIsAPrefix'
           /\ DeliveredIsPast'
           /\ DeliveredIntact'
           /\ DeliveredInOrder'
<1>1. PICK p \in Packet : p = net[i] /\ SoundPacket(p)
  <2>1. i \in 1 .. Len(net) /\ net[i] \in Packet
    BY ArrivingPacket DEF ChannelInv
  <2> QED  BY <2>1 DEF ChannelInv, PacketsAreSound
<1>2. /\ p.seq \in 1 .. Len(length) /\ p.seq \in Nat /\ p.seq % Modulus = p.seq
      /\ p.len \in Nat /\ p.start \in Nat
  <2>1. p.seq \in 1 .. Len(length) /\ Len(length) <= MaxMessages
    BY <1>1 DEF SoundPacket, ChannelInv, NumbersMatchLengths
  <2>2. p.seq \in 1 .. MaxMessages
    BY <2>1, BoundsAssumption DEF ChannelInv, TypeOK
  <2> QED  BY <2>1, <2>2, ModulusAssumption, BoundsAssumption DEF Packet
<1>3. /\ length' = length /\ incomingSequence \in Nat
      /\ delivered \in Seq([seq : Nat, data : Seq(Unit)])
  BY DEF Receive, writer, ChannelInv, TypeOK
<1>4. ASSUME UNCHANGED <<incomingSequence, delivered>>
      PROVE  DeliveredIsPast' /\ DeliveredIntact' /\ DeliveredInOrder'
  BY <1>3, <1>4 DEF ChannelInv, DeliveredIsPast, DeliveredIntact, DeliveredInOrder, Data
<1>5. ASSUME NEW d \in Seq(Unit), d = Data(p.seq), Deliver(p, d), ~Discards(p)
      PROVE  DeliveredIsPast' /\ DeliveredIntact' /\ DeliveredInOrder'
  <2>1. /\ Len(delivered') = Len(delivered) + 1 /\ Len(delivered) \in Nat
        /\ \A k \in 1 .. Len(delivered) : delivered'[k] = delivered[k]
        /\ delivered'[Len(delivered) + 1] = [seq |-> p.seq, data |-> d]
    <3>1. [seq |-> p.seq, data |-> d] \in [seq : Nat, data : Seq(Unit)]
      BY <1>2
    <3>2. delivered' = Append(delivered, [seq |-> p.seq, data |-> d])
      BY <1>5 DEF Deliver
    <3> QED  BY <1>3, <3>1, <3>2, AppendProperties
  <2>2. incomingSequence' = p.seq /\ incomingSequence <= p.seq
    BY <1>2, <1>3, <1>5 DEF Deliver, Discards
  <2>3. \A k \in 1 .. Len(delivered) :
          /\ delivered[k].seq \in 1 .. Len(length)
          /\ delivered[k].seq <= incomingSequence
    BY DEF ChannelInv, DeliveredIsPast
  <2>4. \A k \in 1 .. Len(delivered) : delivered[k].seq <= p.seq
    <3> SUFFICES ASSUME NEW k \in 1 .. Len(delivered)  PROVE delivered[k].seq <= p.seq
      OBVIOUS
    <3>1. delivered[k].seq \in Int /\ delivered[k].seq <= incomingSequence
      BY <2>3
    <3> QED  BY <1>2, <1>3, <2>2, <3>1
  <2>5. delivered'[Len(delivered) + 1].seq = p.seq /\ delivered'[Len(delivered) + 1].data = d
    BY <2>1
  <2>6. \A k \in 1 .. Len(delivered') : k \in 1 .. Len(delivered) \/ k = Len(delivered) + 1
    BY <2>1
  <2>7. DeliveredIsPast'
    <3> SUFFICES ASSUME NEW k \in 1 .. Len(delivered')
                 PROVE  delivered'[k].seq \in 1 .. Len(length) /\ delivered'[k].seq <= p.seq
      BY <1>3, <2>2 DEF DeliveredIsPast
    <3>1. CASE k \in 1 .. Len(delivered)
      BY <2>1, <2>3, <2>4, <3>1
    <3>2. CASE k = Len(delivered) + 1
      BY <1>2, <2>5, <3>2
    <3> QED  BY <2>6, <3>1, <3>2
  <2>8. DeliveredIntact'
    <3> SUFFICES ASSUME NEW k \in 1 .. Len(delivered')
                 PROVE  delivered'[k].data = Data(delivered'[k].seq)
      BY <1>3 DEF DeliveredIntact, Data
    <3>1. CASE k \in 1 .. Len(delivered)
      <4>1. delivered[k].data = Data(delivered[k].seq)
        BY <3>1 DEF ChannelInv, DeliveredIntact
      <4> QED  BY <2>1, <3>1, <4>1
    <3>2. CASE k = Len(delivered) + 1
      BY <1>5, <2>5, <3>2
    <3> QED  BY <2>6, <3>1, <3>2
  <2>9. DeliveredInOrder'
    <3> SUFFICES ASSUME NEW j \in 1 .. Len(delivered'), NEW k \in 1 .. Len(delivered'), j < k
                 PROVE  delivered'[j].seq <= delivered'[k].seq
      BY DEF DeliveredInOrder
    <3>1. j \in 1 .. Len(delivered)
      BY <2>1
    <3>2. CASE k \in 1 .. Len(delivered)
      BY <2>1, <3>1, <3>2 DEF ChannelInv, DeliveredInOrder
    <3>3. CASE k = Len(delivered) + 1
      BY <2>1, <2>4, <2>5, <3>1, <3>3
    <3> QED  BY <2>6, <3>2, <3>3
  <2> QED  BY <2>7, <2>8, <2>9
<1>6. CASE Discards(p)
  <2>1. UNCHANGED receiver
    BY <1>1, <1>6 DEF Receive
  <2>2. StreamIsAPrefix'
    BY <2>1 DEF receiver, ChannelInv, StreamIsAPrefix, Units
  <2> QED  BY <1>4, <2>1, <2>2 DEF receiver
<1>7. CASE ~Discards(p) /\ ~p.fragmented
  <2>1. ReceiveWhole(p)
    BY <1>1, <1>7 DEF Receive
  <2>2. p.data = Data(p.seq) /\ p.data \in Seq(Unit)
    BY <1>1, <1>7 DEF SoundPacket, Packet
  <2>3. StreamIsAPrefix'
    BY <2>1 DEF ReceiveWhole, ChannelInv, StreamIsAPrefix, Units
  <2> QED  BY <1>5, <1>7, <2>1, <2>2, <2>3 DEF ReceiveWhole
<1>8. CASE ~Discards(p) /\ p.fragmented
  <2>1. ReceiveFragment(p)
    BY <1>1, <1>8 DEF Receive
  <2>2. fragmentSequence' = p.seq
    BY <1>2, <2>1 DEF ReceiveFragment, SameMessage
  <2>3. Assembled(p) = Units(p.seq, 0, Len(Assembled(p)))
    <3>1. CASE SameMessage(p)
      BY <3>1 DEF SameMessage, Assembled, ChannelInv, StreamIsAPrefix
    <3>2. CASE ~SameMessage(p)
      BY <1>2, <3>2, NoUnits DEF Assembled
    <3> QED  BY <3>1, <3>2
  <2>4. CASE ~Follows(p) \/ LengthIsBad(p)
    <3>1. fragmentStream' = Assembled(p) /\ UNCHANGED <<incomingSequence, delivered>>
      BY <2>1, <2>4 DEF ReceiveFragment
    <3>2. StreamIsAPrefix'
      BY <2>2, <2>3, <3>1 DEF StreamIsAPrefix, Units
    <3> QED  BY <1>4, <3>1, <3>2
  <2>5. CASE Follows(p) /\ ~LengthIsBad(p)
    <3> DEFINE stream == Assembled(p) \o Payload(p)
               end == p.start + p.len
    <3>1. GoodFragment(p)
      BY <1>1, <1>8, <2>5 DEF SoundPacket
    <3>2. stream = Units(p.seq, 0, end)
      BY <2>5, <3>1, AssembledGrows DEF ChannelInv
    <3>3. end \in Nat /\ stream \in Seq(Unit) /\ Len(stream) = end
      <4>1. end \in Nat /\ 0 <= end /\ end - 0 = end
        BY <1>2
      <4> HIDE DEF end, stream
      <4> QED  BY <1>2, <3>2, <4>1, UnitsType, 0 \in Nat
    <3>4. CASE p.len = FragmentSize
      <4>1. fragmentStream' = stream /\ UNCHANGED <<incomingSequence, delivered>>
        BY <2>1, <2>5, <3>4 DEF ReceiveFragment
      <4>2. StreamIsAPrefix'
        <5> HIDE DEF stream, end
        <5> QED  BY <2>2, <3>2, <3>3, <4>1 DEF StreamIsAPrefix, Units
      <4> QED  BY <1>4, <4>1, <4>2
    <3>5. CASE p.len # FragmentSize
      <4>1. fragmentStream' = <<>> /\ Deliver(p, stream)
        BY <2>1, <2>5, <3>5 DEF ReceiveFragment
      <4>2. end = length[p.seq]
        BY <3>1, <3>5 DEF GoodFragment
      <4>3. stream = Data(p.seq)
        <5>1. end - 0 = end /\ \A k \in 1 .. end : 0 + k = k
          BY <3>3
        <5>2. Units(p.seq, 0, end) = [k \in 1 .. end |-> <<p.seq, k>>]
          BY <5>1 DEF Units
        <5> HIDE DEF stream, end
        <5> QED  BY <3>2, <4>2, <5>2 DEF Data
      <4>4. StreamIsAPrefix'
        <5>1. Units(p.seq, 0, 0) = <<>>
          BY <1>2, NoUnits
        <5>2. fragmentStream' = <<>> /\ Len(fragmentStream') = 0
          BY <4>1
        <5> QED  BY <2>2, <5>1, <5>2 DEF StreamIsAPrefix, Units
      <4> HIDE DEF stream, end
      <4> QED  BY <1>5, <1>8, <3>3, <4>1, <4>3, <4>4
    <3> QED  BY <3>4, <3>5
  <2> QED  BY <2>4, <2>5
<1> QED  BY <1>6, <1>7, <1>8

\* Every step of the channel keeps the invariant, while the numbers fit in 16 bits.
LEMMA ChannelStep ==
    ASSUME MaxMessages < Modulus
    PROVE  ChannelInv /\ [Next]_vars => ChannelInv'
<1> SUFFICES ASSUME ChannelInv, [Next]_vars  PROVE ChannelInv'
  OBVIOUS
<1>1. WriterInv /\ WriterInv'
  <2>1. WriterInv
    BY DEF ChannelInv, WriterInv
  <2> QED  BY <2>1, WriterStep
<1>2. ASSUME NEW len \in Lengths, Transmit(len)
      PROVE  /\ PacketsAreSound' /\ StreamIsAPrefix' /\ DeliveredIsPast'
             /\ DeliveredIntact' /\ DeliveredInOrder'
  <2>1. PacketsAreSound'
    BY <1>1, <1>2, PacketsTransmit DEF ChannelInv
  <2>2. UNCHANGED receiver
    BY <1>2 DEF Transmit
  <2>3. StreamIsAPrefix' /\ DeliveredInOrder'
    BY <2>2 DEF receiver, ChannelInv, StreamIsAPrefix, DeliveredInOrder, Units
  <2>4. \A n \in 1 .. Len(length) : n \in 1 .. Len(length') /\ Data(n)' = Data(n)
    BY <1>1, <1>2, LengthsAreKept
  <2>5. DeliveredIsPast' /\ DeliveredIntact'
    BY <2>2, <2>4 DEF receiver, ChannelInv, DeliveredIsPast, DeliveredIntact, Data
  <2> QED  BY <2>1, <2>3, <2>5
<1>3. ASSUME TransmitNextFragment
      PROVE  /\ PacketsAreSound' /\ StreamIsAPrefix' /\ DeliveredIsPast'
             /\ DeliveredIntact' /\ DeliveredInOrder'
  <2>1. PacketsAreSound'
    BY <1>1, <1>3, PacketsNextFragment DEF ChannelInv
  <2> QED  BY <1>3, <2>1 DEF TransmitNextFragment, receiver, ChannelInv, StreamIsAPrefix, DeliveredIsPast,
                             DeliveredIntact, DeliveredInOrder, Data, Units
<1>4. ASSUME NEW i \in Arriving, Receive(i)
      PROVE  /\ PacketsAreSound' /\ StreamIsAPrefix' /\ DeliveredIsPast'
             /\ DeliveredIntact' /\ DeliveredInOrder'
  <2>1. PacketsAreSound'
    BY <1>4 DEF Receive, writer, ChannelInv, PacketsAreSound, SoundPacket, GoodFragment, LengthIsBad, Data, Units
  <2> QED  BY <1>4, <2>1, ChannelReceive
<1>5. ASSUME UNCHANGED vars
      PROVE  /\ PacketsAreSound' /\ StreamIsAPrefix' /\ DeliveredIsPast'
             /\ DeliveredIntact' /\ DeliveredInOrder'
  <2>1. UNCHANGED <<net, length>> /\ UNCHANGED receiver
    BY <1>5 DEF vars, writer
  <2>2. PacketsAreSound'
    BY <2>1 DEF ChannelInv, PacketsAreSound, SoundPacket, GoodFragment, LengthIsBad, Data, Units
  <2>3. StreamIsAPrefix' /\ DeliveredInOrder'
    BY <2>1 DEF receiver, ChannelInv, StreamIsAPrefix, DeliveredInOrder, Units
  <2>4. DeliveredIsPast' /\ DeliveredIntact'
    BY <2>1 DEF receiver, ChannelInv, DeliveredIsPast, DeliveredIntact, Data
  <2> QED  BY <2>2, <2>3, <2>4
<1> QED  BY <1>1, <1>2, <1>3, <1>4, <1>5 DEF Next, ChannelInv, WriterInv

\* What Netchan::receive returns was written, whole and under its number, whatever the
\* network loses, repeats or reorders, and whichever of the two writers sends: fragments
\* of two messages are never mixed.  It holds while the numbers fit in 16 bits.
THEOREM ReceivesIntact ==
    ASSUME MaxMessages < Modulus
    PROVE  Spec => []DeliveredIntact
<1>1. ChannelInv => DeliveredIntact
  BY DEF ChannelInv
<1> QED  BY <1>1, ChannelInit, ChannelStep, PTL DEF Spec

\* Netchan::receive never returns a message older than the last one it returned, while
\* the numbers fit in 16 bits.
THEOREM ReceivesInOrder ==
    ASSUME MaxMessages < Modulus
    PROVE  Spec => []DeliveredInOrder
<1>1. ChannelInv => DeliveredInOrder
  BY DEF ChannelInv
<1> QED  BY <1>1, ChannelInit, ChannelStep, PTL DEF Spec
=============================================================================
