------------------------ MODULE SimulatedSocketProofs ------------------------
(***************************************************************************)
(* Proofs about SimulatedSocket, for every number of datagrams and of      *)
(* packets, with and without loss.                                         *)
(***************************************************************************)
EXTENDS SimulatedSocket, SequenceTheorems, TLAPS

----------------------------------------------------------------------------
\* The inductive invariant, in its parts.

Packets == [num : Nat, empty : BOOLEAN, due : BOOLEAN]
Taken == [num : Nat, empty : BOOLEAN, handled : BOOLEAN]

\* Every queue holds packets.
Queues ==
    /\ wire \in Seq(Packets) /\ incomings \in Seq(Packets) /\ outbounds \in Seq(Packets)
    /\ reading \in Seq(Packets) /\ receiving \in Seq(Packets) /\ sending \in Seq(Packets)
    /\ taken \in Seq(Taken) /\ transmitted \in Seq(Packets) /\ kept \in Seq(Nat)
    /\ arrived \in Nat /\ sent \in Nat

\* A thread has a packet in hand only between the two critical sections that take and
\* give it, and incomingThread reads only what is there.
InHand ==
    /\ in # "queue" => reading = <<>>
    /\ out # "send" => sending = <<>>
    /\ in = "read" => wire # <<>>

SocketInv == Queues /\ InHand /\ ReceiveFindsAPacket /\ NothingLostBetweenThreads

----------------------------------------------------------------------------
\* The numbers of a sequence of packets, or of what was taken.
LEMMA NumbersType ==
    ASSUME NEW S, \A x \in S : x.num \in Nat, NEW s \in Seq(S)
    PROVE  /\ Numbers(s) \in Seq(Nat)
           /\ Len(Numbers(s)) = Len(s)
           /\ \A i \in 1 .. Len(s) : Numbers(s)[i] = s[i].num
<1>1. DOMAIN s = 1 .. Len(s) /\ Len(s) \in Nat
  BY LenProperties
<1>2. \A i \in 1 .. Len(s) : s[i].num \in Nat
  BY ElementOfSeq
<1>3. Numbers(s) \in [1 .. Len(s) -> Nat]
  BY <1>1, <1>2 DEF Numbers
<1>4. Numbers(s) \in Seq(Nat) /\ Len(Numbers(s)) = Len(s)
  BY <1>1, <1>3, SeqDef
<1> QED  BY <1>1, <1>4 DEF Numbers

\* Packets are told apart by a number.
LEMMA PacketNumbers ==
    /\ \A x \in Packets : x.num \in Nat
    /\ \A x \in Taken : x.num \in Nat
  BY DEF Packets, Taken

\* The number of one packet.
LEMMA NumbersOfOne ==
    ASSUME NEW S, \A x \in S : x.num \in Nat, NEW x \in S
    PROVE  Numbers(<<x>>) = <<x.num>>
<1>1. <<x>> \in Seq(S) /\ Len(<<x>>) = 1 /\ <<x>>[1] = x
  OBVIOUS
<1>2. /\ Numbers(<<x>>) \in Seq(Nat) /\ Len(Numbers(<<x>>)) = 1
      /\ Numbers(<<x>>)[1] = x.num
  <2>1. /\ Numbers(<<x>>) \in Seq(Nat) /\ Len(Numbers(<<x>>)) = Len(<<x>>)
        /\ \A i \in 1 .. Len(<<x>>) : Numbers(<<x>>)[i] = <<x>>[i].num
    BY <1>1, NumbersType, Zenon
  <2> QED  BY <1>1, <2>1
<1>3. <<x.num>> \in Seq(Nat) /\ Len(<<x.num>>) = 1 /\ <<x.num>>[1] = x.num
  OBVIOUS
<1>4. /\ Len(Numbers(<<x>>)) = Len(<<x.num>>)
      /\ \A i \in 1 .. Len(Numbers(<<x>>)) : Numbers(<<x>>)[i] = <<x.num>>[i]
  BY <1>2, <1>3
<1> QED  BY <1>2, <1>3, <1>4, SeqEqual, Zenon

\* The numbers of two sequences, one after the other.
LEMMA NumbersOfBoth ==
    ASSUME NEW S, \A x \in S : x.num \in Nat, NEW s \in Seq(S), NEW t \in Seq(S)
    PROVE  Numbers(s \o t) = Numbers(s) \o Numbers(t)
<1> DEFINE l == Numbers(s \o t)
           r == Numbers(s) \o Numbers(t)
           n == Len(s) + Len(t)
<1>1. /\ s \o t \in Seq(S) /\ Len(s \o t) = n
      /\ \A i \in 1 .. n : (s \o t)[i] = IF i <= Len(s) THEN s[i] ELSE t[i - Len(s)]
  BY ConcatProperties, Zenon
<1>2. /\ l \in Seq(Nat) /\ Len(l) = n
      /\ \A i \in 1 .. n : l[i] = (s \o t)[i].num
  BY <1>1, NumbersType
<1>3. /\ Numbers(s) \in Seq(Nat) /\ Len(Numbers(s)) = Len(s) /\ Len(s) \in Nat
      /\ Numbers(t) \in Seq(Nat) /\ Len(Numbers(t)) = Len(t) /\ Len(t) \in Nat
      /\ \A i \in 1 .. Len(s) : Numbers(s)[i] = s[i].num
      /\ \A i \in 1 .. Len(t) : Numbers(t)[i] = t[i].num
  BY NumbersType
<1>4. /\ r \in Seq(Nat) /\ Len(r) = n
      /\ \A i \in 1 .. n : r[i] = IF i <= Len(s) THEN Numbers(s)[i] ELSE Numbers(t)[i - Len(s)]
  <2> DEFINE a == Numbers(s)
             b == Numbers(t)
  <2>1. a \in Seq(Nat) /\ b \in Seq(Nat) /\ Len(a) = Len(s) /\ Len(b) = Len(t)
    BY <1>3
  <2> HIDE DEF a, b
  <2>2. /\ a \o b \in Seq(Nat) /\ Len(a \o b) = Len(a) + Len(b)
        /\ \A i \in 1 .. Len(a) + Len(b) : (a \o b)[i] = IF i <= Len(a) THEN a[i] ELSE b[i - Len(a)]
    BY <2>1, ConcatProperties, Zenon
  <2>3. /\ a \o b \in Seq(Nat) /\ Len(a \o b) = n
        /\ \A i \in 1 .. n : (a \o b)[i] = IF i <= Len(s) THEN a[i] ELSE b[i - Len(s)]
    BY <2>1, <2>2
  <2> QED  BY <2>3 DEF a, b
<1>5. ASSUME NEW i \in 1 .. n  PROVE l[i] = r[i]
  <2> HIDE DEF l, r
  <2>1. CASE i <= Len(s)
    <3>1. i \in 1 .. Len(s) /\ l[i] = s[i].num /\ r[i] = Numbers(s)[i]
      BY <1>1, <1>2, <1>3, <1>4, <2>1
    <3> QED  BY <1>3, <3>1
  <2>2. CASE i > Len(s)
    <3>1. i - Len(s) \in 1 .. Len(t) /\ ~(i <= Len(s))
      BY <1>3, <2>2
    <3>2. l[i] = t[i - Len(s)].num /\ r[i] = Numbers(t)[i - Len(s)]
      BY <1>1, <1>2, <1>4, <3>1
    <3> QED  BY <1>3, <3>1, <3>2
  <2>3. i <= Len(s) \/ i > Len(s)
    BY <1>3
  <2> QED  BY <2>1, <2>2, <2>3
<1>6. Len(l) = Len(r) /\ \A i \in 1 .. Len(l) : l[i] = r[i]
  BY <1>2, <1>4, <1>5
<1> HIDE DEF l, r
<1>7. l = r
  BY <1>2, <1>4, <1>6, SeqEqual, Zenon
<1> QED  BY <1>7 DEF l, r

\* What is taken from the front of a queue is what was there first.
LEMMA NumbersOfFront ==
    ASSUME NEW S, \A x \in S : x.num \in Nat, NEW s \in Seq(S), s # <<>>
    PROVE  /\ Head(s) \in S /\ Tail(s) \in Seq(S)
           /\ Numbers(s) = <<Head(s).num>> \o Numbers(Tail(s))
<1>1. Head(s) \in S /\ Tail(s) \in Seq(S) /\ <<Head(s)>> \in Seq(S)
  BY HeadTailProperties
<1>2. s = <<Head(s)>> \o Tail(s)
  BY <1>1
<1>3. Numbers(s) = Numbers(<<Head(s)>>) \o Numbers(Tail(s))
  BY <1>1, <1>2, NumbersOfBoth, Zenon
<1> QED  BY <1>1, <1>3, NumbersOfOne

\* What is added to a queue comes last.
LEMMA NumbersOfAppend ==
    ASSUME NEW S, \A x \in S : x.num \in Nat, NEW s \in Seq(S), NEW x \in S
    PROVE  Numbers(Append(s, x)) = Numbers(s) \o <<x.num>>
<1>1. Append(s, x) = s \o <<x>> /\ <<x>> \in Seq(S)
  BY AppendIsConcat
<1>2. Numbers(Append(s, x)) = Numbers(s) \o Numbers(<<x>>)
  BY <1>1, NumbersOfBoth, Zenon
<1> QED  BY <1>2, NumbersOfOne

\* No packets, no numbers.
LEMMA NumbersOfNone == Numbers(<<>>) = <<>>
<1>1. Numbers(<<>>) \in Seq(Nat) /\ Len(Numbers(<<>>)) = 0
  BY PacketNumbers, NumbersType, EmptySeq
<1> QED  BY <1>1, EmptySeq

\* Time that passes changes no number.
LEMMA NumbersElapsed ==
    ASSUME NEW s \in Seq(Packets), NEW r \in Elapsed(s)
    PROVE  r \in Seq(Packets) /\ Len(r) = Len(s) /\ Numbers(r) = Numbers(s)
<1>1. DOMAIN s = 1 .. Len(s) /\ Len(s) \in Nat
  BY LenProperties
<1>2. PICK i \in 1 .. Len(s) : r = [s EXCEPT ![i].due = TRUE]
  BY <1>1 DEF Elapsed
<1>3. s[i] \in Packets
  BY <1>2, ElementOfSeq
<1> DEFINE x == [s[i] EXCEPT !.due = TRUE]
<1>4. x \in Packets /\ x.num = s[i].num
  BY <1>3 DEF Packets
<1>5. r = [s EXCEPT ![i] = x]
  BY <1>2
<1> HIDE DEF x
<1>6. /\ r \in Seq(Packets) /\ Len(r) = Len(s)
      /\ \A j \in 1 .. Len(s) : r[j] = IF j = i THEN x ELSE s[j]
  BY <1>4, <1>5, ExceptSeq
<1>7. \A j \in 1 .. Len(s) : r[j].num = s[j].num
  BY <1>4, <1>6
<1>8. /\ Numbers(r) \in Seq(Nat) /\ Numbers(s) \in Seq(Nat)
      /\ Len(Numbers(r)) = Len(s) /\ Len(Numbers(s)) = Len(s)
      /\ \A j \in 1 .. Len(s) : Numbers(r)[j] = r[j].num /\ Numbers(s)[j] = s[j].num
  BY <1>6, PacketNumbers, NumbersType
<1>9. /\ Len(Numbers(r)) = Len(Numbers(s))
      /\ \A j \in 1 .. Len(Numbers(r)) : Numbers(r)[j] = Numbers(s)[j]
  BY <1>7, <1>8
<1> QED  BY <1>6, <1>8, <1>9, SeqEqual

----------------------------------------------------------------------------
\* Sequences of numbers: a part that moves from one queue to the next one leaves the
\* whole as it was.
LEMMA MoveWhole ==
    ASSUME NEW a \in Seq(Nat), NEW b \in Seq(Nat), NEW c \in Seq(Nat)
    PROVE  /\ (a \o (b \o c)) \o <<>> = (a \o b) \o c
           /\ ((a \o b) \o <<>>) \o c = (a \o b) \o c
<1>1. a \o b \in Seq(Nat) /\ b \o c \in Seq(Nat) /\ a \o (b \o c) \in Seq(Nat)
  <2>1. a \o b \in Seq(Nat) /\ b \o c \in Seq(Nat)
    BY ConcatProperties
  <2> QED  BY <2>1, ConcatProperties
<1>2. (a \o b) \o <<>> = a \o b /\ (a \o (b \o c)) \o <<>> = a \o (b \o c)
  BY <1>1, ConcatEmptySeq
<1>3. (a \o b) \o c = a \o (b \o c)
  BY ConcatAssociative, SMTT(20)
<1> QED  BY <1>2, <1>3

\* Three queues in a row, for the sequences of numbers that are used here.
LEMMA Associate ==
    ASSUME NEW a \in Seq(Nat), NEW b \in Seq(Nat), NEW c \in Seq(Nat)
    PROVE  (a \o b) \o c = a \o (b \o c)
  BY ConcatAssociative, SMTT(20)

\* What a thread has in hand goes to the front of the queue after it.
LEMMA MoveFirst ==
    ASSUME NEW a \in Seq(Nat), NEW b \in Seq(Nat), NEW m \in Seq(Nat)
    PROVE  (a \o m) \o b = (a \o <<>>) \o (m \o b)
<1>1. (a \o m) \o b = a \o (m \o b)
  BY Associate
<1>2. a \o <<>> = a
  BY ConcatEmptySeq
<1> QED  BY <1>1, <1>2

\* What is added at the end passes an empty queue.
LEMMA AddLast ==
    ASSUME NEW a \in Seq(Nat), NEW b \in Seq(Nat), NEW m \in Seq(Nat)
    PROVE  (a \o b) \o m = ((a \o b) \o <<>>) \o m
<1>1. a \o b \in Seq(Nat)
  BY ConcatProperties
<1>2. (a \o b) \o <<>> = a \o b
  BY <1>1, ConcatEmptySeq
<1> QED  BY <1>2

\* The numbers that send gives to its packets.
LEMMA CountOneMore ==
    ASSUME NEW n \in Nat
    PROVE  [i \in 1 .. n + 1 |-> i] = [i \in 1 .. n |-> i] \o <<n + 1>>
<1> DEFINE a == [i \in 1 .. n |-> i]
           b == [i \in 1 .. n + 1 |-> i]
<1>1. /\ a \in Seq(Nat) /\ Len(a) = n /\ \A i \in 1 .. n : a[i] = i
      /\ b \in Seq(Nat) /\ Len(b) = n + 1 /\ \A i \in 1 .. n + 1 : b[i] = i
  OBVIOUS
<1> HIDE DEF a, b
<1>2. /\ Append(a, n + 1) \in Seq(Nat) /\ Len(Append(a, n + 1)) = n + 1
      /\ \A i \in 1 .. n : Append(a, n + 1)[i] = i
      /\ Append(a, n + 1)[n + 1] = n + 1
  BY <1>1, AppendProperties
<1>3. /\ Len(b) = Len(Append(a, n + 1))
      /\ \A i \in 1 .. Len(b) : b[i] = Append(a, n + 1)[i]
  BY <1>1, <1>2
<1>4. b = Append(a, n + 1)
  BY <1>1, <1>2, <1>3, SeqEqual, Zenon
<1>5. Append(a, n + 1) = a \o <<n + 1>>
  BY <1>1, AppendIsConcat
<1> QED  BY <1>4, <1>5 DEF a, b

----------------------------------------------------------------------------
\* Both branches of send put the packet behind all others.
LEMMA SendsAppend ==
    ASSUME Queues, Send \/ SendOutOfOrder
    PROVE  outbounds' = Append(outbounds, Packet(sent + 1, FALSE))
<1>1. Packet(sent + 1, FALSE) \in Packets /\ outbounds \in Seq(Packets)
  BY DEF Packet, Packets, Queues
<1>2. Append(outbounds, Packet(sent + 1, FALSE)) = outbounds \o <<Packet(sent + 1, FALSE)>>
  BY <1>1, AppendIsConcat
<1> QED  BY <1>2 DEF Send, SendOutOfOrder, SendAs

\* The queues hold packets in the next state too.
LEMMA QueuesStep ==
    ASSUME SocketInv, [Next]_vars
    PROVE  Queues'
<1> USE DEF inbound, outbound
<1>0. Queues /\ InHand /\ ReceiveFindsAPacket
  BY DEF SocketInv
<1>1. ASSUME NEW empty \in BOOLEAN, Arrive(empty)  PROVE Queues'
  <2>1. Packet(arrived + 1, empty) \in Packets /\ arrived + 1 \in Nat
    BY <1>0 DEF Packet, Packets, Queues
  <2>2. wire' \in Seq(Packets)
    BY <1>0, <1>1, <2>1, AppendProperties DEF Arrive, Queues
  <2> QED  BY <1>0, <1>1, <2>1, <2>2 DEF Arrive, Queues
<1>2. CASE Elapse
  BY <1>0, <1>2, NumbersElapsed DEF Elapse, Queues
<1>3. CASE IncomingTest \/ IncomingWait \/ IncomingLate \/ IncomingLateQueue \/ OutgoingTest
           \/ SpuriousWake \/ SendNotify \/ Wake \/ Doze
           \/ DestroyNotify \/ Join \/ Destroy \/ \E time \in PollTimes : Poll(time)
  BY <1>0, <1>3 DEF IncomingTest, IncomingWait, IncomingLate, IncomingLateQueue, OutgoingTest,
                    SpuriousWake, SendNotify, Wake, Doze, DestroyNotify, Join, Destroy, Poll, Queues
<1>4. CASE DropIncoming
  <2>1. wire' \in Seq(Packets)
    BY <1>0, <1>4, HeadTailProperties DEF DropIncoming, Queues
  <2> QED  BY <1>0, <1>4, <2>1 DEF DropIncoming, Queues
<1>5. CASE IncomingRead
  <2>1. Head(wire) \in Packets /\ Tail(wire) \in Seq(Packets)
    BY <1>0, <1>5, HeadTailProperties DEF IncomingRead, Queues, InHand
  <2>2. Head(wire).num \in Nat
    BY <2>1 DEF Packets
  <2>3. kept' \in Seq(Nat) /\ reading' \in Seq(Packets)
    BY <1>0, <1>5, <2>1, <2>2, AppendProperties DEF IncomingRead, Queues
  <2> QED  BY <1>0, <1>5, <2>1, <2>3 DEF IncomingRead, Queues
<1>6. CASE IncomingQueue
  <2>1. incomings' \in Seq(Packets) /\ <<>> \in Seq(Packets)
    BY <1>0, <1>6, ConcatProperties DEF IncomingQueue, Queues
  <2> QED  BY <1>0, <1>6, <2>1 DEF IncomingQueue, Queues
<1>7. CASE OutgoingTake
  <2>1. CASE outbounds = <<>>
    BY <1>0, <1>7, <2>1 DEF OutgoingTake, Queues
  <2>2. CASE outbounds # <<>>
    <3>1. Head(outbounds) \in Packets /\ Tail(outbounds) \in Seq(Packets)
      BY <1>0, <2>2, HeadTailProperties DEF Queues
    <3>2. <<Head(outbounds)>> \in Seq(Packets)
      BY <3>1
    <3> QED  BY <1>0, <1>7, <2>2, <3>1, <3>2 DEF OutgoingTake, Queues
  <2> QED  BY <2>1, <2>2
<1>8. CASE OutgoingSend
  <2>1. transmitted' \in Seq(Packets) /\ <<>> \in Seq(Packets)
    BY <1>0, <1>8, ConcatProperties DEF OutgoingSend, Queues
  <2> QED  BY <1>0, <1>8, <2>1 DEF OutgoingSend, Queues
<1>9. CASE Send \/ SendOutOfOrder
  <2>1. Packet(sent + 1, FALSE) \in Packets /\ sent + 1 \in Nat
    BY <1>0 DEF Packet, Packets, Queues
  <2>2. outbounds' = Append(outbounds, Packet(sent + 1, FALSE))
    BY <1>0, <1>9, SendsAppend
  <2>3. outbounds' \in Seq(Packets)
    BY <1>0, <2>1, <2>2, AppendProperties DEF Queues
  <2> QED  BY <1>0, <1>9, <2>1, <2>3 DEF Send, SendOutOfOrder, SendAs, Queues
<1>10. CASE Receive
  <2>1. Head(incomings) \in Packets /\ Tail(incomings) \in Seq(Packets)
    BY <1>0, <1>10, HeadTailProperties DEF Receive, Queues, ReceiveFindsAPacket
  <2>2. <<Head(incomings)>> \in Seq(Packets)
    BY <2>1
  <2>3. DataCountPositive \in BOOLEAN
    BY DEF DataCountPositive
  <2>4. [num |-> Head(incomings).num, empty |-> Head(incomings).empty, handled |-> DataCountPositive] \in Taken
    BY <2>1, <2>3 DEF Packets, Taken
  <2>5. taken' \in Seq(Taken)
    BY <1>0, <1>10, <2>4, AppendProperties DEF Receive, Queues
  <2> QED  BY <1>0, <1>10, <2>1, <2>2, <2>5 DEF Receive, Queues
<1>11. CASE ReceiveReturns
  <2>1. <<>> \in Seq(Packets)
    OBVIOUS
  <2> QED  BY <1>0, <1>11, <2>1 DEF ReceiveReturns, Queues
<1>12. CASE UNCHANGED vars
  BY <1>0, <1>12 DEF vars, Queues
<1> QED  BY <1>1, <1>2, <1>3, <1>4, <1>5, <1>6, <1>7, <1>8, <1>9, <1>10, <1>11, <1>12
         DEF Next, IncomingThread, OutgoingThread, Call

\* A thread that has something in hand gives it away before it takes more; nobody but
\* incomingThread reads from the socket below.
LEMMA InHandStep ==
    ASSUME SocketInv, [Next]_vars
    PROVE  InHand'
<1> USE DEF inbound, outbound
<1>0. Queues /\ InHand
  BY DEF SocketInv
<1>1. ASSUME NEW empty \in BOOLEAN, Arrive(empty)  PROVE InHand'
  <2>1. wire' # <<>>
    <3>1. Packet(arrived + 1, empty) \in Packets /\ wire \in Seq(Packets)
      BY <1>0 DEF Packet, Packets, Queues
    <3> QED  BY <1>1, <3>1, AppendProperties DEF Arrive
  <2> QED  BY <1>0, <1>1, <2>1 DEF Arrive, InHand
<1>2. CASE Elapse
  <2>1. sending = <<>> => sending' = <<>>
    <3>1. CASE sending' \in Elapsed(sending)
      <4>1. Len(sending') = Len(sending) /\ sending' \in Seq(Packets)
        BY <1>0, <3>1, NumbersElapsed DEF Queues
      <4> QED  BY <4>1, EmptySeq
    <3> QED  BY <1>2, <3>1 DEF Elapse
  <2> QED  BY <1>0, <1>2, <2>1 DEF Elapse, InHand
<1>3. CASE IncomingTest \/ IncomingWait \/ DropIncoming \/ IncomingLate \/ IncomingLateQueue
  BY <1>0, <1>3
  DEF IncomingTest, IncomingWait, DropIncoming, IncomingLate, IncomingLateQueue, InHand
<1>4. CASE IncomingRead \/ IncomingQueue
  BY <1>0, <1>4 DEF IncomingRead, IncomingQueue, InHand
<1>5. CASE OutgoingTest \/ OutgoingSend \/ SpuriousWake
  BY <1>0, <1>5 DEF OutgoingTest, OutgoingSend, SpuriousWake, InHand
<1>6. CASE OutgoingTake
  BY <1>0, <1>6 DEF OutgoingTake, InHand
<1>7. CASE SendNotify \/ DestroyNotify
  BY <1>0, <1>7 DEF SendNotify, DestroyNotify, NotifyOutgoing, InHand
<1>8. CASE Send \/ SendOutOfOrder \/ Wake \/ Doze \/ Receive \/ ReceiveReturns \/ Join
           \/ Destroy \/ \E time \in PollTimes : Poll(time)
  BY <1>0, <1>8 DEF Send, SendOutOfOrder, SendAs, Wake, Doze, Receive, ReceiveReturns, Join, Destroy, Poll, InHand
<1>9. CASE UNCHANGED vars
  BY <1>0, <1>9 DEF vars, InHand
<1> QED  BY <1>1, <1>2, <1>3, <1>4, <1>5, <1>6, <1>7, <1>8, <1>9
         DEF Next, IncomingThread, OutgoingThread, Call

\* Only receive takes from the queue, and the application is in one call at a time.
LEMMA ReceiveFindsStep ==
    ASSUME SocketInv, [Next]_vars
    PROVE  ReceiveFindsAPacket'
<1> USE DEF inbound, outbound
<1>0. Queues /\ ReceiveFindsAPacket
  BY DEF SocketInv
<1>1. ASSUME NEW empty \in BOOLEAN, Arrive(empty)  PROVE ReceiveFindsAPacket'
  BY <1>0, <1>1 DEF Arrive, ReceiveFindsAPacket
<1>2. CASE Elapse
  <2>1. incomings # <<>> => incomings' # <<>>
    <3>1. CASE incomings' \in Elapsed(incomings)
      <4>1. Len(incomings') = Len(incomings) /\ incomings \in Seq(Packets)
        BY <1>0, <3>1, NumbersElapsed DEF Queues
      <4> QED  BY <4>1, EmptySeq
    <3> QED  BY <1>2, <3>1 DEF Elapse
  <2> QED  BY <1>0, <1>2, <2>1 DEF Elapse, ReceiveFindsAPacket
<1>3. CASE IncomingTest \/ IncomingWait \/ DropIncoming \/ IncomingRead \/ IncomingLate
           \/ IncomingLateQueue
  BY <1>0, <1>3 DEF IncomingTest, IncomingWait, DropIncoming, IncomingRead, IncomingLate,
                    IncomingLateQueue, ReceiveFindsAPacket
<1>4. CASE IncomingQueue
  <2>1. incomings # <<>> => incomings \o reading # <<>>
    <3>1. incomings \in Seq(Packets) /\ reading \in Seq(Packets)
      BY <1>0 DEF Queues
    <3>2. Len(incomings \o reading) = Len(incomings) + Len(reading)
      BY <3>1, ConcatProperties
    <3>3. incomings # <<>> => Len(incomings) > 0
      BY <3>1, EmptySeq
    <3> QED  BY <3>1, <3>2, <3>3, EmptySeq
  <2> QED  BY <1>0, <1>4, <2>1 DEF IncomingQueue, ReceiveFindsAPacket
<1>5. CASE OutgoingTest \/ OutgoingTake \/ OutgoingSend \/ SpuriousWake
  BY <1>0, <1>5 DEF OutgoingTest, OutgoingTake, OutgoingSend, SpuriousWake, ReceiveFindsAPacket
<1>6. CASE Send \/ SendOutOfOrder \/ SendNotify \/ Receive \/ ReceiveReturns \/ Destroy
           \/ DestroyNotify \/ Join
  BY <1>6 DEF Send, SendOutOfOrder, SendAs, SendNotify, Receive, ReceiveReturns, Destroy, DestroyNotify, Join, ReceiveFindsAPacket
<1>7. CASE Wake \/ Doze
  BY <1>0, <1>7 DEF Wake, Doze, ReceiveFindsAPacket
<1>8. ASSUME NEW time \in PollTimes, Poll(time)  PROVE ReceiveFindsAPacket'
  BY <1>8 DEF Poll, DataCountPositive, ReceiveFindsAPacket
<1>9. CASE UNCHANGED vars
  BY <1>0, <1>9 DEF vars, ReceiveFindsAPacket
<1> QED  BY <1>1, <1>2, <1>3, <1>4, <1>5, <1>6, <1>7, <1>8, <1>9
         DEF Next, IncomingThread, OutgoingThread, Call

----------------------------------------------------------------------------
\* The two halves of NothingLostBetweenThreads.
Inward == Numbers(taken) \o Numbers(incomings) \o Numbers(reading) = kept
Outward == Numbers(transmitted) \o Numbers(sending) \o Numbers(outbounds) = [i \in 1 .. sent |-> i]

\* The numbers of every queue.
LEMMA NumbersOfQueues ==
    ASSUME Queues
    PROVE  /\ Numbers(taken) \in Seq(Nat) /\ Numbers(incomings) \in Seq(Nat)
           /\ Numbers(reading) \in Seq(Nat) /\ Numbers(transmitted) \in Seq(Nat)
           /\ Numbers(sending) \in Seq(Nat) /\ Numbers(outbounds) \in Seq(Nat)
  BY PacketNumbers, NumbersType DEF Queues

\* From the socket below to the dispatcher.
LEMMA InwardStep ==
    ASSUME SocketInv, [Next]_vars
    PROVE  Inward'
<1> DEFINE t == Numbers(taken)
           q == Numbers(incomings)
           r == Numbers(reading)
<1>0. /\ Queues /\ InHand /\ ReceiveFindsAPacket /\ (t \o q) \o r = kept
      /\ t \in Seq(Nat) /\ q \in Seq(Nat) /\ r \in Seq(Nat)
  BY NumbersOfQueues DEF SocketInv, NothingLostBetweenThreads
<1>1. CASE IncomingRead
  <2> DEFINE n == Head(wire).num
  <2>1. r = <<>> /\ t' = t /\ q' = q /\ kept' = Append(kept, n) /\ reading' = <<Head(wire)>>
    BY <1>0, <1>1, NumbersOfNone DEF IncomingRead, InHand
  <2>2. Head(wire) \in Packets /\ n \in Nat
    <3>1. Head(wire) \in Packets
      BY <1>0, <1>1, HeadTailProperties DEF IncomingRead, InHand, Queues
    <3> QED  BY <3>1, PacketNumbers
  <2>3. r' = <<n>>
    BY <2>1, <2>2, PacketNumbers, NumbersOfOne
  <2>4. kept' = ((t \o q) \o <<>>) \o <<n>>
    <3>1. kept \in Seq(Nat)
      BY <1>0 DEF Queues
    <3>2. kept' = kept \o <<n>>
      BY <2>1, <2>2, <3>1, AppendIsConcat
    <3> QED  BY <1>0, <2>1, <3>2
  <2>5. (t \o q) \o <<n>> = ((t \o q) \o <<>>) \o <<n>>
    <3>1. <<n>> \in Seq(Nat)
      BY <2>2
    <3> QED  BY <1>0, <3>1, AddLast
  <2> QED  BY <2>1, <2>3, <2>4, <2>5 DEF Inward
<1>2. CASE IncomingQueue
  <2>1. /\ t' = t /\ incomings' = incomings \o reading /\ reading' = <<>> /\ kept' = kept
    BY <1>2 DEF IncomingQueue
  <2>2. q' = q \o r /\ r' = <<>>
    BY <1>0, <2>1, PacketNumbers, NumbersOfBoth, NumbersOfNone DEF Queues
  <2>3. (t \o (q \o r)) \o <<>> = (t \o q) \o r
    BY <1>0, MoveWhole
  <2> QED  BY <1>0, <2>1, <2>2, <2>3 DEF Inward
<1>3. CASE Receive
  <2> DEFINE h == Head(incomings)
             x == [num |-> h.num, empty |-> h.empty, handled |-> DataCountPositive]
  <2>1. /\ incomings' = Tail(incomings) /\ taken' = Append(taken, x)
        /\ r' = r /\ kept' = kept
    BY <1>3 DEF Receive
  <2>2. /\ incomings \in Seq(Packets) /\ incomings # <<>> /\ taken \in Seq(Taken)
    BY <1>0, <1>3 DEF Receive, Queues, ReceiveFindsAPacket
  <2>3. /\ h \in Packets /\ Tail(incomings) \in Seq(Packets)
        /\ q = <<h.num>> \o q'
    BY <2>1, <2>2, PacketNumbers, NumbersOfFront
  <2>4. x \in Taken /\ x.num = h.num /\ h.num \in Nat
    <3>1. DataCountPositive \in BOOLEAN
      BY DEF DataCountPositive
    <3> QED  BY <2>3, <3>1 DEF Packets, Taken
  <2>5. t' = t \o <<h.num>>
    <3>1. Numbers(Append(taken, x)) = t \o <<x.num>>
      BY <2>2, <2>4, PacketNumbers, NumbersOfAppend
    <3> QED  BY <2>1, <2>4, <3>1
  <2>6. q' \in Seq(Nat)
    BY <2>1, <2>3, PacketNumbers, NumbersType
  <2>7. ((t \o <<h.num>>) \o q') \o r = (t \o (<<h.num>> \o q')) \o r
    <3> DEFINE m == <<h.num>>
    <3>1. m \in Seq(Nat)
      BY <2>4
    <3>2. t \in Seq(Nat) /\ q' \in Seq(Nat) /\ r \in Seq(Nat)
      BY <1>0, <2>6
    <3> HIDE DEF t, q, r, m
    <3>3. (t \o m) \o q' = t \o (m \o q')
      BY <3>1, <3>2, Associate
    <3> QED  BY <3>3 DEF m
  <2> QED  BY <1>0, <2>1, <2>3, <2>5, <2>7 DEF Inward
<1>4. CASE Elapse
  <2>1. q' = q
    <3>1. CASE incomings' \in Elapsed(incomings)
      BY <1>0, <3>1, NumbersElapsed DEF Queues
    <3> QED  BY <1>4, <3>1 DEF Elapse
  <2>2. t' = t /\ r' = r /\ kept' = kept
    BY <1>4 DEF Elapse
  <2> QED  BY <1>0, <2>1, <2>2 DEF Inward
<1>5. CASE UNCHANGED <<taken, incomings, reading, kept>>
  BY <1>0, <1>5 DEF Inward
<1>6. ASSUME NEW empty \in BOOLEAN, Arrive(empty)  PROVE Inward'
  BY <1>5, <1>6 DEF Arrive
<1>7. CASE IncomingTest \/ IncomingWait \/ DropIncoming \/ IncomingLate \/ IncomingLateQueue
  BY <1>5, <1>7
  DEF IncomingTest, IncomingWait, DropIncoming, IncomingLate, IncomingLateQueue, inbound
<1>8. CASE OutgoingThread \/ SpuriousWake
  BY <1>5, <1>8 DEF OutgoingThread, OutgoingTest, OutgoingTake, OutgoingSend, SpuriousWake, inbound
<1>9. CASE Send \/ SendOutOfOrder \/ SendNotify \/ Wake \/ Doze \/ ReceiveReturns \/ Destroy
           \/ DestroyNotify \/ Join \/ \E time \in PollTimes : Poll(time)
  BY <1>5, <1>9 DEF Send, SendOutOfOrder, SendAs, SendNotify, Wake, Doze, ReceiveReturns, Destroy,
                    DestroyNotify, Join, Poll, inbound
<1>10. CASE UNCHANGED vars
  BY <1>5, <1>10 DEF vars, inbound
<1> QED  BY <1>1, <1>2, <1>3, <1>4, <1>6, <1>7, <1>8, <1>9, <1>10 DEF Next, IncomingThread, Call

\* From send to the socket below.
LEMMA OutwardStep ==
    ASSUME SocketInv, [Next]_vars
    PROVE  Outward'
<1> DEFINE t == Numbers(transmitted)
           s == Numbers(sending)
           q == Numbers(outbounds)
<1>0. /\ Queues /\ InHand /\ (t \o s) \o q = [i \in 1 .. sent |-> i]
      /\ t \in Seq(Nat) /\ s \in Seq(Nat) /\ q \in Seq(Nat)
  BY NumbersOfQueues DEF SocketInv, NothingLostBetweenThreads
<1>1. CASE Send \/ SendOutOfOrder
  <2>1. /\ outbounds' = Append(outbounds, Packet(sent + 1, FALSE)) /\ sent' = sent + 1
        /\ t' = t /\ s' = s
    BY <1>0, <1>1, SendsAppend DEF Send, SendOutOfOrder, SendAs
  <2>2. /\ sent \in Nat /\ outbounds \in Seq(Packets)
        /\ Packet(sent + 1, FALSE) \in Packets /\ Packet(sent + 1, FALSE).num = sent + 1
    BY <1>0 DEF Queues, Packet, Packets
  <2>3. q' = q \o <<sent + 1>>
    BY <2>1, <2>2, PacketNumbers, NumbersOfAppend
  <2>4. (t \o s) \o (q \o <<sent + 1>>) = ((t \o s) \o q) \o <<sent + 1>>
    <3> DEFINE m == <<sent + 1>>
    <3>1. m \in Seq(Nat)
      BY <2>2
    <3>2. t \in Seq(Nat) /\ s \in Seq(Nat) /\ q \in Seq(Nat)
      BY <1>0
    <3> HIDE DEF t, s, q, m
    <3> DEFINE x == t \o s
    <3>3. x \in Seq(Nat)
      BY <3>2, ConcatProperties
    <3> HIDE DEF x
    <3>4. (x \o q) \o m = x \o (q \o m)
      BY <3>1, <3>2, <3>3, Associate
    <3> QED  BY <3>4 DEF m, x
  <2>5. [i \in 1 .. sent + 1 |-> i] = [i \in 1 .. sent |-> i] \o <<sent + 1>>
    BY <2>2, CountOneMore
  <2> QED  BY <1>0, <2>1, <2>3, <2>4, <2>5 DEF Outward
<1>2. CASE OutgoingTake /\ outbounds # <<>>
  <2> DEFINE h == Head(outbounds)
  <2>1. /\ sending' = <<h>> /\ outbounds' = Tail(outbounds) /\ t' = t /\ sent' = sent
        /\ s = <<>>
    BY <1>0, <1>2, NumbersOfNone DEF OutgoingTake, InHand
  <2>2. h \in Packets /\ Tail(outbounds) \in Seq(Packets) /\ q = <<h.num>> \o q'
    BY <1>0, <1>2, <2>1, PacketNumbers, NumbersOfFront DEF Queues
  <2>3. s' = <<h.num>> /\ h.num \in Nat /\ q' \in Seq(Nat)
    BY <2>1, <2>2, PacketNumbers, NumbersOfOne, NumbersType
  <2>4. (t \o <<h.num>>) \o q' = (t \o <<>>) \o (<<h.num>> \o q')
    <3>1. <<h.num>> \in Seq(Nat)
      BY <2>3
    <3>2. t \in Seq(Nat) /\ q' \in Seq(Nat)
      BY <1>0, <2>3
    <3> HIDE DEF t, q, h
    <3> QED  BY <3>1, <3>2, MoveFirst
  <2> QED  BY <1>0, <2>1, <2>2, <2>3, <2>4 DEF Outward
<1>3. CASE OutgoingSend
  <2>1. /\ transmitted' = transmitted \o sending /\ sending' = <<>> /\ q' = q /\ sent' = sent
    BY <1>3 DEF OutgoingSend
  <2>2. t' = t \o s /\ s' = <<>>
    <3>1. transmitted \in Seq(Packets) /\ sending \in Seq(Packets)
      BY <1>0 DEF Queues
    <3>2. Numbers(transmitted \o sending) = t \o s
      BY <3>1, PacketNumbers, NumbersOfBoth, Zenon
    <3> QED  BY <2>1, <3>2, NumbersOfNone
  <2>3. ((t \o s) \o <<>>) \o q = (t \o s) \o q
    BY <1>0, MoveWhole
  <2> QED  BY <1>0, <2>1, <2>2, <2>3 DEF Outward
<1>4. CASE Elapse
  <2>1. q' = q /\ s' = s
    <3>1. CASE outbounds' \in Elapsed(outbounds) /\ sending' = sending
      BY <1>0, <3>1, NumbersElapsed DEF Queues
    <3>2. CASE sending' \in Elapsed(sending) /\ outbounds' = outbounds
      BY <1>0, <3>2, NumbersElapsed DEF Queues
    <3> QED  BY <1>4, <3>1, <3>2 DEF Elapse
  <2>2. t' = t /\ sent' = sent
    BY <1>4 DEF Elapse
  <2> QED  BY <1>0, <2>1, <2>2 DEF Outward
<1>5. CASE UNCHANGED <<transmitted, sending, outbounds, sent>>
  BY <1>0, <1>5 DEF Outward
<1>6. ASSUME NEW empty \in BOOLEAN, Arrive(empty)  PROVE Outward'
  BY <1>5, <1>6 DEF Arrive, outbound
<1>7. CASE IncomingThread
  BY <1>5, <1>7 DEF IncomingThread, IncomingTest, IncomingWait, DropIncoming, IncomingRead, IncomingQueue,
                    IncomingLate, IncomingLateQueue, outbound
<1>8. CASE OutgoingTest \/ SpuriousWake \/ (OutgoingTake /\ outbounds = <<>>)
  BY <1>5, <1>8 DEF OutgoingTest, SpuriousWake, OutgoingTake, outbound
<1>9. CASE SendNotify \/ Wake \/ Doze \/ Receive \/ ReceiveReturns \/ Destroy \/ DestroyNotify \/ Join
           \/ \E time \in PollTimes : Poll(time)
  BY <1>5, <1>9 DEF SendNotify, Wake, Doze, Receive, ReceiveReturns, Destroy, DestroyNotify, Join, Poll, outbound
<1>10. CASE UNCHANGED vars
  BY <1>5, <1>10 DEF vars, outbound
<1> QED  BY <1>1, <1>2, <1>3, <1>4, <1>6, <1>7, <1>8, <1>9, <1>10 DEF Next, OutgoingThread, Call

----------------------------------------------------------------------------
\* All queues are empty at first.
LEMMA SocketInit == Init => SocketInv
<1> SUFFICES ASSUME Init PROVE SocketInv
  OBVIOUS
<1>1. Queues
  BY DEF Init, Queues
<1>2. InHand /\ ReceiveFindsAPacket
  BY DEF Init, InHand, ReceiveFindsAPacket
<1>3. /\ Numbers(taken) = <<>> /\ Numbers(incomings) = <<>> /\ Numbers(reading) = <<>>
      /\ Numbers(transmitted) = <<>> /\ Numbers(sending) = <<>> /\ Numbers(outbounds) = <<>>
  BY NumbersOfNone DEF Init
<1>4. <<>> \o <<>> = <<>>
  BY EmptySeq, ConcatEmptySeq
<1>5. [i \in 1 .. sent |-> i] = <<>>
  <2>1. sent = 0
    BY DEF Init
  <2> QED  BY <2>1
<1>6. NothingLostBetweenThreads
  BY <1>3, <1>4, <1>5 DEF Init, NothingLostBetweenThreads
<1> QED  BY <1>1, <1>2, <1>6 DEF SocketInv

\* Every critical section keeps the invariant.
LEMMA SocketStep == SocketInv /\ [Next]_vars => SocketInv'
<1> SUFFICES ASSUME SocketInv, [Next]_vars  PROVE SocketInv'
  OBVIOUS
<1>1. NothingLostBetweenThreads'
  BY InwardStep, OutwardStep DEF Inward, Outward, NothingLostBetweenThreads
<1> QED  BY <1>1, QueuesStep, InHandStep, ReceiveFindsStep DEF SocketInv

\* Between the two threads and the application no packet is lost, repeated or overtaken,
\* in either direction, however the critical sections interleave and for every number
\* of packets; the loss that is simulated is all the loss there is.
THEOREM NoPacketLost == Spec => []NothingLostBetweenThreads
<1>1. SocketInv => NothingLostBetweenThreads
  BY DEF SocketInv
<1> QED  BY <1>1, SocketInit, SocketStep, PTL DEF Spec

\* receive never uses the front of an empty queue, although the mutex is released
\* between the test of the queue and its use.
THEOREM ReceiveNeverEmpty == Spec => []ReceiveFindsAPacket
<1>1. SocketInv => ReceiveFindsAPacket
  BY DEF SocketInv
<1> QED  BY <1>1, SocketInit, SocketStep, PTL DEF Spec
=============================================================================
