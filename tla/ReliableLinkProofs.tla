------------------------- MODULE ReliableLinkProofs -------------------------
(***************************************************************************)
(* Proofs about ReliableLink, for every ring size, every set of commands   *)
(* and every bound.                                                        *)
(***************************************************************************)
EXTENDS ReliableLink, SequenceTheorems, TLAPS

----------------------------------------------------------------------------
\* The slot of a number is a slot of the ring.
LEMMA SlotInRing ==
    ASSUME NEW i \in Nat
    PROVE  Slot(i) \in 0 .. MaxElements - 1
  BY MaxElementsAssumption DEF Slot

\* Two numbers less than a ring apart have different slots.
LEMMA SlotsDiffer ==
    ASSUME NEW i \in Nat, NEW j \in Nat, i < j, j < i + MaxElements
    PROVE  Slot(i) # Slot(j)
<1> DEFINE M == MaxElements
           a == i \div M
           b == j \div M
<1>1. /\ i = M * a + (i % M)  /\ a \in Int
      /\ j = M * b + (j % M)  /\ b \in Int
  BY MaxElementsAssumption
<1>2. SUFFICES ASSUME i % M = j % M  PROVE FALSE
  BY DEF Slot
<1>3. j - i = M * (b - a)
  <2> HIDE DEF a, b
  <2> QED  BY <1>1, <1>2, MaxElementsAssumption
<1>4. CASE b - a <= 0
  <2> HIDE DEF a, b
  <2>1. M * (b - a) <= 0
    BY <1>1, <1>4, MaxElementsAssumption
  <2> QED  BY <1>3, <2>1, MaxElementsAssumption
<1>5. CASE b - a >= 1
  <2> HIDE DEF a, b
  <2>1. M * (b - a) >= M
    BY <1>1, <1>5, MaxElementsAssumption
  <2> QED  BY <1>3, <2>1, MaxElementsAssumption
<1> QED  BY <1>1, <1>4, <1>5

----------------------------------------------------------------------------
\* incomingSequence holds every packet number of the session.
LEMMA NumberFits ==
    ASSUME NEW n \in 1 .. MaxPackets
    PROVE  n % Modulus = n
  BY MaxPacketsAssumption

\* What writeCommands puts in a packet is a sequence of numbered commands.
LEMMA UnacknowledgedType ==
    ASSUME TypeOK
    PROVE  Unacknowledged \in Seq(Numbered)
<1>1. ASSUME NEW j \in 1 .. reliableSequence - reliableAcknowledge
      PROVE  [seq |-> reliableAcknowledge + j,
              cmd |-> GetSequence(reliableAcknowledge + j)] \in Numbered
  <2>1. reliableAcknowledge + j \in Nat
    BY DEF TypeOK
  <2>2. GetSequence(reliableAcknowledge + j) \in Commands \union {NoCommand}
    <3>1. Slot(reliableAcknowledge + j) \in 0 .. MaxElements - 1
      BY <2>1, SlotInRing
    <3> QED  BY <3>1 DEF TypeOK, GetSequence
  <2> QED  BY <2>1, <2>2 DEF Numbered
<1>2. PICK n \in Nat : 1 .. reliableSequence - reliableAcknowledge = 1 .. n
  <2>1. CASE reliableSequence - reliableAcknowledge \in Nat
    BY <2>1
  <2>2. CASE reliableSequence - reliableAcknowledge < 0
    <3>1. 1 .. reliableSequence - reliableAcknowledge = 1 .. 0
      BY <2>2 DEF TypeOK
    <3> QED  BY <3>1
  <2> QED  BY <2>1, <2>2 DEF TypeOK
<1>3. Unacknowledged \in [1 .. n -> Numbered]
  BY <1>1, <1>2 DEF Unacknowledged
<1> QED  BY <1>3, SeqDef

\* Every variable keeps its type, for every ring size and every bound: in
\* particular the packet numbers stay within what incomingSequence can hold.
THEOREM TypeCorrect == Spec => []TypeOK
<1>1. Init => TypeOK
  <2> SUFFICES ASSUME Init PROVE TypeOK
    OBVIOUS
  <2>1. incomingSequence \in [End -> 0 .. MaxPackets]
    BY MaxPacketsAssumption DEF Init, End
  <2>2. outgoingSequence \in [End -> 1 .. MaxPackets + 1]
    BY MaxPacketsAssumption DEF Init, End
  <2>3. parsing \in Seq(Numbered) /\ executed \in Seq(Numbered) /\ added \in Seq(Commands)
    BY DEF Init
  <2>4. reliableCommands \in [0 .. MaxElements - 1 -> Commands \union {NoCommand}]
    BY DEF Init
  <2>5. overrun \in BOOLEAN
    BY DEF Init
  <2> QED  BY <2>1, <2>2, <2>3, <2>4, <2>5 DEF Init, TypeOK
<1>2. ASSUME TypeOK, [Next]_vars  PROVE TypeOK'
  <2>1. ASSUME NEW c \in Commands, AddCommand(c)  PROVE TypeOK'
    <3>0. reliableSequence + 1 \in Nat
      BY <1>2 DEF TypeOK
    <3>1. Slot(reliableSequence + 1) \in 0 .. MaxElements - 1
      BY <3>0, SlotInRing
    <3>2. reliableCommands' \in [0 .. MaxElements - 1 -> Commands \union {NoCommand}]
      BY <1>2, <2>1, <3>1 DEF AddCommand, TypeOK
    <3>3. overrun' \in BOOLEAN
      BY <2>1 DEF AddCommand
    <3>4. reliableSequence' \in Nat /\ added' \in Seq(Commands)
      BY <1>2, <2>1 DEF AddCommand, TypeOK
    <3> QED  BY <1>2, <2>1, <3>2, <3>3, <3>4 DEF AddCommand, receiver, TypeOK
  <2>2. CASE WriteCommands
    <3>1. outgoingSequence["sender"] \in 1 .. MaxPackets
      BY <1>2, <2>2, MaxPacketsAssumption DEF WriteCommands, Number, End, TypeOK
    <3>2. outgoingSequence' \in [End -> 1 .. MaxPackets + 1]
      BY <1>2, <2>2, <3>1, MaxPacketsAssumption DEF WriteCommands, Number, End, TypeOK
    <3>3. Unacknowledged \in Seq(Numbered)
      BY <1>2, UnacknowledgedType
    <3>4. toReceiver' \subseteq [num : 1 .. MaxPackets, cmds : Seq(Numbered)]
      BY <1>2, <2>2, <3>1, <3>3 DEF WriteCommands, TypeOK
    <3> QED  BY <1>2, <2>2, <3>2, <3>4 DEF WriteCommands, sender, receiver, history, TypeOK
  <2>3. ASSUME NEW p \in toSender, ReceiveHeader(p)  PROVE TypeOK'
    <3>1. p.num \in 1 .. MaxPackets /\ p.ack \in Nat
      BY <1>2 DEF TypeOK
    <3>2. incomingSequence' \in [End -> 0 .. MaxPackets]
      <4>1. p.num % Modulus = p.num
        BY <3>1, NumberFits
      <4>2. incomingSequence' = [incomingSequence EXCEPT !["sender"] = p.num]
        BY <2>3, <4>1 DEF ReceiveHeader, Accept
      <4>3. p.num \in 0 .. MaxPackets
        BY <3>1, MaxPacketsAssumption
      <4> QED  BY <1>2, <4>2, <4>3 DEF TypeOK
    <3>3. reliableAcknowledge' \in Nat
      BY <1>2, <2>3, <3>1 DEF ReceiveHeader, UpdateAcknowledge, TypeOK
    <3> QED  BY <1>2, <2>3, <3>2, <3>3 DEF ReceiveHeader, receiver, history, TypeOK
  <2>4. ASSUME NEW p \in toReceiver, ReceiveCommands(p)  PROVE TypeOK'
    <3>1. p.num \in 1 .. MaxPackets /\ p.cmds \in Seq(Numbered)
      BY <1>2 DEF TypeOK
    <3>2. incomingSequence' \in [End -> 0 .. MaxPackets]
      <4>1. p.num % Modulus = p.num
        BY <3>1, NumberFits
      <4>2. incomingSequence' = [incomingSequence EXCEPT !["receiver"] = p.num]
        BY <2>4, <4>1 DEF ReceiveCommands, Accept
      <4>3. p.num \in 0 .. MaxPackets
        BY <3>1, MaxPacketsAssumption
      <4> QED  BY <1>2, <4>2, <4>3 DEF TypeOK
    <3> QED  BY <1>2, <2>4, <3>1, <3>2 DEF ReceiveCommands, sender, history, TypeOK
  <2>5. CASE ParseCommandString
    <3>1. Head(parsing) \in Numbered /\ Tail(parsing) \in Seq(Numbered)
      BY <1>2, <2>5 DEF ParseCommandString, TypeOK
    <3>2. Head(parsing).seq \in Nat
      BY <3>1 DEF Numbered
    <3>3. remoteCommandSequence' \in Nat /\ executed' \in Seq(Numbered)
      <4>1. CASE remoteCommandSequence >= Head(parsing).seq
        BY <1>2, <2>5, <4>1 DEF ParseCommandString, TypeOK
      <4>2. CASE ~(remoteCommandSequence >= Head(parsing).seq)
        <5>1. /\ remoteCommandSequence' = Head(parsing).seq
              /\ executed' = Append(executed, Head(parsing))
          BY <2>5, <4>2 DEF ParseCommandString
        <5>2. executed \in Seq(Numbered)
          BY <1>2 DEF TypeOK
        <5> QED  BY <3>1, <3>2, <5>1, <5>2, AppendProperties
      <4> QED  BY <4>1, <4>2
    <3> QED  BY <1>2, <2>5, <3>1, <3>3 DEF ParseCommandString, sender, TypeOK
  <2>6. CASE WriteHeader
    <3>1. outgoingSequence["receiver"] \in 1 .. MaxPackets
      BY <1>2, <2>6, MaxPacketsAssumption DEF WriteHeader, Number, End, TypeOK
    <3>2. outgoingSequence' \in [End -> 1 .. MaxPackets + 1]
      BY <1>2, <2>6, <3>1, MaxPacketsAssumption DEF WriteHeader, Number, End, TypeOK
    <3>3. toSender' \subseteq [num : 1 .. MaxPackets, ack : Nat]
      BY <1>2, <2>6, <3>1 DEF WriteHeader, TypeOK
    <3> QED  BY <1>2, <2>6, <3>2, <3>3 DEF WriteHeader, sender, receiver, history, TypeOK
  <2>7. CASE AbortParse
    BY <1>2, <2>7 DEF AbortParse, sender, history, TypeOK
  <2>8. CASE UNCHANGED vars
    BY <1>2, <2>8 DEF vars, sender, receiver, history, TypeOK
  <2> QED  BY <1>2, <2>1, <2>2, <2>3, <2>4, <2>5, <2>6, <2>7, <2>8 DEF Next
<1> QED  BY <1>1, <1>2, PTL DEF Spec

----------------------------------------------------------------------------
\* Adding a command does not change what was added before it.
LEMMA AddedGrows ==
    ASSUME NEW c \in Commands, added \in Seq(Commands), added' = Append(added, c)
    PROVE  /\ Len(added') = Len(added) + 1
           /\ added'[Len(added) + 1] = c
           /\ \A k \in 1 .. Len(added) : added'[k] = added[k]
  BY AppendProperties

\* A run of commands that was faithful stays so when a command is added.
LEMMA FaithfulStable ==
    ASSUME NEW cmds \in Seq(Numbered), Faithful(cmds), Len(added) \in Nat,
           Len(added') >= Len(added), Len(added') \in Nat,
           \A k \in 1 .. Len(added) : added'[k] = added[k]
    PROVE  \A j \in 1 .. Len(cmds) :
               /\ cmds[j].seq = cmds[1].seq + j - 1
               /\ cmds[j].seq \in 1 .. Len(added')
               /\ cmds[j].cmd = added'[cmds[j].seq]
  BY DEF Faithful

\* addCommand keeps the link consistent.
LEMMA AddCommandKeepsLink ==
    ASSUME TypeOK, LinkInv, NEW c \in Commands, AddCommand(c)
    PROVE  LinkInv'
<1>1. /\ added \in Seq(Commands) /\ added' = Append(added, c)
      /\ reliableSequence' = reliableSequence + 1
      /\ UNCHANGED <<reliableAcknowledge, remoteCommandSequence, parsing, toReceiver,
                      toSender, outgoingSequence, incomingSequence, executed>>
  BY DEF TypeOK, AddCommand, receiver
<1>2. /\ Len(added') = Len(added) + 1
      /\ added'[Len(added) + 1] = c
      /\ \A k \in 1 .. Len(added) : added'[k] = added[k]
  BY <1>1, AddedGrows
<1>3. Len(added) = reliableSequence /\ Len(added) \in Nat
  BY DEF LinkInv, TypeOK
<1>4. Len(added') = reliableSequence'
  BY <1>1, <1>2, <1>3
<1>5. (\A p \in toSender : p.num < outgoingSequence["receiver"])'
  BY <1>1 DEF LinkInv
<1>6. ASSUME ~overrun'
      PROVE  Window' /\ ExecutedAsAdded' /\ ResendsWhatWasAdded'
             /\ CommandsInFlight' /\ HeadersInFlight'
  <2>1. ~overrun /\ reliableSequence - reliableAcknowledge < MaxElements
    <3>1. ~(overrun \/ reliableSequence - reliableAcknowledge >= MaxElements)
      BY <1>6 DEF AddCommand
    <3> QED  BY <3>1, MaxElementsAssumption DEF TypeOK
  <2>2. Window /\ ExecutedAsAdded /\ ResendsWhatWasAdded
        /\ CommandsInFlight /\ HeadersInFlight
    BY <2>1 DEF LinkInv
  <2>3. Window'
    BY <1>1, <2>1, <2>2, MaxElementsAssumption DEF Window, TypeOK
  <2>4. ExecutedAsAdded'
    <3>1. /\ remoteCommandSequence = Len(executed)
          /\ Len(executed) <= Len(added) /\ Len(executed) \in Nat
          /\ \A k \in 1 .. Len(executed) : executed[k] = [seq |-> k, cmd |-> added[k]]
      BY <2>1, <2>2 DEF ExecutedAsAdded, TypeOK
    <3>2. \A k \in 1 .. Len(executed) : k \in 1 .. Len(added)
      BY <1>3, <3>1
    <3> QED  BY <1>1, <1>2, <1>3, <3>1, <3>2 DEF ExecutedAsAdded
  <2>5. ResendsWhatWasAdded'
    <3> SUFFICES ASSUME NEW i \in reliableAcknowledge + 1 .. reliableSequence + 1
                 PROVE  reliableCommands'[Slot(i)] = added'[i]
      BY <1>1 DEF ResendsWhatWasAdded, GetSequence
    <3>1. i \in Nat /\ reliableSequence + 1 \in Nat
      BY DEF TypeOK
    <3>2. Slot(i) \in 0 .. MaxElements - 1 /\ Slot(reliableSequence + 1) \in 0 .. MaxElements - 1
      BY <3>1, SlotInRing
    <3>3. reliableCommands' =
            [reliableCommands EXCEPT ![Slot(reliableSequence + 1)] = c]
      BY DEF AddCommand
    <3>4. CASE i = reliableSequence + 1
      BY <1>2, <1>3, <3>2, <3>3, <3>4 DEF TypeOK
    <3>5. CASE i # reliableSequence + 1
      <4>1. i < reliableSequence + 1 /\ reliableSequence + 1 < i + MaxElements
        BY <2>1, <3>5, MaxElementsAssumption DEF TypeOK
      <4>2. Slot(i) # Slot(reliableSequence + 1)
        BY <3>1, <4>1, SlotsDiffer
      <4>3. reliableCommands'[Slot(i)] = reliableCommands[Slot(i)]
        BY <3>2, <3>3, <4>2 DEF TypeOK
      <4>4. reliableCommands[Slot(i)] = added[i]
        BY <2>2, <4>1 DEF ResendsWhatWasAdded, GetSequence, TypeOK
      <4>5. added'[i] = added[i]
        BY <1>2, <1>3, <4>1, <3>1 DEF TypeOK
      <4> QED  BY <4>3, <4>4, <4>5
    <3> QED  BY <3>4, <3>5
  <2>6. CommandsInFlight'
    <3>1. Len(added') >= Len(added) /\ Len(added') \in Nat
      BY <1>2, <1>3
    <3>2. ASSUME NEW cmds \in Seq(Numbered), Faithful(cmds)
          PROVE  \A j \in 1 .. Len(cmds) :
                     /\ cmds[j].seq = cmds[1].seq + j - 1
                     /\ cmds[j].seq \in 1 .. Len(added')
                     /\ cmds[j].cmd = added'[cmds[j].seq]
      BY <1>2, <1>3, <3>1, <3>2, FaithfulStable
    <3>3. parsing \in Seq(Numbered) /\ \A p \in toReceiver : p.cmds \in Seq(Numbered)
      BY DEF TypeOK
    <3>4. Faithful(parsing)' /\ NoGap(parsing)'
      BY <1>1, <2>2, <3>2, <3>3 DEF CommandsInFlight, Faithful, NoGap
    <3>5. ASSUME NEW p \in toReceiver  PROVE Faithful(p.cmds)' /\ NoGap(p.cmds)'
      BY <1>1, <2>2, <3>2, <3>3 DEF CommandsInFlight, Faithful, NoGap
    <3> QED  BY <1>1, <3>4, <3>5 DEF CommandsInFlight
  <2>7. HeadersInFlight'
    BY <1>1, <2>2 DEF HeadersInFlight, Accepts
  <2> QED  BY <2>3, <2>4, <2>5, <2>6, <2>7
<1> QED  BY <1>4, <1>5, <1>6 DEF LinkInv

\* What writeCommands repeats is a faithful run that starts where the peer left off.
LEMMA UnacknowledgedFaithful ==
    ASSUME TypeOK, LinkInv, ~overrun
    PROVE  Faithful(Unacknowledged) /\ NoGap(Unacknowledged)
<1>1. Window /\ ResendsWhatWasAdded /\ Len(added) = reliableSequence
  BY DEF LinkInv
<1>2. reliableSequence - reliableAcknowledge \in Nat
  BY <1>1 DEF Window, TypeOK
<1>3. Len(Unacknowledged) = reliableSequence - reliableAcknowledge
  BY <1>2 DEF Unacknowledged
<1>4. ASSUME NEW j \in 1 .. Len(Unacknowledged)
      PROVE  /\ Unacknowledged[j].seq = reliableAcknowledge + j
             /\ Unacknowledged[j].cmd = added[reliableAcknowledge + j]
             /\ reliableAcknowledge + j \in 1 .. Len(added)
  <2>1. j \in 1 .. reliableSequence - reliableAcknowledge
    BY <1>3
  <2>2. reliableAcknowledge + j \in reliableAcknowledge + 1 .. reliableSequence
    BY <2>1, <1>2 DEF TypeOK
  <2>3. GetSequence(reliableAcknowledge + j) = added[reliableAcknowledge + j]
    BY <1>1, <2>2 DEF ResendsWhatWasAdded
  <2>4. reliableAcknowledge + j \in 1 .. Len(added)
    BY <1>1, <2>2 DEF TypeOK
  <2> QED  BY <2>1, <2>3, <2>4 DEF Unacknowledged
<1>5. Faithful(Unacknowledged)
  <2> SUFFICES ASSUME NEW j \in 1 .. Len(Unacknowledged)
               PROVE  /\ Unacknowledged[j].seq = Unacknowledged[1].seq + j - 1
                      /\ Unacknowledged[j].seq \in 1 .. Len(added)
                      /\ Unacknowledged[j].cmd = added[Unacknowledged[j].seq]
    BY DEF Faithful
  <2>1. 1 \in 1 .. Len(Unacknowledged)
    BY <1>2, <1>3
  <2>2. Unacknowledged[1].seq = reliableAcknowledge + 1
    BY <1>4, <2>1
  <2>3. /\ Unacknowledged[j].seq = reliableAcknowledge + j
        /\ Unacknowledged[j].cmd = added[reliableAcknowledge + j]
        /\ reliableAcknowledge + j \in 1 .. Len(added)
    BY <1>4
  <2>4. j \in Int /\ reliableAcknowledge \in Int
    BY DEF TypeOK
  <2>5. Unacknowledged[j].seq = Unacknowledged[1].seq + j - 1
    <3> DEFINE first == Unacknowledged[1].seq
               this == Unacknowledged[j].seq
    <3>1. first = reliableAcknowledge + 1 /\ this = reliableAcknowledge + j
      BY <2>2, <2>3, Zenon
    <3> HIDE DEF first, this
    <3>2. this = first + j - 1
      BY <2>4, <3>1
    <3> QED  BY <3>2, Zenon DEF first, this
  <2> QED  BY <2>3, <2>5, Zenon
<1>6. NoGap(Unacknowledged)
  <2> SUFFICES ASSUME Unacknowledged # <<>>
               PROVE  Unacknowledged[1].seq <= remoteCommandSequence + 1
    BY DEF NoGap
  <2>1. Len(Unacknowledged) # 0
    BY UnacknowledgedType, EmptySeq
  <2>2. 1 \in 1 .. Len(Unacknowledged)
    BY <1>2, <1>3, <2>1
  <2> QED  BY <1>1, <1>4, <2>2 DEF Window, TypeOK
<1> QED  BY <1>5, <1>6

\* Writing a packet keeps the link consistent.
LEMMA WriteCommandsKeepsLink ==
    ASSUME TypeOK, LinkInv, WriteCommands
    PROVE  LinkInv'
<1>1. UNCHANGED <<reliableSequence, reliableAcknowledge, reliableCommands,
                  remoteCommandSequence, parsing, toSender, incomingSequence,
                  added, executed, overrun>>
  BY DEF WriteCommands, sender, receiver, history
<1>2. outgoingSequence'["receiver"] = outgoingSequence["receiver"]
  BY DEF WriteCommands, Number, TypeOK, End
<1>3. /\ Len(added') = reliableSequence'
      /\ (\A p \in toSender : p.num < outgoingSequence["receiver"])'
  BY <1>1, <1>2 DEF LinkInv
<1>4. ASSUME ~overrun'
      PROVE  Window' /\ ExecutedAsAdded' /\ ResendsWhatWasAdded'
             /\ CommandsInFlight' /\ HeadersInFlight'
  <2>1. ~overrun /\ Window /\ ExecutedAsAdded /\ ResendsWhatWasAdded
        /\ CommandsInFlight /\ HeadersInFlight
    BY <1>1, <1>4 DEF LinkInv
  <2>2. Window' /\ ExecutedAsAdded' /\ ResendsWhatWasAdded' /\ HeadersInFlight'
    BY <1>1, <2>1 DEF Window, ExecutedAsAdded, ResendsWhatWasAdded, HeadersInFlight,
                      GetSequence, Accepts
  <2>3. CommandsInFlight'
    <3>1. Faithful(Unacknowledged) /\ NoGap(Unacknowledged)
      BY <2>1, UnacknowledgedFaithful
    <3>2. Faithful(parsing)' /\ NoGap(parsing)'
      BY <1>1, <2>1 DEF CommandsInFlight, Faithful, NoGap
    <3>3. ASSUME NEW p \in toReceiver'  PROVE Faithful(p.cmds) /\ NoGap(p.cmds)
      BY <2>1, <3>1, <3>3 DEF WriteCommands, CommandsInFlight
    <3>4. ASSUME NEW p \in toReceiver'  PROVE Faithful(p.cmds)' /\ NoGap(p.cmds)'
      <4>1. Faithful(p.cmds) /\ NoGap(p.cmds)
        BY <3>3
      <4> QED  BY <1>1, <4>1 DEF Faithful, NoGap
    <3> QED  BY <3>2, <3>4 DEF CommandsInFlight
  <2> QED  BY <2>2, <2>3
<1> QED  BY <1>3, <1>4 DEF LinkInv

\* Believing a header keeps the link consistent, because the stale ones are refused.
LEMMA ReceiveHeaderKeepsLink ==
    ASSUME TypeOK, LinkInv, NEW p \in toSender, ReceiveHeader(p)
    PROVE  LinkInv' /\ (~overrun => reliableAcknowledge' >= reliableAcknowledge)
<1>1. UNCHANGED <<reliableSequence, reliableCommands, remoteCommandSequence, parsing,
                  toReceiver, toSender, outgoingSequence, added, executed, overrun>>
  BY DEF ReceiveHeader, receiver, history
<1>2. p.num \in 1 .. MaxPackets /\ p.ack \in Nat
  BY DEF TypeOK
<1>3. incomingSequence'["sender"] = p.num
  <2>1. p.num % Modulus = p.num
    BY <1>2, NumberFits
  <2> QED  BY <2>1 DEF ReceiveHeader, Accept, TypeOK, End
<1>4. /\ Len(added') = reliableSequence'
      /\ (\A q \in toSender : q.num < outgoingSequence["receiver"])'
  BY <1>1 DEF LinkInv
<1>5. ASSUME ~overrun
      PROVE  Window' /\ ExecutedAsAdded' /\ ResendsWhatWasAdded'
             /\ CommandsInFlight' /\ HeadersInFlight'
             /\ reliableAcknowledge' >= reliableAcknowledge
  <2>1. Window /\ ExecutedAsAdded /\ ResendsWhatWasAdded
        /\ CommandsInFlight /\ HeadersInFlight
    BY <1>5 DEF LinkInv
  <2>2. reliableAcknowledge <= p.ack /\ p.ack <= remoteCommandSequence
    BY <2>1 DEF HeadersInFlight, ReceiveHeader
  <2>3. reliableAcknowledge' = p.ack
    BY <1>2, <2>1, <2>2, MaxElementsAssumption
       DEF ReceiveHeader, UpdateAcknowledge, Window, TypeOK
  <2>4. Window'
    BY <1>1, <1>2, <2>1, <2>2, <2>3, MaxElementsAssumption DEF Window, TypeOK
  <2>5. ExecutedAsAdded' /\ CommandsInFlight'
    BY <1>1, <2>1 DEF ExecutedAsAdded, CommandsInFlight, Faithful, NoGap
  <2>6. ResendsWhatWasAdded'
    BY <1>1, <1>2, <2>1, <2>2, <2>3 DEF ResendsWhatWasAdded, GetSequence, TypeOK
  <2>7. HeadersInFlight'
    <3>1. ASSUME NEW q \in toSender, q.num >= incomingSequence'["sender"]
          PROVE  p.ack <= q.ack
      BY <1>3, <2>1, <3>1 DEF HeadersInFlight, TypeOK
    <3> QED  BY <1>1, <2>1, <2>3, <3>1 DEF HeadersInFlight, Accepts
  <2> QED  BY <1>2, <2>2, <2>3, <2>4, <2>5, <2>6, <2>7 DEF TypeOK
<1> QED  BY <1>1, <1>4, <1>5 DEF LinkInv

\* Accepting a packet keeps the link consistent.
LEMMA ReceiveCommandsKeepsLink ==
    ASSUME TypeOK, LinkInv, NEW p \in toReceiver, ReceiveCommands(p)
    PROVE  LinkInv'
<1>1. /\ UNCHANGED <<reliableSequence, reliableAcknowledge, reliableCommands,
                     remoteCommandSequence, toReceiver, toSender, outgoingSequence,
                     added, executed, overrun>>
      /\ parsing' = p.cmds
  BY DEF ReceiveCommands, sender, history
<1>2. incomingSequence'["sender"] = incomingSequence["sender"]
  BY DEF ReceiveCommands, Accept, TypeOK, End
<1>3. /\ Len(added') = reliableSequence'
      /\ (\A q \in toSender : q.num < outgoingSequence["receiver"])'
  BY <1>1 DEF LinkInv
<1>4. ASSUME ~overrun
      PROVE  Window' /\ ExecutedAsAdded' /\ ResendsWhatWasAdded'
             /\ CommandsInFlight' /\ HeadersInFlight'
  <2>1. Window /\ ExecutedAsAdded /\ ResendsWhatWasAdded
        /\ CommandsInFlight /\ HeadersInFlight
    BY <1>4 DEF LinkInv
  <2>2. Window' /\ ExecutedAsAdded' /\ ResendsWhatWasAdded'
    BY <1>1, <2>1 DEF Window, ExecutedAsAdded, ResendsWhatWasAdded, GetSequence
  <2>3. HeadersInFlight'
    BY <1>1, <1>2, <2>1 DEF HeadersInFlight, Accepts
  <2>4. CommandsInFlight'
    BY <1>1, <2>1 DEF CommandsInFlight, Faithful, NoGap
  <2> QED  BY <2>2, <2>3, <2>4
<1> QED  BY <1>1, <1>3, <1>4 DEF LinkInv

\* Executing a command keeps the link consistent: the command is the next one.
LEMMA ParseCommandStringKeepsLink ==
    ASSUME TypeOK, LinkInv, ParseCommandString
    PROVE  LinkInv'
<1>1. /\ UNCHANGED <<reliableSequence, reliableAcknowledge, reliableCommands,
                     toReceiver, toSender, outgoingSequence, incomingSequence,
                     added, overrun>>
      /\ parsing' = Tail(parsing)
  BY DEF ParseCommandString, sender
<1>2. /\ Len(added') = reliableSequence'
      /\ (\A q \in toSender : q.num < outgoingSequence["receiver"])'
  BY <1>1 DEF LinkInv
<1>3. /\ parsing \in Seq(Numbered) /\ parsing # <<>>
      /\ Len(parsing) \in Nat /\ Len(parsing) > 0
      /\ Head(parsing) = parsing[1]
      /\ Len(Tail(parsing)) = Len(parsing) - 1
      /\ \A j \in 1 .. Len(Tail(parsing)) : Tail(parsing)[j] = parsing[j + 1]
  BY HeadTailProperties, EmptySeq DEF ParseCommandString, TypeOK
<1>4. ASSUME ~overrun
      PROVE  Window' /\ ExecutedAsAdded' /\ ResendsWhatWasAdded'
             /\ CommandsInFlight' /\ HeadersInFlight'
  <2>1. Window /\ ExecutedAsAdded /\ ResendsWhatWasAdded
        /\ CommandsInFlight /\ HeadersInFlight /\ Len(added) = reliableSequence
    BY <1>4 DEF LinkInv
  <2>2. /\ parsing[1].seq <= remoteCommandSequence + 1
        /\ parsing[1].seq \in 1 .. Len(added)
        /\ parsing[1].cmd = added[parsing[1].seq]
    BY <1>3, <2>1 DEF CommandsInFlight, Faithful, NoGap
  <2>3. /\ remoteCommandSequence' >= remoteCommandSequence
        /\ remoteCommandSequence' >= parsing[1].seq
        /\ remoteCommandSequence' <= reliableSequence
        /\ remoteCommandSequence' \in Nat
    BY <1>3, <2>1, <2>2 DEF ParseCommandString, Window, TypeOK
  <2>4. Window' /\ ResendsWhatWasAdded'
    BY <1>1, <2>1, <2>3 DEF Window, ResendsWhatWasAdded, GetSequence, TypeOK
  <2>5. HeadersInFlight'
    BY <1>1, <2>1, <2>3 DEF HeadersInFlight, Accepts, TypeOK
  <2>6. ExecutedAsAdded'
    <3>1. CASE remoteCommandSequence >= Head(parsing).seq
      BY <1>1, <2>1, <3>1 DEF ParseCommandString, ExecutedAsAdded
    <3>2. CASE ~(remoteCommandSequence >= Head(parsing).seq)
      <4>1. /\ remoteCommandSequence' = parsing[1].seq
            /\ executed' = Append(executed, parsing[1])
        BY <1>3, <3>2 DEF ParseCommandString
      <4>2. /\ parsing[1].seq = Len(executed) + 1 /\ Len(executed) \in Nat
            /\ executed \in Seq(Numbered) /\ parsing[1] \in Numbered
        BY <1>3, <1>4, <2>1, <2>2, <3>2 DEF ExecutedAsAdded, TypeOK
      <4>3. /\ Len(executed') = Len(executed) + 1
            /\ executed'[Len(executed) + 1] = parsing[1]
            /\ \A k \in 1 .. Len(executed) : executed'[k] = executed[k]
        BY <4>1, <4>2, AppendProperties
      <4>4. parsing[1] = [seq |-> Len(executed) + 1, cmd |-> added[Len(executed) + 1]]
        BY <2>2, <4>2 DEF Numbered
      <4>5. Len(executed) + 1 <= Len(added)
        BY <2>2, <4>2
      <4>6. ASSUME NEW k \in 1 .. Len(executed')
            PROVE  executed'[k] = [seq |-> k, cmd |-> added[k]]
        <5>1. CASE k = Len(executed) + 1
          BY <4>3, <4>4, <5>1
        <5>2. CASE k \in 1 .. Len(executed)
          BY <1>4, <2>1, <4>3, <5>2 DEF ExecutedAsAdded
        <5> QED  BY <4>2, <4>3, <5>1, <5>2
      <4> QED  BY <1>1, <4>1, <4>2, <4>3, <4>5, <4>6 DEF ExecutedAsAdded
    <3> QED  BY <3>1, <3>2
  <2>7. CommandsInFlight'
    <3>1. Faithful(Tail(parsing))
      <4> DEFINE rest == Tail(parsing)
                 NumberAt(j) == parsing[j].seq
      <4>1. /\ Len(rest) = Len(parsing) - 1 /\ Len(parsing) \in Nat
            /\ \A j \in 1 .. Len(rest) : rest[j] = parsing[j + 1]
        BY <1>3
      <4>2. /\ NumberAt(1) \in Int
            /\ \A j \in 1 .. Len(parsing) :
                 /\ NumberAt(j) = NumberAt(1) + j - 1 /\ NumberAt(j) \in 1 .. Len(added)
                 /\ parsing[j].cmd = added[NumberAt(j)]
        BY <2>1, <2>2 DEF CommandsInFlight, Faithful
      <4> HIDE DEF rest
      <4>3. \A j \in 1 .. Len(rest) : /\ 1 \in 1 .. Len(rest) /\ 1 + 1 \in 1 .. Len(parsing)
                                      /\ j + 1 \in 1 .. Len(parsing) /\ j \in Int
        BY <4>1
      <4> SUFFICES ASSUME NEW j \in 1 .. Len(rest)
                   PROVE  /\ rest[j].seq = rest[1].seq + j - 1
                          /\ rest[j].seq \in 1 .. Len(added)
                          /\ rest[j].cmd = added[rest[j].seq]
        BY DEF Faithful, rest
      <4>4. rest[j] = parsing[j + 1] /\ rest[1] = parsing[1 + 1]
        BY <4>1, <4>3
      <4>5. NumberAt(j + 1) = NumberAt(1 + 1) + j - 1
        <5> HIDE DEF NumberAt
        <5>1. /\ NumberAt(j + 1) = NumberAt(1) + (j + 1) - 1
              /\ NumberAt(1 + 1) = NumberAt(1) + (1 + 1) - 1
          BY <4>2, <4>3
        <5> QED  BY <4>2, <4>3, <5>1
      <4>6. NumberAt(j + 1) \in 1 .. Len(added) /\ parsing[j + 1].cmd = added[NumberAt(j + 1)]
        BY <4>2, <4>3, Zenon
      <4> QED  BY <4>4, <4>5, <4>6, Zenon
    <3>2. Faithful(parsing)'
      BY <1>1, <3>1 DEF Faithful
    <3>3. NoGap(parsing)'
      <4>1. CASE Len(parsing) = 1
        BY <1>1, <1>3, <4>1, HeadTailProperties, EmptySeq DEF NoGap
      <4>2. CASE Len(parsing) > 1
        <5>1. Tail(parsing)[1].seq = parsing[1].seq + 1
          BY <1>3, <2>1, <4>2 DEF CommandsInFlight, Faithful
        <5>2. Tail(parsing)[1].seq <= remoteCommandSequence' + 1
          <6>1. parsing[1].seq \in Int /\ remoteCommandSequence' \in Nat
            BY <2>2, <2>3
          <6>2. parsing[1].seq <= remoteCommandSequence'
            BY <2>3
          <6> DEFINE first == Tail(parsing)[1].seq
                     head == parsing[1].seq
                     last == remoteCommandSequence'
          <6>3. head \in Int /\ last \in Nat /\ head <= last /\ first = head + 1
            BY <5>1, <6>1, <6>2, Zenon
          <6> HIDE DEF first, head, last
          <6>4. first <= last + 1
            BY <6>3
          <6> QED  BY <6>4, Zenon DEF first, last
        <5>3. parsing' = Tail(parsing)
          BY <1>1
        <5>4. parsing'[1].seq <= remoteCommandSequence' + 1
          BY <5>2, <5>3, Zenon
        <5> QED  BY <5>4, Zenon DEF NoGap
      <4> QED  BY <1>3, <4>1, <4>2
    <3>4. ASSUME NEW p \in toReceiver  PROVE Faithful(p.cmds)' /\ NoGap(p.cmds)'
      <4>1. Faithful(p.cmds) /\ NoGap(p.cmds) /\ p.cmds \in Seq(Numbered)
        BY <2>1 DEF CommandsInFlight, TypeOK
      <4>2. Faithful(p.cmds)'
        BY <1>1, <4>1 DEF Faithful
      <4>3. CASE p.cmds = <<>>
        BY <4>2, <4>3 DEF NoGap
      <4>4. CASE p.cmds # <<>>
        <5>1. p.cmds[1] \in Numbered
          BY <4>1, <4>4, HeadTailProperties
        <5>2. p.cmds[1].seq \in Nat
          BY <5>1 DEF Numbered
        <5> QED  BY <2>3, <4>1, <4>2, <4>4, <5>2 DEF NoGap, TypeOK
      <4> QED  BY <4>3, <4>4
    <3> QED  BY <1>1, <3>2, <3>3, <3>4 DEF CommandsInFlight
  <2> QED  BY <2>4, <2>5, <2>6, <2>7
<1> QED  BY <1>1, <1>2, <1>4 DEF LinkInv

\* Writing a header keeps the link consistent.
LEMMA WriteHeaderKeepsLink ==
    ASSUME TypeOK, LinkInv, WriteHeader
    PROVE  LinkInv'
<1>1. UNCHANGED <<reliableSequence, reliableAcknowledge, reliableCommands,
                  remoteCommandSequence, parsing, toReceiver, incomingSequence,
                  added, executed, overrun>>
  BY DEF WriteHeader, sender, receiver, history
<1> DEFINE h == [num |-> outgoingSequence["receiver"], ack |-> remoteCommandSequence]
<1>2. /\ toSender' = toSender \union {h}
      /\ outgoingSequence["receiver"] \in Nat
      /\ outgoingSequence'["receiver"] = outgoingSequence["receiver"] + 1
  BY DEF WriteHeader, Number, TypeOK, End
<1>3. \A q \in toSender : q.num < outgoingSequence["receiver"] /\ q.num \in Nat /\ q.ack \in Nat
  BY DEF LinkInv, TypeOK
<1>4. /\ Len(added') = reliableSequence'
      /\ \A q \in toSender' : q.num < outgoingSequence'["receiver"]
  BY <1>1, <1>2, <1>3 DEF LinkInv
<1>5. ASSUME ~overrun
      PROVE  Window' /\ ExecutedAsAdded' /\ ResendsWhatWasAdded'
             /\ CommandsInFlight' /\ HeadersInFlight'
  <2>1. Window /\ ExecutedAsAdded /\ ResendsWhatWasAdded
        /\ CommandsInFlight /\ HeadersInFlight
    BY <1>5 DEF LinkInv
  <2>2. Window' /\ ExecutedAsAdded' /\ ResendsWhatWasAdded' /\ CommandsInFlight'
    BY <1>1, <2>1 DEF Window, ExecutedAsAdded, ResendsWhatWasAdded, GetSequence,
                      CommandsInFlight, Faithful, NoGap
  <2>3. ASSUME NEW q \in toSender'
        PROVE  /\ q.ack <= remoteCommandSequence
               /\ q.num >= incomingSequence["sender"] => reliableAcknowledge <= q.ack
    BY <1>2, <2>1, <2>3 DEF HeadersInFlight, Accepts, Window, TypeOK
  <2>4. ASSUME NEW q \in toSender', NEW r \in toSender', q.num <= r.num
        PROVE  q.ack <= r.ack
    <3>1. CASE r = h
      BY <2>3, <3>1
    <3>2. CASE r \in toSender
      <4>1. q \in toSender
        BY <1>2, <1>3, <2>4, <3>2
      <4> QED  BY <2>1, <2>4, <3>2, <4>1 DEF HeadersInFlight
    <3> QED  BY <1>2, <3>1, <3>2
  <2> QED  BY <1>1, <2>2, <2>3, <2>4 DEF HeadersInFlight, Accepts
<1> QED  BY <1>1, <1>4, <1>5 DEF LinkInv

\* Dropping the rest of a message keeps the link consistent.
LEMMA AbortParseKeepsLink ==
    ASSUME TypeOK, LinkInv, AbortParse
    PROVE  LinkInv'
<1>1. /\ UNCHANGED <<reliableSequence, reliableAcknowledge, reliableCommands,
                     remoteCommandSequence, toReceiver, toSender, outgoingSequence,
                     incomingSequence, added, executed, overrun>>
      /\ parsing' = <<>>
  BY DEF AbortParse, sender, history
<1>2. ASSUME ~overrun
      PROVE  Window' /\ ExecutedAsAdded' /\ ResendsWhatWasAdded'
             /\ CommandsInFlight' /\ HeadersInFlight'
  <2>1. Window /\ ExecutedAsAdded /\ ResendsWhatWasAdded
        /\ CommandsInFlight /\ HeadersInFlight
    BY <1>2 DEF LinkInv
  <2>2. Window' /\ ExecutedAsAdded' /\ ResendsWhatWasAdded' /\ HeadersInFlight'
    BY <1>1, <2>1 DEF Window, ExecutedAsAdded, ResendsWhatWasAdded, GetSequence,
                      HeadersInFlight, Accepts
  <2>3. CommandsInFlight'
    BY <1>1, <2>1 DEF CommandsInFlight, Faithful, NoGap
  <2> QED  BY <2>2, <2>3
<1> QED  BY <1>1, <1>2 DEF LinkInv

----------------------------------------------------------------------------
\* A link starts consistent.
LEMMA InitLink == Init => LinkInv
<1> SUFFICES ASSUME Init PROVE LinkInv
  OBVIOUS
<1>1. Len(added) = reliableSequence /\ toSender = {} /\ toReceiver = {}
  BY DEF Init
<1>2. Window /\ ExecutedAsAdded /\ ResendsWhatWasAdded
  BY MaxElementsAssumption DEF Init, Window, ExecutedAsAdded, ResendsWhatWasAdded
<1>3. CommandsInFlight
  BY DEF Init, CommandsInFlight, Faithful, NoGap
<1>4. HeadersInFlight
  BY <1>1 DEF HeadersInFlight
<1> QED  BY <1>1, <1>2, <1>3, <1>4 DEF LinkInv

\* Every step keeps the link consistent and takes no acknowledgement back.
LEMMA StepLink ==
    ASSUME TypeOK, LinkInv, [Next]_vars
    PROVE  LinkInv' /\ (overrun' \/ reliableAcknowledge' >= reliableAcknowledge)
<1>1. ASSUME NEW c \in Commands, AddCommand(c)
      PROVE  LinkInv' /\ reliableAcknowledge' = reliableAcknowledge
  BY <1>1, AddCommandKeepsLink DEF AddCommand
<1>2. ASSUME WriteCommands  PROVE LinkInv' /\ reliableAcknowledge' = reliableAcknowledge
  BY <1>2, WriteCommandsKeepsLink DEF WriteCommands, sender
<1>3. ASSUME NEW p \in toSender, ReceiveHeader(p)
      PROVE  LinkInv' /\ (overrun' \/ reliableAcknowledge' >= reliableAcknowledge)
  BY <1>3, ReceiveHeaderKeepsLink DEF ReceiveHeader, history
<1>4. ASSUME NEW p \in toReceiver, ReceiveCommands(p)
      PROVE  LinkInv' /\ reliableAcknowledge' = reliableAcknowledge
  BY <1>4, ReceiveCommandsKeepsLink DEF ReceiveCommands, sender
<1>5. ASSUME ParseCommandString  PROVE LinkInv' /\ reliableAcknowledge' = reliableAcknowledge
  BY <1>5, ParseCommandStringKeepsLink DEF ParseCommandString, sender
<1>6. ASSUME WriteHeader  PROVE LinkInv' /\ reliableAcknowledge' = reliableAcknowledge
  BY <1>6, WriteHeaderKeepsLink DEF WriteHeader, sender
<1>7. ASSUME AbortParse  PROVE LinkInv' /\ reliableAcknowledge' = reliableAcknowledge
  BY <1>7, AbortParseKeepsLink DEF AbortParse, sender
<1>8. ASSUME UNCHANGED vars  PROVE LinkInv' /\ reliableAcknowledge' = reliableAcknowledge
  BY <1>8 DEF vars, sender, receiver, history, LinkInv, Window, ExecutedAsAdded,
              ResendsWhatWasAdded, GetSequence, CommandsInFlight, Faithful, NoGap,
              HeadersInFlight, Accepts
<1>9. reliableAcknowledge >= reliableAcknowledge
  BY DEF TypeOK
<1> QED  BY <1>1, <1>2, <1>3, <1>4, <1>5, <1>6, <1>7, <1>8, <1>9 DEF Next

\* The two ends and everything in flight stay consistent, whatever the network
\* loses, repeats or reorders, until a command is added over an unacknowledged one.
THEOREM LinkConsistent == Spec => []LinkInv
<1>1. TypeOK /\ LinkInv /\ [Next]_vars => LinkInv'
  BY StepLink
<1> QED  BY <1>1, InitLink, TypeCorrect, PTL DEF Spec

\* parseCommandString executes exactly the commands that addCommand took, each
\* once and in order.
THEOREM ExactlyOnceInOrder == Spec => []ExecutedAsAdded
<1>1. LinkInv => ExecutedAsAdded
  BY DEF LinkInv, ExecutedAsAdded
<1> QED  BY <1>1, LinkConsistent, PTL

\* writeCommands only ever sends a command under its own number.
THEOREM ResendsFaithfully == Spec => []ResendsWhatWasAddedUntilOverrun
<1>1. LinkInv => ResendsWhatWasAddedUntilOverrun
  BY DEF LinkInv, ResendsWhatWasAddedUntilOverrun
<1> QED  BY <1>1, LinkConsistent, PTL

\* The sender never stops resending a command that the receiver has not stored.
THEOREM AcknowledgeSound == Spec => []AcknowledgeIsSound
<1>1. LinkInv => AcknowledgeIsSound
  BY DEF LinkInv, Window, AcknowledgeIsSound
<1> QED  BY <1>1, LinkConsistent, PTL

\* updateAcknowledge, which believes any number, never moves backwards.
THEOREM AcknowledgeMonotonic == Spec => AcknowledgeNeverGoesBack
<1>1. TypeOK /\ LinkInv /\ [Next]_vars
        => [overrun' \/ reliableAcknowledge' >= reliableAcknowledge]_vars
  BY StepLink
<1> QED  BY <1>1, LinkConsistent, TypeCorrect, PTL DEF Spec, AcknowledgeNeverGoesBack

----------------------------------------------------------------------------
\* A step of the link that executes nothing delivers nothing.
LEMMA NothingDelivered ==
    ASSUME executed' = executed
    PROVE  Delivered' = Delivered
  BY DEF Delivered

\* What is delivered is a sequence, as long as what was executed.
LEMMA DeliveredType ==
    ASSUME executed \in Seq(Numbered)
    PROVE  /\ Delivered \in Seq(Commands \union {NoCommand})
           /\ Len(Delivered) = Len(executed)
           /\ \A k \in 1 .. Len(executed) : Delivered[k] = executed[k].cmd
<1>1. \A k \in 1 .. Len(executed) : executed[k] \in Numbered
  OBVIOUS
<1>2. \A k \in 1 .. Len(executed) : executed[k].cmd \in Commands \union {NoCommand}
  BY <1>1 DEF Numbered
<1>3. Len(executed) \in Nat
  OBVIOUS
<1> QED  BY <1>2, <1>3 DEF Delivered

\* When a command is executed the first one that was not delivered is.
LEMMA ExecutedIsDelivered ==
    ASSUME executed \in Seq(Numbered), added \in Seq(Commands), ~overrun, ~overrun',
           added' = added, ExecutedAsAdded, ExecutedAsAdded',
           NEW h \in Numbered, executed' = Append(executed, h)
    PROVE  /\ Len(Delivered) < Len(added)
           /\ Delivered' = Append(Delivered, added[Len(Delivered) + 1])
<1> DEFINE n == Len(executed)
<1>1. n \in Nat /\ Len(executed') = n + 1 /\ executed' \in Seq(Numbered)
  BY AppendProperties
<1>2. /\ Len(executed') <= Len(added)
      /\ \A k \in 1 .. n + 1 : executed'[k] = [seq |-> k, cmd |-> added[k]]
  BY <1>1 DEF ExecutedAsAdded
<1>3. \A k \in 1 .. n : executed[k] = [seq |-> k, cmd |-> added[k]]
  BY DEF ExecutedAsAdded
<1>4. Delivered = [k \in 1 .. n |-> added[k]]
  <2>1. ASSUME NEW k \in 1 .. n  PROVE executed[k].cmd = added[k]
    <3>1. executed[k] = [seq |-> k, cmd |-> added[k]]
      BY <1>3
    <3> QED  BY <3>1
  <2> QED  BY <2>1, Zenon DEF Delivered
<1>5. Delivered' = [k \in 1 .. n + 1 |-> added[k]]
  <2>1. ASSUME NEW k \in 1 .. n + 1  PROVE executed'[k].cmd = added[k]
    <3>1. executed'[k] = [seq |-> k, cmd |-> added[k]]
      BY <1>2
    <3> QED  BY <3>1
  <2>2. Delivered' = [k \in 1 .. n + 1 |-> executed'[k].cmd]
    BY <1>1 DEF Delivered
  <2> HIDE DEF n
  <2> QED  BY <2>1, <2>2, Zenon
<1>6. n + 1 \in 1 .. Len(added) /\ Len(added) \in Nat
  BY <1>1, <1>2
<1>7. [k \in 1 .. n |-> added[k]] \in Seq(Commands) /\ Len([k \in 1 .. n |-> added[k]]) = n
  BY <1>1, <1>6
<1>8. Append([k \in 1 .. n |-> added[k]], added[n + 1]) = [k \in 1 .. n + 1 |-> added[k]]
  BY <1>1, <1>7
<1> QED  BY <1>1, <1>4, <1>5, <1>6, <1>7, <1>8

\* A step of the link is a step of the queue, or leaves it alone.
LEMMA StepQueue ==
    ASSUME TypeOK, LinkInv, LinkInv', [Next]_vars
    PROVE  [Queue!Next]_<<added, Delivered, overrun>>
<1>1. ASSUME NEW c \in Commands, AddCommand(c)  PROVE Queue!Next
  <2>1. added' = Append(added, c) /\ Delivered' = Delivered
    BY <1>1, NothingDelivered DEF AddCommand
  <2>2. overrun' \in BOOLEAN /\ overrun \in BOOLEAN
    BY <1>1 DEF AddCommand, TypeOK
  <2>3. CASE overrun'
    BY <2>3 DEF Queue!Next, Queue!Break
  <2>4. CASE ~overrun'
    <3>1. overrun' = overrun
      BY <2>2, <2>4, <1>1 DEF AddCommand
    <3> QED  BY <3>1, <2>1 DEF Queue!Next, Queue!Accept
  <2> QED  BY <2>3, <2>4
<1>2. ASSUME WriteCommands  PROVE UNCHANGED <<added, Delivered, overrun>>
  BY <1>2, NothingDelivered DEF WriteCommands, history
<1>3. ASSUME NEW p \in toSender, ReceiveHeader(p)
      PROVE  UNCHANGED <<added, Delivered, overrun>>
  BY <1>3, NothingDelivered DEF ReceiveHeader, history
<1>4. ASSUME NEW p \in toReceiver, ReceiveCommands(p)
      PROVE  UNCHANGED <<added, Delivered, overrun>>
  BY <1>4, NothingDelivered DEF ReceiveCommands, history
<1>5. ASSUME ParseCommandString  PROVE [Queue!Next]_<<added, Delivered, overrun>>
  <2>1. added' = added /\ overrun' = overrun /\ overrun \in BOOLEAN
    BY <1>5 DEF ParseCommandString, TypeOK
  <2>2. CASE overrun
    BY <2>1, <2>2 DEF Queue!Next, Queue!Break
  <2>3. CASE ~overrun /\ executed' = executed
    BY <2>1, <2>3, NothingDelivered
  <2>4. CASE ~overrun /\ executed' # executed
    <3>1. executed' = Append(executed, Head(parsing)) /\ parsing # <<>>
      BY <1>5, <2>4 DEF ParseCommandString
    <3>2. Head(parsing) \in Numbered
      BY <3>1 DEF TypeOK
    <3>3. ExecutedAsAdded /\ ExecutedAsAdded' /\ ~overrun'
      BY <2>1, <2>4 DEF LinkInv
    <3>4. /\ Len(Delivered) < Len(added)
          /\ Delivered' = Append(Delivered, added[Len(Delivered) + 1])
      BY <2>1, <2>4, <3>1, <3>2, <3>3, ExecutedIsDelivered DEF TypeOK
    <3> QED  BY <2>1, <3>4 DEF Queue!Next, Queue!Deliver
  <2> QED  BY <2>1, <2>2, <2>3, <2>4
<1>6. ASSUME WriteHeader  PROVE UNCHANGED <<added, Delivered, overrun>>
  BY <1>6, NothingDelivered DEF WriteHeader, history
<1>7. ASSUME AbortParse  PROVE UNCHANGED <<added, Delivered, overrun>>
  BY <1>7, NothingDelivered DEF AbortParse, history
<1>8. ASSUME UNCHANGED vars  PROVE UNCHANGED <<added, Delivered, overrun>>
  BY <1>8, NothingDelivered DEF vars, history
<1> QED  BY <1>1, <1>2, <1>3, <1>4, <1>5, <1>6, <1>7, <1>8 DEF Next

\* The link implements the queue of commands: ring, numbers, acknowledgements and
\* packets are hidden from those who add commands and those who execute them.
THEOREM LinkImplementsQueue == Spec => ImplementsQueue
<1>1. Init => Queue!Init
  BY DEF Init, Queue!Init, Delivered
<1>2. TypeOK /\ LinkInv /\ LinkInv' /\ [Next]_vars
        => [Queue!Next]_<<added, Delivered, overrun>>
  BY StepQueue
<1> QED
  BY <1>1, <1>2, TypeCorrect, LinkConsistent, PTL DEF Spec, ImplementsQueue, Queue!Spec
=============================================================================
