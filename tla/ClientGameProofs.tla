-------------------------- MODULE ClientGameProofs --------------------------
(***************************************************************************)
(* Proofs about ClientGame, for any number of entities, any size of the    *)
(* rings, and any number of messages, commands and maps.                   *)
(***************************************************************************)
EXTENDS ClientGame, FiniteSetTheorems, WellFoundedInduction, TLAPS

\* The ring holds the last CommandRing commands, each at its own number.
RingHolds ==
    \A c \in 1 .. remoteCommandSequence :
        remoteCommandSequence < c + CommandRing => commands[c % CommandRing].cmd = c

\* A snapshot that was received: no command it belongs to is still to come.
KnownSnapshot(s) ==
    s \in Snapshot /\ s.num <= messages /\ s.cmd <= remoteCommandSequence

\* The snapshots that were not read yet.
ReceivedInv ==
    /\ DOMAIN received \subseteq 1 .. messages
    /\ \A n \in DOMAIN received : KnownSnapshot(received[n]) /\ received[n].num = n

\* What the connection keeps.
ConnectionInv ==
    /\ messages \in 0 .. MaxMessages /\ serverTime \in 0 .. messages /\ map \in 0 .. MaxMaps
    /\ serverMessageSequence \in 0 .. messages
    /\ remoteCommandSequence \in 0 .. MaxCommands
    /\ configString \in Value /\ configString.cmd = remoteCommandSequence
    /\ commands \in [0 .. CommandRing - 1 -> Value]
    /\ RingHolds
    /\ KnownSnapshot(currentSnap)
    /\ ReceivedInv

\* What the processor points to.  Two pointers are to different slots until a snapshot
\* is copied over the one that is shown.
PointersInv ==
    /\ activeSnapshots \in [Slots -> Snapshot]
    /\ \A s \in Slots : KnownSnapshot(activeSnapshots[s])
    /\ {snap, nextSnap, prevSnap} \subseteq Slots \cup {None}
    /\ snap = None => nextSnap = None
    /\ nextSnap # None /\ ~aliased => nextSnap # snap
    /\ processedSnapshotNum \in 0 .. latestSnapshotNum /\ latestSnapshotNum \in 0 .. messages
    /\ aliased \in BOOLEAN

\* The commands executed, in every phase.
ExecutedInv ==
    /\ latestCommandSequence \in 0 .. MaxCommands /\ monitor \in Value
    /\ snapActive \in BOOLEAN /\ entered \in BOOLEAN
    /\ overrun \in BOOLEAN /\ misread \in BOOLEAN
    /\ frameServerTime \in 0 .. MaxMessages
    /\ entered => snapActive
    /\ ~overrun => ~misread
    /\ entered /\ ~overrun => monitor.cmd = latestCommandSequence
    /\ entered /\ snap # None /\ ~aliased => Shown.cmd <= latestCommandSequence

\* The entities, in every phase: the shown snapshot's in current, the next one's in next.
EntitiesInv ==
    /\ current \in [Entities -> EntityState] /\ next \in [Entities -> EntityState]
    /\ valid \subseteq Entities
    /\ snap = None => valid = {}
    /\ snap # None /\ ~aliased =>
          valid = Shown.ents /\ \A e \in valid : current[e] = StatesOf(Shown)[e]
    /\ nextSnap # None /\ ~aliased =>
          \A e \in activeSnapshots[nextSnap].ents :
             next[e] = StatesOf(activeSnapshots[nextSnap])[e]

\* What the application was told, in every phase.
ToldInv ==
    /\ DOMAIN view \subseteq Entities
    /\ reactivated \in BOOLEAN
    /\ snap = None => DOMAIN view = {}
    /\ snap # None /\ ~aliased /\ ~reactivated => view = [e \in Shown.ents |-> Shown.num]

\* The inductive invariant.
GameInv == ConnectionInv /\ PointersInv /\ ExecutedInv /\ EntitiesInv /\ ToldInv

----------------------------------------------------------------------------
\* Two commands less than a ring apart have different slots.
LEMMA CommandsApart ==
    ASSUME NEW i \in Nat, NEW j \in Nat, i < j, j < i + CommandRing
    PROVE  i % CommandRing # j % CommandRing
<1> DEFINE M == CommandRing
           a == i \div M
           b == j \div M
<1>0. M \in Nat \ {0}
  BY SizesAssumption
<1> HIDE DEF M
<1>1. /\ i = M * a + (i % M) /\ a \in Int /\ i % M \in Int
      /\ j = M * b + (j % M) /\ b \in Int
  BY <1>0
<1>2. SUFFICES ASSUME i % M = j % M  PROVE FALSE
  BY DEF M
<1> HIDE DEF a, b
<1>3. j - i = M * (b - a)
  BY <1>0, <1>1, <1>2
<1>4. CASE b - a <= 0
  <2>1. M * (b - a) <= 0
    BY <1>0, <1>1, <1>4
  <2> QED  BY <1>3, <2>1
<1>5. CASE b - a >= 1
  <2>1. M * (b - a) >= M
    BY <1>0, <1>1, <1>5
  <2> QED  BY <1>0, <1>3, <2>1 DEF M
<1> QED  BY <1>1, <1>4, <1>5

\* A set of numbers with an upper bound has a greatest element.
LEMMA MaxIsGreatest ==
    ASSUME NEW k \in Nat, NEW S \in SUBSET (0 .. k), S # {}
    PROVE  Max(S) \in S /\ \A x \in S : x <= Max(S)
<1> DEFINE T == {k - x : x \in S}
<1>1. T \subseteq Nat /\ T # {}
  <2>1. PICK x \in S : TRUE
    OBVIOUS
  <2>2. k - x \in T
    OBVIOUS
  <2>3. ASSUME NEW y \in S  PROVE k - y \in Nat
    OBVIOUS
  <2> QED  BY <2>2, <2>3
<1>2. PICK t \in T : \A y \in T : ~(<<y, t>> \in OpToRel(<, Nat))
  <2> HIDE DEF T
  <2> QED  BY <1>1, WFMin, NatLessThanWellFounded, Zenon
<1>3. \A y \in T : ~(y < t)
  BY <1>1, <1>2 DEF OpToRel
<1>4. PICK m \in S : t = k - m
  BY <1>2
<1>5. ASSUME NEW x \in S  PROVE m >= x
  <2>1. k - x \in T
    OBVIOUS
  <2>2. ~(k - x < k - m)
    BY <1>3, <1>4, <2>1
  <2> QED  BY <2>2
<1>6. Max(S) \in S /\ \A x \in S : Max(S) >= x
  BY <1>5 DEF Max
<1> QED  BY <1>6

\* A set with one element.
LEMMA MaxOfOne ==
    ASSUME NEW x \in Int
    PROVE  Max({x}) = x
  BY DEF Max

\* readNextSnapshot copies to one of the slots.
LEMMA SlotOfInSlots ==
    ASSUME NEW n \in Nat \ {0}
    PROVE  SlotOf(n) \in Slots
<1>1. Cardinality(0 .. 1) = 2
  <2>1. Cardinality(0 .. 1) = IF 0 > 1 THEN 0 ELSE 1 - 0 + 1
    <3> DEFINE a == 0
               b == 1
    <3>1. a \in Int /\ b \in Int
      OBVIOUS
    <3> HIDE DEF a, b
    <3>2. Cardinality(a .. b) = IF a > b THEN 0 ELSE b - a + 1
      BY <3>1, FS_Interval
    <3> QED  BY <3>2 DEF a, b
  <2> QED  BY <2>1
<1> QED  BY <1>1 DEF SlotOf, Slots

\* addCommands keeps the last commands in the ring.
LEMMA RingKept ==
    ASSUME ConnectionInv, NEW last \in remoteCommandSequence .. MaxCommands,
           commands' = addCommands(last), remoteCommandSequence' = last
    PROVE  /\ commands' \in [0 .. CommandRing - 1 -> Value]
           /\ RingHolds'
<1> DEFINE r == remoteCommandSequence
           New(s) == {c \in r + 1 .. last : c % CommandRing = s}
<1>1. /\ r \in Nat /\ MaxCommands \in Nat /\ last \in Nat /\ r <= last /\ last <= MaxCommands
      /\ CommandRing \in Nat \ {0}
      /\ map \in 0 .. MaxMaps
      /\ commands \in [0 .. CommandRing - 1 -> Value]
  BY SizesAssumption, BoundsAssumption DEF ConnectionInv
<1> HIDE DEF r
<1>2. ASSUME NEW s \in 0 .. CommandRing - 1
      PROVE  commands'[s] = IF New(s) = {} THEN commands[s]
                            ELSE [map |-> map, cmd |-> Max(New(s))]
  BY <1>1 DEF addCommands, r
<1>3. ASSUME NEW s \in 0 .. CommandRing - 1, New(s) # {}
      PROVE  Max(New(s)) \in New(s) /\ \A x \in New(s) : x <= Max(New(s))
  <2>1. New(s) \in SUBSET (0 .. last)
    BY <1>1
  <2> HIDE DEF New
  <2> QED  BY <1>1, <1>3, <2>1, MaxIsGreatest
<1>4. commands' \in [0 .. CommandRing - 1 -> Value]
  <2>1. DOMAIN commands' = 0 .. CommandRing - 1
    BY <1>1 DEF addCommands
  <2>2. commands' = [s \in 0 .. CommandRing - 1 |-> commands'[s]]
    BY <1>1 DEF addCommands
  <2>3. ASSUME NEW s \in 0 .. CommandRing - 1
        PROVE  commands'[s] \in Value
    <3>1. CASE New(s) = {}
      BY <1>1, <1>2, <3>1
    <3>2. CASE New(s) # {}
      <4>1. Max(New(s)) \in 0 .. MaxCommands
        BY <1>1, <1>3, <3>2
      <4> HIDE DEF New
      <4>2. commands'[s] = [map |-> map, cmd |-> Max(New(s))]
        BY <1>2, <3>2
      <4> QED  BY <1>1, <4>1, <4>2 DEF Value
    <3> QED  BY <3>1, <3>2
  <2> QED  BY <2>2, <2>3
<1>5. ASSUME NEW c \in 1 .. last, last < c + CommandRing
      PROVE  commands'[c % CommandRing].cmd = c
  <2> DEFINE s == c % CommandRing
  <2>1. s \in 0 .. CommandRing - 1
    BY <1>1
  <2>2. ASSUME NEW d \in New(s)  PROVE d <= c
    <3>1. SUFFICES ASSUME c < d  PROVE FALSE
      BY <1>1
    <3>2. d \in Nat /\ c \in Nat /\ d < c + CommandRing /\ d % CommandRing = s
      BY <1>1, <1>5
    <3> QED  BY <3>1, <3>2, CommandsApart
  <2>3. CASE c > r
    <3>1. c \in New(s)
      BY <1>1, <2>3
    <3>2. Max(New(s)) \in New(s) /\ c <= Max(New(s))
      BY <1>3, <2>1, <3>1
    <3>3. Max(New(s)) <= c
      BY <2>2, <3>2
    <3>4. Max(New(s)) \in Int
      BY <1>1, <3>2
    <3>5. Max(New(s)) = c
      BY <3>2, <3>3, <3>4
    <3> HIDE DEF New, s
    <3>6. commands'[s] = [map |-> map, cmd |-> Max(New(s))]
      BY <1>2, <2>1, <3>1
    <3> QED  BY <3>5, <3>6 DEF s
  <2>4. CASE c <= r
    <3>1. New(s) = {}
      BY <1>1, <2>2, <2>4
    <3>2. commands'[s] = commands[s]
      BY <1>2, <2>1, <3>1
    <3>3. c \in 1 .. r /\ r < c + CommandRing
      BY <1>1, <1>5, <2>4
    <3> QED  BY <3>2, <3>3 DEF ConnectionInv, RingHolds, r
  <2> QED  BY <1>1, <2>3, <2>4
<1>6. RingHolds'
  BY <1>5 DEF RingHolds
<1> QED  BY <1>4, <1>6

----------------------------------------------------------------------------
\* Nothing was received yet.
LEMMA GameInit == Init => GameInv
<1> SUFFICES ASSUME Init PROVE GameInv
  OBVIOUS
<1>1. /\ MaxMessages \in Nat /\ MaxCommands \in Nat /\ MaxMaps \in Nat
      /\ NumEntities \in Nat \ {0}
  BY SizesAssumption, BoundsAssumption
<1>2. /\ NoSnapshot \in Snapshot /\ NoSnapshot.num = 0 /\ NoSnapshot.cmd = 0
      /\ [map |-> 0, cmd |-> 0] \in Value
  BY <1>1 DEF NoSnapshot, Snapshot, Value
<1>3. DOMAIN received = {} /\ DOMAIN view = {}
  BY DEF Init
<1>4. ConnectionInv
  BY <1>1, <1>2, <1>3 DEF Init, ConnectionInv, RingHolds, KnownSnapshot, ReceivedInv
<1>5. aliased \in BOOLEAN /\ reactivated \in BOOLEAN /\ snapActive \in BOOLEAN
      /\ entered \in BOOLEAN /\ overrun \in BOOLEAN /\ misread \in BOOLEAN
  BY DEF Init
<1>6. PointersInv
  BY <1>1, <1>2, <1>5 DEF Init, PointersInv, KnownSnapshot
<1>7. ExecutedInv
  BY <1>1, <1>2, <1>5 DEF Init, ExecutedInv
<1>8. EntitiesInv
  <2>1. [number |-> 0, sent |-> 0] \in EntityState
    BY <1>1 DEF EntityState, Entities
  <2> QED  BY <2>1 DEF Init, EntitiesInv
<1>9. ToldInv
  BY <1>3, <1>5 DEF Init, ToldInv
<1> QED  BY <1>4, <1>6, <1>7, <1>8, <1>9 DEF GameInv

\* The numbers of a snapshot that was received.
LEMMA KnownNumbers ==
    ASSUME GameInv, NEW s, KnownSnapshot(s)
    PROVE  s \in Snapshot /\ s.cmd \in 0 .. remoteCommandSequence
<1>1. s \in Snapshot /\ s.cmd <= remoteCommandSequence
  BY DEF KnownSnapshot
<1>2. s.cmd \in 0 .. MaxCommands
  BY <1>1 DEF Snapshot
<1>3. remoteCommandSequence \in 0 .. MaxCommands /\ MaxCommands \in Nat
  BY BoundsAssumption DEF GameInv, ConnectionInv
<1> QED  BY <1>1, <1>2, <1>3

\* A snapshot that is known stays known: numbers only grow.
LEMMA KnownStays ==
    ASSUME ConnectionInv, messages' \in messages .. MaxMessages,
           remoteCommandSequence' \in remoteCommandSequence .. MaxCommands,
           NEW s, KnownSnapshot(s)
    PROVE  /\ s \in Snapshot
           /\ s.num <= messages'
           /\ s.cmd <= remoteCommandSequence'
<1>1. /\ messages \in Nat /\ messages' \in Nat /\ messages <= messages'
      /\ remoteCommandSequence \in Nat /\ remoteCommandSequence' \in Nat
      /\ remoteCommandSequence <= remoteCommandSequence'
  BY BoundsAssumption DEF ConnectionInv
<1>2. s \in Snapshot /\ s.num <= messages /\ s.cmd <= remoteCommandSequence
  BY DEF KnownSnapshot
<1>3. s.num \in Int /\ s.cmd \in Int
  BY <1>2, BoundsAssumption DEF Snapshot
<1> QED  BY <1>1, <1>2, <1>3

\* A message that only adds to what is known leaves the processor's part as it is.
LEMMA ProcessorKeeps ==
    ASSUME GameInv, messages' \in messages .. MaxMessages,
           remoteCommandSequence' \in remoteCommandSequence .. MaxCommands,
           UNCHANGED <<pointers, snapActive, frameServerTime, processedSnapshotNum, latestSnapshotNum,
                       prevSnap, entityInfos, application, executed, aliased, reactivated>>
    PROVE  PointersInv' /\ ExecutedInv' /\ EntitiesInv' /\ ToldInv'
<1> USE DEF GameInv
<1>1. ASSUME NEW s \in Slots
      PROVE  KnownSnapshot(activeSnapshots[s])'
  <2>1. KnownSnapshot(activeSnapshots[s])
    BY DEF PointersInv
  <2> QED  BY <2>1, KnownStays DEF KnownSnapshot, pointers
<1>2. aliased' \in BOOLEAN
  BY DEF PointersInv
<1>3. latestSnapshotNum' \in 0 .. messages' /\ processedSnapshotNum' \in 0 .. latestSnapshotNum'
  BY BoundsAssumption DEF PointersInv, ConnectionInv
<1>4. PointersInv'
  BY <1>1, <1>2, <1>3 DEF PointersInv, pointers
<1>5. ExecutedInv'
  BY DEF ExecutedInv, executed, pointers, Shown
<1>6. EntitiesInv'
  BY DEF EntitiesInv, entityInfos, pointers, Shown
<1>7. ToldInv'
  BY DEF ToldInv, pointers, application, Shown
<1> QED  BY <1>4, <1>5, <1>6, <1>7

\* The snapshots that were not read yet stay known.
LEMMA ReceivedStays ==
    ASSUME ConnectionInv, messages' \in messages .. MaxMessages,
           remoteCommandSequence' \in remoteCommandSequence .. MaxCommands,
           UNCHANGED received
    PROVE  ReceivedInv'
<1>1. DOMAIN received' \subseteq 1 .. messages'
  BY BoundsAssumption DEF ConnectionInv, ReceivedInv
<1>2. ASSUME NEW n \in DOMAIN received
      PROVE  KnownSnapshot(received[n])' /\ received[n].num = n
  <2>1. KnownSnapshot(received[n]) /\ received[n].num = n
    BY DEF ConnectionInv, ReceivedInv
  <2> QED  BY <2>1, KnownStays DEF KnownSnapshot
<1> QED  BY <1>1, <1>2 DEF ReceivedInv

\* A message is lost.
LEMMA LoseKeeps ==
    ASSUME GameInv, Lose
    PROVE  GameInv'
<1> USE DEF GameInv
<1>1. /\ messages' \in 0 .. MaxMessages /\ messages' \in messages .. MaxMessages
      /\ remoteCommandSequence' \in remoteCommandSequence .. MaxCommands
      /\ serverTime' \in 0 .. messages' /\ serverMessageSequence' \in 0 .. messages'
      /\ UNCHANGED <<serverTime, map, manager, received>>
  BY BoundsAssumption DEF Lose, ConnectionInv, manager
<1>2. PointersInv' /\ ExecutedInv' /\ EntitiesInv' /\ ToldInv'
  BY <1>1, ProcessorKeeps DEF Lose
<1>3. KnownSnapshot(currentSnap)'
  BY <1>1, KnownStays DEF ConnectionInv, KnownSnapshot, manager
<1>4. ReceivedInv'
  BY <1>1, ReceivedStays
<1>5. RingHolds'
  BY <1>1 DEF ConnectionInv, RingHolds, manager
<1>6. ConnectionInv'
  BY <1>1, <1>3, <1>4, <1>5 DEF ConnectionInv, manager
<1> QED  BY <1>2, <1>6

\* What the messages have in common.
LEMMA ReceiveKeeps ==
    ASSUME GameInv, NEW last \in remoteCommandSequence .. MaxCommands, Receive(last),
           remoteCommandSequence' = last,
           map' \in 0 .. MaxMaps, serverTime' \in 0 .. messages',
           configString' \in Value, configString'.cmd = last,
           KnownSnapshot(currentSnap)', ReceivedInv'
    PROVE  GameInv'
<1> USE DEF GameInv
<1>1. /\ messages' \in 0 .. MaxMessages /\ messages' \in messages .. MaxMessages
      /\ remoteCommandSequence' \in remoteCommandSequence .. MaxCommands
      /\ remoteCommandSequence' \in 0 .. MaxCommands
      /\ serverMessageSequence' \in 0 .. messages'
  BY BoundsAssumption DEF Receive, ConnectionInv
<1>2. PointersInv' /\ ExecutedInv' /\ EntitiesInv' /\ ToldInv'
  BY <1>1, ProcessorKeeps DEF Receive
<1>3. commands' \in [0 .. CommandRing - 1 -> Value] /\ RingHolds'
  BY RingKept DEF Receive
<1>4. ConnectionInv'
  BY <1>1, <1>3 DEF ConnectionInv
<1> QED  BY <1>2, <1>4

\* The numbers of a message, and the config string after its commands.
LEMMA ReceiveNumbers ==
    ASSUME GameInv, NEW last \in remoteCommandSequence .. MaxCommands, Receive(last),
           remoteCommandSequence' = last
    PROVE  /\ messages \in Nat /\ messages' = messages + 1
           /\ messages' \in messages .. MaxMessages
           /\ remoteCommandSequence' \in remoteCommandSequence .. MaxCommands
           /\ ConfigstringCommand(last) \in Value
           /\ ConfigstringCommand(last).cmd = last
<1> USE DEF GameInv
<1>1. /\ messages \in Nat /\ messages' = messages + 1
      /\ messages' \in messages .. MaxMessages
      /\ remoteCommandSequence' \in remoteCommandSequence .. MaxCommands
  BY BoundsAssumption DEF Receive, ConnectionInv
<1>2. last \in 0 .. MaxCommands /\ map \in 0 .. MaxMaps
      /\ remoteCommandSequence \in Nat /\ remoteCommandSequence <= last
  BY BoundsAssumption DEF ConnectionInv
<1>3. CASE last > remoteCommandSequence
  <2>1. ConfigstringCommand(last) = [map |-> map, cmd |-> last]
    BY <1>3 DEF ConfigstringCommand
  <2> QED  BY <1>1, <1>2, <2>1 DEF Value
<1>4. CASE ~(last > remoteCommandSequence)
  <2>1. ConfigstringCommand(last) = configString /\ last = remoteCommandSequence
    BY <1>2, <1>4 DEF ConfigstringCommand
  <2> QED  BY <1>1, <2>1 DEF ConnectionInv
<1> QED  BY <1>3, <1>4

\* A message with commands only.
LEMMA ReceiveCommandsKeeps ==
    ASSUME GameInv, ReceiveCommands
    PROVE  GameInv'
<1> USE DEF GameInv
<1>1. PICK last \in remoteCommandSequence .. MaxCommands :
          /\ Receive(last)
          /\ remoteCommandSequence' = last
          /\ configString' = ConfigstringCommand(last)
          /\ UNCHANGED <<serverTime, map, received, currentSnap, newSnapshots>>
  BY DEF ReceiveCommands
<1>2. /\ messages \in Nat /\ messages' = messages + 1
      /\ messages' \in messages .. MaxMessages
      /\ remoteCommandSequence' \in remoteCommandSequence .. MaxCommands
      /\ configString' \in Value /\ configString'.cmd = last
  BY <1>1, ReceiveNumbers
<1>3. KnownSnapshot(currentSnap)'
  BY <1>1, <1>2, KnownStays DEF ConnectionInv, KnownSnapshot
<1>4. ReceivedInv'
  BY <1>1, <1>2, ReceivedStays
<1>5. map' \in 0 .. MaxMaps /\ serverTime' \in 0 .. messages'
  BY <1>1, <1>2 DEF ConnectionInv
<1> QED  BY <1>1, <1>2, <1>3, <1>4, <1>5, ReceiveKeeps

\* A game state.
LEMMA ParseGameStateKeeps ==
    ASSUME GameInv, ParseGameState
    PROVE  GameInv'
<1> USE DEF GameInv
<1>1. PICK last \in remoteCommandSequence .. MaxCommands :
          /\ Receive(last)
          /\ remoteCommandSequence' = last
          /\ map' = map + 1
          /\ configString' = [map |-> map', cmd |-> last]
  BY DEF ParseGameState
<1>2. /\ messages \in Nat /\ messages' = messages + 1
      /\ messages' \in messages .. MaxMessages
      /\ remoteCommandSequence' \in remoteCommandSequence .. MaxCommands
  BY <1>1, ReceiveNumbers
<1>3. KnownSnapshot(currentSnap)'
  BY <1>1, <1>2, KnownStays DEF ConnectionInv, KnownSnapshot, ParseGameState
<1>4. ReceivedInv'
  BY <1>1, <1>2, ReceivedStays DEF ParseGameState
<1>5. map' \in 0 .. MaxMaps /\ serverTime' \in 0 .. messages'
  BY <1>1, <1>2, BoundsAssumption DEF ConnectionInv, ParseGameState
<1>6. configString' \in Value /\ configString'.cmd = last
  <2>1. last \in 0 .. MaxCommands
    BY BoundsAssumption DEF ConnectionInv
  <2> QED  BY <1>1, <1>5, <2>1 DEF Value
<1> QED  BY <1>1, <1>3, <1>4, <1>5, <1>6, ReceiveKeeps

\* A snapshot.
LEMMA ParseSnapshotKeeps ==
    ASSUME GameInv, ParseSnapshot
    PROVE  GameInv'
<1> USE DEF GameInv
<1>1. PICK last \in remoteCommandSequence .. MaxCommands, scene \in Scenes :
          /\ Receive(last)
          /\ remoteCommandSequence' = last
          /\ configString' = ConfigstringCommand(last)
          /\ serverTime' = serverTime + 1
          /\ currentSnap' = [num |-> messages', active |-> scene.active, time |-> serverTime',
                             ents |-> scene.ents, cmd |-> last]
          /\ received' = [n \in DOMAIN received \cup {messages'} |->
                              IF n = messages' THEN currentSnap' ELSE received[n]]
          /\ UNCHANGED map
  BY DEF ParseSnapshot
<1>2. /\ messages \in Nat /\ messages' = messages + 1
      /\ messages' \in messages .. MaxMessages
      /\ remoteCommandSequence' \in remoteCommandSequence .. MaxCommands
      /\ configString' \in Value /\ configString'.cmd = last
  BY <1>1, ReceiveNumbers
<1>3. map' \in 0 .. MaxMaps /\ serverTime' \in 0 .. messages'
  BY <1>1, <1>2, BoundsAssumption DEF ConnectionInv
<1>4. KnownSnapshot(currentSnap)' /\ currentSnap'.num = messages'
  <2>1. last \in 0 .. MaxCommands /\ messages' \in 0 .. MaxMessages
        /\ serverTime' \in 0 .. MaxMessages /\ last <= last /\ messages' <= messages'
    BY <1>2, <1>3, BoundsAssumption DEF ConnectionInv
  <2>2. scene.active \in BOOLEAN /\ scene.ents \in SUBSET Entities
    BY SizesAssumption DEF Entities
  <2>3. currentSnap' \in Snapshot /\ currentSnap'.num = messages' /\ currentSnap'.cmd = last
    BY <1>1, <2>1, <2>2 DEF Snapshot
  <2> QED  BY <1>1, <2>1, <2>3 DEF KnownSnapshot
<1>5. ReceivedInv'
  <2>1. DOMAIN received' = DOMAIN received \cup {messages'}
    BY <1>1
  <2>2. DOMAIN received' \subseteq 1 .. messages'
    BY <1>2, <2>1 DEF ConnectionInv, ReceivedInv
  <2>3. ASSUME NEW n \in DOMAIN received'
        PROVE  /\ received'[n] \in Snapshot /\ received'[n].num <= messages'
               /\ received'[n].cmd <= remoteCommandSequence' /\ received'[n].num = n
    <3>1. CASE n = messages'
      <4>1. received'[n] = currentSnap'
        BY <1>1, <2>1, <3>1
      <4> QED  BY <1>4, <3>1, <4>1 DEF KnownSnapshot
    <3>2. CASE n # messages'
      <4>1. received'[n] = received[n] /\ n \in DOMAIN received
        BY <1>1, <2>1, <3>2
      <4>2. KnownSnapshot(received[n]) /\ received[n].num = n
        BY <4>1 DEF ConnectionInv, ReceivedInv
      <4>3. /\ received[n] \in Snapshot /\ received[n].num <= messages'
            /\ received[n].cmd <= remoteCommandSequence'
        BY <1>2, <4>2, KnownStays
      <4> QED  BY <4>1, <4>2, <4>3
    <3> QED  BY <3>1, <3>2
  <2> QED  BY <2>2, <2>3 DEF ReceivedInv, KnownSnapshot
<1> QED  BY <1>1, <1>2, <1>3, <1>4, <1>5, ReceiveKeeps

----------------------------------------------------------------------------
\* Reading takes from the snapshots that were received and touches nothing else of the
\* connection.
LEMMA ReceivedShrinks ==
    ASSUME ConnectionInv, NEW k, received' = After(k, received), UNCHANGED <<server, manager>>
    PROVE  ConnectionInv'
<1>1. DOMAIN received' \subseteq DOMAIN received
      /\ \A n \in DOMAIN received' : received'[n] = received[n]
  BY DEF After
<1>2. /\ messages' = messages /\ serverTime' = serverTime /\ map' = map
      /\ serverMessageSequence' = serverMessageSequence
      /\ remoteCommandSequence' = remoteCommandSequence
      /\ commands' = commands /\ configString' = configString /\ currentSnap' = currentSnap
  BY DEF server, manager
<1>3. ReceivedInv'
  BY <1>1, <1>2 DEF ConnectionInv, ReceivedInv, KnownSnapshot
<1>4. RingHolds' /\ KnownSnapshot(currentSnap)'
  BY <1>2 DEF ConnectionInv, RingHolds, KnownSnapshot
<1> QED  BY <1>2, <1>3, <1>4 DEF ConnectionInv

\* A tick, with or without entering the game.
LEMMA TickKeeps ==
    ASSUME GameInv, Tick
    PROVE  GameInv'
<1> USE DEF GameInv
<1>1. ConnectionInv'
  BY ReceivedShrinks DEF Tick
<1>2. /\ messages' = messages /\ remoteCommandSequence' = remoteCommandSequence
      /\ activeSnapshots' = activeSnapshots /\ snap' = snap /\ nextSnap' = nextSnap
      /\ current' = current /\ next' = next /\ valid' = valid /\ view' = view
      /\ overrun' = overrun /\ misread' = misread /\ aliased' = aliased
      /\ reactivated' = reactivated /\ prevSnap' = snap
  BY DEF Tick, server, manager, pointers, entityInfos, application
<1>3. latestSnapshotNum' \in 0 .. messages' /\ processedSnapshotNum' \in 0 .. latestSnapshotNum'
  <2>1. /\ messages \in Nat /\ serverMessageSequence \in 0 .. messages
        /\ latestSnapshotNum \in 0 .. messages /\ processedSnapshotNum \in 0 .. latestSnapshotNum
        /\ currentSnap.num \in 0 .. messages
    BY BoundsAssumption DEF ConnectionInv, PointersInv, KnownSnapshot, Snapshot
  <2> DEFINE processed == IF HasEntered THEN serverMessageSequence ELSE processedSnapshotNum
             latest == IF HasEntered THEN serverMessageSequence ELSE latestSnapshotNum
  <2>2. latest \in 0 .. messages /\ processed \in 0 .. latest
    BY <2>1
  <2>3. processedSnapshotNum' = processed
        /\ latestSnapshotNum' = IF currentSnap.num < latest THEN latest ELSE currentSnap.num
    BY DEF Tick
  <2> HIDE DEF processed, latest
  <2> QED  BY <1>2, <2>1, <2>2, <2>3
<1>4. PointersInv'
  <2>1. \A s \in Slots : KnownSnapshot(activeSnapshots[s])'
    BY <1>2 DEF PointersInv, KnownSnapshot
  <2>2. aliased' \in BOOLEAN
    BY <1>2 DEF PointersInv
  <2> QED  BY <1>2, <1>3, <2>1, <2>2 DEF PointersInv
<1>5. ExecutedInv'
  <2>1. /\ snapActive' \in BOOLEAN /\ overrun' \in BOOLEAN /\ misread' \in BOOLEAN
        /\ entered' \in BOOLEAN /\ (~overrun' => ~misread') /\ (entered' => snapActive')
    BY <1>2 DEF ExecutedInv, Tick
  <2>4. frameServerTime' \in 0 .. MaxMessages
    BY DEF Tick, ConnectionInv, KnownSnapshot, Snapshot
  <2>2. CASE HasEntered
    <3>1. latestCommandSequence' = remoteCommandSequence /\ monitor' = configString
      BY <2>2 DEF Tick
    <3>2. latestCommandSequence' \in 0 .. MaxCommands /\ monitor' \in Value
          /\ monitor'.cmd = latestCommandSequence'
      BY <3>1 DEF ConnectionInv
    <3>3. \A s \in Slots : activeSnapshots[s].cmd <= remoteCommandSequence
      BY DEF PointersInv, KnownSnapshot
    <3>4. snap # None => Shown'.cmd <= latestCommandSequence'
      BY <1>2, <3>1, <3>3 DEF PointersInv, Shown
    <3> QED  BY <1>2, <2>1, <2>4, <3>2, <3>4 DEF ExecutedInv
  <2>3. CASE ~HasEntered
    <3>1. latestCommandSequence' = latestCommandSequence /\ monitor' = monitor
          /\ Shown' = Shown /\ (entered' => entered)
      BY <1>2, <2>3 DEF Tick, Shown
    <3> QED  BY <1>2, <2>1, <2>4, <3>1 DEF ExecutedInv
  <2> QED  BY <2>2, <2>3
<1>6. EntitiesInv'
  BY <1>2 DEF EntitiesInv, Shown, StatesOf
<1>7. ToldInv'
  BY <1>2 DEF ToldInv, Shown
<1> QED  BY <1>1, <1>4, <1>5, <1>6, <1>7

\* A tick that throws ServerTimeWentBackward.
LEMMA TickThrowsKeeps ==
    ASSUME GameInv, TickThrows
    PROVE  GameInv'
<1> USE DEF GameInv
<1>1. UNCHANGED <<server, manager, received, frameServerTime, pointers, processedSnapshotNum,
                  latestSnapshotNum, prevSnap, entityInfos, application, executed, aliased,
                  reactivated>>
  BY DEF TickThrows
<1>2. snapActive' \in BOOLEAN /\ (entered => snapActive')
  BY DEF TickThrows, ExecutedInv
<1>3. ConnectionInv'
  BY <1>1 DEF ConnectionInv, RingHolds, ReceivedInv, KnownSnapshot, server, manager
<1>4. PointersInv'
  BY <1>1 DEF PointersInv, KnownSnapshot, server, manager, pointers
<1>5. ExecutedInv'
  BY <1>1, <1>2 DEF ExecutedInv, Shown, pointers, executed
<1>6. EntitiesInv'
  BY <1>1 DEF EntitiesInv, Shown, StatesOf, pointers, entityInfos
<1>7. ToldInv'
  BY <1>1 DEF ToldInv, Shown, pointers, application
<1> QED  BY <1>3, <1>4, <1>5, <1>6, <1>7

\* Nothing is left to read: only the numbers of the processor change.
LEMMA NothingReadKeeps ==
    ASSUME GameInv, NothingRead,
           UNCHANGED <<server, manager, snapActive, frameServerTime, pointers,
                       latestSnapshotNum, prevSnap, entityInfos, view, executed, aliased, reactivated>>
    PROVE  GameInv'
<1> USE DEF GameInv
<1>1. ConnectionInv'
  BY ReceivedShrinks DEF NothingRead
<1>2. /\ messages' = messages /\ remoteCommandSequence' = remoteCommandSequence
      /\ activeSnapshots' = activeSnapshots /\ snap' = snap /\ nextSnap' = nextSnap
      /\ current' = current /\ next' = next /\ valid' = valid
      /\ latestCommandSequence' = latestCommandSequence /\ monitor' = monitor
      /\ overrun' = overrun /\ misread' = misread /\ entered' = entered
  BY DEF server, manager, pointers, entityInfos, executed
<1>3. latestSnapshotNum' \in 0 .. messages' /\ processedSnapshotNum' \in 0 .. latestSnapshotNum'
  <2>1. messages \in Nat /\ latestSnapshotNum \in 0 .. messages
        /\ processedSnapshotNum' = latestSnapshotNum
    BY BoundsAssumption DEF ConnectionInv, PointersInv, NothingRead
  <2> QED  BY <1>2, <2>1
<1>4. PointersInv'
  <2>1. \A s \in Slots : KnownSnapshot(activeSnapshots[s])'
    BY <1>2 DEF PointersInv, KnownSnapshot
  <2>2. aliased' \in BOOLEAN
    BY DEF PointersInv
  <2> QED  BY <1>2, <1>3, <2>1, <2>2 DEF PointersInv
<1>5. ExecutedInv'
  BY <1>2 DEF ExecutedInv, Shown
<1>6. EntitiesInv'
  BY <1>2 DEF EntitiesInv, Shown, StatesOf
<1>7. ToldInv'
  BY <1>2 DEF ToldInv, Shown
<1> QED  BY <1>1, <1>4, <1>5, <1>6, <1>7

\* readNextSnapshot: the snapshot it copies was received, and the other slot is not
\* touched.
LEMMA ReadNext ==
    ASSUME GameInv, NEW n \in Readable, readNextSnapshot(n), UNCHANGED <<server, manager>>
    PROVE  /\ ConnectionInv'
           /\ KnownSnapshot(received[n]) /\ received[n].num = n
           /\ SlotOf(n) \in Slots
           /\ activeSnapshots' \in [Slots -> Snapshot]
           /\ activeSnapshots'[SlotOf(n)] = received[n]
           /\ \A s \in Slots : s # SlotOf(n) => activeSnapshots'[s] = activeSnapshots[s]
           /\ \A s \in Slots : KnownSnapshot(activeSnapshots[s])'
           /\ latestSnapshotNum \in 0 .. messages /\ processedSnapshotNum' \in 0 .. latestSnapshotNum
           /\ messages' = messages /\ remoteCommandSequence' = remoteCommandSequence
           /\ aliased' \in BOOLEAN
           /\ aliased' = (aliased \/ snap = SlotOf(n))
<1> USE DEF GameInv
<1>1. ConnectionInv'
  BY ReceivedShrinks DEF readNextSnapshot
<1>2. /\ messages \in Nat /\ latestSnapshotNum \in 0 .. messages
      /\ processedSnapshotNum \in 0 .. latestSnapshotNum
      /\ n \in processedSnapshotNum + 1 .. latestSnapshotNum /\ n \in DOMAIN received
  BY BoundsAssumption DEF ConnectionInv, PointersInv, Readable, Gettable
<1>3. KnownSnapshot(received[n]) /\ received[n].num = n
  BY <1>2 DEF ConnectionInv, ReceivedInv
<1>4. SlotOf(n) \in Slots
  <2>1. n \in Nat \ {0}
    BY <1>2
  <2> QED  BY <2>1, SlotOfInSlots
<1>5. messages' = messages /\ remoteCommandSequence' = remoteCommandSequence
  BY DEF server, manager
<1>6. activeSnapshots' = [activeSnapshots EXCEPT ![SlotOf(n)] = received[n]]
      /\ activeSnapshots \in [Slots -> Snapshot]
      /\ aliased' = (aliased \/ snap = SlotOf(n)) /\ processedSnapshotNum' = n
  BY DEF readNextSnapshot, PointersInv
<1>7. /\ activeSnapshots' \in [Slots -> Snapshot]
      /\ activeSnapshots'[SlotOf(n)] = received[n]
      /\ \A s \in Slots : s # SlotOf(n) => activeSnapshots'[s] = activeSnapshots[s]
  BY <1>3, <1>4, <1>6 DEF KnownSnapshot
<1>8. ASSUME NEW s \in Slots  PROVE KnownSnapshot(activeSnapshots[s])'
  <2>1. activeSnapshots'[s] = received[n] \/ activeSnapshots'[s] = activeSnapshots[s]
    BY <1>7
  <2>2. KnownSnapshot(activeSnapshots[s])
    BY DEF PointersInv
  <2> QED  BY <1>3, <1>5, <2>1, <2>2 DEF KnownSnapshot
<1>9. aliased' \in BOOLEAN
  BY DEF PointersInv, readNextSnapshot
<1>10. processedSnapshotNum' \in 0 .. latestSnapshotNum
  BY <1>2, <1>6
<1> QED  BY <1>1, <1>2, <1>3, <1>4, <1>5, <1>6, <1>7, <1>8, <1>9, <1>10

\* executeNewServerCommands goes up to the given command, and as long as the ring has not
\* lost one of them it executes each with its own text.
LEMMA ExecuteKeeps ==
    ASSUME GameInv, NEW last \in 0 .. remoteCommandSequence, executeNewServerCommands(last)
    PROVE  /\ latestCommandSequence' \in 0 .. MaxCommands
           /\ last <= latestCommandSequence'
           /\ monitor' \in Value
           /\ overrun' \in BOOLEAN /\ misread' \in BOOLEAN
           /\ ~overrun' => ~misread'
           /\ entered' = entered
           /\ entered /\ ~overrun' => monitor'.cmd = latestCommandSequence'
<1> USE DEF GameInv
<1> DEFINE done == latestCommandSequence
           r == remoteCommandSequence
           new == done + 1 .. last
<1>1. /\ MaxCommands \in Nat /\ r \in 0 .. MaxCommands /\ done \in 0 .. MaxCommands
      /\ last \in Nat /\ last <= r /\ CommandRing \in Nat \ {0}
      /\ commands \in [0 .. CommandRing - 1 -> Value]
  BY SizesAssumption, BoundsAssumption DEF ConnectionInv, ExecutedInv
<1>2. /\ latestCommandSequence' = Max({done} \cup new)
      /\ monitor' = IF new = {} THEN monitor ELSE commands[Max(new) % CommandRing]
      /\ overrun' = (overrun \/ (entered /\ \E c \in new : c + CommandRing <= r))
      /\ entered' = entered
      /\ misread' = (misread \/ (entered /\ \E c \in new : commands[c % CommandRing].cmd # c))
  BY DEF executeNewServerCommands, executeCommands
<1>3. overrun' \in BOOLEAN /\ misread' \in BOOLEAN
  BY DEF ExecutedInv, executeNewServerCommands, executeCommands
<1>4. /\ \A c \in 1 .. r : r < c + CommandRing => commands[c % CommandRing].cmd = c
      /\ overrun \in BOOLEAN /\ misread \in BOOLEAN /\ (~overrun => ~misread)
      /\ (entered /\ ~overrun => monitor.cmd = done) /\ entered \in BOOLEAN
      /\ monitor \in Value
  BY DEF ConnectionInv, RingHolds, ExecutedInv
<1> HIDE DEF done, r
<1>5. CASE last <= done
  <2>1. new = {}
    BY <1>1, <1>5
  <2>2. latestCommandSequence' = done
    <3>1. {done} \cup new = {done}
      BY <2>1
    <3> HIDE DEF new
    <3> QED  BY <1>1, <1>2, <3>1, MaxOfOne
  <2> HIDE DEF new
  <2>3. monitor' = monitor /\ overrun' = overrun /\ misread' = misread
    BY <1>2, <1>4, <2>1
  <2> QED  BY <1>1, <1>2, <1>3, <1>4, <1>5, <2>2, <2>3
<1>6. CASE done < last
  <2>1. last \in new /\ new \subseteq 1 .. last /\ new \subseteq 0 .. last
    BY <1>1, <1>6
  <2>2. \A c \in new : c \in 1 .. r /\ c <= last
    BY <1>1
  <2>3. {done} \cup new \in SUBSET (0 .. last)
    BY <1>1, <1>6
  <2> HIDE DEF new
  <2>4. Max(new) = last
    <3>1. Max(new) \in new /\ last <= Max(new)
      BY <1>1, <2>1, MaxIsGreatest
    <3> QED  BY <1>1, <2>2, <3>1
  <2>5. latestCommandSequence' = last
    <3>1. Max({done} \cup new) \in {done} \cup new /\ last <= Max({done} \cup new)
      BY <1>1, <2>1, <2>3, MaxIsGreatest
    <3>2. Max({done} \cup new) \in 0 .. last
      BY <2>3, <3>1
    <3> QED  BY <1>1, <1>2, <3>1, <3>2
  <2>6. monitor' = commands[last % CommandRing]
    BY <1>2, <2>1, <2>4
  <2>7. monitor' \in Value
    <3>1. last % CommandRing \in 0 .. CommandRing - 1
      BY <1>1
    <3> QED  BY <1>1, <2>6, <3>1
  <2>8. ASSUME ~overrun', entered
        PROVE  ~misread' /\ monitor'.cmd = last
    <3>1. ~overrun /\ \A c \in new : ~(c + CommandRing <= r)
      BY <1>2, <2>8
    <3>2. ASSUME NEW c \in new  PROVE commands[c % CommandRing].cmd = c
      <4>1. r < c + CommandRing
        BY <1>1, <2>2, <3>1
      <4> QED  BY <1>4, <2>2, <4>1
    <3> QED  BY <1>2, <1>4, <2>1, <2>6, <3>1, <3>2
  <2>9. ASSUME ~entered
        PROVE  overrun' = overrun /\ misread' = misread
    BY <1>2, <1>4, <2>9
  <2> QED  BY <1>1, <1>2, <1>3, <1>4, <1>6, <2>5, <2>7, <2>8, <2>9
<1> QED  BY <1>1, <1>5, <1>6

\* An application that is told of entities whose states have their own numbers has just
\* these entities.
LEMMA ViewOfOwnNumbers ==
    ASSUME NEW S \in SUBSET Entities, NEW f, DOMAIN f = S, \A e \in S : f[e].number = e
    PROVE  ViewOf(f) = [e \in S |-> f[e].sent]
<1>1. {f[e].number : e \in S} = S
  OBVIOUS
<1>2. ASSUME NEW n \in S
      PROVE  Max({e \in S : f[e].number = n}) = n
  <2>1. {e \in S : f[e].number = n} = {n}
    OBVIOUS
  <2>2. n \in Int
    BY SizesAssumption DEF Entities
  <2> QED  BY <2>1, <2>2, MaxOfOne
<1> QED  BY <1>1, <1>2 DEF ViewOf

\* The states of a snapshot.
LEMMA StatesOfSnapshot ==
    ASSUME NEW s \in Snapshot
    PROVE  /\ DOMAIN StatesOf(s) = s.ents /\ s.ents \in SUBSET Entities
           /\ \A e \in s.ents : /\ StatesOf(s)[e] \in EntityState
                                /\ StatesOf(s)[e].number = e /\ StatesOf(s)[e].sent = s.num
  BY DEF StatesOf, Snapshot, EntityState

\* The states of a snapshot written over those of the entities.
LEMMA OverwriteStates ==
    ASSUME NEW f \in [Entities -> EntityState], NEW s \in Snapshot
    PROVE  /\ Overwrite(f, StatesOf(s)) \in [Entities -> EntityState]
           /\ \A e \in s.ents : Overwrite(f, StatesOf(s))[e] = StatesOf(s)[e]
  BY StatesOfSnapshot DEF Overwrite

----------------------------------------------------------------------------
\* A snapshot that is not active is passed over while none is shown.
LEMMA SkipInactiveKeeps ==
    ASSUME GameInv, SkipInactiveSnapshot
    PROVE  GameInv'
<1> USE DEF GameInv
<1>1. PICK n \in Readable : readNextSnapshot(n)
  BY DEF SkipInactiveSnapshot
<1>2. /\ UNCHANGED <<server, manager>> /\ snap' = snap /\ nextSnap' = nextSnap /\ snap = None
      /\ nextSnap = None
      /\ latestSnapshotNum' = latestSnapshotNum /\ prevSnap' = prevSnap
      /\ UNCHANGED <<entityInfos, application, executed, snapActive, reactivated>>
      /\ frameServerTime' = frameServerTime
  BY DEF SkipInactiveSnapshot, PointersInv
<1>3. /\ ConnectionInv' /\ SlotOf(n) \in Slots
      /\ activeSnapshots' \in [Slots -> Snapshot]
      /\ \A s \in Slots : KnownSnapshot(activeSnapshots[s])'
      /\ latestSnapshotNum \in 0 .. messages /\ processedSnapshotNum' \in 0 .. latestSnapshotNum
      /\ messages' = messages /\ aliased' \in BOOLEAN
  BY <1>1, <1>2, ReadNext
<1>4. PointersInv'
  BY <1>2, <1>3 DEF PointersInv
<1>5. ExecutedInv'
  BY <1>2 DEF ExecutedInv, executed
<1>6. EntitiesInv'
  BY <1>2 DEF EntitiesInv, entityInfos
<1>7. ToldInv'
  BY <1>2 DEF ToldInv, application
<1> QED  BY <1>3, <1>4, <1>5, <1>6, <1>7

\* The first snapshot that is shown.
LEMMA InitialSnapshotKeeps ==
    ASSUME GameInv, setInitialSnapshot
    PROVE  GameInv'
<1> USE DEF GameInv
<1>1. PICK n \in Readable :
          /\ readNextSnapshot(n)
          /\ snap' = SlotOf(n)
          /\ executeNewServerCommands(received[n].cmd)
          /\ current' = Overwrite(current, StatesOf(received[n]))
          /\ next' = Overwrite(next, StatesOf(received[n]))
          /\ valid' = valid \cup received[n].ents
          /\ view' = Merge(view, ViewOf(StatesOf(received[n])))
  BY DEF setInitialSnapshot
<1> DEFINE found == received[n]
<1>2. /\ UNCHANGED <<server, manager>> /\ snap = None /\ nextSnap = None /\ nextSnap' = None
      /\ latestSnapshotNum' = latestSnapshotNum /\ prevSnap' = prevSnap
      /\ snapActive' = snapActive /\ reactivated' = reactivated
      /\ frameServerTime' = frameServerTime
  BY DEF setInitialSnapshot, PointersInv
<1>3. /\ ConnectionInv' /\ SlotOf(n) \in Slots
      /\ KnownSnapshot(found) /\ activeSnapshots'[SlotOf(n)] = found
      /\ activeSnapshots' \in [Slots -> Snapshot]
      /\ \A s \in Slots : KnownSnapshot(activeSnapshots[s])'
      /\ latestSnapshotNum \in 0 .. messages /\ processedSnapshotNum' \in 0 .. latestSnapshotNum
      /\ messages' = messages /\ aliased' \in BOOLEAN
      /\ aliased' = (aliased \/ snap = SlotOf(n))
  BY <1>1, <1>2, ReadNext
<1>4. Shown' = found /\ snap' # None
  BY <1>1, <1>3 DEF Shown, Slots, None
<1>5. PointersInv'
  BY <1>1, <1>2, <1>3 DEF PointersInv
<1>6. found \in Snapshot /\ found.cmd \in 0 .. remoteCommandSequence
  BY <1>3, KnownNumbers
<1> HIDE DEF found
<1>7. ExecutedInv'
  <2>1. executeNewServerCommands(found.cmd)
    BY <1>1 DEF found
  <2>2. snapActive \in BOOLEAN /\ entered \in BOOLEAN /\ (entered => snapActive)
        /\ frameServerTime \in 0 .. MaxMessages
    BY DEF ExecutedInv
  <2> QED  BY <1>2, <1>4, <1>6, <2>1, <2>2, ExecuteKeeps DEF ExecutedInv
<1>8. EntitiesInv'
  <2>1. /\ current \in [Entities -> EntityState] /\ next \in [Entities -> EntityState]
        /\ valid = {}
    BY <1>2 DEF EntitiesInv
  <2>2. /\ current' = Overwrite(current, StatesOf(found))
        /\ next' = Overwrite(next, StatesOf(found)) /\ valid' = found.ents
    BY <1>1, <2>1 DEF found
  <2>3. /\ current' \in [Entities -> EntityState] /\ next' \in [Entities -> EntityState]
        /\ \A e \in found.ents : current'[e] = StatesOf(found)[e]
    BY <1>6, <2>1, <2>2, OverwriteStates
  <2>4. valid' \subseteq Entities
    BY <1>6, <2>2, StatesOfSnapshot
  <2>5. StatesOf(Shown)' = StatesOf(found)
    BY <1>4 DEF StatesOf
  <2> QED  BY <1>2, <1>4, <2>2, <2>3, <2>4, <2>5 DEF EntitiesInv
<1>9. ToldInv'
  <2>1. DOMAIN view = {} /\ reactivated' \in BOOLEAN
    BY <1>2 DEF ToldInv
  <2>2. ViewOf(StatesOf(found)) = [e \in found.ents |-> found.num]
    <3>1. /\ DOMAIN StatesOf(found) = found.ents /\ found.ents \in SUBSET Entities
          /\ \A e \in found.ents : /\ StatesOf(found)[e].number = e
                                   /\ StatesOf(found)[e].sent = found.num
      BY <1>6, StatesOfSnapshot
    <3>2. ViewOf(StatesOf(found)) = [e \in found.ents |-> StatesOf(found)[e].sent]
      BY <3>1, ViewOfOwnNumbers
    <3> QED  BY <3>1, <3>2
  <2>3. view' = Merge(view, [e \in found.ents |-> found.num])
    BY <1>1, <2>2 DEF found
  <2>4. view' = [e \in found.ents |-> found.num]
    BY <2>1, <2>3 DEF Merge
  <2>5. DOMAIN view' \subseteq Entities
    BY <1>6, <2>4, StatesOfSnapshot
  <2> QED  BY <1>4, <2>1, <2>4, <2>5 DEF ToldInv
<1> QED  BY <1>3, <1>5, <1>7, <1>8, <1>9

\* The next snapshot is read.  Unless it is copied over the one that is shown, that one
\* is not touched.
LEMMA NextSnapKeeps ==
    ASSUME GameInv, setNextSnap
    PROVE  GameInv'
<1> USE DEF GameInv
<1>1. PICK n \in Readable :
          /\ readNextSnapshot(n)
          /\ nextSnap' = SlotOf(n)
          /\ next' = Overwrite(next, StatesOf(received[n]))
  BY DEF setNextSnap
<1>2. /\ UNCHANGED <<server, manager>> /\ snap # None /\ nextSnap = None /\ snap' = snap
      /\ latestSnapshotNum' = latestSnapshotNum /\ prevSnap' = prevSnap
      /\ snapActive' = snapActive /\ reactivated' = reactivated
      /\ frameServerTime' = frameServerTime
      /\ current' = current /\ valid' = valid
      /\ UNCHANGED <<application, executed>> /\ snap \in Slots
  BY DEF setNextSnap, PointersInv
<1>3. /\ ConnectionInv' /\ SlotOf(n) \in Slots
      /\ KnownSnapshot(received[n]) /\ activeSnapshots'[SlotOf(n)] = received[n]
      /\ activeSnapshots' \in [Slots -> Snapshot]
      /\ \A s \in Slots : s # SlotOf(n) => activeSnapshots'[s] = activeSnapshots[s]
      /\ \A s \in Slots : KnownSnapshot(activeSnapshots[s])'
      /\ latestSnapshotNum \in 0 .. messages /\ processedSnapshotNum' \in 0 .. latestSnapshotNum
      /\ messages' = messages /\ aliased' \in BOOLEAN
      /\ aliased' = (aliased \/ snap = SlotOf(n))
  BY <1>1, <1>2, ReadNext
<1>4. ASSUME ~aliased'
      PROVE  ~aliased /\ snap # SlotOf(n) /\ Shown' = Shown
  <2>1. ~aliased /\ snap # SlotOf(n)
    BY <1>3, <1>4
  <2> QED  BY <1>2, <1>3, <2>1 DEF Shown
<1>5. PointersInv'
  <2>1. {snap, nextSnap, prevSnap}' \subseteq Slots \cup {None}
    BY <1>1, <1>2, <1>3 DEF PointersInv
  <2>2. nextSnap' # None /\ ~aliased' => nextSnap' # snap'
    BY <1>1, <1>2, <1>4
  <2> QED  BY <1>2, <1>3, <2>1, <2>2 DEF PointersInv
<1>6. ExecutedInv'
  BY <1>2, <1>4 DEF ExecutedInv, executed
<1>7. EntitiesInv'
  <2> DEFINE found == received[n]
  <2>1. /\ next \in [Entities -> EntityState] /\ found \in Snapshot
        /\ next' = Overwrite(next, StatesOf(found)) /\ activeSnapshots'[nextSnap'] = found
    BY <1>1, <1>3 DEF EntitiesInv, KnownSnapshot
  <2> HIDE DEF found
  <2>2. /\ next' \in [Entities -> EntityState]
        /\ \A e \in found.ents : next'[e] = StatesOf(found)[e]
    BY <2>1, OverwriteStates
  <2>3. \A e \in activeSnapshots'[nextSnap'].ents :
            next'[e] = StatesOf(activeSnapshots[nextSnap])'[e]
    BY <2>1, <2>2 DEF StatesOf
  <2>4. ~aliased' => valid' = Shown'.ents
                     /\ \A e \in valid' : current'[e] = StatesOf(Shown)'[e]
    BY <1>2, <1>4 DEF EntitiesInv, StatesOf
  <2> QED  BY <1>2, <2>2, <2>3, <2>4 DEF EntitiesInv
<1>8. ToldInv'
  BY <1>2, <1>4 DEF ToldInv, application
<1> QED  BY <1>3, <1>5, <1>6, <1>7, <1>8

\* The entities the application hears of in a transition are entities of the game.
LEMMA ViewOfEntities ==
    ASSUME NEW f, \A e \in DOMAIN f : f[e] \in EntityState
    PROVE  DOMAIN ViewOf(f) \subseteq Entities
  BY DEF ViewOf, EntityState

\* The transition from an active snapshot to the next one tells the application of every
\* entity that comes, changes or goes.
LEMMA TransitionTells ==
    ASSUME NEW from \in Snapshot, NEW target \in Snapshot, from.active,
           \A e \in from.ents : current[e] = StatesOf(from)[e],
           view = [e \in from.ents |-> from.num],
           NEW told,
           told = Merge(Merge(view, ViewOf(Added(from, target))), ViewOf(Modified(from, target)))
    PROVE  [n \in DOMAIN told \ Removed(from, target) |-> told[n]]
               = [e \in target.ents |-> target.num]
<1>1. /\ from.ents \in SUBSET Entities /\ target.ents \in SUBSET Entities
      /\ \A e \in from.ents : current[e].number = e
      /\ \A e \in target.ents : /\ StatesOf(target)[e].number = e
                                /\ StatesOf(target)[e].sent = target.num
  BY StatesOfSnapshot
<1> DEFINE new == target.ents \ from.ents
           both == from.ents \cap target.ents
<1>2. ViewOf(Added(from, target)) = [e \in new |-> target.num]
  <2> DEFINE f == Added(from, target)
  <2>1. DOMAIN f = new /\ \A e \in new : f[e] = StatesOf(target)[e]
    BY DEF Added
  <2>2. new \in SUBSET Entities /\ \A e \in new : f[e].number = e /\ f[e].sent = target.num
    BY <1>1, <2>1
  <2> HIDE DEF f, new
  <2>3. ViewOf(f) = [e \in new |-> f[e].sent]
    BY <2>1, <2>2, ViewOfOwnNumbers
  <2> QED  BY <2>2, <2>3 DEF f
<1>3. ViewOf(Modified(from, target)) = [e \in both |-> target.num]
  <2> DEFINE f == Modified(from, target)
  <2>0. {current[e].number : e \in from.ents} = from.ents
    BY <1>1
  <2>1. DOMAIN f = both /\ \A e \in both : f[e] = StatesOf(target)[e]
    BY <2>0 DEF Modified
  <2>2. both \in SUBSET Entities /\ \A e \in both : f[e].number = e /\ f[e].sent = target.num
    BY <1>1, <2>1
  <2> HIDE DEF f, both
  <2>3. ViewOf(f) = [e \in both |-> f[e].sent]
    BY <2>1, <2>2, ViewOfOwnNumbers
  <2> QED  BY <2>2, <2>3 DEF f
<1>4. told = Merge(Merge(view, [e \in new |-> target.num]), [e \in both |-> target.num])
  BY <1>2, <1>3
<1>5. DOMAIN told = from.ents \cup target.ents
  BY <1>4 DEF Merge
<1>6. \A e \in target.ents : told[e] = target.num
  BY <1>4 DEF Merge
<1>7. DOMAIN told \ Removed(from, target) = target.ents
  BY <1>5 DEF Removed
<1> QED  BY <1>6, <1>7

\* The next snapshot becomes the one that is shown.
LEMMA TransitionKeeps ==
    ASSUME GameInv, transitionSnapshot
    PROVE  GameInv'
<1> USE DEF GameInv
<1> DEFINE from == activeSnapshots[snap]
           target == activeSnapshots[nextSnap]
           told == Merge(Merge(view, ViewOf(Added(from, target))), ViewOf(Modified(from, target)))
<1>1. /\ executeNewServerCommands(target.cmd)
      /\ view' = [n \in DOMAIN told \ Removed(from, target) |-> told[n]]
      /\ current' = [e \in Entities |-> IF e \in target.ents THEN next[e] ELSE current[e]]
      /\ valid' = (valid \ from.ents) \cup target.ents
      /\ snap' = nextSnap /\ nextSnap' = None
      /\ reactivated' = (reactivated \/ ~from.active)
      /\ UNCHANGED <<server, manager, received>>
      /\ activeSnapshots' = activeSnapshots /\ snapActive' = snapActive /\ next' = next
      /\ frameServerTime' = frameServerTime
      /\ processedSnapshotNum' = processedSnapshotNum /\ latestSnapshotNum' = latestSnapshotNum
      /\ prevSnap' = prevSnap /\ aliased' = aliased
      /\ snap # None /\ nextSnap # None
  BY DEF transitionSnapshot, NowValid
<1>2. snap \in Slots /\ nextSnap \in Slots /\ messages' = messages
      /\ remoteCommandSequence' = remoteCommandSequence
  BY <1>1 DEF PointersInv, server, manager
<1>3. KnownSnapshot(from) /\ KnownSnapshot(target) /\ Shown = from /\ Shown' = target
      /\ from \in Snapshot
  BY <1>1, <1>2 DEF PointersInv, Shown, KnownSnapshot
<1>4. target \in Snapshot /\ target.cmd \in 0 .. remoteCommandSequence
  <2> HIDE DEF target
  <2> QED  BY <1>3, KnownNumbers
<1>5. ConnectionInv'
  BY <1>1 DEF ConnectionInv, ReceivedInv, RingHolds, KnownSnapshot, server, manager
<1>6. PointersInv'
  <2>1. \A s \in Slots : KnownSnapshot(activeSnapshots[s])'
    BY <1>1, <1>2 DEF PointersInv, KnownSnapshot
  <2>2. aliased' \in BOOLEAN
    BY <1>1 DEF PointersInv
  <2>3. {snap, nextSnap, prevSnap}' \subseteq Slots \cup {None}
    BY <1>1, <1>2 DEF PointersInv
  <2> QED  BY <1>1, <1>2, <2>1, <2>2, <2>3 DEF PointersInv
<1>7. ExecutedInv'
  <2>1. snapActive \in BOOLEAN /\ entered \in BOOLEAN /\ (entered => snapActive)
        /\ frameServerTime \in 0 .. MaxMessages
    BY DEF ExecutedInv
  <2> HIDE DEF target, from, told
  <2> QED  BY <1>1, <1>3, <1>4, <2>1, ExecuteKeeps DEF ExecutedInv
<1>8. EntitiesInv'
  <2>1. /\ current \in [Entities -> EntityState] /\ next \in [Entities -> EntityState]
        /\ valid \subseteq Entities /\ target.ents \subseteq Entities
    BY <1>4, StatesOfSnapshot DEF EntitiesInv
  <2>2. current' \in [Entities -> EntityState] /\ next' \in [Entities -> EntityState]
        /\ valid' \subseteq Entities
    BY <1>1, <2>1
  <2>3. ASSUME ~aliased
        PROVE  valid' = target.ents /\ \A e \in target.ents : current'[e] = StatesOf(target)[e]
    <3>1. valid = from.ents /\ \A e \in target.ents : next[e] = StatesOf(target)[e]
      BY <1>1, <1>3, <2>3 DEF EntitiesInv
    <3> QED  BY <1>1, <2>1, <3>1
  <2>4. StatesOf(Shown)' = StatesOf(target)
    BY <1>3 DEF StatesOf
  <2> HIDE DEF target, from, told
  <2> QED  BY <1>1, <1>3, <2>2, <2>3, <2>4 DEF EntitiesInv
<1>9. ToldInv'
  <2>1. reactivated' \in BOOLEAN
    BY <1>1 DEF ToldInv
  <2>2. DOMAIN view' \subseteq Entities
    <3>1. \A e \in DOMAIN Added(from, target) : Added(from, target)[e] \in EntityState
      BY <1>4, StatesOfSnapshot DEF Added, EntitiesInv
    <3>2. \A e \in DOMAIN Modified(from, target) : Modified(from, target)[e] \in EntityState
      BY <1>4, StatesOfSnapshot DEF Modified
    <3>3. /\ DOMAIN ViewOf(Added(from, target)) \subseteq Entities
          /\ DOMAIN ViewOf(Modified(from, target)) \subseteq Entities
      <4> DEFINE f == Added(from, target)
                 g == Modified(from, target)
      <4> HIDE DEF f, g
      <4>1. DOMAIN ViewOf(f) \subseteq Entities
        BY <3>1, ViewOfEntities DEF f
      <4>2. DOMAIN ViewOf(g) \subseteq Entities
        BY <3>2, ViewOfEntities DEF g
      <4> QED  BY <4>1, <4>2 DEF f, g
    <3>4. DOMAIN view \subseteq Entities
      BY DEF ToldInv
    <3>5. DOMAIN told \subseteq Entities
      BY <3>3, <3>4 DEF Merge
    <3> HIDE DEF told, from, target
    <3> QED  BY <1>1, <3>5
  <2>3. ASSUME ~aliased', ~reactivated'
        PROVE  view' = [e \in target.ents |-> target.num]
    <3>1. ~aliased /\ ~reactivated /\ from.active
      BY <1>1, <2>3 DEF ToldInv
    <3>2. /\ \A e \in from.ents : current[e] = StatesOf(from)[e]
          /\ view = [e \in from.ents |-> from.num]
      BY <1>1, <1>3, <3>1 DEF EntitiesInv, ToldInv
    <3>3. told = Merge(Merge(view, ViewOf(Added(from, target))), ViewOf(Modified(from, target)))
      OBVIOUS
    <3> HIDE DEF told, from, target
    <3> QED  BY <1>1, <1>3, <1>4, <3>1, <3>2, <3>3, TransitionTells
  <2>4. snap' # None
    BY <1>1
  <2> HIDE DEF told, from, target
  <2> QED  BY <1>3, <2>1, <2>2, <2>3, <2>4 DEF ToldInv
<1> QED  BY <1>5, <1>6, <1>7, <1>8, <1>9

----------------------------------------------------------------------------
\* Every step keeps the invariant.
LEMMA GameStep == GameInv /\ [Next]_vars => GameInv'
<1> SUFFICES ASSUME GameInv, [Next]_vars PROVE GameInv'
  OBVIOUS
<1>1. CASE Lose
  BY <1>1, LoseKeeps
<1>2. CASE ReceiveCommands
  BY <1>2, ReceiveCommandsKeeps
<1>3. CASE ParseGameState
  BY <1>3, ParseGameStateKeeps
<1>4. CASE ParseSnapshot
  BY <1>4, ParseSnapshotKeeps
<1>5. CASE Tick
  BY <1>5, TickKeeps
<1>13. CASE TickThrows
  BY <1>13, TickThrowsKeeps
<1>6. CASE NoInitialSnapshot
  <2>1. NothingRead /\ UNCHANGED <<server, manager, snapActive, frameServerTime, pointers,
                                   latestSnapshotNum, prevSnap, entityInfos, view, executed,
                                   aliased, reactivated>>
    BY <1>6 DEF NoInitialSnapshot, application
  <2> QED  BY <2>1, NothingReadKeeps
<1>7. CASE SkipInactiveSnapshot
  BY <1>7, SkipInactiveKeeps
<1>8. CASE setInitialSnapshot
  BY <1>8, InitialSnapshotKeeps
<1>9. CASE setNextSnap
  BY <1>9, NextSnapKeeps
<1>10. CASE transitionSnapshot
  BY <1>10, TransitionKeeps
<1>11. CASE EndOfSnapshots
  <2>1. NothingRead /\ UNCHANGED <<server, manager, snapActive, frameServerTime, pointers,
                                   latestSnapshotNum, prevSnap, entityInfos, view, executed,
                                   aliased, reactivated>>
    BY <1>11 DEF EndOfSnapshots
  <2> QED  BY <2>1, NothingReadKeeps
<1>12. CASE UNCHANGED vars
  <2>1. ConnectionInv'
    BY <1>12 DEF GameInv, ConnectionInv, RingHolds, ReceivedInv, KnownSnapshot, vars, server,
                 manager
  <2>2. PointersInv'
    BY <1>12 DEF GameInv, PointersInv, KnownSnapshot, vars, server, manager, pointers
  <2>3. ExecutedInv'
    BY <1>12 DEF GameInv, ExecutedInv, Shown, vars, pointers, executed
  <2>4. EntitiesInv'
    BY <1>12 DEF GameInv, EntitiesInv, Shown, StatesOf, vars, pointers, entityInfos
  <2>5. ToldInv'
    BY <1>12 DEF GameInv, ToldInv, Shown, vars, pointers, application
  <2> QED  BY <2>1, <2>2, <2>3, <2>4, <2>5 DEF GameInv
<1> QED
  BY <1>1, <1>2, <1>3, <1>4, <1>5, <1>6, <1>7, <1>8, <1>9, <1>10, <1>11, <1>12,
     <1>13
  DEF Next, processSnapshots

\* The invariant holds always.
LEMMA GameSafe == Spec => []GameInv
<1>1. Init => GameInv
  BY GameInit
<1>2. GameInv /\ [Next]_vars => GameInv'
  BY GameStep
<1> QED  BY <1>1, <1>2, PTL DEF Spec

\* The variables of the client game keep their types.
THEOREM GameTypeCorrect == Spec => []TypeOK
<1>1. GameInv => TypeOK
  <2> SUFFICES ASSUME GameInv PROVE TypeOK
    OBVIOUS
  <2>1. currentSnap \in Snapshot
        /\ DOMAIN received \subseteq 1 .. messages /\ \A n \in DOMAIN received : received[n].num = n
    BY DEF GameInv, ConnectionInv, ReceivedInv, KnownSnapshot
  <2> QED
    BY <2>1 DEF GameInv, ConnectionInv, PointersInv, ExecutedInv, EntitiesInv, ToldInv, TypeOK
<1> QED  BY <1>1, GameSafe, PTL

\* Between two ticks getEntity finds the entities of the snapshot that is shown and no
\* other, each as this snapshot has it, unless a snapshot was copied over the one that was
\* shown: whatever was lost, and whatever snapshots a tick goes through.
THEOREM ShownEntitiesAreTheSnapshots == Spec => []EntitiesAreTheSnapshots
<1>1. GameInv => EntitiesAreTheSnapshots
  BY DEF GameInv, EntitiesInv, EntitiesAreTheSnapshots
<1> QED  BY <1>1, GameSafe, PTL

\* The calls of entityAdded, entityModified and entityRemoved are enough for an application
\* to know the world between two ticks, unless a snapshot was copied over the one that was
\* shown or an inactive one was left.
THEOREM ApplicationKnowsTheWorld == Spec => []ToldIsTheWorld
<1>1. GameInv => ToldIsTheWorld
  BY DEF GameInv, ToldInv, ToldIsTheWorld
<1> QED  BY <1>1, GameSafe, PTL

\* From SnapshotProcessor::init on executeNewServerCommands executes every server command
\* with its own text, unless one had left the ring, and also when ticks throw
\* ServerTimeWentBackward.
THEOREM ServerCommandsExecutedAsSent == Spec => []CommandsExecutedAsSent
<1>1. GameInv => CommandsExecutedAsSent
  BY DEF GameInv, ExecutedInv, CommandsExecutedAsSent
<1> QED  BY <1>1, GameSafe, PTL

\* When a snapshot is shown the server commands that belong to it were executed, from
\* SnapshotProcessor::init on.
THEOREM ServerCommandsMatchTheSnapshot == Spec => []CommandsMatchTheSnapshot
<1>1. GameInv => CommandsMatchTheSnapshot
  <2> SUFFICES ASSUME GameInv, snap # None, entered, ~aliased
               PROVE  latestCommandSequence >= Shown.cmd
    BY DEF CommandsMatchTheSnapshot
  <2>1. Shown.cmd <= latestCommandSequence
    BY DEF GameInv, ExecutedInv
  <2>2. Shown.cmd \in Int /\ latestCommandSequence \in Int
    <3>1. snap \in Slots
      BY DEF GameInv, PointersInv
    <3>2. Shown \in Snapshot
      BY <3>1 DEF GameInv, PointersInv, Shown
    <3> QED  BY <3>2, BoundsAssumption DEF GameInv, ExecutedInv, Snapshot
  <2> QED  BY <2>1, <2>2
<1> QED  BY <1>1, GameSafe, PTL

----------------------------------------------------------------------------
\* The snapshot that is shown, the next one and the last one processed are in the order of
\* their numbers, also when the next one was copied over the one that is shown.
OrderInv ==
    /\ currentSnap.num <= serverMessageSequence
    /\ latestSnapshotNum <= serverMessageSequence
    /\ snap # None => Shown.num <= processedSnapshotNum
    /\ nextSnap # None => /\ Shown.num <= activeSnapshots[nextSnap].num
                          /\ activeSnapshots[nextSnap].num <= processedSnapshotNum

\* What a step does to the snapshot that is shown.
ForwardStep == snap # None => snap' # None /\ Shown'.num >= Shown.num

\* The numbers that OrderInv compares.
LEMMA OrderNumbers ==
    ASSUME GameInv
    PROVE  /\ messages \in Nat /\ serverMessageSequence \in 0 .. messages
           /\ currentSnap.num \in Nat /\ latestSnapshotNum \in 0 .. messages
           /\ processedSnapshotNum \in 0 .. latestSnapshotNum
           /\ \A s \in Slots : activeSnapshots[s].num \in Nat
           /\ snap # None => snap \in Slots
           /\ nextSnap # None => nextSnap \in Slots /\ snap # None
  BY BoundsAssumption DEF GameInv, ConnectionInv, PointersInv, KnownSnapshot, Snapshot

\* A step that shows the same snapshot and whose numbers only grow.
LEMMA OrderGrows ==
    ASSUME GameInv, GameInv', OrderInv,
           UNCHANGED pointers,
           serverMessageSequence' >= serverMessageSequence,
           currentSnap'.num <= serverMessageSequence',
           latestSnapshotNum' <= serverMessageSequence',
           processedSnapshotNum' >= processedSnapshotNum
    PROVE  OrderInv' /\ ForwardStep
<1>1. /\ activeSnapshots' = activeSnapshots /\ snap' = snap /\ nextSnap' = nextSnap
      /\ Shown' = Shown
  BY DEF pointers, Shown
<1>2. processedSnapshotNum \in Int /\ processedSnapshotNum' \in Int
  <2>1. processedSnapshotNum \in Int
    BY OrderNumbers
  <2>2. processedSnapshotNum' \in 0 .. latestSnapshotNum'
    BY DEF GameInv, PointersInv
  <2> QED  BY <2>1, <2>2
<1>3. /\ snap # None => Shown.num \in Int
      /\ nextSnap # None => activeSnapshots[nextSnap].num \in Int
  BY OrderNumbers DEF Shown
<1>4. snap' # None => Shown'.num <= processedSnapshotNum'
  BY <1>1, <1>2, <1>3 DEF OrderInv
<1>5. nextSnap' # None => /\ Shown'.num <= activeSnapshots'[nextSnap'].num
                          /\ activeSnapshots'[nextSnap'].num <= processedSnapshotNum'
  BY <1>1, <1>2, <1>3 DEF OrderInv
<1>6. ForwardStep
  BY <1>1, <1>3 DEF ForwardStep
<1> QED  BY <1>4, <1>5, <1>6 DEF OrderInv

\* readNextSnapshot reads a snapshot with a greater number.
LEMMA ReadsLater ==
    ASSUME GameInv, OrderInv, NEW n \in Readable, readNextSnapshot(n),
           UNCHANGED <<server, manager, latestSnapshotNum>>
    PROVE  /\ activeSnapshots'[SlotOf(n)].num = n /\ SlotOf(n) \in Slots
           /\ processedSnapshotNum' = n /\ n \in Nat /\ n > processedSnapshotNum
           /\ \A s \in Slots : s # SlotOf(n) => activeSnapshots'[s] = activeSnapshots[s]
           /\ currentSnap'.num <= serverMessageSequence'
           /\ latestSnapshotNum' <= serverMessageSequence'
<1>1. n \in Nat /\ n > processedSnapshotNum
  BY OrderNumbers DEF Readable
<1>2. processedSnapshotNum' = n
  BY DEF readNextSnapshot
<1>3. currentSnap' = currentSnap /\ serverMessageSequence' = serverMessageSequence
      /\ latestSnapshotNum' = latestSnapshotNum
  BY DEF manager
<1>4. activeSnapshots'[SlotOf(n)].num = n /\ SlotOf(n) \in Slots
      /\ \A s \in Slots : s # SlotOf(n) => activeSnapshots'[s] = activeSnapshots[s]
  BY ReadNext
<1> QED  BY <1>1, <1>2, <1>3, <1>4 DEF OrderInv

\* Every step keeps the order.
LEMMA OrderStep ==
    GameInv /\ GameInv' /\ OrderInv /\ [Next]_vars => OrderInv' /\ ForwardStep
<1> SUFFICES ASSUME GameInv, GameInv', OrderInv, [Next]_vars
             PROVE  OrderInv' /\ ForwardStep
  OBVIOUS
<1> USE OrderNumbers
<1>1. CASE Lose
  <2>1. /\ UNCHANGED <<pointers, manager, latestSnapshotNum, processedSnapshotNum>>
    BY <1>1 DEF Lose
  <2>2. currentSnap' = currentSnap /\ serverMessageSequence' = serverMessageSequence
    BY <2>1 DEF manager
  <2>3. /\ serverMessageSequence' >= serverMessageSequence
        /\ processedSnapshotNum' >= processedSnapshotNum
        /\ currentSnap'.num <= serverMessageSequence'
        /\ latestSnapshotNum' <= serverMessageSequence'
    BY <2>1, <2>2 DEF OrderInv
  <2> QED  BY <2>1, <2>3, OrderGrows
<1>2. ASSUME NEW last \in remoteCommandSequence .. MaxCommands, Receive(last),
             currentSnap' = currentSnap \/ currentSnap'.num = messages'
      PROVE  OrderInv' /\ ForwardStep
  <2>1. /\ UNCHANGED <<pointers, latestSnapshotNum, processedSnapshotNum>>
        /\ serverMessageSequence' = messages + 1 /\ messages' = messages + 1
    BY <1>2 DEF Receive
  <2>2. /\ serverMessageSequence' >= serverMessageSequence
        /\ processedSnapshotNum' >= processedSnapshotNum
        /\ latestSnapshotNum' <= serverMessageSequence'
    BY <2>1
  <2>3. currentSnap'.num <= serverMessageSequence'
    BY <1>2, <2>1 DEF OrderInv
  <2> QED  BY <2>1, <2>2, <2>3, OrderGrows
<1>3. CASE ReceiveCommands
  BY <1>2, <1>3 DEF ReceiveCommands
<1>4. CASE ParseGameState
  BY <1>2, <1>4 DEF ParseGameState
<1>5. CASE ParseSnapshot
  <2>1. PICK last \in remoteCommandSequence .. MaxCommands, scene \in Scenes :
            /\ Receive(last)
            /\ currentSnap' = [num |-> messages', active |-> scene.active, time |-> serverTime',
                               ents |-> scene.ents, cmd |-> last]
    BY <1>5 DEF ParseSnapshot
  <2>2. currentSnap'.num = messages'
    BY <2>1
  <2> QED  BY <1>2, <2>1, <2>2
<1>6. CASE Tick
  <2> DEFINE processed == IF HasEntered THEN serverMessageSequence ELSE processedSnapshotNum
             latest == IF HasEntered THEN serverMessageSequence ELSE latestSnapshotNum
  <2>1. /\ UNCHANGED <<pointers, manager>> /\ processedSnapshotNum' = processed
        /\ latestSnapshotNum' = IF currentSnap.num < latest THEN latest ELSE currentSnap.num
    BY <1>6 DEF Tick
  <2>2. latest <= serverMessageSequence /\ processed >= processedSnapshotNum
        /\ currentSnap.num <= serverMessageSequence
    BY DEF OrderInv
  <2>3. currentSnap' = currentSnap /\ serverMessageSequence' = serverMessageSequence
    BY <2>1 DEF manager
  <2> HIDE DEF processed, latest
  <2>4. /\ serverMessageSequence' >= serverMessageSequence
        /\ processedSnapshotNum' >= processedSnapshotNum
        /\ currentSnap'.num <= serverMessageSequence'
        /\ latestSnapshotNum' <= serverMessageSequence'
    BY <2>1, <2>2, <2>3
  <2> QED  BY <2>1, <2>4, OrderGrows
<1>13. CASE TickThrows
  <2>1. /\ UNCHANGED <<pointers, manager, latestSnapshotNum, processedSnapshotNum>>
    BY <1>13 DEF TickThrows
  <2>2. currentSnap' = currentSnap /\ serverMessageSequence' = serverMessageSequence
    BY <2>1 DEF manager
  <2>3. /\ serverMessageSequence' >= serverMessageSequence
        /\ processedSnapshotNum' >= processedSnapshotNum
        /\ currentSnap'.num <= serverMessageSequence'
        /\ latestSnapshotNum' <= serverMessageSequence'
    BY <2>1, <2>2 DEF OrderInv
  <2> QED  BY <2>1, <2>3, OrderGrows
<1>7. CASE NoInitialSnapshot \/ EndOfSnapshots
  <2>1. UNCHANGED <<pointers, manager, latestSnapshotNum>>
        /\ processedSnapshotNum' = latestSnapshotNum
    BY <1>7 DEF NoInitialSnapshot, EndOfSnapshots, NothingRead
  <2>2. currentSnap' = currentSnap /\ serverMessageSequence' = serverMessageSequence
    BY <2>1 DEF manager
  <2>3. /\ serverMessageSequence' >= serverMessageSequence
        /\ processedSnapshotNum' >= processedSnapshotNum
        /\ currentSnap'.num <= serverMessageSequence'
        /\ latestSnapshotNum' <= serverMessageSequence'
    BY <2>1, <2>2 DEF OrderInv
  <2> QED  BY <2>1, <2>3, OrderGrows
<1>8. CASE SkipInactiveSnapshot
  <2>1. PICK n \in Readable : readNextSnapshot(n)
    BY <1>8 DEF SkipInactiveSnapshot
  <2>2. UNCHANGED <<server, manager, latestSnapshotNum>> /\ snap = None /\ snap' = None
        /\ nextSnap' = None
    BY <1>8 DEF SkipInactiveSnapshot, GameInv, PointersInv
  <2> QED  BY <2>1, <2>2, ReadsLater DEF OrderInv, ForwardStep
<1>9. CASE setInitialSnapshot
  <2>1. PICK n \in Readable : readNextSnapshot(n) /\ snap' = SlotOf(n)
    BY <1>9 DEF setInitialSnapshot
  <2>2. UNCHANGED <<server, manager, latestSnapshotNum>> /\ snap = None /\ nextSnap' = None
    BY <1>9 DEF setInitialSnapshot, GameInv, PointersInv
  <2>3. /\ activeSnapshots'[SlotOf(n)].num = n /\ processedSnapshotNum' = n /\ n \in Nat
        /\ currentSnap'.num <= serverMessageSequence'
        /\ latestSnapshotNum' <= serverMessageSequence'
    BY <2>1, <2>2, ReadsLater
  <2>4. Shown'.num <= processedSnapshotNum'
    BY <2>1, <2>3 DEF Shown
  <2> QED  BY <2>2, <2>3, <2>4 DEF OrderInv, ForwardStep
<1>10. CASE setNextSnap
  <2>1. PICK n \in Readable : readNextSnapshot(n) /\ nextSnap' = SlotOf(n)
    BY <1>10 DEF setNextSnap
  <2>2. UNCHANGED <<server, manager, latestSnapshotNum>> /\ snap # None /\ snap' = snap
    BY <1>10 DEF setNextSnap
  <2>3. /\ activeSnapshots'[SlotOf(n)].num = n /\ processedSnapshotNum' = n /\ n \in Nat
        /\ n > processedSnapshotNum /\ SlotOf(n) \in Slots
        /\ \A s \in Slots : s # SlotOf(n) => activeSnapshots'[s] = activeSnapshots[s]
        /\ currentSnap'.num <= serverMessageSequence'
        /\ latestSnapshotNum' <= serverMessageSequence'
    BY <2>1, <2>2, ReadsLater
  <2>4. Shown.num <= processedSnapshotNum /\ snap \in Slots /\ Shown.num \in Nat
    BY <2>2 DEF OrderInv, Shown
  <2>5. Shown'.num = n \/ Shown'.num = Shown.num
    BY <2>2, <2>3, <2>4 DEF Shown
  <2>6. Shown'.num <= n /\ Shown'.num >= Shown.num
    BY <2>3, <2>4, <2>5
  <2>7. activeSnapshots'[nextSnap'].num = n
    BY <2>1, <2>3
  <2> QED  BY <2>2, <2>3, <2>6, <2>7 DEF OrderInv, ForwardStep
<1>11. CASE transitionSnapshot
  <2>1. /\ snap # None /\ nextSnap # None /\ snap' = nextSnap /\ nextSnap' = None
        /\ activeSnapshots' = activeSnapshots /\ processedSnapshotNum' = processedSnapshotNum
        /\ latestSnapshotNum' = latestSnapshotNum /\ UNCHANGED manager
    BY <1>11 DEF transitionSnapshot
  <2>2. Shown' = activeSnapshots[nextSnap] /\ Shown.num \in Nat
        /\ activeSnapshots[nextSnap].num \in Nat
    BY <2>1 DEF Shown
  <2>3. currentSnap' = currentSnap /\ serverMessageSequence' = serverMessageSequence
    BY <2>1 DEF manager
  <2> QED  BY <2>1, <2>2, <2>3 DEF OrderInv, ForwardStep
<1>12. CASE UNCHANGED vars
  <2>1. /\ UNCHANGED <<pointers, manager, latestSnapshotNum, processedSnapshotNum>>
    BY <1>12 DEF vars
  <2>2. currentSnap' = currentSnap /\ serverMessageSequence' = serverMessageSequence
    BY <2>1 DEF manager
  <2>3. /\ serverMessageSequence' >= serverMessageSequence
        /\ processedSnapshotNum' >= processedSnapshotNum
        /\ currentSnap'.num <= serverMessageSequence'
        /\ latestSnapshotNum' <= serverMessageSequence'
    BY <2>1, <2>2 DEF OrderInv
  <2> QED  BY <2>1, <2>3, OrderGrows
<1> QED
  BY <1>1, <1>3, <1>4, <1>5, <1>6, <1>7, <1>8, <1>9, <1>10, <1>11, <1>12, <1>13
  DEF Next, processSnapshots

\* The application never goes back: once a snapshot is shown one always is, and never one
\* with a smaller number, also when the next one was copied over it or a new map was
\* loaded.
ShownGoesForward == [][ForwardStep]_vars

\* The snapshots that processSnapshots shows only go forward.
THEOREM SnapshotsGoForward == Spec => ShownGoesForward
<1>1. Init => OrderInv
  <2> SUFFICES ASSUME Init PROVE OrderInv
    OBVIOUS
  <2>1. snap = None /\ nextSnap = None /\ serverMessageSequence = 0 /\ latestSnapshotNum = 0
        /\ currentSnap = NoSnapshot
    BY DEF Init
  <2>2. currentSnap.num = 0
    BY <2>1 DEF NoSnapshot
  <2> QED  BY <2>1, <2>2 DEF OrderInv
<1>2. GameInv /\ GameInv' /\ OrderInv /\ [Next]_vars => OrderInv' /\ ForwardStep
  BY OrderStep
<1> QED  BY <1>1, <1>2, GameSafe, PTL DEF Spec, ShownGoesForward

\* What a step does to the commands that were executed.
CommandsForwardStep ==
    entered => entered' /\ latestCommandSequence' >= latestCommandSequence

\* From SnapshotProcessor::init on no server command is executed again: latestCommandSequence
\* never goes back, whatever is received or lost.
CommandsGoForward == [][CommandsForwardStep]_vars

\* executeNewServerCommands goes through the server commands once.
THEOREM CommandsExecutedOnce == Spec => CommandsGoForward
<1>1. GameInv /\ [Next]_vars => CommandsForwardStep
  <2> SUFFICES ASSUME GameInv, [Next]_vars, entered
               PROVE  entered' /\ latestCommandSequence' >= latestCommandSequence
    BY DEF CommandsForwardStep
  <2>0. /\ latestCommandSequence \in Nat /\ remoteCommandSequence \in Nat
    BY BoundsAssumption DEF GameInv, ExecutedInv, ConnectionInv
  <2>1. ASSUME NEW k \in 0 .. remoteCommandSequence, executeNewServerCommands(k)
        PROVE  entered' = entered /\ latestCommandSequence' >= latestCommandSequence
    <3> DEFINE S == {latestCommandSequence} \cup (latestCommandSequence + 1 .. k)
               b == IF k > latestCommandSequence THEN k ELSE latestCommandSequence
    <3>1. entered' = entered /\ latestCommandSequence' = Max(S)
      BY <2>1 DEF executeNewServerCommands, executeCommands
    <3>2. b \in Nat /\ S \in SUBSET (0 .. b) /\ latestCommandSequence \in S
      BY <2>0
    <3> HIDE DEF S, b
    <3>3. latestCommandSequence <= Max(S) /\ Max(S) \in 0 .. b
      BY <3>2, MaxIsGreatest
    <3> QED  BY <2>0, <3>1, <3>2, <3>3
  <2>2. CASE \/ Lose \/ ReceiveCommands \/ ParseGameState \/ ParseSnapshot
             \/ NoInitialSnapshot \/ SkipInactiveSnapshot \/ setNextSnap \/ EndOfSnapshots
             \/ TickThrows \/ UNCHANGED vars
    <3>1. entered' = entered /\ latestCommandSequence' = latestCommandSequence
      BY <2>2 DEF Lose, ReceiveCommands, ParseGameState, ParseSnapshot, Receive,
                  NoInitialSnapshot, SkipInactiveSnapshot, setNextSnap, EndOfSnapshots, TickThrows, vars,
                  executed
    <3> QED  BY <2>0, <3>1
  <2>3. CASE Tick
    <3>1. ~HasEntered
      BY <2>3 DEF HasEntered, GameInv, ExecutedInv
    <3>2. entered' /\ latestCommandSequence' = latestCommandSequence
      BY <2>3, <3>1 DEF Tick
    <3> QED  BY <2>0, <3>2
  <2>4. CASE setInitialSnapshot
    <3>1. PICK n \in Readable : executeNewServerCommands(received[n].cmd)
      BY <2>4 DEF setInitialSnapshot
    <3>2. KnownSnapshot(received[n])
      BY DEF Readable, Gettable, GameInv, ConnectionInv, ReceivedInv
    <3> DEFINE found == received[n]
    <3> HIDE DEF found
    <3>3. found.cmd \in 0 .. remoteCommandSequence /\ executeNewServerCommands(found.cmd)
      BY <3>1, <3>2, KnownNumbers DEF found
    <3> QED  BY <2>1, <2>4, <3>3 DEF setInitialSnapshot
  <2>5. CASE transitionSnapshot
    <3> DEFINE target == activeSnapshots[nextSnap]
    <3>1. nextSnap \in Slots /\ executeNewServerCommands(target.cmd)
      BY <2>5 DEF transitionSnapshot, GameInv, PointersInv
    <3>2. KnownSnapshot(target)
      BY <3>1 DEF GameInv, PointersInv
    <3> HIDE DEF target
    <3>3. target.cmd \in 0 .. remoteCommandSequence
      BY <3>2, KnownNumbers
    <3> QED  BY <2>1, <3>1, <3>3
  <2> QED  BY <2>2, <2>3, <2>4, <2>5 DEF Next, processSnapshots
<1> QED  BY <1>1, GameSafe, PTL DEF Spec, CommandsGoForward

=============================================================================
