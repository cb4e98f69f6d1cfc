------------------------ MODULE ServerSnapshotsProofs ------------------------
(***************************************************************************)
(* Proofs about ServerSnapshots, for every size of the two rings, every    *)
(* number of entities and fields, and every set of frames of the server.   *)
(*                                                                         *)
(* That the base of a delta is held needs nothing more.  That a snapshot   *)
(* is what the server had in sight needs that no frame is empty, and that  *)
(* each fits in the room that readOldSnapshot keeps for a new snapshot:    *)
(* once, as long as no message ended in the middle, and twice if any did.  *)
(***************************************************************************)
EXTENDS ServerSnapshots, SequenceTheorems, FiniteSetTheorems, WellFoundedInduction, TLAPS

----------------------------------------------------------------------------
\* The hypotheses about the server.

\* k frames, whichever they are, take less than the room kept for a new snapshot.
FramesFit(k) ==
    \A f \in Frames : DOMAIN f # {} /\ k * Cardinality(DOMAIN f) < MaxSnapshotEntities

\* Enough for what a message that ended in the middle may have written.
Roomy == FramesFit(2)

----------------------------------------------------------------------------
\* What was sent, and how far the message being parsed is through it.

IsSnapshot(n) == n \in 1 .. Len(frames) /\ frames[n] \in Frames
FrameOf(n) == IF n = 0 THEN <<>> ELSE frames[n]

\* A delta is one of a snapshot that was acknowledged and is recent enough.
MessagesInv ==
    /\ Len(frames) <= MaxMessages
    /\ \A a \in acked : IsSnapshot(a)
    /\ \A m \in net :
         /\ m.snapshot \in BOOLEAN
         /\ m.base # 0 => m.base \in acked /\ m.num < m.base + PacketBackup
         /\ m.snapshot => /\ IsSnapshot(m.num)
                          /\ m.entries = Delta(FrameOf(m.base), frames[m.num])

ParsedDelta == Delta(FrameOf(parser.base), frames[parser.snap.messageNum])

\* What the parser holds while it is busy: what is left of the message, and the
\* snapshot that it is a delta of.
BusyInv ==
    /\ IsSnapshot(parser.snap.messageNum)
    /\ parser.snap.messageNum = serverMessageSequence
    /\ parser.snap.parseEntitiesNum = parseEntitiesNum
    /\ parser.end = parseEntitiesNum + parser.snap.numEntities
    /\ parser.base # 0 => parser.base \in acked /\ parser.snap.messageNum < parser.base + PacketBackup
    /\ parser.old = IF parser.base = 0 THEN NullSnap ELSE snapshots[Slot(parser.base)]
    /\ \A e \in DOMAIN parser.entries :
         e \in DOMAIN ParsedDelta /\ parser.entries[e] = ParsedDelta[e]

ParserInv ==
    /\ parser = [busy |-> parser.busy, entries |-> parser.entries, base |-> parser.base,
                 old |-> parser.old, snap |-> parser.snap, end |-> parser.end,
                 oldIndex |-> parser.oldIndex, oldNum |-> parser.oldNum]
    /\ parser.busy \in BOOLEAN
    /\ parser.base \in Nat /\ parser.end \in Nat /\ parser.oldIndex \in Nat
    /\ parser.busy => BusyInv

\* A snapshot that is valid is one that was sent, in the slot of its number, and
\* no more than PacketBackup numbers old.
SlotsInv ==
    /\ currentSnap.messageNum <= serverMessageSequence
    /\ currentSnap.valid => /\ IsSnapshot(currentSnap.messageNum)
                            /\ snapshots[Slot(currentSnap.messageNum)] = currentSnap
    /\ \A i \in 0 .. PacketBackup - 1 :
         snapshots[i].valid =>
             /\ IsSnapshot(snapshots[i].messageNum)
             /\ i = Slot(snapshots[i].messageNum)
             /\ snapshots[i].messageNum <= currentSnap.messageNum
             /\ currentSnap.messageNum < snapshots[i].messageNum + PacketBackup

\* A snapshot that was acknowledged is held until its number is PacketBackup old.
AckedInv ==
    \A a \in acked :
        /\ a <= currentSnap.messageNum
        /\ currentSnap.messageNum < a + PacketBackup =>
             snapshots[Slot(a)].valid /\ snapshots[Slot(a)].messageNum = a

\* The inductive invariant that needs no hypothesis.
HeldInv == TypeOK /\ MessagesInv /\ ParserInv /\ SlotsInv /\ AckedInv

----------------------------------------------------------------------------
\* What the ring of entities holds.

Entity(i) == parseEntities[EntitySlot(i)]

\* In a ring, the entities of a snapshot are those of a frame, in increasing number.
HoldsIn(ring, s, f) ==
    LET At(i) == ring[EntitySlot(s.parseEntitiesNum + i)]
    IN  /\ \A i \in 0 .. s.numEntities - 1 :
             At(i).number \in DOMAIN f /\ At(i).fields = f[At(i).number]
        /\ \A i, j \in 0 .. s.numEntities - 1 : i < j => At(i).number < At(j).number
        /\ \A e \in DOMAIN f : \E i \in 0 .. s.numEntities - 1 : At(i).number = e
Holds(s, f) == HoldsIn(parseEntities, s, f)

\* The last index written: where the parser is, or where the last one ended.
WrittenTo == IF parser.busy THEN parser.end ELSE parseEntitiesNum

\* Nothing was written over a snapshot: not by what was parsed to its end, and not by
\* what was abandoned.
Untouched(s) ==
    \/ ~aborted /\ WrittenTo < s.parseEntitiesNum + MaxParseEntities
    \/ Roomy /\ ~EntitiesTooOld(s)

\* What parses is right until a message is abandoned, or always if there is room.
Sound == ~aborted \/ Roomy

RingInv ==
    \A i \in 0 .. PacketBackup - 1 :
        LET s == snapshots[i] IN
        /\ s.parseEntitiesNum + s.numEntities <= parseEntitiesNum
        /\ s.valid /\ Sound => /\ s.numEntities >= 1
                               /\ Roomy => 2 * s.numEntities < MaxSnapshotEntities
        /\ s.valid /\ Untouched(s) => Holds(s, frames[s.messageNum])

\* However wrong its base, a message adds no more entities than the base and its own
\* frame have: each one comes from an old one that is passed over or from an entry.
OldLeft == IF parser.oldNum = NoMore THEN 0 ELSE parser.old.numEntities - parser.oldIndex
NewLeft == {e \in DOMAIN parser.entries : ~parser.entries[e].removed}
RoomInv ==
    parser.busy /\ Sound =>
        /\ parser.oldNum # NoMore => parser.oldIndex < parser.old.numEntities
        /\ parser.snap.numEntities + OldLeft + Cardinality(NewLeft)
              <= parser.old.numEntities + Cardinality(DOMAIN frames[parser.snap.messageNum])

\* The merge has come to number c: what is left of the entries of the delta D and of the
\* base is from c on, and what was written is the new frame F up to c.
MergedIn(ring, p, D, F, c) ==
    LET Old(j) == ring[EntitySlot(p.old.parseEntitiesNum + j)]
        New(i) == ring[EntitySlot(p.snap.parseEntitiesNum + i)]
    IN  /\ \A e \in DOMAIN D : e \in DOMAIN p.entries <=> e >= c
        /\ \A j \in 0 .. p.old.numEntities - 1 : j < p.oldIndex <=> Old(j).number < c
        /\ \A i \in 0 .. p.snap.numEntities - 1 :
             New(i).number \in DOMAIN F /\ New(i).number < c /\ New(i).fields = F[New(i).number]
        /\ \A i, j \in 0 .. p.snap.numEntities - 1 : i < j => New(i).number < New(j).number
        /\ \A e \in DOMAIN F :
             e < c => \E i \in 0 .. p.snap.numEntities - 1 : New(i).number = e
MergedTo(c) ==
    MergedIn(parseEntities, parser, ParsedDelta, frames[parser.snap.messageNum], c)

MergeInv ==
    parser.busy /\ parser.snap.valid /\ Sound =>
        /\ parser.base # 0 => ~EntitiesTooOld(parser.old)
        /\ Holds(parser.old, FrameOf(parser.base))
        /\ parser.oldIndex <= parser.old.numEntities
        /\ parser.oldNum = IF parser.oldIndex < parser.old.numEntities
                           THEN Entity(parser.old.parseEntitiesNum + parser.oldIndex).number
                           ELSE NoMore
        /\ \E c \in 0 .. NoMore : MergedTo(c)

\* The inductive invariant, if every frame fits.
ContentInv == RingInv /\ RoomInv /\ MergeInv

----------------------------------------------------------------------------
\* Arithmetic of the rings.

\* Numbers less than a ring of m slots apart have different slots.
LEMMA SlotsApart ==
    ASSUME NEW m \in Nat, m # 0, NEW i \in Nat, NEW j \in Nat, i < j, j < i + m
    PROVE  i % m # j % m
<1> DEFINE a == i \div m
           b == j \div m
<1>1. /\ i = m * a + (i % m) /\ a \in Int /\ i % m \in Int
      /\ j = m * b + (j % m) /\ b \in Int
  OBVIOUS
<1>2. SUFFICES ASSUME i % m = j % m  PROVE FALSE
  OBVIOUS
<1> HIDE DEF a, b
<1>3. j - i = m * (b - a)
  BY <1>1, <1>2
<1>4. CASE b - a <= 0
  <2>1. m * (b - a) <= 0
    BY <1>1, <1>4
  <2> QED  BY <1>3, <2>1
<1>5. CASE b - a >= 1
  <2>1. m * (b - a) >= m
    BY <1>1, <1>5
  <2> QED  BY <1>3, <2>1
<1> QED  BY <1>1, <1>4, <1>5

\* A number that is i more than a multiple of the ring is in slot i.
LEMMA SlotOfSum ==
    ASSUME NEW m \in Nat, m # 0, NEW q \in Int, NEW i \in 0 .. m - 1, m * q + i \in Nat
    PROVE  (m * q + i) % m = i
<1> DEFINE n == m * q + i
           b == n \div m
           r == n % m
<1>1. n = m * b + r /\ b \in Int /\ r \in 0 .. m - 1
  OBVIOUS
<1>2. n = m * q + i /\ n \in Nat
  OBVIOUS
<1> HIDE DEF n, b, r
<1>3. m * (q - b) = r - i /\ r - i < m /\ r - i > -m
  BY <1>1, <1>2
<1>4. CASE q - b >= 1
  <2>1. m * (q - b) >= m
    BY <1>1, <1>4
  <2> QED  BY <1>1, <1>3, <2>1
<1>5. CASE q - b <= -1
  <2>1. m * (q - b) <= -m
    BY <1>1, <1>5
  <2> QED  BY <1>1, <1>3, <2>1
<1>6. CASE q - b = 0
  <2>1. m * (q - b) = 0
    BY <1>6
  <2> QED  BY <1>1, <1>3, <2>1 DEF r, n
<1> QED  BY <1>1, <1>4, <1>5, <1>6

\* Of any m numbers in a row, one is in a given slot.
LEMMA SlotsAreCovered ==
    ASSUME NEW m \in Nat, m # 0, NEW n \in Nat, n >= m, NEW i \in 0 .. m - 1
    PROVE  \E k \in n - m + 1 .. n : k % m = i
<1> DEFINE b == n \div m
           r == n % m
<1>1. n = m * b + r /\ b \in Int /\ r \in 0 .. m - 1
  OBVIOUS
<1> HIDE DEF b, r
<1>2. CASE i <= r
  <2> DEFINE k == m * b + i
  <2>1. k \in n - m + 1 .. n /\ k \in Nat
    BY <1>1, <1>2
  <2>2. k % m = i
    BY <1>1, <2>1, SlotOfSum
  <2> QED  BY <2>1, <2>2
<1>3. CASE i > r
  <2> DEFINE k == m * (b - 1) + i
  <2>1. m * (b - 1) = m * b - m
    BY <1>1
  <2>2. k \in n - m + 1 .. n /\ k \in Nat
    BY <1>1, <1>3, <2>1
  <2>3. k % m = i
    BY <1>1, <2>2, SlotOfSum
  <2> QED  BY <2>2, <2>3
<1> QED  BY <1>1, <1>2, <1>3

\* A ring later it is the same slot.
LEMMA SlotsRepeat ==
    ASSUME NEW m \in Nat, m # 0, NEW i \in Nat
    PROVE  (i + m) % m = i % m
<1> DEFINE b == i \div m
           r == i % m
<1>1. i = m * b + r /\ b \in Int /\ r \in 0 .. m - 1
  OBVIOUS
<1> HIDE DEF b, r
<1>2. m * (b + 1) + r = i + m
  BY <1>1
<1>3. (m * (b + 1) + r) % m = r
  BY <1>1, <1>2, SlotOfSum
<1> QED  BY <1>2, <1>3 DEF r

\* The two rings have slots.
LEMMA RingSizes ==
    /\ PacketBackup \in Nat /\ PacketBackup # 0
    /\ MaxParseEntities \in Nat /\ MaxParseEntities # 0
    /\ MaxSnapshotEntities \in Nat /\ MaxSnapshotEntities < MaxParseEntities
    /\ NumEntities \in Nat /\ NumEntities # 0
    /\ \A n \in Nat : Slot(n) \in 0 .. PacketBackup - 1
    /\ \A n \in Nat : EntitySlot(n) \in 0 .. MaxParseEntities - 1
<1>1. /\ PacketBackup \in Nat /\ PacketBackup # 0
      /\ MaxParseEntities \in Nat /\ MaxParseEntities # 0
      /\ MaxSnapshotEntities \in Nat /\ MaxSnapshotEntities < MaxParseEntities
      /\ NumEntities \in Nat /\ NumEntities # 0
  BY RingsAssumption, EntitiesAssumption
<1>2. \A n \in Nat : Slot(n) \in 0 .. PacketBackup - 1
  BY <1>1 DEF Slot
<1>3. \A n \in Nat : EntitySlot(n) \in 0 .. MaxParseEntities - 1
  BY <1>1 DEF EntitySlot
<1> QED  BY <1>1, <1>2, <1>3

----------------------------------------------------------------------------
\* Frames and deltas.

\* The entities of a frame are finitely many numbers, with all of their fields.
LEMMA FrameEntities ==
    ASSUME NEW f \in Frames
    PROVE  /\ DOMAIN f \subseteq Numbers
           /\ \A e \in DOMAIN f : f[e] \in [Fields -> Values]
           /\ IsFiniteSet(DOMAIN f) /\ Cardinality(DOMAIN f) \in Nat
<1>1. DOMAIN f \subseteq Numbers /\ \A e \in DOMAIN f : f[e] \in [Fields -> Values]
  BY FramesAssumption DEF Numbers
<1>2. IsFiniteSet(Numbers)
  <2> DEFINE b == NumEntities - 1
  <2>1. b \in Int
    BY RingSizes
  <2> HIDE DEF b
  <2>2. IsFiniteSet(0 .. b)
    BY <2>1, FS_Interval
  <2> QED  BY <2>2 DEF Numbers, b
<1>3. IsFiniteSet(DOMAIN f)
  BY <1>1, <1>2, FS_Subset
<1> QED  BY <1>1, <1>3, FS_CardinalityType

\* What a delta lists, and what it says of an entity.
LEMMA DeltaEntries ==
    ASSUME NEW O, NEW F
    PROVE  /\ \A e : e \in DOMAIN Delta(O, F) <=>
                     /\ e \in DOMAIN O \union DOMAIN F
                     /\ e \notin DOMAIN O \/ e \notin DOMAIN F \/ O[e] # F[e]
           /\ \A e \in DOMAIN Delta(O, F) :
                Delta(O, F)[e].removed = IF e \in DOMAIN F THEN FALSE ELSE TRUE
  BY DEF Delta

\* The fields of an entity of the new frame, from those of the old one or the baseline.
LEMMA DeltaLoaded ==
    ASSUME NEW O, NEW F, NEW e \in DOMAIN Delta(O, F), e \in DOMAIN F,
           F[e] \in [Fields -> Values], NEW from,
           from = IF e \in DOMAIN O THEN O[e] ELSE NoFields
    PROVE  LET d == Delta(O, F)[e].fields
           IN  [x \in Fields |-> IF x \in DOMAIN d THEN d[x] ELSE from[x]] = F[e]
<1> DEFINE C == {x \in Fields : F[e][x] # from[x]}
           d == Delta(O, F)[e].fields
<1>1. d = [x \in C |-> F[e][x]]
  BY DEF Delta
<1> HIDE DEF d
<1>2. \A x \in Fields : (IF x \in DOMAIN d THEN d[x] ELSE from[x]) = F[e][x]
  BY <1>1
<1>3. [x \in Fields |-> IF x \in DOMAIN d THEN d[x] ELSE from[x]] = [x \in Fields |-> F[e][x]]
  BY <1>2
<1>4. [x \in Fields |-> F[e][x]] = F[e]
  OBVIOUS
<1> QED  BY <1>3, <1>4 DEF d

\* A delta that lists an entity of the new frame has values of its fields.
LEMMA DeltaFieldValues ==
    ASSUME NEW O, NEW F, NEW e \in DOMAIN Delta(O, F), e \in DOMAIN F,
           F[e] \in [Fields -> Values]
    PROVE  LET d == Delta(O, F)[e].fields
           IN  \A x \in DOMAIN d : x \in Fields /\ d[x] \in Values
<1> DEFINE From == IF e \in DOMAIN O THEN O[e] ELSE NoFields
           C == {x \in Fields : F[e][x] # From[x]}
           d == Delta(O, F)[e].fields
<1>1. d = [x \in C |-> F[e][x]]
  BY DEF Delta
<1> HIDE DEF d, From
<1> QED  BY <1>1 DEF d

----------------------------------------------------------------------------
\* What a turn of the loops does to the parser and to the ring.

\* 1 if a state is counted as an entity, 0 if it is a removed one.
Kept(state) == IF state.number = None THEN 0 ELSE 1

\* The fields of the parser after an entity was written.
LEMMA ParserAfterEntity ==
    ASSUME TypeOK, ParserInv, NEW state, NEW next, NEW advance \in BOOLEAN,
           ParseDeltaEntity(state, next, advance)
    PROVE  /\ parser' = [busy |-> parser'.busy, entries |-> parser'.entries, base |-> parser'.base,
                         old |-> parser'.old, snap |-> parser'.snap, end |-> parser'.end,
                         oldIndex |-> parser'.oldIndex, oldNum |-> parser'.oldNum]
           /\ parser'.busy = parser.busy /\ parser'.entries = next /\ parser'.base = parser.base
           /\ parser'.old = parser.old /\ parser'.end = parser.end + Kept(state)
           /\ parser'.oldIndex = IF advance THEN parser.oldIndex + 1 ELSE parser.oldIndex
           /\ parser'.oldNum = IF advance THEN NextOld(parseEntities') ELSE parser.oldNum
           /\ parser'.snap = [valid |-> parser.snap.valid, messageNum |-> parser.snap.messageNum,
                              parseEntitiesNum |-> parser.snap.parseEntitiesNum,
                              numEntities |-> parser.snap.numEntities + Kept(state)]
<1> DEFINE k == Kept(state)
           i == IF advance THEN parser.oldIndex + 1 ELSE parser.oldIndex
           o == IF advance THEN NextOld(parseEntities') ELSE parser.oldNum
           s == [valid |-> parser.snap.valid, messageNum |-> parser.snap.messageNum,
                 parseEntitiesNum |-> parser.snap.parseEntitiesNum,
                 numEntities |-> parser.snap.numEntities + k]
<1>1. parser.snap = [valid |-> parser.snap.valid, messageNum |-> parser.snap.messageNum,
                     parseEntitiesNum |-> parser.snap.parseEntitiesNum,
                     numEntities |-> parser.snap.numEntities]
  BY DEF TypeOK, Snap
<1>2. [parser.snap EXCEPT !.numEntities = @ + k] = s
  BY <1>1
<1>3. parser' = [parser EXCEPT !.entries = next, !.end = @ + k, !.snap.numEntities = @ + k,
                               !.oldIndex = i, !.oldNum = o]
  BY DEF ParseDeltaEntity, Kept
<1> HIDE DEF k, i, o
<1>4. parser = [busy |-> parser.busy, entries |-> parser.entries, base |-> parser.base,
                old |-> parser.old, snap |-> parser.snap, end |-> parser.end,
                oldIndex |-> parser.oldIndex, oldNum |-> parser.oldNum]
  BY DEF ParserInv
<1>5. parser' = [busy |-> parser.busy, entries |-> next, base |-> parser.base,
                 old |-> parser.old, snap |-> s, end |-> parser.end + k,
                 oldIndex |-> i, oldNum |-> o]
  BY <1>2, <1>3, <1>4
<1> QED  BY <1>5 DEF k, i, o

\* The three turns of the loops, as what is written, what is left of the message and
\* whether the old snapshot is advanced in.
Merge(state, next, advance) ==
    \/ /\ parser.oldNum < NewNum
       /\ state = OldState /\ next = parser.entries /\ advance = TRUE
    \/ /\ parser.oldNum = NewNum /\ NewNum # NoMore
       /\ state = LoadDelta(OldState.fields, NewNum) /\ next = Rest /\ advance = TRUE
    \/ /\ parser.oldNum > NewNum
       /\ state = LoadDelta(NoFields, NewNum) /\ next = Rest /\ advance = FALSE

\* Every turn is one of them.
LEMMA TurnsMerge ==
    ASSUME CopyUnchanged \/ DeltaFromPrevious \/ DeltaFromBaseline
    PROVE  parser.busy /\ \E state, next : \E advance \in BOOLEAN :
               Merge(state, next, advance) /\ ParseDeltaEntity(state, next, advance)
<1>1. CASE CopyUnchanged
  <2> DEFINE s == OldState
             n == parser.entries
  <2>1. parser.busy /\ parser.oldNum < NewNum /\ ParseDeltaEntity(s, n, TRUE)
    BY <1>1 DEF CopyUnchanged
  <2>2. Merge(s, n, TRUE)
    BY <2>1 DEF Merge
  <2> HIDE DEF s, n
  <2> QED  BY <2>1, <2>2, Zenon
<1>2. CASE DeltaFromPrevious
  <2> DEFINE s == LoadDelta(OldState.fields, NewNum)
             n == Rest
  <2>1. /\ parser.busy /\ parser.oldNum = NewNum /\ NewNum # NoMore
        /\ ParseDeltaEntity(s, n, TRUE)
    BY <1>2 DEF DeltaFromPrevious
  <2>2. Merge(s, n, TRUE)
    BY <2>1 DEF Merge
  <2> HIDE DEF s, n
  <2> QED  BY <2>1, <2>2, Zenon
<1>3. CASE DeltaFromBaseline
  <2> DEFINE s == LoadDelta(NoFields, NewNum)
             n == Rest
  <2>1. parser.busy /\ parser.oldNum > NewNum /\ ParseDeltaEntity(s, n, FALSE)
    BY <1>3 DEF DeltaFromBaseline
  <2>2. Merge(s, n, FALSE)
    BY <2>1 DEF Merge
  <2> HIDE DEF s, n
  <2> QED  BY <2>1, <2>2, Zenon
<1> QED  BY <1>1, <1>2, <1>3

\* The next entity of the message is the least one that is left.
LEMMA NewNumIsLeast ==
    ASSUME DOMAIN parser.entries \subseteq Numbers
    PROVE  /\ NewNum \in 0 .. NoMore
           /\ DOMAIN parser.entries = {} => NewNum = NoMore
           /\ DOMAIN parser.entries # {} => NewNum \in DOMAIN parser.entries
           /\ \A e \in DOMAIN parser.entries : NewNum <= e
<1> DEFINE S == DOMAIN parser.entries
<1>1. NoMore \in Nat /\ S \in SUBSET Nat /\ \A e \in S : e < NoMore
  BY RingSizes DEF NoMore, Numbers
<1>2. CASE S = {}
  BY <1>1, <1>2 DEF NewNum
<1>3. CASE S # {}
  <2>1. PICK m \in S : \A j \in S : ~(<<j, m>> \in OpToRel(<, Nat))
    BY <1>1, <1>3, WFMin, NatLessThanWellFounded, Zenon
  <2>2. \A j \in S : ~(j < m)
    BY <1>1, <2>1 DEF OpToRel
  <2>3. \A j \in S : m <= j
    BY <1>1, <2>2
  <2>4. NewNum = CHOOSE e \in S : \A d \in S : e <= d
    BY <1>3 DEF NewNum
  <2>5. NewNum \in S /\ \A d \in S : NewNum <= d
    BY <2>3, <2>4
  <2> QED  BY <1>1, <1>3, <2>5
<1> QED  BY <1>2, <1>3

----------------------------------------------------------------------------
\* The base of a delta is held.

EntityState == [number : Numbers \union {None}, fields : [Fields -> Values]]

\* What the parser reads from a message is a state of an entity.
LEMMA ParsedStates ==
    ASSUME HeldInv, parser.busy
    PROVE  /\ DOMAIN FrameOf(parser.base) \subseteq Numbers
           /\ DOMAIN parser.entries \subseteq Numbers
           /\ \A e \in DOMAIN parser.entries, from \in [Fields -> Values] :
                LoadDelta(from, e) \in EntityState
<1> DEFINE O == FrameOf(parser.base)
           F == frames[parser.snap.messageNum]
<1>1. BusyInv /\ F \in Frames
  BY DEF HeldInv, ParserInv, BusyInv, IsSnapshot
<1>2. DOMAIN O \subseteq Numbers
  <2>1. CASE parser.base = 0
    BY <2>1 DEF FrameOf
  <2>2. CASE parser.base # 0
    <3>1. frames[parser.base] \in Frames
      BY <1>1, <2>2 DEF BusyInv, HeldInv, MessagesInv, IsSnapshot
    <3> QED  BY <2>2, <3>1, FrameEntities DEF FrameOf
  <2> QED  BY <2>1, <2>2
<1>3. DOMAIN F \subseteq Numbers /\ \A e \in DOMAIN F : F[e] \in [Fields -> Values]
  BY <1>1, FrameEntities
<1>4. \A e \in DOMAIN parser.entries : e \in DOMAIN Delta(O, F) /\ parser.entries[e] = Delta(O, F)[e]
  BY <1>1 DEF BusyInv, ParsedDelta
<1> HIDE DEF O, F
<1>5. DOMAIN parser.entries \subseteq Numbers
  BY <1>2, <1>3, <1>4, DeltaEntries
<1>6. ASSUME NEW e \in DOMAIN parser.entries, NEW from \in [Fields -> Values]
      PROVE  LoadDelta(from, e) \in EntityState
  <2>1. NoFields \in [Fields -> Values]
    BY EntitiesAssumption DEF NoFields
  <2>2. CASE parser.entries[e].removed
    BY <2>1, <2>2 DEF LoadDelta, EntityState
  <2>3. CASE ~parser.entries[e].removed
    <3>1. e \in DOMAIN Delta(O, F) /\ e \in DOMAIN F
      BY <1>4, <2>3, DeltaEntries
    <3> DEFINE d == parser.entries[e].fields
    <3>2. \A x \in DOMAIN d : x \in Fields /\ d[x] \in Values
      BY <1>3, <1>4, <3>1, DeltaFieldValues
    <3>3. LoadDelta(from, e) = [number |-> e,
              fields |-> [x \in Fields |-> IF x \in DOMAIN d THEN d[x] ELSE from[x]]]
      BY <2>3 DEF LoadDelta
    <3> HIDE DEF d
    <3>4. [x \in Fields |-> IF x \in DOMAIN d THEN d[x] ELSE from[x]] \in [Fields -> Values]
      BY <3>2
    <3>5. e \in Numbers
      BY <1>5
    <3> QED  BY <3>3, <3>4, <3>5 DEF EntityState
  <2> QED  BY <2>2, <2>3
<1> QED  BY <1>2, <1>5, <1>6 DEF O

\* No entity is left of a message that has none, and the ring has states only.
LEMMA RingStates ==
    ASSUME TypeOK, NEW i \in Nat
    PROVE  Entity(i) \in EntityState /\ Entity(i).number \in 0 .. NoMore
<1>1. Entity(i) \in EntityState
  BY RingSizes DEF TypeOK, Entity, EntityState
<1> QED  BY <1>1, RingSizes DEF EntityState, Numbers, None, NoMore

\* So does the ring of snapshots.
LEMMA SlotStates ==
    ASSUME TypeOK, NEW n \in Nat
    PROVE  /\ Slot(n) \in 0 .. PacketBackup - 1 /\ snapshots[Slot(n)] \in Snap
           /\ Slot(n) \in DOMAIN snapshots
<1>1. Slot(n) \in 0 .. PacketBackup - 1
  BY RingSizes
<1> QED  BY <1>1 DEF TypeOK

\* The invariant at the beginning.
LEMMA HeldInit == Init => HeldInv
<1> SUFFICES ASSUME Init PROVE HeldInv
  OBVIOUS
<1>1. NullSnap \in Snap
  BY BoundsAssumption DEF NullSnap, Snap
<1>2. NoFields \in [Fields -> Values]
  BY EntitiesAssumption DEF NoFields
<1>3. NoMore \in 0 .. NoMore
  BY RingSizes DEF NoMore
<1>4. Len(frames) = 0 /\ frames \in Seq(Frames \union {NoSnapshot})
  BY DEF Init
<1>5. parseEntities \in [0 .. MaxParseEntities - 1 -> EntityState]
  BY <1>2, RingSizes DEF Init, EntityState, Numbers, None
<1>6. /\ \A m \in net : m.num \in 1 .. Len(frames) /\ m.base \in 0 .. m.num - 1
      /\ acked \subseteq 1 .. Len(frames)
      /\ serverMessageSequence \in 0 .. Len(frames)
      /\ parseEntitiesNum \in Nat
  BY <1>4 DEF Init
<1>7. aborted \in BOOLEAN
  BY DEF Init
<1>8. /\ currentSnap \in Snap
      /\ snapshots \in [0 .. PacketBackup - 1 -> Snap]
      /\ parser.snap \in Snap /\ parser.old \in Snap
      /\ parser.oldNum \in 0 .. NoMore
  BY <1>1, <1>3 DEF Init, Idle
<1>9. TypeOK
  BY <1>4, <1>5, <1>6, <1>7, <1>8 DEF TypeOK, EntityState
<1>10. MessagesInv
  BY <1>4, BoundsAssumption DEF Init, MessagesInv
<1>11. ParserInv
  BY DEF Init, ParserInv, Idle
<1>12. SlotsInv /\ AckedInv
  BY RingSizes DEF Init, SlotsInv, AckedInv, NullSnap
<1> QED  BY <1>9, <1>10, <1>11, <1>12 DEF HeldInv

\* What was sent stays what it is when more is.
LEMMA FramesStable ==
    ASSUME TypeOK, NEW f \in Frames \union {NoSnapshot}, frames' = Append(frames, f)
    PROVE  /\ frames' \in Seq(Frames \union {NoSnapshot})
           /\ Len(frames) \in Nat /\ Len(frames') = Len(frames) + 1
           /\ frames'[Len(frames) + 1] = f
           /\ \A n \in 1 .. Len(frames) : frames'[n] = frames[n]
           /\ \A n \in 0 .. Len(frames) : FrameOf(n)' = FrameOf(n)
           /\ \A n : IsSnapshot(n) => IsSnapshot(n)'
<1>1. frames \in Seq(Frames \union {NoSnapshot})
  BY DEF TypeOK
<1>2. /\ frames' \in Seq(Frames \union {NoSnapshot})
      /\ Len(frames) \in Nat /\ Len(frames') = Len(frames) + 1
      /\ frames'[Len(frames) + 1] = f
      /\ \A n \in 1 .. Len(frames) : frames'[n] = frames[n]
  BY <1>1, AppendProperties
<1>3. \A n \in 0 .. Len(frames) : FrameOf(n)' = FrameOf(n)
  BY <1>2 DEF FrameOf
<1>4. \A n : IsSnapshot(n) => IsSnapshot(n)'
  BY <1>2 DEF IsSnapshot
<1> QED  BY <1>2, <1>3, <1>4

\* A message that is sent adds itself to what was sent.
LEMMA SendKeepsHeld ==
    ASSUME HeldInv, NEW f \in Frames \union {NoSnapshot}, NEW m,
           Len(frames) < MaxMessages, frames' = Append(frames, f), net' = net \union {m},
           m.num = Len(frames) + 1, m.base \in 0 .. Len(frames), m.snapshot \in BOOLEAN,
           m.base # 0 => m.base \in acked /\ m.num < m.base + PacketBackup,
           m.snapshot => f \in Frames /\ m.entries = Delta(FrameOf(m.base), f),
           UNCHANGED <<acked, client, parser, aborted>>
    PROVE  HeldInv'
<1> USE DEF client, rings
<1>1. /\ frames' \in Seq(Frames \union {NoSnapshot})
      /\ Len(frames) \in Nat /\ Len(frames') = Len(frames) + 1
      /\ frames'[Len(frames) + 1] = f
      /\ \A n \in 1 .. Len(frames) : frames'[n] = frames[n]
      /\ \A n \in 0 .. Len(frames) : FrameOf(n)' = FrameOf(n)
      /\ \A n : IsSnapshot(n) => IsSnapshot(n)'
  BY FramesStable DEF HeldInv
<1>2. TypeOK'
  <2>1. \A x \in net' : x.num \in 1 .. Len(frames') /\ x.base \in 0 .. x.num - 1
    BY <1>1 DEF HeldInv, TypeOK
  <2>2. acked' \subseteq 1 .. Len(frames') /\ serverMessageSequence' \in 0 .. Len(frames')
    BY <1>1 DEF HeldInv, TypeOK
  <2> QED  BY <1>1, <2>1, <2>2 DEF HeldInv, TypeOK
<1>3. MessagesInv'
  <2>1. Len(frames') <= MaxMessages /\ \A a \in acked' : IsSnapshot(a)'
    BY <1>1, BoundsAssumption DEF HeldInv, MessagesInv
  <2>2. ASSUME NEW x \in net'
        PROVE  /\ x.snapshot \in BOOLEAN
               /\ x.base # 0 => x.base \in acked' /\ x.num < x.base + PacketBackup
               /\ x.snapshot => /\ IsSnapshot(x.num)'
                                /\ x.entries = Delta(FrameOf(x.base)', frames'[x.num])
    <3>1. CASE x = m
      BY <1>1, <3>1 DEF IsSnapshot
    <3>2. CASE x \in net
      <4>1. /\ x.snapshot \in BOOLEAN
            /\ x.base # 0 => x.base \in acked /\ x.num < x.base + PacketBackup
            /\ x.snapshot => IsSnapshot(x.num) /\ x.entries = Delta(FrameOf(x.base), frames[x.num])
            /\ x.num \in 1 .. Len(frames) /\ x.base \in 0 .. x.num - 1
        BY <3>2 DEF HeldInv, MessagesInv, TypeOK
      <4>2. frames'[x.num] = frames[x.num] /\ FrameOf(x.base)' = FrameOf(x.base)
        BY <1>1, <4>1
      <4> QED  BY <1>1, <4>1, <4>2
    <3> QED  BY <3>1, <3>2
  <2> QED  BY <2>1, <2>2 DEF MessagesInv
<1>4. ParserInv'
  <2>1. CASE parser.busy
    <3>1. BusyInv /\ IsSnapshot(parser.snap.messageNum)
      BY <2>1 DEF HeldInv, ParserInv, BusyInv
    <3>2. parser.snap.messageNum \in 1 .. Len(frames) /\ parser.base \in 0 .. Len(frames)
      BY <1>1, <3>1 DEF BusyInv, IsSnapshot, HeldInv, ParserInv, TypeOK
    <3>3. /\ frames'[parser.snap.messageNum] = frames[parser.snap.messageNum]
          /\ (FrameOf(parser.base))' = FrameOf(parser.base)
      BY <1>1, <3>2 DEF FrameOf
    <3>4. ParsedDelta' = ParsedDelta
      BY <3>3 DEF ParsedDelta
    <3>5. (IsSnapshot(parser.snap.messageNum))'
      BY <1>1, <3>1 DEF IsSnapshot
    <3>6. BusyInv'
      BY <3>1, <3>4, <3>5 DEF BusyInv
    <3> QED  BY <3>6 DEF HeldInv, ParserInv
  <2>2. CASE ~parser.busy
    BY <2>2 DEF HeldInv, ParserInv
  <2> QED  BY <2>1, <2>2
<1>5. SlotsInv'
  BY <1>1 DEF HeldInv, SlotsInv, IsSnapshot
<1>6. AckedInv'
  BY DEF HeldInv, AckedInv
<1> QED  BY <1>2, <1>3, <1>4, <1>5, <1>6 DEF HeldInv

\* Both kinds of messages are such.
LEMMA SendsKeepHeld ==
    ASSUME HeldInv,
           ServerSendsOther \/ \E base \in acked \union {0}, f \in Frames : ServerSends(base, f)
    PROVE  HeldInv'
<1>1. Len(frames) \in Nat /\ acked \subseteq 1 .. Len(frames)
  BY DEF HeldInv, TypeOK
<1>2. CASE ServerSendsOther
  <2> DEFINE m == [num |-> Len(frames) + 1, snapshot |-> FALSE, base |-> 0, entries |-> <<>>]
  <2>1. /\ Len(frames) < MaxMessages /\ frames' = Append(frames, NoSnapshot)
        /\ net' = net \union {m} /\ UNCHANGED <<acked, client, parser, aborted>>
    BY <1>2 DEF ServerSendsOther
  <2>2. m.num = Len(frames) + 1 /\ m.base = 0 /\ m.base \in 0 .. Len(frames)
    BY <1>1
  <2>3. m.snapshot = FALSE
    OBVIOUS
  <2> HIDE DEF m
  <2> QED  BY <2>1, <2>2, <2>3, SendKeepsHeld
<1>3. CASE \E base \in acked \union {0}, f \in Frames : ServerSends(base, f)
  <2>1. PICK base \in acked \union {0}, f \in Frames : ServerSends(base, f)
    BY <1>3
  <2> DEFINE m == [num |-> Len(frames) + 1, snapshot |-> TRUE, base |-> base,
                   entries |-> Delta(FrameOf(base), f)]
  <2>2. /\ Len(frames) + 1 <= MaxMessages /\ frames' = Append(frames, f)
        /\ base # 0 => base \in acked /\ (Len(frames) + 1) - base < PacketBackup
        /\ net' = net \union {m} /\ UNCHANGED <<acked, client, parser, aborted>>
    BY <2>1 DEF ServerSends, FrameOf
  <2>3. /\ m.num = Len(frames) + 1 /\ m.base = base /\ m.base \in 0 .. Len(frames)
        /\ m.entries = Delta(FrameOf(m.base), f)
    BY <1>1
  <2>4. m.snapshot = TRUE
    OBVIOUS
  <2> HIDE DEF m
  <2>5. base # 0 => base \in acked /\ m.num < base + PacketBackup
    BY <1>1, <2>2, <2>3, RingSizes
  <2>6. Len(frames) < MaxMessages
    BY <1>1, <2>2, BoundsAssumption
  <2> QED  BY <2>2, <2>3, <2>4, <2>5, <2>6, SendKeepsHeld
<1> QED  BY <1>2, <1>3

\* A message that is received is one that was sent; the slot of its base is looked up.
LEMMA ReceiveKeepsHeld ==
    ASSUME HeldInv, NEW m \in net, Receive(m)
    PROVE  HeldInv'
<1>1. /\ ~parser.busy /\ m.num >= serverMessageSequence /\ serverMessageSequence' = m.num
      /\ UNCHANGED <<frames, net, acked, currentSnap, snapshots, parseEntities,
                     parseEntitiesNum, aborted>>
  BY DEF Receive, server, rings
<1>2. /\ m.num \in 1 .. Len(frames) /\ m.base \in 0 .. m.num - 1 /\ Len(frames) \in Nat
      /\ m.snapshot \in BOOLEAN /\ m.num <= MaxMessages
      /\ m.base # 0 => m.base \in acked /\ m.num < m.base + PacketBackup
      /\ m.snapshot => IsSnapshot(m.num) /\ m.entries = Delta(FrameOf(m.base), frames[m.num])
  BY BoundsAssumption DEF HeldInv, TypeOK, MessagesInv
<1>3. MessagesInv' /\ AckedInv'
  BY <1>1 DEF HeldInv, MessagesInv, AckedInv, IsSnapshot, FrameOf
<1>4. SlotsInv'
  <2>1. currentSnap.messageNum \in Int /\ serverMessageSequence \in Int
    BY DEF HeldInv, TypeOK, Snap
  <2>2. currentSnap.messageNum <= m.num
    BY <1>1, <1>2, <2>1 DEF HeldInv, SlotsInv
  <2> QED  BY <1>1, <2>2 DEF HeldInv, SlotsInv, IsSnapshot
<1>5. CASE ~m.snapshot
  <2>1. parser' = parser
    BY <1>5 DEF Receive
  <2>2. TypeOK'
    BY <1>1, <1>2, <2>1 DEF HeldInv, TypeOK
  <2>3. ParserInv'
    BY <1>1, <2>1 DEF HeldInv, ParserInv
  <2> QED  BY <1>3, <1>4, <2>2, <2>3 DEF HeldInv
<1>6. CASE m.snapshot
  <2> DEFINE o == snapshots[Slot(m.base)]
             v == m.base = 0 \/ ValidDelta(m.base, o)
             s == [valid |-> v, messageNum |-> m.num, parseEntitiesNum |-> parseEntitiesNum,
                   numEntities |-> 0]
             b == IF m.base = 0 THEN NullSnap ELSE o
             x == IF m.base = 0 THEN NoMore ELSE Entity(o.parseEntitiesNum).number
  <2>1. parser' = [busy |-> TRUE, entries |-> m.entries, base |-> m.base, old |-> b, snap |-> s,
                   end |-> parseEntitiesNum, oldIndex |-> 0, oldNum |-> x]
    BY <1>6 DEF Receive, ParseSnapshot, Entity
  <2>2. o \in Snap
    <3>1. m.base \in Nat
      BY <1>2
    <3> QED  BY <3>1, SlotStates DEF HeldInv
  <2>3. b \in Snap
    BY <2>2, BoundsAssumption DEF NullSnap, Snap
  <2>4. v \in BOOLEAN
    BY <2>2 DEF ValidDelta, Snap
  <2>5. s \in Snap
    <3>1. parseEntitiesNum \in Nat /\ m.num \in 0 .. MaxMessages
      BY <1>2, BoundsAssumption DEF HeldInv, TypeOK
    <3> HIDE DEF v
    <3> QED  BY <2>4, <3>1 DEF Snap
  <2>6. x \in 0 .. NoMore
    <3>1. o.parseEntitiesNum \in Nat
      BY <2>2 DEF Snap
    <3>2. Entity(o.parseEntitiesNum).number \in 0 .. NoMore
      BY <3>1, RingStates DEF HeldInv
    <3> QED  BY <3>2, RingSizes DEF NoMore
  <2>7. s.messageNum = m.num /\ s.parseEntitiesNum = parseEntitiesNum /\ s.numEntities = 0
    OBVIOUS
  <2> HIDE DEF v, s, x
  <2>8. TypeOK'
    <3>1. parser'.snap \in Snap /\ parser'.old \in Snap /\ parser'.oldNum \in 0 .. NoMore
      BY <2>1, <2>3, <2>5, <2>6
    <3> QED  BY <1>1, <1>2, <3>1 DEF HeldInv, TypeOK
  <2>9. BusyInv'
    <3>1. /\ parser'.snap = s /\ parser'.base = m.base /\ parser'.old = b
          /\ parser'.end = parseEntitiesNum /\ parser'.entries = m.entries
      BY <2>1
    <3>2. (IsSnapshot(parser.snap.messageNum))'
      BY <1>1, <1>2, <1>6, <2>7, <3>1 DEF IsSnapshot
    <3>3. ParsedDelta' = m.entries
      BY <1>1, <1>2, <1>6, <2>7, <3>1 DEF ParsedDelta, FrameOf
    <3>4. parseEntitiesNum \in Nat
      BY DEF HeldInv, TypeOK
    <3> QED  BY <1>1, <1>2, <2>7, <3>1, <3>2, <3>3, <3>4 DEF BusyInv
  <2>10. ParserInv'
    <3>1. /\ parser' = [busy |-> parser'.busy, entries |-> parser'.entries, base |-> parser'.base,
                        old |-> parser'.old, snap |-> parser'.snap, end |-> parser'.end,
                        oldIndex |-> parser'.oldIndex, oldNum |-> parser'.oldNum]
          /\ parser'.base \in Nat /\ parser'.end \in Nat /\ parser'.oldIndex \in Nat
      BY <1>2, <2>1 DEF HeldInv, TypeOK
    <3>2. parser'.busy \in BOOLEAN
      BY <2>1
    <3> QED  BY <2>9, <3>1, <3>2 DEF ParserInv
  <2> QED  BY <1>3, <1>4, <2>8, <2>10 DEF HeldInv
<1> QED  BY <1>2, <1>5, <1>6

\* The place of the old state that is read next, and its number, are numbers.
LEMMA OldPlace ==
    ASSUME HeldInv
    PROVE  /\ parser.old.parseEntitiesNum \in Nat /\ parser.oldIndex \in Nat
           /\ parser.old.parseEntitiesNum + parser.oldIndex \in Nat
           /\ parser.old.parseEntitiesNum + parser.oldIndex + 1 \in Nat
           /\ parser.oldNum \in 0 .. NoMore /\ NoMore \in Nat
<1>1. parser.old \in Snap
  BY DEF HeldInv, TypeOK
<1>2. parser.old.parseEntitiesNum \in Nat
  BY <1>1 DEF Snap
<1>3. parser.oldIndex \in Nat
  BY DEF HeldInv, ParserInv
<1>4. parser.oldNum \in 0 .. NoMore
  BY DEF HeldInv, TypeOK
<1>5. NoMore \in Nat
  BY RingSizes DEF NoMore
<1> QED  BY <1>2, <1>3, <1>4, <1>5

\* What a turn of the loops writes is a state, and it leaves a part of the message.
LEMMA MergeTypes ==
    ASSUME HeldInv, parser.busy, NEW state, NEW next, NEW advance \in BOOLEAN,
           Merge(state, next, advance)
    PROVE  /\ state \in EntityState /\ Kept(state) \in 0 .. 1
           /\ DOMAIN next \subseteq DOMAIN parser.entries
           /\ \A e \in DOMAIN next : next[e] = parser.entries[e]
<1>1. DOMAIN parser.entries \subseteq Numbers
  BY ParsedStates
<1>2. /\ NewNum \in 0 .. NoMore /\ \A e \in DOMAIN parser.entries : NewNum <= e
      /\ DOMAIN parser.entries # {} => NewNum \in DOMAIN parser.entries
      /\ DOMAIN parser.entries = {} => NewNum = NoMore
  BY <1>1, NewNumIsLeast
<1>3. OldState \in EntityState /\ NoFields \in [Fields -> Values]
  <2>1. parser.old.parseEntitiesNum + parser.oldIndex \in Nat
    BY OldPlace
  <2> QED  BY <2>1, RingStates, EntitiesAssumption DEF HeldInv, OldState, Entity, NoFields
<1>4. parser.oldNum \in 0 .. NoMore /\ NoMore \in Nat
  BY OldPlace
<1>5. state \in EntityState
  <2>1. CASE parser.oldNum < NewNum
    BY <1>2, <1>3, <1>4, <2>1 DEF Merge
  <2>2. CASE parser.oldNum >= NewNum
    <3>1. NewNum # NoMore
      BY <1>2, <1>4, <2>2 DEF Merge
    <3>2. NewNum \in DOMAIN parser.entries
      BY <1>2, <3>1
    <3>3. OldState.fields \in [Fields -> Values]
      BY <1>3 DEF EntityState
    <3> DEFINE a == LoadDelta(OldState.fields, NewNum)
               b == LoadDelta(NoFields, NewNum)
    <3>4. a \in EntityState /\ b \in EntityState
      BY <1>3, <3>2, <3>3, ParsedStates
    <3>5. state = a \/ state = b
      BY <1>2, <1>4, <2>2 DEF Merge
    <3> QED  BY <3>4, <3>5
  <2> QED  BY <1>2, <1>4, <2>1, <2>2
<1>6. next = parser.entries \/ next = Rest
  BY DEF Merge
<1> QED  BY <1>5, <1>6 DEF Rest, Kept

\* A turn of the loops changes the parser and one state of the ring of entities.
LEMMA TurnsKeepHeld ==
    ASSUME HeldInv, CopyUnchanged \/ DeltaFromPrevious \/ DeltaFromBaseline
    PROVE  HeldInv'
<1>1. PICK state, next : \E advance \in BOOLEAN :
          Merge(state, next, advance) /\ ParseDeltaEntity(state, next, advance)
  BY TurnsMerge
<1>2. PICK advance \in BOOLEAN :
          Merge(state, next, advance) /\ ParseDeltaEntity(state, next, advance)
  BY <1>1
<1>3. parser.busy
  BY TurnsMerge
<1>4. /\ state \in EntityState /\ Kept(state) \in 0 .. 1
      /\ DOMAIN next \subseteq DOMAIN parser.entries
      /\ \A e \in DOMAIN next : next[e] = parser.entries[e]
  BY <1>2, <1>3, MergeTypes
<1>5. /\ parser' = [busy |-> parser'.busy, entries |-> parser'.entries, base |-> parser'.base,
                    old |-> parser'.old, snap |-> parser'.snap, end |-> parser'.end,
                    oldIndex |-> parser'.oldIndex, oldNum |-> parser'.oldNum]
      /\ parser'.busy = parser.busy /\ parser'.entries = next /\ parser'.base = parser.base
      /\ parser'.old = parser.old /\ parser'.end = parser.end + Kept(state)
      /\ parser'.oldIndex = IF advance THEN parser.oldIndex + 1 ELSE parser.oldIndex
      /\ parser'.oldNum = IF advance THEN NextOld(parseEntities') ELSE parser.oldNum
      /\ parser'.snap = [valid |-> parser.snap.valid, messageNum |-> parser.snap.messageNum,
                         parseEntitiesNum |-> parser.snap.parseEntitiesNum,
                         numEntities |-> parser.snap.numEntities + Kept(state)]
  BY <1>2, ParserAfterEntity DEF HeldInv
<1>6. /\ UNCHANGED <<frames, net, acked, serverMessageSequence, currentSnap, snapshots,
                     parseEntitiesNum, aborted>>
      /\ parseEntities' = [parseEntities EXCEPT ![EntitySlot(parser.end)] = state]
  BY <1>2 DEF ParseDeltaEntity, server
<1>7. parseEntities' \in [0 .. MaxParseEntities - 1 -> EntityState]
  BY <1>4, <1>6 DEF HeldInv, TypeOK, EntityState
<1>8. parser'.snap \in Snap /\ parser'.old \in Snap
  BY <1>4, <1>5 DEF HeldInv, TypeOK, Snap
<1>9. parser'.oldNum \in 0 .. NoMore
  <2>1. CASE ~advance
    BY <1>5, <2>1 DEF HeldInv, TypeOK
  <2>2. CASE advance
    <3> DEFINE i == parser.old.parseEntitiesNum + parser.oldIndex + 1
    <3>1. i \in Nat
      BY OldPlace
    <3>2. parseEntities'[EntitySlot(i)] \in EntityState
      BY <1>7, <3>1, RingSizes
    <3>3. parseEntities'[EntitySlot(i)].number \in 0 .. NoMore
      BY <3>2, RingSizes DEF EntityState, Numbers, None, NoMore
    <3>4. NoMore \in 0 .. NoMore
      BY RingSizes DEF NoMore
    <3> QED  BY <1>5, <2>2, <3>3, <3>4 DEF NextOld
  <2> QED  BY <2>1, <2>2
<1>10. TypeOK'
  BY <1>6, <1>7, <1>8, <1>9 DEF HeldInv, TypeOK, EntityState
<1>11. MessagesInv' /\ SlotsInv' /\ AckedInv'
  BY <1>6 DEF HeldInv, MessagesInv, SlotsInv, AckedInv, IsSnapshot, FrameOf
<1>12. BusyInv'
  <2>1. BusyInv
    BY <1>3 DEF HeldInv, ParserInv
  <2>2. ParsedDelta' = ParsedDelta
    BY <1>5, <1>6 DEF ParsedDelta, FrameOf
  <2>3. /\ \A e \in DOMAIN parser'.entries :
             e \in DOMAIN ParsedDelta' /\ parser'.entries[e] = ParsedDelta'[e]
    BY <1>4, <1>5, <2>1, <2>2 DEF BusyInv
  <2>4. parser'.end = parseEntitiesNum' + parser'.snap.numEntities
    BY <1>4, <1>5, <1>6, <2>1 DEF BusyInv, HeldInv, TypeOK, Snap
  <2> QED  BY <1>5, <1>6, <2>1, <2>3, <2>4 DEF BusyInv, IsSnapshot
<1>13. ParserInv'
  <2>1. parser'.base \in Nat /\ parser'.end \in Nat /\ parser'.oldIndex \in Nat
    BY <1>4, <1>5 DEF HeldInv, ParserInv
  <2>2. parser'.busy \in BOOLEAN
    BY <1>5 DEF HeldInv, ParserInv
  <2> QED  BY <1>5, <1>12, <2>1, <2>2 DEF ParserInv
<1> QED  BY <1>10, <1>11, <1>13 DEF HeldInv

\* What setNewSnap does to a slot.
Skipped(snap) ==
    LET first == currentSnap.messageNum + 1
        oldMessageNum == IF snap.messageNum >= PacketBackup + first
                         THEN snap.messageNum - (PacketBackup - 1) ELSE first
    IN  {Slot(n) : n \in oldMessageNum .. snap.messageNum - 1}

LEMMA SlotAfterNewSnap ==
    ASSUME TypeOK, NEW snap \in Snap, SetNewSnap(snap)
    PROVE  /\ currentSnap' = snap /\ snapshots'[Slot(snap.messageNum)] = snap
           /\ snapshots' \in [0 .. PacketBackup - 1 -> Snap]
           /\ \A i \in 0 .. PacketBackup - 1 : i # Slot(snap.messageNum) =>
                /\ snapshots'[i].valid = (snapshots[i].valid /\ i \notin Skipped(snap))
                /\ snapshots'[i].messageNum = snapshots[i].messageNum
                /\ snapshots'[i].parseEntitiesNum = snapshots[i].parseEntitiesNum
                /\ snapshots'[i].numEntities = snapshots[i].numEntities
<1> DEFINE K == Skipped(snap)
<1>1. /\ currentSnap' = snap
      /\ snapshots' = [i \in DOMAIN snapshots |->
              IF i = Slot(snap.messageNum) THEN snap
              ELSE [snapshots[i] EXCEPT !.valid = @ /\ i \notin K]]
  BY DEF SetNewSnap, Skipped
<1> HIDE DEF K
<1>2. DOMAIN snapshots = 0 .. PacketBackup - 1
  BY DEF TypeOK
<1>3. snap.messageNum \in Nat /\ Slot(snap.messageNum) \in 0 .. PacketBackup - 1
  BY RingSizes DEF Snap
<1>4. \A i \in 0 .. PacketBackup - 1 : i # Slot(snap.messageNum) =>
          snapshots'[i] = [snapshots[i] EXCEPT !.valid = @ /\ i \notin K]
  BY <1>1, <1>2
<1>5. ASSUME NEW i \in 0 .. PacketBackup - 1, i # Slot(snap.messageNum)
      PROVE  /\ snapshots'[i].valid = (snapshots[i].valid /\ i \notin K)
             /\ snapshots'[i].messageNum = snapshots[i].messageNum
             /\ snapshots'[i].parseEntitiesNum = snapshots[i].parseEntitiesNum
             /\ snapshots'[i].numEntities = snapshots[i].numEntities
             /\ snapshots'[i] \in Snap
  <2> DEFINE v == snapshots[i].valid /\ i \notin K
             s == snapshots[i]
  <2>1. s \in Snap
    BY DEF TypeOK
  <2>2. snapshots'[i] = [s EXCEPT !.valid = v]
    BY <1>4, <1>5
  <2>3. v \in BOOLEAN
    OBVIOUS
  <2> HIDE DEF v, s
  <2>4. /\ snapshots'[i].valid = v /\ snapshots'[i].messageNum = s.messageNum
        /\ snapshots'[i].parseEntitiesNum = s.parseEntitiesNum
        /\ snapshots'[i].numEntities = s.numEntities
        /\ snapshots'[i] \in Snap
    BY <2>1, <2>2, <2>3 DEF Snap
  <2> QED  BY <2>4 DEF v, s
<1>6. snapshots'[Slot(snap.messageNum)] = snap
  BY <1>1, <1>2, <1>3
<1>7. snapshots' \in [0 .. PacketBackup - 1 -> Snap]
  <2>1. \A i \in 0 .. PacketBackup - 1 : snapshots'[i] \in Snap
    BY <1>5, <1>6
  <2>2. DOMAIN snapshots' = 0 .. PacketBackup - 1
    BY <1>1, <1>2
  <2>3. snapshots' = [i \in DOMAIN snapshots' |-> snapshots'[i]]
    BY <1>1
  <2> QED  BY <2>1, <2>2, <2>3
<1> QED  BY <1>1, <1>5, <1>6, <1>7 DEF K

\* A snapshot that is still valid is not PacketBackup numbers older than the new one: the
\* number a ring after it was skipped.
LEMMA ValidIsRecent ==
    ASSUME NEW c \in Nat, NEW n \in Nat, c <= n, currentSnap.messageNum = c,
           NEW snap, snap.messageNum = n,
           NEW a \in Nat, a <= c, c < a + PacketBackup,
           Slot(a) # Slot(n), Slot(a) \notin Skipped(snap)
    PROVE  n < a + PacketBackup
<1> DEFINE first == c + 1
           old == IF n >= PacketBackup + first THEN n - (PacketBackup - 1) ELSE first
<1>1. PacketBackup \in Nat /\ PacketBackup # 0 /\ Slot(a) \in 0 .. PacketBackup - 1
  BY RingSizes
<1>2. \A k \in old .. n - 1 : Slot(k) # Slot(a)
  BY DEF Skipped
<1>3. CASE n >= PacketBackup + first
  <2>1. n >= PacketBackup
    BY <1>1, <1>3
  <2>2. PICK k \in n - PacketBackup + 1 .. n : Slot(k) = Slot(a)
    BY <1>1, <2>1, SlotsAreCovered DEF Slot
  <2>3. k # n /\ k \in Int
    BY <2>2
  <2>4. k \in old .. n - 1
    BY <1>1, <1>3, <2>2, <2>3
  <2> QED  BY <1>2, <2>2, <2>4
<1>4. CASE ~(n >= PacketBackup + first)
  <2>1. SUFFICES ASSUME n >= a + PacketBackup PROVE FALSE
    BY <1>1
  <2>2. Slot(a + PacketBackup) = Slot(a)
    BY <1>1, SlotsRepeat DEF Slot
  <2>3. a + PacketBackup # n
    BY <2>2
  <2>4. a + PacketBackup \in old .. n - 1
    BY <1>1, <1>4, <2>1, <2>3
  <2> QED  BY <1>2, <2>2, <2>4
<1> QED  BY <1>3, <1>4

\* A snapshot that was acknowledged and is recent is not skipped, and its slot not taken.
LEMMA RecentIsKept ==
    ASSUME NEW c \in Nat, NEW n \in Nat, c <= n, currentSnap.messageNum = c,
           NEW snap, snap.messageNum = n,
           NEW a \in Nat, a <= c, n < a + PacketBackup, a # n
    PROVE  Slot(a) # Slot(n) /\ Slot(a) \notin Skipped(snap)
<1>1. PacketBackup \in Nat /\ PacketBackup # 0
  BY RingSizes
<1>2. Slot(a) # Slot(n)
  <2>1. a < n
    OBVIOUS
  <2> QED  BY <1>1, <2>1, SlotsApart DEF Slot
<1>3. ASSUME NEW k \in c + 1 .. n - 1 PROVE Slot(k) # Slot(a)
  <2>1. k \in Nat /\ a < k /\ k < a + PacketBackup
    BY <1>1, <1>3
  <2> QED  BY <1>1, <2>1, SlotsApart DEF Slot
<1> DEFINE first == c + 1
           old == IF n >= PacketBackup + first THEN n - (PacketBackup - 1) ELSE first
<1>4. \A k \in old .. n - 1 : k \in c + 1 .. n - 1
  BY <1>1
<1>5. Skipped(snap) = {Slot(k) : k \in old .. n - 1}
  BY DEF Skipped
<1> HIDE DEF old
<1> QED  BY <1>2, <1>3, <1>4, <1>5

\* The parser between two messages.
LEMMA IdleParser ==
    ASSUME parser' = Idle
    PROVE  /\ ParserInv' /\ ~parser'.busy
           /\ parser'.snap \in Snap /\ parser'.old \in Snap /\ parser'.oldNum \in 0 .. NoMore
<1>1. NullSnap \in Snap
  BY BoundsAssumption DEF NullSnap, Snap
<1>2. NoMore \in 0 .. NoMore
  BY RingSizes DEF NoMore
<1>3. parser'.busy = FALSE
  BY DEF Idle
<1>4. ParserInv'
  BY <1>3 DEF ParserInv, Idle
<1> QED  BY <1>1, <1>2, <1>3, <1>4 DEF Idle

\* The end of a snapshot: it is the current one, and those that were skipped are gone.
LEMMA ParseEndKeepsHeld ==
    ASSUME HeldInv, ParseEnd
    PROVE  HeldInv'
<1> DEFINE s == parser.snap
           n == parser.snap.messageNum
           c == currentSnap.messageNum
<1>1. /\ parser.busy /\ parseEntitiesNum' = parser.end /\ parser' = Idle
      /\ UNCHANGED <<frames, net, acked, serverMessageSequence, parseEntities, aborted>>
  BY DEF ParseEnd, server
<1>2. BusyInv /\ s \in Snap /\ currentSnap \in Snap
  BY <1>1 DEF HeldInv, ParserInv, TypeOK
<1>3. /\ n \in Nat /\ c \in Nat /\ c <= n /\ n = serverMessageSequence
      /\ IsSnapshot(n) /\ n <= serverMessageSequence
  BY <1>2 DEF HeldInv, SlotsInv, BusyInv, Snap
<1>4. parser.end \in Nat
  BY DEF HeldInv, ParserInv
<1>5. MessagesInv'
  BY <1>1 DEF HeldInv, MessagesInv, IsSnapshot, FrameOf
<1>6. CASE ~parser.snap.valid
  <2>1. UNCHANGED <<currentSnap, snapshots>>
    BY <1>6 DEF ParseEnd
  <2>2. TypeOK'
    BY <1>1, <1>4, <2>1, IdleParser DEF HeldInv, TypeOK
  <2>3. SlotsInv' /\ AckedInv'
    BY <1>1, <2>1 DEF HeldInv, SlotsInv, AckedInv, IsSnapshot
  <2> QED  BY <1>1, <1>5, <2>2, <2>3, IdleParser DEF HeldInv
<1>7. CASE parser.snap.valid
  <2>1. SetNewSnap(s)
    BY <1>7 DEF ParseEnd
  <2>2. /\ currentSnap' = s /\ snapshots'[Slot(n)] = s
        /\ snapshots' \in [0 .. PacketBackup - 1 -> Snap]
        /\ \A i \in 0 .. PacketBackup - 1 : i # Slot(n) =>
             /\ snapshots'[i].valid = (snapshots[i].valid /\ i \notin Skipped(s))
             /\ snapshots'[i].messageNum = snapshots[i].messageNum
    BY <1>2, <2>1, SlotAfterNewSnap DEF HeldInv
  <2>3. TypeOK'
    BY <1>1, <1>2, <1>4, <2>2, IdleParser DEF HeldInv, TypeOK
  <2>4. IsSnapshot(n)
    BY <1>3
  <2>5. ASSUME NEW i \in 0 .. PacketBackup - 1, snapshots'[i].valid
        PROVE  /\ IsSnapshot(snapshots'[i].messageNum)
               /\ i = Slot(snapshots'[i].messageNum)
               /\ snapshots'[i].messageNum <= n
               /\ n < snapshots'[i].messageNum + PacketBackup
    <3>1. CASE i = Slot(n)
      <4>1. snapshots'[i].messageNum = n
        BY <2>2, <3>1
      <4>2. n <= n /\ n < n + PacketBackup
        BY <1>3, RingSizes
      <4> QED  BY <2>4, <3>1, <4>1, <4>2
    <3>2. CASE i # Slot(n)
      <4> DEFINE a == snapshots[i].messageNum
      <4>1. snapshots'[i].messageNum = a /\ snapshots[i].valid /\ i \notin Skipped(s)
        BY <2>2, <2>5, <3>2
      <4>2. IsSnapshot(a) /\ i = Slot(a) /\ a <= c /\ c < a + PacketBackup
        BY <4>1 DEF HeldInv, SlotsInv
      <4>3. a \in Nat
        <5>1. snapshots[i] \in Snap
          BY DEF HeldInv, TypeOK
        <5> QED  BY <5>1 DEF Snap
      <4>4. n < a + PacketBackup
        <5> HIDE DEF a, n, c, s
        <5>1. s.messageNum = n /\ currentSnap.messageNum = c
          BY DEF n, c, s
        <5> QED  BY <1>3, <3>2, <4>1, <4>2, <4>3, <5>1, ValidIsRecent
      <4> QED  BY <1>3, <4>1, <4>2, <4>3, <4>4
    <3> QED  BY <3>1, <3>2
  <2>6. SlotsInv'
    <3>1. currentSnap'.messageNum = n /\ serverMessageSequence' = serverMessageSequence
      BY <1>1, <2>2
    <3> QED  BY <1>1, <1>3, <2>2, <2>4, <2>5, <3>1 DEF SlotsInv, IsSnapshot
  <2>7. ASSUME NEW a \in acked
        PROVE  /\ a <= n
               /\ n < a + PacketBackup => snapshots'[Slot(a)].valid /\ snapshots'[Slot(a)].messageNum = a
    <3>1. /\ a \in Nat /\ a <= c
          /\ c < a + PacketBackup => snapshots[Slot(a)].valid /\ snapshots[Slot(a)].messageNum = a
      BY DEF HeldInv, TypeOK, AckedInv
    <3>2. a <= n
      BY <1>3, <3>1
    <3>3. ASSUME n < a + PacketBackup
          PROVE  snapshots'[Slot(a)].valid /\ snapshots'[Slot(a)].messageNum = a
      <4>1. CASE a = n
        BY <1>7, <2>2, <4>1
      <4>2. CASE a # n
        <5>1. Slot(a) # Slot(n) /\ Slot(a) \notin Skipped(s)
          <6> HIDE DEF n, c, s
          <6>1. s.messageNum = n /\ currentSnap.messageNum = c
            BY DEF n, c, s
          <6> QED  BY <1>3, <3>1, <3>3, <4>2, <6>1, RecentIsKept
        <5>2. c < a + PacketBackup
          BY <1>3, <3>1, <3>3, RingSizes
        <5>3. Slot(a) \in 0 .. PacketBackup - 1
          BY <3>1, RingSizes
        <5>4. snapshots'[Slot(a)].messageNum = a
          BY <2>2, <3>1, <5>1, <5>2, <5>3
        <5>5. snapshots'[Slot(a)].valid
          BY <2>2, <3>1, <5>1, <5>2, <5>3
        <5> QED  BY <5>4, <5>5
      <4> QED  BY <4>1, <4>2
    <3> QED  BY <3>2, <3>3
  <2>8. AckedInv'
    <3>1. currentSnap'.messageNum = n /\ acked' = acked
      BY <1>1, <2>2
    <3> QED  BY <2>7, <3>1 DEF AckedInv
  <2> QED  BY <1>1, <1>5, <2>3, <2>6, <2>8, IdleParser DEF HeldInv
<1> QED  BY <1>6, <1>7

\* A message that is abandoned leaves the snapshots as they are.
LEMMA AbortKeepsHeld ==
    ASSUME HeldInv, ParseAborts
    PROVE  HeldInv'
<1>1. /\ parser' = Idle
      /\ UNCHANGED <<frames, net, acked, serverMessageSequence, currentSnap, snapshots,
                     parseEntities, parseEntitiesNum>>
  BY DEF ParseAborts, server, client, rings
<1>2. aborted' \in BOOLEAN
  BY DEF ParseAborts
<1>3. TypeOK'
  BY <1>1, <1>2, IdleParser DEF HeldInv, TypeOK
<1>4. MessagesInv' /\ SlotsInv' /\ AckedInv'
  BY <1>1 DEF HeldInv, MessagesInv, SlotsInv, AckedInv, IsSnapshot, FrameOf
<1> QED  BY <1>1, <1>3, <1>4, IdleParser DEF HeldInv

\* Only the last snapshot is acknowledged, and only if it was the last message.
LEMMA WriteKeepsHeld ==
    ASSUME HeldInv, WritePacket
    PROVE  HeldInv'
<1> DEFINE c == currentSnap.messageNum
<1>1. /\ currentSnap.valid /\ serverMessageSequence = c /\ ~parser.busy
      /\ acked' = acked \union {c}
      /\ UNCHANGED <<frames, net, serverMessageSequence, currentSnap, snapshots,
                     parseEntities, parseEntitiesNum, parser, aborted>>
  BY DEF WritePacket, DeltaMove, client, rings
<1>2. IsSnapshot(c) /\ snapshots[Slot(c)] = currentSnap
  BY <1>1 DEF HeldInv, SlotsInv
<1>3. c \in Nat
  BY DEF HeldInv, TypeOK, Snap
<1>4. TypeOK'
  BY <1>1, <1>2 DEF HeldInv, TypeOK, IsSnapshot
<1>5. MessagesInv'
  BY <1>1, <1>2 DEF HeldInv, MessagesInv, IsSnapshot, FrameOf
<1>6. ParserInv'
  BY <1>1 DEF HeldInv, ParserInv
<1>7. SlotsInv'
  BY <1>1 DEF HeldInv, SlotsInv, IsSnapshot
<1>8. AckedInv'
  <2>1. c <= c /\ snapshots[Slot(c)].messageNum = c
    BY <1>2, <1>3
  <2>2. snapshots[Slot(c)].valid
    BY <1>1, <1>2
  <2> QED  BY <1>1, <2>1, <2>2 DEF HeldInv, AckedInv
<1> QED  BY <1>4, <1>5, <1>6, <1>7, <1>8 DEF HeldInv

\* The same state again.
LEMMA StutterKeepsHeld ==
    ASSUME HeldInv, UNCHANGED vars
    PROVE  HeldInv'
<1>1. UNCHANGED <<frames, net, acked, serverMessageSequence, currentSnap, snapshots,
                  parseEntities, parseEntitiesNum, parser, aborted>>
  BY DEF vars, server, client, rings
<1>2. TypeOK' /\ MessagesInv' /\ SlotsInv' /\ AckedInv'
  BY <1>1 DEF HeldInv, TypeOK, MessagesInv, SlotsInv, AckedInv, IsSnapshot, FrameOf
<1>3. BusyInv => BusyInv'
  BY <1>1 DEF BusyInv, ParsedDelta, IsSnapshot, FrameOf
<1>4. ParserInv'
  BY <1>1, <1>3 DEF HeldInv, ParserInv
<1> QED  BY <1>2, <1>4 DEF HeldInv

\* Every step keeps it.
LEMMA HeldStep == HeldInv /\ [Next]_vars => HeldInv'
<1> SUFFICES ASSUME HeldInv, [Next]_vars PROVE HeldInv'
  OBVIOUS
<1> QED  BY SendsKeepHeld, ReceiveKeepsHeld, TurnsKeepHeld, ParseEndKeepsHeld,
            AbortKeepsHeld, WriteKeepsHeld, StutterKeepsHeld DEF Next

\* The invariant holds in every behaviour.
LEMMA HeldSafe == Spec => []HeldInv
  BY HeldInit, HeldStep, PTL DEF Spec

\* Type correctness, also of what is parsed from a base that was overwritten or after a
\* message that ended in the middle.
THEOREM SnapshotsTypeCorrect == Spec => []TypeOK
<1>1. HeldInv => TypeOK
  BY DEF HeldInv
<1> QED  BY <1>1, HeldSafe, PTL

\* The base of a message that the channel would still accept is held.
LEMMA BaseOfMessage ==
    ASSUME HeldInv, NEW m \in net, m.base # 0, m.num >= serverMessageSequence
    PROVE  /\ snapshots[Slot(m.base)].valid
           /\ snapshots[Slot(m.base)].messageNum = m.base
<1>1. m.base \in acked /\ m.num < m.base + PacketBackup
  BY DEF HeldInv, MessagesInv
<1>2. currentSnap.messageNum <= serverMessageSequence
  BY DEF HeldInv, SlotsInv
<1>3. /\ currentSnap.messageNum \in Int /\ serverMessageSequence \in Int
      /\ m.num \in Int /\ m.base \in Int
  BY DEF HeldInv, TypeOK, Snap
<1>4. currentSnap.messageNum < m.base + PacketBackup
  BY <1>1, <1>2, <1>3, RingSizes
<1> QED  BY <1>1, <1>4 DEF HeldInv, AckedInv

\* "Delta from invalid frame (not supposed to happen!)" does not happen: for every size of
\* the ring and however messages are lost, repeated, reordered or abandoned, the snapshot
\* that a message is a delta of is held when it arrives.
THEOREM BasesOfDeltasAreHeld == Spec => []DeltaBasesAreHeld
<1>1. HeldInv => DeltaBasesAreHeld
  BY BaseOfMessage DEF DeltaBasesAreHeld
<1> QED  BY <1>1, HeldSafe, PTL

----------------------------------------------------------------------------
\* What is in the rings.

\* A snapshot stays what it is while what is written is less than a ring after it.
LEMMA HoldsKept ==
    ASSUME NEW ring, DOMAIN ring = 0 .. MaxParseEntities - 1, NEW w \in Nat, NEW state,
           NEW s \in Snap, NEW f, HoldsIn(ring, s, f),
           s.parseEntitiesNum + s.numEntities <= w,
           s.numEntities = 0 \/ w < s.parseEntitiesNum + MaxParseEntities
    PROVE  HoldsIn([ring EXCEPT ![EntitySlot(w)] = state], s, f)
<1> DEFINE ring2 == [ring EXCEPT ![EntitySlot(w)] = state]
<1>1. s.parseEntitiesNum \in Nat /\ s.numEntities \in Nat /\ MaxParseEntities \in Nat
  BY RingSizes DEF Snap
<1>2. ASSUME NEW i \in 0 .. s.numEntities - 1
      PROVE  ring2[EntitySlot(s.parseEntitiesNum + i)] = ring[EntitySlot(s.parseEntitiesNum + i)]
  <2> DEFINE k == s.parseEntitiesNum + i
  <2>1. k \in Nat /\ k < w /\ w < k + MaxParseEntities
    BY <1>1
  <2> HIDE DEF k
  <2>2. EntitySlot(k) # EntitySlot(w)
    BY <2>1, RingSizes, SlotsApart DEF EntitySlot
  <2>3. EntitySlot(k) \in DOMAIN ring
    BY <2>1, RingSizes
  <2> QED  BY <2>2, <2>3 DEF k, ring2
<1> HIDE DEF ring2
<1>3. HoldsIn(ring2, s, f)
  <2> DEFINE At(i) == ring[EntitySlot(s.parseEntitiesNum + i)]
             At2(i) == ring2[EntitySlot(s.parseEntitiesNum + i)]
             n == s.numEntities
  <2>1. \A i \in 0 .. n - 1 : At2(i) = At(i)
    BY <1>2
  <2>2. /\ \A i \in 0 .. n - 1 : At(i).number \in DOMAIN f /\ At(i).fields = f[At(i).number]
        /\ \A i, j \in 0 .. n - 1 : i < j => At(i).number < At(j).number
        /\ \A e \in DOMAIN f : \E i \in 0 .. n - 1 : At(i).number = e
    BY DEF HoldsIn
  <2> HIDE DEF At, At2, n
  <2>3. /\ \A i \in 0 .. n - 1 : At2(i).number \in DOMAIN f /\ At2(i).fields = f[At2(i).number]
        /\ \A i, j \in 0 .. n - 1 : i < j => At2(i).number < At2(j).number
        /\ \A e \in DOMAIN f : \E i \in 0 .. n - 1 : At2(i).number = e
    BY <2>1, <2>2
  <2> QED  BY <2>3 DEF HoldsIn, At2, n
<1> QED  BY <1>3 DEF ring2

\* Numbers in increasing order are no more than the set they are from has, and as many if
\* they are all of it.
LEMMA CountIncreasing ==
    ASSUME NEW k \in Nat, NEW S \in SUBSET Int, IsFiniteSet(S), NEW g \in [0 .. k - 1 -> S],
           \A i, j \in 0 .. k - 1 : i < j => g[i] < g[j]
    PROVE  /\ k <= Cardinality(S)
           /\ (\A e \in S : \E i \in 0 .. k - 1 : g[i] = e) => k = Cardinality(S)
<1> DEFINE T == 0 .. k - 1
           b == k - 1
<1>1. \A i, j \in T : g[i] = g[j] => i = j
  <2> SUFFICES ASSUME NEW i \in T, NEW j \in T, g[i] = g[j] PROVE i = j
    OBVIOUS
  <2>1. g[i] \in Int /\ g[j] \in Int
    OBVIOUS
  <2>2. ~(i < j) /\ ~(j < i)
    BY <2>1
  <2> QED  BY <2>2
<1>2. g \in Injection(T, S)
  BY <1>1 DEF Injection, IsInjective
<1>3. Cardinality(T) = k
  <2>1. b \in Int
    OBVIOUS
  <2> HIDE DEF b
  <2>2. Cardinality(0 .. b) = IF 0 > b THEN 0 ELSE b - 0 + 1
    BY <2>1, FS_Interval
  <2> QED  BY <2>2 DEF b
<1> HIDE DEF T
<1>4. Cardinality(T) <= Cardinality(S) /\ (Cardinality(T) = Cardinality(S) <=> g \in Surjection(T, S))
  BY <1>2, FS_Injection
<1>5. ASSUME \A e \in S : \E i \in 0 .. k - 1 : g[i] = e
      PROVE  g \in Surjection(T, S)
  BY <1>5 DEF Surjection, T
<1> QED  BY <1>3, <1>4, <1>5

\* A snapshot has as many entities as its frame.
LEMMA HoldsCount ==
    ASSUME NEW ring, NEW s \in Snap, NEW f \in Frames, HoldsIn(ring, s, f)
    PROVE  s.numEntities = Cardinality(DOMAIN f)
<1> DEFINE k == s.numEntities
           S == DOMAIN f
           g == [i \in 0 .. k - 1 |-> ring[EntitySlot(s.parseEntitiesNum + i)].number]
<1>1. k \in Nat /\ S \in SUBSET Int /\ IsFiniteSet(S)
  BY FrameEntities DEF Snap, Numbers
<1>2. /\ g \in [0 .. k - 1 -> S]
      /\ \A i, j \in 0 .. k - 1 : i < j => g[i] < g[j]
      /\ \A e \in S : \E i \in 0 .. k - 1 : g[i] = e
  BY DEF HoldsIn
<1> HIDE DEF k, S, g
<1>3. k = Cardinality(S)
  BY <1>1, <1>2, CountIncreasing
<1> QED  BY <1>3 DEF k, S

\* One turn of the merge.  m is the least number that is left in the entries and in the
\* base, and nothing of the new frame is left before it; what is written is the entity m
\* of the new frame, if there is one.
LEMMA MergeTurn ==
    ASSUME NEW ring, NEW ring2, NEW p, NEW p2, NEW D, NEW F, NEW c \in Int, NEW m \in Int,
           NEW kept \in 0 .. 1, c <= m,
           MergedIn(ring, p, D, F, c),
           DOMAIN D \subseteq Int, DOMAIN F \subseteq Int, DOMAIN p.entries \subseteq DOMAIN D,
           p.old.numEntities \in Nat, p.snap.numEntities \in Nat, p.oldIndex \in Nat,
           \A j \in 0 .. p.old.numEntities - 1 :
               ring[EntitySlot(p.old.parseEntitiesNum + j)].number \in Int,
           \A i, j \in 0 .. p.old.numEntities - 1 : i < j =>
               ring[EntitySlot(p.old.parseEntitiesNum + i)].number
                 < ring[EntitySlot(p.old.parseEntitiesNum + j)].number,
           \* nothing is left before m
           \A e \in DOMAIN p.entries : m <= e,
           \A j \in 0 .. p.old.numEntities - 1 :
               j >= p.oldIndex => m <= ring[EntitySlot(p.old.parseEntitiesNum + j)].number,
           \A e \in DOMAIN F : c <= e => m <= e,
           \* the ring after the turn
           \A j \in 0 .. p.old.numEntities - 1 :
               ring2[EntitySlot(p.old.parseEntitiesNum + j)]
                 = ring[EntitySlot(p.old.parseEntitiesNum + j)],
           \A i \in 0 .. p.snap.numEntities - 1 :
               ring2[EntitySlot(p.snap.parseEntitiesNum + i)]
                 = ring[EntitySlot(p.snap.parseEntitiesNum + i)],
           m \in DOMAIN F =>
               /\ kept = 1
               /\ ring2[EntitySlot(p.snap.parseEntitiesNum + p.snap.numEntities)].number = m
               /\ ring2[EntitySlot(p.snap.parseEntitiesNum + p.snap.numEntities)].fields = F[m],
           m \notin DOMAIN F => kept = 0,
           \* the parser after the turn
           p2.old = p.old, p2.snap.parseEntitiesNum = p.snap.parseEntitiesNum,
           p2.snap.numEntities = p.snap.numEntities + kept,
           DOMAIN p2.entries = DOMAIN p.entries \ {m},
           p2.oldIndex =
               IF /\ p.oldIndex < p.old.numEntities
                  /\ ring[EntitySlot(p.old.parseEntitiesNum + p.oldIndex)].number = m
               THEN p.oldIndex + 1 ELSE p.oldIndex
    PROVE  MergedIn(ring2, p2, D, F, m + 1)
<1> DEFINE Old(j) == ring[EntitySlot(p.old.parseEntitiesNum + j)]
           New(i) == ring[EntitySlot(p.snap.parseEntitiesNum + i)]
           Old2(j) == ring2[EntitySlot(p.old.parseEntitiesNum + j)]
           New2(i) == ring2[EntitySlot(p.snap.parseEntitiesNum + i)]
           n == p.old.numEntities
           k == p.snap.numEntities
<1>1. /\ \A e \in DOMAIN D : e \in DOMAIN p.entries <=> e >= c
      /\ \A j \in 0 .. n - 1 : j < p.oldIndex <=> Old(j).number < c
      /\ \A i \in 0 .. k - 1 :
           New(i).number \in DOMAIN F /\ New(i).number < c /\ New(i).fields = F[New(i).number]
      /\ \A i, j \in 0 .. k - 1 : i < j => New(i).number < New(j).number
      /\ \A e \in DOMAIN F : e < c => \E i \in 0 .. k - 1 : New(i).number = e
  BY DEF MergedIn
<1>2. /\ \A j \in 0 .. n - 1 : Old(j).number \in Int /\ Old2(j) = Old(j)
      /\ \A i, j \in 0 .. n - 1 : i < j => Old(i).number < Old(j).number
      /\ \A j \in 0 .. n - 1 : j >= p.oldIndex => m <= Old(j).number
      /\ \A i \in 0 .. k - 1 : New2(i) = New(i)
      /\ n \in Nat /\ k \in Nat
  OBVIOUS
<1>3. m \in DOMAIN F => kept = 1 /\ New2(k).number = m /\ New2(k).fields = F[m]
  OBVIOUS
<1>4. p2.oldIndex = IF p.oldIndex < n /\ Old(p.oldIndex).number = m
                    THEN p.oldIndex + 1 ELSE p.oldIndex
  OBVIOUS
<1> HIDE DEF Old, New, Old2, New2, n, k
<1>5. \A e \in DOMAIN D : e \in DOMAIN p2.entries <=> e >= m + 1
  BY <1>1
<1>6. ASSUME NEW j \in 0 .. n - 1
      PROVE  j < p2.oldIndex <=> Old2(j).number < m + 1
  <2>1. CASE j < p.oldIndex
    BY <1>1, <1>2, <1>4, <2>1
  <2>2. CASE j = p.oldIndex
    BY <1>2, <1>4, <2>2
  <2>3. CASE j > p.oldIndex
    <3>1. p.oldIndex \in 0 .. n - 1
      BY <1>2, <2>3
    <3>2. m <= Old(p.oldIndex).number /\ Old(p.oldIndex).number < Old(j).number
      BY <1>2, <2>3, <3>1
    <3>3. Old2(j).number > m /\ Old2(j).number \in Int
      BY <1>2, <3>1, <3>2
    <3> QED  BY <1>2, <1>4, <2>3, <3>3
  <2> QED  BY <1>2, <2>1, <2>2, <2>3
<1>7. ASSUME NEW i \in 0 .. (k + kept) - 1
      PROVE  /\ New2(i).number \in DOMAIN F /\ New2(i).number < m + 1
             /\ New2(i).fields = F[New2(i).number]
             /\ i \in 0 .. k - 1 \/ (i = k /\ m \in DOMAIN F)
  <2>1. CASE i \in 0 .. k - 1
    BY <1>1, <1>2, <2>1
  <2>2. CASE i = k
    BY <1>2, <1>3, <2>2
  <2> QED  BY <1>2, <2>1, <2>2
<1>8. ASSUME NEW i \in 0 .. (k + kept) - 1, NEW j \in 0 .. (k + kept) - 1, i < j
      PROVE  New2(i).number < New2(j).number
  <2>1. i \in 0 .. k - 1
    BY <1>2, <1>8
  <2>2. CASE j \in 0 .. k - 1
    BY <1>1, <1>2, <1>8, <2>1, <2>2
  <2>3. CASE j = k
    <3>1. New2(j).number = m
      BY <1>3, <1>7, <2>3
    <3>2. New2(i).number < c /\ New2(i).number \in Int
      BY <1>1, <1>2, <2>1
    <3> QED  BY <3>1, <3>2
  <2> QED  BY <1>2, <2>2, <2>3
<1>9. ASSUME NEW e \in DOMAIN F, e < m + 1
      PROVE  \E i \in 0 .. (k + kept) - 1 : New2(i).number = e
  <2>1. CASE e < c
    <3>1. PICK i \in 0 .. k - 1 : New(i).number = e
      BY <1>1, <2>1
    <3> QED  BY <1>2, <3>1
  <2>2. CASE e >= c
    <3>1. e = m
      BY <1>9, <2>2
    <3>2. kept = 1 /\ New2(k).number = e
      BY <1>3, <3>1
    <3>3. k \in 0 .. (k + kept) - 1
      BY <1>2, <3>2
    <3> QED  BY <3>2, <3>3
  <2> QED  BY <2>1, <2>2
<1>10. p2.snap.numEntities = k + kept /\ p2.old.numEntities = n
  BY DEF k, n
<1> DEFINE OldB(j) == ring2[EntitySlot(p2.old.parseEntitiesNum + j)]
           NewB(i) == ring2[EntitySlot(p2.snap.parseEntitiesNum + i)]
<1>11. /\ \A j \in 0 .. n - 1 : OldB(j) = Old2(j)
       /\ \A i \in 0 .. (k + kept) - 1 : NewB(i) = New2(i)
  BY DEF Old2, New2
<1> HIDE DEF OldB, NewB
<1>12. /\ \A e \in DOMAIN D : e \in DOMAIN p2.entries <=> e >= m + 1
       /\ \A j \in 0 .. p2.old.numEntities - 1 : j < p2.oldIndex <=> OldB(j).number < m + 1
       /\ \A i \in 0 .. p2.snap.numEntities - 1 :
            /\ NewB(i).number \in DOMAIN F /\ NewB(i).number < m + 1
            /\ NewB(i).fields = F[NewB(i).number]
       /\ \A i, j \in 0 .. p2.snap.numEntities - 1 : i < j => NewB(i).number < NewB(j).number
       /\ \A e \in DOMAIN F :
            e < m + 1 => \E i \in 0 .. p2.snap.numEntities - 1 : NewB(i).number = e
  BY <1>5, <1>6, <1>7, <1>8, <1>9, <1>10, <1>11
<1> QED  BY <1>12 DEF MergedIn, OldB, NewB

\* A turn that takes the merge from c past m: nothing is left before m, and what is written
\* is the entity m of the new frame, or the one that is gone.
Takes(m, c, state, next, advance) ==
    LET F == frames[parser.snap.messageNum]
        n == parser.old.numEntities
        Old(j) == parseEntities[EntitySlot(parser.old.parseEntitiesNum + j)]
    IN  /\ c <= m
        /\ \A e \in DOMAIN parser.entries : m <= e
        /\ \A j \in 0 .. n - 1 : j >= parser.oldIndex => m <= Old(j).number
        /\ \A e \in DOMAIN F : c <= e => m <= e
        /\ m \in DOMAIN F => state.number = m /\ state.fields = F[m]
        /\ m \notin DOMAIN F => state.number = None
        /\ DOMAIN next = DOMAIN parser.entries \ {m}
        /\ advance = (parser.oldIndex < n /\ Old(parser.oldIndex).number = m)

\* Every turn of the loops over a message with an intact base is such a turn.
LEMMA TurnFacts ==
    ASSUME HeldInv, MergeInv, parser.busy, parser.snap.valid, Sound,
           NEW c \in 0 .. NoMore, MergedTo(c),
           NEW state, NEW next, NEW advance \in BOOLEAN, Merge(state, next, advance)
    PROVE  \E m \in Numbers : Takes(m, c, state, next, advance)
<1> DEFINE O == FrameOf(parser.base)
           F == frames[parser.snap.messageNum]
           D == Delta(O, F)
           n == parser.old.numEntities
           k == parser.oldIndex
           x == parser.oldNum
           N == NewNum
           Old(j) == parseEntities[EntitySlot(parser.old.parseEntitiesNum + j)]
           m == IF x < N THEN x ELSE N
<1>1. /\ BusyInv /\ F \in Frames /\ D = ParsedDelta
      /\ n \in Nat /\ k \in Nat
      /\ DOMAIN parser.entries \subseteq Numbers /\ DOMAIN O \subseteq Numbers
  BY ParsedStates DEF HeldInv, ParserInv, BusyInv, IsSnapshot, TypeOK, Snap, ParsedDelta
<1>2. /\ DOMAIN F \subseteq Numbers
      /\ \A e \in DOMAIN F : F[e] \in [Fields -> Values]
  BY <1>1, FrameEntities
<1>3. \A e \in DOMAIN parser.entries : e \in DOMAIN D /\ parser.entries[e] = D[e]
  BY <1>1 DEF BusyInv
<1>4. /\ N \in 0 .. NoMore
      /\ DOMAIN parser.entries = {} => N = NoMore
      /\ DOMAIN parser.entries # {} => N \in DOMAIN parser.entries
      /\ \A e \in DOMAIN parser.entries : N <= e
  BY <1>1, NewNumIsLeast
<1>5. /\ k <= n
      /\ x = IF k < n THEN Old(k).number ELSE NoMore
      /\ \A j \in 0 .. n - 1 : Old(j).number \in DOMAIN O /\ Old(j).fields = O[Old(j).number]
      /\ \A i, j \in 0 .. n - 1 : i < j => Old(i).number < Old(j).number
      /\ \A e \in DOMAIN O : \E j \in 0 .. n - 1 : Old(j).number = e
  BY DEF MergeInv, Holds, HoldsIn, Entity
<1>6. /\ \A e \in DOMAIN D : e \in DOMAIN parser.entries <=> e >= c
      /\ \A j \in 0 .. n - 1 : j < k <=> Old(j).number < c
  BY <1>1 DEF MergedTo, MergedIn
<1>7. /\ \A e : e \in DOMAIN D <=>
                 /\ e \in DOMAIN O \union DOMAIN F
                 /\ e \notin DOMAIN O \/ e \notin DOMAIN F \/ O[e] # F[e]
      /\ \A e \in DOMAIN D : D[e].removed = IF e \in DOMAIN F THEN FALSE ELSE TRUE
  <2> HIDE DEF O, F
  <2> QED  BY DeltaEntries
<1>8. OldState = Old(k)
  BY DEF OldState
<1>9. /\ NoMore \in Nat /\ Numbers \subseteq Nat /\ None \notin Numbers
      /\ (\A e \in Numbers : e < NoMore) /\ c \in Nat
  BY RingSizes DEF NoMore, Numbers, None
<1>10. \/ x < N /\ state = OldState /\ next = parser.entries /\ advance = TRUE
       \/ /\ x = N /\ N # NoMore
          /\ state = LoadDelta(OldState.fields, N) /\ next = Rest /\ advance = TRUE
       \/ x > N /\ state = LoadDelta(NoFields, N) /\ next = Rest /\ advance = FALSE
  BY DEF Merge
<1>11. Rest = [e \in DOMAIN parser.entries \ {N} |-> parser.entries[e]]
  BY DEF Rest
<1>12. \A from, e : LoadDelta(from, e) =
          IF parser.entries[e].removed THEN [number |-> None, fields |-> NoFields]
          ELSE [number |-> e, fields |-> [y \in Fields |->
                  IF y \in DOMAIN parser.entries[e].fields
                  THEN parser.entries[e].fields[y] ELSE from[y]]]
  BY DEF LoadDelta
<1>13. \A e \in DOMAIN D \intersect DOMAIN F : \A from :
          from = (IF e \in DOMAIN O THEN O[e] ELSE NoFields) =>
             [y \in Fields |-> IF y \in DOMAIN D[e].fields THEN D[e].fields[y] ELSE from[y]] = F[e]
  BY <1>2, DeltaLoaded
<1> HIDE DEF O, F, D, n, k, x, N, Old
<1>14. /\ x \in Nat /\ x <= NoMore /\ N \in Nat /\ N <= NoMore
       /\ x < NoMore <=> k < n
       /\ \A j \in 0 .. n - 1 : Old(j).number \in Nat /\ Old(j).number \in Numbers
       /\ \A e \in DOMAIN parser.entries : e \in Nat
       /\ k < n => k \in 0 .. n - 1 /\ Old(k).number = x
  <2>1. \A j \in 0 .. n - 1 : Old(j).number \in Nat /\ Old(j).number \in Numbers
    BY <1>1, <1>5, <1>9
  <2>2. k < n => k \in 0 .. n - 1 /\ Old(k).number = x
    BY <1>1, <1>5
  <2>3. k < n => x \in Numbers
    BY <2>1, <2>2
  <2>4. ~(k < n) => x = NoMore
    BY <1>5
  <2>5. x \in Nat /\ x <= NoMore /\ (x < NoMore <=> k < n)
    <3>1. CASE k < n
      <4>1. x \in Nat /\ x < NoMore
        BY <1>9, <2>3, <3>1
      <4> QED  BY <1>9, <3>1, <4>1
    <3>2. CASE ~(k < n)
      BY <1>9, <2>4, <3>2
    <3> QED  BY <3>1, <3>2
  <2>6. N \in Nat /\ N <= NoMore
    BY <1>4, <1>9
  <2>7. \A e \in DOMAIN parser.entries : e \in Nat
    BY <1>1, <1>9
  <2> QED  BY <2>1, <2>2, <2>5, <2>6, <2>7
<1>15. /\ x < N => x \in Numbers /\ k < n /\ Old(k).number = x /\ x >= c
       /\ ~(x < N) => N \in DOMAIN parser.entries /\ N \in DOMAIN D /\ N \in Numbers /\ N >= c
  <2>1. ASSUME x < N PROVE x \in Numbers /\ k < n /\ Old(k).number = x /\ x >= c
    <3>1. k < n /\ Old(k).number = x
      BY <1>4, <1>5, <1>9, <1>14, <2>1
    <3>2. x \in Numbers
      BY <1>1, <1>5, <3>1
    <3> QED  BY <1>1, <1>6, <1>9, <3>1, <3>2
  <2>2. ASSUME ~(x < N)
        PROVE  N \in DOMAIN parser.entries /\ N \in DOMAIN D /\ N \in Numbers /\ N >= c
    <3>1. N # NoMore
      BY <1>4, <1>9, <1>10, <1>14, <2>2
    <3>2. N \in DOMAIN parser.entries
      BY <1>4, <3>1
    <3> QED  BY <1>1, <1>3, <1>6, <3>2
  <2> QED  BY <2>1, <2>2
<1>16. m \in Numbers /\ m \in Nat /\ c <= m /\ m <= x /\ m <= N
  BY <1>9, <1>14, <1>15
<1> HIDE DEF m
<1>17. \A e \in DOMAIN parser.entries : m <= e
  BY <1>4, <1>14, <1>16
<1>18. ASSUME NEW j \in 0 .. n - 1, j >= k PROVE m <= Old(j).number
  <2>1. k \in 0 .. n - 1 /\ Old(k).number = x /\ Old(j).number \in Nat
    BY <1>1, <1>14, <1>18
  <2>2. k < j => Old(k).number < Old(j).number
    BY <1>5, <2>1
  <2>3. Old(j).number >= x
    BY <1>1, <1>14, <1>18, <2>1, <2>2
  <2> QED  BY <1>14, <1>16, <2>1, <2>3
<1>19. ASSUME NEW e \in DOMAIN O \union DOMAIN F, c <= e,
              e \in DOMAIN D \/ e \in DOMAIN O
       PROVE  m <= e
  <2>1. CASE e \in DOMAIN D
    BY <1>6, <1>17, <1>19, <2>1
  <2>2. CASE e \in DOMAIN O
    <3>1. PICK j \in 0 .. n - 1 : Old(j).number = e
      BY <1>5, <2>2
    <3>2. e \in Nat /\ ~(e < c)
      BY <1>9, <1>14, <1>19, <3>1
    <3>3. j >= k
      BY <1>1, <1>6, <3>1, <3>2
    <3> QED  BY <1>18, <3>1, <3>3
  <2> QED  BY <1>19, <2>1, <2>2
<1>20. \A e \in DOMAIN F : c <= e => m <= e
  BY <1>7, <1>19
<1>21. CASE x < N
  <2>1. m = x /\ x \in DOMAIN O /\ k \in 0 .. n - 1
    BY <1>1, <1>5, <1>15, <1>21 DEF m
  <2>2. x \notin DOMAIN D /\ x \notin DOMAIN parser.entries
    <3>1. x \notin DOMAIN parser.entries
      BY <1>4, <1>14, <1>21
    <3>2. x >= c
      BY <1>15, <1>21
    <3> QED  BY <1>6, <3>1, <3>2
  <2>3. x \in DOMAIN F /\ F[x] = O[x]
    BY <1>7, <2>1, <2>2
  <2>4. state.number = m /\ state.fields = F[m]
    BY <1>4, <1>5, <1>8, <1>10, <1>14, <1>15, <1>21, <2>1, <2>3
  <2>5. DOMAIN next = DOMAIN parser.entries \ {m}
    <3>1. next = parser.entries
      BY <1>10, <1>14, <1>21
    <3> QED  BY <2>1, <2>2, <3>1
  <2>6. advance = (k < n /\ Old(k).number = m)
    <3>1. k < n /\ Old(k).number = m
      BY <1>15, <1>21, <2>1
    <3>2. advance = TRUE
      BY <1>4, <1>10, <1>14, <1>21
    <3> QED  BY <3>1, <3>2
  <2> HIDE DEF m
  <2>7. m \in DOMAIN F
    BY <2>1, <2>3
  <2>8. Takes(m, c, state, next, advance)
    BY <1>16, <1>17, <1>18, <1>20, <2>4, <2>5, <2>6, <2>7 DEF F, n, k, Old, Takes
  <2> QED  BY <1>16, <2>8
<1>22. CASE ~(x < N)
  <2>1. m = N /\ N \in DOMAIN parser.entries /\ N \in DOMAIN D
    BY <1>15, <1>22 DEF m
  <2>2. next = Rest
    BY <1>4, <1>10, <1>14, <1>22
  <2>3. DOMAIN next = DOMAIN parser.entries \ {m}
    BY <1>11, <2>1, <2>2
  <2>4. parser.entries[N] = D[N]
    BY <1>3, <2>1
  <2> DEFINE from == IF x = N THEN OldState.fields ELSE NoFields
  <2>5. state = LoadDelta(from, N)
    BY <1>4, <1>10, <1>14, <1>22
  <2>6. from = IF N \in DOMAIN O THEN O[N] ELSE NoFields
    <3>1. CASE x = N
      <4>1. k \in 0 .. n - 1 /\ Old(k).number = N
        BY <1>1, <1>5, <1>9, <1>14, <1>15, <1>22, <3>1
      <4> QED  BY <1>5, <1>8, <3>1, <4>1
    <3>2. CASE x # N
      <4>1. N \notin DOMAIN O
        <5>1. SUFFICES ASSUME N \in DOMAIN O PROVE FALSE
          OBVIOUS
        <5>2. PICK j \in 0 .. n - 1 : Old(j).number = N
          BY <1>5, <5>1
        <5>3. j >= k
          BY <1>1, <1>4, <1>6, <1>15, <1>22, <5>2
        <5>4. k \in 0 .. n - 1 /\ Old(k).number = x
          BY <1>1, <1>5, <5>3
        <5>5. k < j => Old(k).number < Old(j).number
          BY <1>5, <5>4
        <5>6. x <= N
          BY <1>1, <1>14, <5>2, <5>3, <5>4, <5>5
        <5> QED  BY <1>14, <1>22, <3>2, <5>6
      <4> QED  BY <3>2, <4>1
    <3> QED  BY <3>1, <3>2
  <2> HIDE DEF from
  <2>7. m \in DOMAIN F => state.number = m /\ state.fields = F[m]
    <3> SUFFICES ASSUME m \in DOMAIN F PROVE state.number = m /\ state.fields = F[m]
      OBVIOUS
    <3>1. parser.entries[N].removed = FALSE
      BY <1>7, <2>1, <2>4
    <3>2. state = [number |-> N, fields |-> [y \in Fields |->
                     IF y \in DOMAIN D[N].fields THEN D[N].fields[y] ELSE from[y]]]
      BY <1>12, <2>4, <2>5, <3>1
    <3>3. [y \in Fields |-> IF y \in DOMAIN D[N].fields THEN D[N].fields[y] ELSE from[y]] = F[N]
      BY <1>13, <2>1, <2>6
    <3> QED  BY <2>1, <3>2, <3>3
  <2>8. m \notin DOMAIN F => state.number = None
    <3> SUFFICES ASSUME m \notin DOMAIN F PROVE state.number = None
      OBVIOUS
    <3>1. parser.entries[N].removed = TRUE
      BY <1>7, <2>1, <2>4
    <3> QED  BY <1>12, <2>5, <3>1
  <2>9. advance = (k < n /\ Old(k).number = m)
    <3>1. CASE x = N
      <4>1. k < n /\ Old(k).number = m
        BY <1>1, <1>5, <1>9, <1>14, <1>15, <1>22, <2>1, <3>1
      <4>2. advance = TRUE
        BY <1>10, <1>14, <1>22, <1>4, <3>1
      <4> QED  BY <4>1, <4>2
    <3>2. CASE x # N
      <4>1. ~(k < n /\ Old(k).number = m)
        BY <1>5, <2>1, <3>2
      <4>2. advance = FALSE
        BY <1>10, <1>14, <1>22, <1>4, <3>2
      <4> QED  BY <4>1, <4>2
    <3> QED  BY <3>1, <3>2
  <2>10. Takes(m, c, state, next, advance)
    BY <1>16, <1>17, <1>18, <1>20, <2>3, <2>7, <2>8, <2>9 DEF F, n, k, Old, Takes
  <2> QED  BY <1>16, <2>10
<1> QED  BY <1>21, <1>22

\* The base of the message being parsed is held.
LEMMA BaseOfParsed ==
    ASSUME HeldInv, parser.busy, parser.base # 0
    PROVE  /\ parser.base \in Nat /\ Slot(parser.base) \in 0 .. PacketBackup - 1
           /\ parser.old = snapshots[Slot(parser.base)]
           /\ parser.old.valid /\ parser.old.messageNum = parser.base
<1>1. /\ parser.base \in acked /\ parser.snap.messageNum < parser.base + PacketBackup
      /\ parser.snap.messageNum = serverMessageSequence
      /\ parser.old = snapshots[Slot(parser.base)] /\ parser.base \in Nat
  BY DEF HeldInv, ParserInv, BusyInv
<1>2. currentSnap.messageNum <= serverMessageSequence /\ currentSnap.messageNum \in Int
  BY DEF HeldInv, SlotsInv, TypeOK, Snap
<1>3. serverMessageSequence \in Int
  BY DEF HeldInv, TypeOK
<1>4. currentSnap.messageNum < parser.base + PacketBackup
  BY <1>1, <1>2, <1>3, RingSizes
<1> QED  BY <1>1, <1>4, RingSizes DEF HeldInv, AckedInv

\* How far the parser has written.
LEMMA WriteBounds ==
    ASSUME FramesFit(1), HeldInv, ContentInv, parser.busy
    PROVE  /\ parseEntitiesNum \in Nat /\ parser.end \in Nat /\ parseEntitiesNum <= parser.end
           /\ parser.end = parseEntitiesNum + parser.snap.numEntities
           /\ parser.old.parseEntitiesNum + parser.old.numEntities <= parseEntitiesNum
           /\ Roomy => parser.end < parseEntitiesNum + MaxSnapshotEntities
           /\ parser.snap.valid /\ Sound => parser.end < parseEntitiesNum + MaxSnapshotEntities
<1> DEFINE F == frames[parser.snap.messageNum]
           k == parser.snap.numEntities
           n == parser.old.numEntities
<1>1. /\ parseEntitiesNum \in Nat /\ parser.end \in Nat /\ k \in Nat /\ n \in Nat
      /\ parser.oldIndex \in Nat
      /\ parser.end = parseEntitiesNum + k /\ F \in Frames
      /\ parser.snap.parseEntitiesNum = parseEntitiesNum
  BY DEF HeldInv, ParserInv, BusyInv, IsSnapshot, TypeOK, Snap
<1>2. /\ Cardinality(DOMAIN F) \in Nat /\ IsFiniteSet(DOMAIN F) /\ DOMAIN F \subseteq Numbers
      /\ 1 * Cardinality(DOMAIN F) < MaxSnapshotEntities
  BY <1>1, FrameEntities DEF FramesFit
<1>3. MaxSnapshotEntities \in Nat
  BY RingSizes
<1>4. /\ parser.old.parseEntitiesNum + n <= parseEntitiesNum
      /\ Roomy => 2 * n < MaxSnapshotEntities
  <2>1. CASE parser.base = 0
    <3>1. parser.old = NullSnap
      BY <2>1 DEF HeldInv, ParserInv, BusyInv
    <3>2. n = 0 /\ parser.old.parseEntitiesNum = 0
      BY <3>1 DEF NullSnap
    <3> QED  BY <1>1, <1>2, <1>3, <3>2
  <2>2. CASE parser.base # 0
    BY <2>2, BaseOfParsed DEF ContentInv, RingInv, Sound
  <2> QED  BY <2>1, <2>2
<1>5. ASSUME Roomy PROVE k < MaxSnapshotEntities
  <2>1. 2 * Cardinality(DOMAIN F) < MaxSnapshotEntities
    BY <1>1, <1>5 DEF Roomy, FramesFit
  <2>2. /\ parser.oldNum # NoMore => parser.oldIndex < n
        /\ k + OldLeft + Cardinality(NewLeft) <= n + Cardinality(DOMAIN F)
    BY <1>5 DEF ContentInv, RoomInv, Sound
  <2>3. OldLeft \in Nat
    BY <1>1, <2>2 DEF OldLeft
  <2>4. Cardinality(NewLeft) \in Nat
    <3>1. IsFiniteSet(Numbers)
      <4> DEFINE b == NumEntities - 1
      <4>1. b \in Int
        BY RingSizes
      <4> HIDE DEF b
      <4>2. IsFiniteSet(0 .. b)
        BY <4>1, FS_Interval
      <4> QED  BY <4>2 DEF Numbers, b
    <3>2. NewLeft \subseteq Numbers
      BY ParsedStates DEF NewLeft
    <3> QED  BY <3>1, <3>2, FS_Subset, FS_CardinalityType
  <2> QED  BY <1>1, <1>2, <1>3, <1>4, <1>5, <2>1, <2>2, <2>3, <2>4
<1>6. ASSUME parser.snap.valid, Sound PROVE k < MaxSnapshotEntities
  <2>1. PICK c \in 0 .. NoMore : MergedTo(c)
    BY <1>6 DEF ContentInv, MergeInv
  <2> DEFINE g == [i \in 0 .. k - 1 |-> parseEntities[EntitySlot(parser.snap.parseEntitiesNum + i)].number]
             S == DOMAIN F
  <2>2. /\ g \in [0 .. k - 1 -> S]
        /\ \A i, j \in 0 .. k - 1 : i < j => g[i] < g[j]
    BY <2>1 DEF MergedTo, MergedIn
  <2>3. S \in SUBSET Int /\ IsFiniteSet(S)
    BY <1>2 DEF Numbers
  <2> HIDE DEF g, S, k
  <2>4. k <= Cardinality(S)
    BY <1>1, <2>2, <2>3, CountIncreasing
  <2> QED  BY <1>1, <1>2, <1>3, <2>4 DEF S
<1> QED  BY <1>1, <1>3, <1>4, <1>5, <1>6

\* A turn writes over no snapshot that is to be left alone.
LEMMA TurnKeepsRing ==
    ASSUME FramesFit(1), HeldInv, ContentInv, parser.busy,
           NEW state, NEW next, NEW advance \in BOOLEAN,
           Merge(state, next, advance), ParseDeltaEntity(state, next, advance)
    PROVE  RingInv'
<1>1. /\ UNCHANGED <<frames, snapshots, parseEntitiesNum, aborted>>
      /\ parseEntities' = [parseEntities EXCEPT ![EntitySlot(parser.end)] = state]
  BY DEF ParseDeltaEntity, server
<1>2. /\ parser'.end = parser.end + Kept(state) /\ Kept(state) \in 0 .. 1
      /\ parser'.busy = parser.busy
  BY ParserAfterEntity, MergeTypes DEF HeldInv
<1>3. /\ parseEntitiesNum \in Nat /\ parser.end \in Nat /\ parseEntitiesNum <= parser.end
      /\ Roomy => parser.end < parseEntitiesNum + MaxSnapshotEntities
  BY WriteBounds
<1>4. DOMAIN parseEntities = 0 .. MaxParseEntities - 1
  BY DEF HeldInv, TypeOK
<1>5. /\ WrittenTo = parser.end /\ WrittenTo' = parser.end + Kept(state)
  BY <1>2 DEF WrittenTo
<1>6. Sound' = Sound
  BY <1>1 DEF Sound
<1>7. ASSUME NEW s \in Snap, Untouched(s)'
      PROVE  Untouched(s) /\ parser.end < s.parseEntitiesNum + MaxParseEntities
  <2>1. s.parseEntitiesNum \in Nat
    BY DEF Snap
  <2>2. CASE ~aborted /\ WrittenTo' < s.parseEntitiesNum + MaxParseEntities
    <3>1. parser.end < s.parseEntitiesNum + MaxParseEntities
      BY <1>2, <1>3, <1>5, <2>1, <2>2, RingSizes
    <3> QED  BY <1>5, <2>2, <3>1 DEF Untouched
  <2>3. CASE Roomy /\ ~EntitiesTooOld(s)
    <3>1. parser.end < s.parseEntitiesNum + MaxParseEntities
      BY <1>3, <2>1, <2>3, RingSizes DEF EntitiesTooOld
    <3> QED  BY <2>3, <3>1 DEF Untouched
  <2>4. EntitiesTooOld(s)' = EntitiesTooOld(s)
    BY <1>1 DEF EntitiesTooOld
  <2> QED  BY <1>1, <1>7, <2>2, <2>3, <2>4 DEF Untouched
<1>8. ASSUME NEW i \in 0 .. PacketBackup - 1, snapshots[i].valid, (Untouched(snapshots[i]))'
      PROVE  HoldsIn(parseEntities', snapshots[i], frames[snapshots[i].messageNum])
  <2>1. snapshots[i] \in Snap
    BY DEF HeldInv, TypeOK
  <2>2. PICK s \in Snap : s = snapshots[i]
    BY <2>1
  <2> DEFINE f == frames[s.messageNum]
  <2>3. /\ s.parseEntitiesNum + s.numEntities <= parseEntitiesNum
        /\ s.valid /\ Untouched(s) => HoldsIn(parseEntities, s, f)
    BY <2>2 DEF ContentInv, RingInv, Holds
  <2>4. s.parseEntitiesNum \in Nat /\ s.numEntities \in Nat
    BY DEF Snap
  <2>5. s.valid /\ Untouched(s)'
    BY <1>1, <1>8, <2>2 DEF Untouched, EntitiesTooOld
  <2> HIDE DEF f
  <2>6. Untouched(s) /\ parser.end < s.parseEntitiesNum + MaxParseEntities
    BY <1>7, <2>5
  <2>7. HoldsIn(parseEntities, s, f) /\ s.parseEntitiesNum + s.numEntities <= parser.end
    BY <1>3, <2>3, <2>4, <2>5, <2>6
  <2>8. HoldsIn(parseEntities', s, f)
    BY <1>1, <1>3, <1>4, <2>6, <2>7, HoldsKept
  <2> QED  BY <2>2, <2>8 DEF f
<1>9. ASSUME NEW i \in 0 .. PacketBackup - 1
      PROVE  /\ snapshots[i].parseEntitiesNum + snapshots[i].numEntities <= parseEntitiesNum
             /\ snapshots[i].valid /\ Sound =>
                  /\ snapshots[i].numEntities >= 1
                  /\ Roomy => 2 * snapshots[i].numEntities < MaxSnapshotEntities
  BY DEF ContentInv, RingInv
<1> QED  BY <1>1, <1>6, <1>8, <1>9 DEF RingInv, Holds

\* The entries that are left are finitely many.
LEMMA NewLeftIsFinite ==
    ASSUME HeldInv, parser.busy
    PROVE  /\ NewLeft \subseteq DOMAIN frames[parser.snap.messageNum]
           /\ IsFiniteSet(NewLeft) /\ Cardinality(NewLeft) \in Nat
           /\ Cardinality(NewLeft) <= Cardinality(DOMAIN frames[parser.snap.messageNum])
<1> DEFINE O == FrameOf(parser.base)
           F == frames[parser.snap.messageNum]
<1>1. BusyInv /\ F \in Frames
  BY DEF HeldInv, ParserInv, BusyInv, IsSnapshot
<1>2. \A e \in DOMAIN parser.entries : e \in DOMAIN Delta(O, F) /\ parser.entries[e] = Delta(O, F)[e]
  BY <1>1 DEF BusyInv, ParsedDelta
<1> HIDE DEF O, F
<1>3. NewLeft \subseteq DOMAIN F
  <2> SUFFICES ASSUME NEW e \in NewLeft PROVE e \in DOMAIN F
    OBVIOUS
  <2>1. e \in DOMAIN Delta(O, F) /\ ~Delta(O, F)[e].removed
    BY <1>2 DEF NewLeft
  <2> QED  BY <2>1, DeltaEntries
<1>4. IsFiniteSet(DOMAIN F)
  BY <1>1, FrameEntities
<1>5. IsFiniteSet(NewLeft) /\ Cardinality(NewLeft) <= Cardinality(DOMAIN F)
  BY <1>3, <1>4, FS_Subset
<1> QED  BY <1>3, <1>5, FS_CardinalityType DEF F

\* A turn that counts an entity passes an old one over or takes an entry.
LEMMA TurnKeepsRoom ==
    ASSUME HeldInv, HeldInv', RoomInv, parser.busy,
           NEW state, NEW next, NEW advance \in BOOLEAN,
           Merge(state, next, advance), ParseDeltaEntity(state, next, advance)
    PROVE  RoomInv'
<1> DEFINE k == parser.snap.numEntities
           n == parser.old.numEntities
           C == Cardinality(DOMAIN frames[parser.snap.messageNum])
<1> SUFFICES ASSUME Sound'
             PROVE  /\ parser'.oldNum # NoMore => parser'.oldIndex < n
                    /\ (k + Kept(state)) + OldLeft' + Cardinality(NewLeft') <= n + C
  <2>1. UNCHANGED <<frames, aborted>>
    BY DEF ParseDeltaEntity, server
  <2>2. /\ parser'.old = parser.old
        /\ parser'.snap = [valid |-> parser.snap.valid, messageNum |-> parser.snap.messageNum,
                           parseEntitiesNum |-> parser.snap.parseEntitiesNum,
                           numEntities |-> k + Kept(state)]
    BY ParserAfterEntity DEF HeldInv
  <2>3. parser'.snap.messageNum = parser.snap.messageNum /\ parser'.snap.numEntities = k + Kept(state)
    BY <2>2
  <2> QED  BY <2>1, <2>2, <2>3 DEF RoomInv
<1>1. Sound
  BY DEF ParseDeltaEntity, Sound
<1>2. /\ parser'.entries = next /\ parser'.old = parser.old
      /\ parser'.oldIndex = IF advance THEN parser.oldIndex + 1 ELSE parser.oldIndex
      /\ parser'.oldNum = IF advance THEN NextOld(parseEntities') ELSE parser.oldNum
      /\ parser'.busy
  BY ParserAfterEntity DEF HeldInv
<1>3. /\ parser.oldNum # NoMore => parser.oldIndex < n
      /\ k + OldLeft + Cardinality(NewLeft) <= n + C
  BY <1>1 DEF RoomInv
<1>4. /\ k \in Nat /\ n \in Nat /\ parser.oldIndex \in Nat /\ parser.oldNum \in 0 .. NoMore
      /\ NoMore \in Nat /\ parser'.oldNum \in 0 .. NoMore
  <2>1. TypeOK /\ TypeOK' /\ ParserInv
    BY DEF HeldInv
  <2>2. parser'.oldNum \in 0 .. NoMore
    BY <2>1 DEF TypeOK, NoMore
  <2>3. NoMore \in Nat
    BY RingSizes DEF NoMore
  <2> QED  BY <2>1, <2>2, <2>3 DEF TypeOK, ParserInv, Snap
<1>5. /\ NewLeft \subseteq DOMAIN frames[parser.snap.messageNum]
      /\ IsFiniteSet(NewLeft) /\ Cardinality(NewLeft) \in Nat
      /\ Cardinality(NewLeft) <= C
  BY NewLeftIsFinite
<1>6. C \in Nat
  <2>1. frames[parser.snap.messageNum] \in Frames
    BY DEF HeldInv, ParserInv, BusyInv, IsSnapshot
  <2> QED  BY <2>1, FrameEntities
<1>7. /\ Kept(state) \in 0 .. 1
      /\ DOMAIN next \subseteq DOMAIN parser.entries
      /\ \A e \in DOMAIN next : next[e] = parser.entries[e]
  BY MergeTypes
<1>8. NewLeft' = {e \in DOMAIN next : ~next[e].removed}
  BY <1>2 DEF NewLeft
<1>9. NewLeft' \subseteq NewLeft
  BY <1>7, <1>8 DEF NewLeft
<1>10. Cardinality(NewLeft') \in Nat /\ Cardinality(NewLeft') <= Cardinality(NewLeft)
  BY <1>5, <1>9, FS_Subset, FS_CardinalityType
<1>11. /\ NewNum \in 0 .. NoMore
       /\ DOMAIN parser.entries = {} => NewNum = NoMore
       /\ DOMAIN parser.entries # {} => NewNum \in DOMAIN parser.entries
  BY ParsedStates, NewNumIsLeast
<1>12. CASE advance
  <2>1. parser.oldNum # NoMore
    BY <1>4, <1>11, <1>12 DEF Merge
  <2>2. OldLeft = n - parser.oldIndex /\ parser.oldIndex < n
    BY <1>3, <2>1 DEF OldLeft
  <2>3. CASE parser.oldIndex + 1 >= n
    <3>1. parser'.oldNum = NoMore
      BY <1>2, <1>12, <2>3 DEF NextOld
    <3>2. OldLeft' = 0
      BY <3>1 DEF OldLeft, NoMore
    <3> QED  BY <1>3, <1>4, <1>6, <1>5, <1>7, <1>10, <2>2, <3>1, <3>2
  <2>4. CASE parser.oldIndex + 1 < n
    <3>1. parser'.oldIndex = parser.oldIndex + 1
      BY <1>2, <1>12
    <3>2. OldLeft' \in Int /\ OldLeft' <= n - (parser.oldIndex + 1)
      BY <1>2, <1>4, <2>4, <3>1 DEF OldLeft, NoMore
    <3> HIDE DEF k, n, C
    <3> QED  BY <1>3, <1>4, <1>5, <1>6, <1>7, <1>10, <2>2, <2>4, <3>1, <3>2
  <2> QED  BY <1>4, <2>3, <2>4
<1>13. CASE ~advance
  <2>1. /\ parser.oldNum > NewNum /\ state = LoadDelta(NoFields, NewNum) /\ next = Rest
    BY <1>13 DEF Merge
  <2>2. NewNum \in DOMAIN parser.entries
    BY <1>4, <1>11, <2>1
  <2>3. OldLeft' = OldLeft /\ (parser'.oldNum # NoMore => parser'.oldIndex < n)
    BY <1>2, <1>3, <1>13 DEF OldLeft, NoMore
  <2>4. OldLeft \in Nat
    BY <1>3, <1>4 DEF OldLeft
  <2>5. Kept(state) + Cardinality(NewLeft') <= Cardinality(NewLeft)
    <3>1. CASE parser.entries[NewNum].removed
      <4>1. state.number = None
        BY <2>1, <3>1 DEF LoadDelta
      <4> QED  BY <1>5, <1>10, <4>1 DEF Kept
    <3>2. CASE ~parser.entries[NewNum].removed
      <4>1. NewNum \in NewLeft
        BY <2>2, <3>2 DEF NewLeft
      <4>2. NewLeft' = NewLeft \ {NewNum}
        BY <1>8, <2>1 DEF NewLeft, Rest
      <4>3. Cardinality(NewLeft') = Cardinality(NewLeft) - 1
        BY <1>5, <4>1, <4>2, FS_RemoveElement
      <4> QED  BY <1>5, <1>7, <4>3
    <3> QED  BY <3>1, <3>2
  <2> HIDE DEF k, n, C
  <2> QED  BY <1>3, <1>4, <1>5, <1>6, <1>7, <1>10, <2>3, <2>4, <2>5
<1> QED  BY <1>12, <1>13

\* What a turn writes is outside of an intact base and of what the message has written.
LEMMA TurnWritesApart ==
    ASSUME FramesFit(1), HeldInv, ContentInv, parser.busy, parser.snap.valid, Sound,
           NEW ring2, NEW state,
           ring2 = [parseEntities EXCEPT ![EntitySlot(parser.end)] = state]
    PROVE  /\ HoldsIn(ring2, parser.old, FrameOf(parser.base))
           /\ \A j \in 0 .. parser.old.numEntities - 1 :
                ring2[EntitySlot(parser.old.parseEntitiesNum + j)]
                  = parseEntities[EntitySlot(parser.old.parseEntitiesNum + j)]
           /\ \A i \in 0 .. parser.snap.numEntities - 1 :
                ring2[EntitySlot(parser.snap.parseEntitiesNum + i)]
                  = parseEntities[EntitySlot(parser.snap.parseEntitiesNum + i)]
           /\ ring2[EntitySlot(parser.snap.parseEntitiesNum + parser.snap.numEntities)] = state
<1>1. /\ parseEntitiesNum \in Nat /\ parser.end \in Nat /\ parseEntitiesNum <= parser.end
      /\ parser.end = parseEntitiesNum + parser.snap.numEntities
      /\ parser.old.parseEntitiesNum + parser.old.numEntities <= parseEntitiesNum
      /\ parser.end < parseEntitiesNum + MaxSnapshotEntities
  BY WriteBounds
<1>2. DOMAIN parseEntities = 0 .. MaxParseEntities - 1
  BY DEF HeldInv, TypeOK
<1>3. parser.old \in Snap /\ parser.snap \in Snap /\ parser.snap.parseEntitiesNum = parseEntitiesNum
  BY DEF HeldInv, TypeOK, ParserInv, BusyInv
<1>4. /\ parser.old.parseEntitiesNum \in Nat /\ parser.old.numEntities \in Nat
      /\ parser.snap.numEntities \in Nat
  BY <1>3 DEF Snap
<1>5. parser.old.numEntities = 0 \/ parser.end < parser.old.parseEntitiesNum + MaxParseEntities
  <2>1. CASE parser.base = 0
    <3>1. parser.old = NullSnap
      BY <2>1 DEF HeldInv, ParserInv, BusyInv
    <3> QED  BY <3>1 DEF NullSnap
  <2>2. CASE parser.base # 0
    <3>1. ~EntitiesTooOld(parser.old)
      BY <2>2 DEF ContentInv, MergeInv
    <3> QED  BY <1>1, <1>4, <3>1, RingSizes DEF EntitiesTooOld
  <2> QED  BY <2>1, <2>2
<1>6. HoldsIn(parseEntities, parser.old, FrameOf(parser.base))
  BY DEF ContentInv, MergeInv, Holds
<1>7. HoldsIn(ring2, parser.old, FrameOf(parser.base))
  <2> DEFINE s == parser.old
             f == FrameOf(parser.base)
             w == parser.end
             r == parseEntities
  <2>1. /\ w \in Nat /\ s \in Snap /\ HoldsIn(r, s, f) /\ s.parseEntitiesNum + s.numEntities <= w
        /\ s.numEntities = 0 \/ w < s.parseEntitiesNum + MaxParseEntities
        /\ ring2 = [r EXCEPT ![EntitySlot(w)] = state]
        /\ DOMAIN r = 0 .. MaxParseEntities - 1
    BY <1>1, <1>2, <1>3, <1>4, <1>5, <1>6
  <2> HIDE DEF s, f, w, r
  <2>2. HoldsIn([r EXCEPT ![EntitySlot(w)] = state], s, f)
    BY <2>1, HoldsKept
  <2> QED  BY <2>1, <2>2 DEF s, f
<1>8. ASSUME NEW i \in Nat, i < parser.end, parser.end < i + MaxParseEntities
      PROVE  ring2[EntitySlot(i)] = parseEntities[EntitySlot(i)]
  <2>1. EntitySlot(i) # EntitySlot(parser.end)
    BY <1>1, <1>8, RingSizes, SlotsApart DEF EntitySlot
  <2>2. EntitySlot(i) \in DOMAIN parseEntities
    BY <1>2, RingSizes
  <2> QED  BY <2>1, <2>2
<1>9. ASSUME NEW j \in 0 .. parser.old.numEntities - 1
      PROVE  ring2[EntitySlot(parser.old.parseEntitiesNum + j)]
               = parseEntities[EntitySlot(parser.old.parseEntitiesNum + j)]
  <2> DEFINE i == parser.old.parseEntitiesNum + j
  <2>1. i \in Nat /\ i < parser.end /\ parser.end < i + MaxParseEntities
    BY <1>1, <1>4, <1>5, RingSizes
  <2> HIDE DEF i
  <2>2. ring2[EntitySlot(i)] = parseEntities[EntitySlot(i)]
    BY <1>8, <2>1
  <2> QED  BY <2>2 DEF i
<1>10. ASSUME NEW j \in 0 .. parser.snap.numEntities - 1
      PROVE  ring2[EntitySlot(parser.snap.parseEntitiesNum + j)]
               = parseEntities[EntitySlot(parser.snap.parseEntitiesNum + j)]
  <2> DEFINE i == parser.snap.parseEntitiesNum + j
  <2>1. i \in Nat /\ i < parser.end /\ parser.end < i + MaxParseEntities
    BY <1>1, <1>3, <1>4, RingSizes
  <2> HIDE DEF i
  <2>2. ring2[EntitySlot(i)] = parseEntities[EntitySlot(i)]
    BY <1>8, <2>1
  <2> QED  BY <2>2 DEF i
<1>11. ring2[EntitySlot(parser.end)] = state
  BY <1>1, <1>2, RingSizes
<1>12. parser.snap.parseEntitiesNum + parser.snap.numEntities = parser.end
  BY <1>1, <1>3
<1> QED  BY <1>7, <1>9, <1>10, <1>11, <1>12

\* A turn takes the merge on by one number.
LEMMA TurnKeepsMerge ==
    ASSUME FramesFit(1), HeldInv, ContentInv, parser.busy,
           NEW state, NEW next, NEW advance \in BOOLEAN,
           Merge(state, next, advance), ParseDeltaEntity(state, next, advance)
    PROVE  MergeInv'
<1> DEFINE n == parser.old.numEntities
           F == frames[parser.snap.messageNum]
           D == ParsedDelta
           Old(j) == parseEntities[EntitySlot(parser.old.parseEntitiesNum + j)]
           Old2(j) == parseEntities'[EntitySlot(parser.old.parseEntitiesNum + j)]
<1>1. /\ UNCHANGED <<frames, snapshots, parseEntitiesNum, aborted>>
      /\ parseEntities' = [parseEntities EXCEPT ![EntitySlot(parser.end)] = state]
  BY DEF ParseDeltaEntity, server
<1>2. /\ parser'.base = parser.base /\ parser'.old = parser.old /\ parser'.entries = next
      /\ parser'.oldIndex = IF advance THEN parser.oldIndex + 1 ELSE parser.oldIndex
      /\ parser'.oldNum = IF advance THEN NextOld(parseEntities') ELSE parser.oldNum
      /\ parser'.snap = [valid |-> parser.snap.valid, messageNum |-> parser.snap.messageNum,
                         parseEntitiesNum |-> parser.snap.parseEntitiesNum,
                         numEntities |-> parser.snap.numEntities + Kept(state)]
  BY ParserAfterEntity DEF HeldInv
<1>3. /\ parser'.snap.messageNum = parser.snap.messageNum
      /\ parser'.snap.parseEntitiesNum = parser.snap.parseEntitiesNum
      /\ parser'.snap.numEntities = parser.snap.numEntities + Kept(state)
      /\ parser'.snap.valid = parser.snap.valid
  BY <1>2
<1>4. SUFFICES ASSUME parser.snap.valid, Sound
               PROVE  /\ parser.base # 0 => ~EntitiesTooOld(parser.old)
                      /\ HoldsIn(parseEntities', parser.old, FrameOf(parser.base))
                      /\ parser'.oldIndex <= n
                      /\ parser'.oldNum = IF parser'.oldIndex < n
                                          THEN Old2(parser'.oldIndex).number ELSE NoMore
                      /\ \E c \in 0 .. NoMore : MergedIn(parseEntities', parser', D, F, c)
  <2>1. /\ Sound' => Sound
        /\ (EntitiesTooOld(parser.old))' = EntitiesTooOld(parser.old)
        /\ (FrameOf(parser.base))' = FrameOf(parser.base)
    BY <1>1, <1>2 DEF Sound, EntitiesTooOld, FrameOf
  <2>2. ParsedDelta' = D /\ frames'[parser'.snap.messageNum] = F
    BY <1>1, <1>2, <1>3, <2>1 DEF ParsedDelta
  <2>3. ASSUME NEW c \in 0 .. NoMore, MergedIn(parseEntities', parser', D, F, c)
        PROVE  \E b \in 0 .. NoMore : MergedTo(b)'
    BY <2>2, <2>3 DEF MergedTo
  <2> QED  BY <1>2, <1>3, <2>1, <2>2, <2>3 DEF MergeInv, Holds, Entity, NoMore
<1>5. /\ parser.base # 0 => ~EntitiesTooOld(parser.old)
      /\ parser.oldIndex <= n
      /\ parser.oldNum = IF parser.oldIndex < n THEN Old(parser.oldIndex).number ELSE NoMore
      /\ Holds(parser.old, FrameOf(parser.base))
      /\ MergeInv
  BY <1>4 DEF ContentInv, MergeInv, Entity
<1>6. PICK c \in 0 .. NoMore : MergedTo(c)
  BY <1>4 DEF ContentInv, MergeInv
<1>7. PICK m \in Numbers : Takes(m, c, state, next, advance)
  BY <1>4, <1>5, <1>6, TurnFacts
<1>8. /\ c <= m
      /\ \A e \in DOMAIN parser.entries : m <= e
      /\ \A j \in 0 .. n - 1 : j >= parser.oldIndex => m <= Old(j).number
      /\ \A e \in DOMAIN F : c <= e => m <= e
      /\ m \in DOMAIN F => state.number = m /\ state.fields = F[m]
      /\ m \notin DOMAIN F => state.number = None
      /\ DOMAIN next = DOMAIN parser.entries \ {m}
      /\ advance = (parser.oldIndex < n /\ Old(parser.oldIndex).number = m)
  BY <1>7 DEF Takes
<1>9. /\ HoldsIn(parseEntities', parser.old, FrameOf(parser.base))
      /\ \A j \in 0 .. n - 1 : Old2(j) = Old(j)
      /\ \A i \in 0 .. parser.snap.numEntities - 1 :
           parseEntities'[EntitySlot(parser.snap.parseEntitiesNum + i)]
             = parseEntities[EntitySlot(parser.snap.parseEntitiesNum + i)]
      /\ parseEntities'[EntitySlot(parser.snap.parseEntitiesNum + parser.snap.numEntities)] = state
  BY <1>1, <1>4, TurnWritesApart
<1>10. /\ n \in Nat /\ parser.oldIndex \in Nat /\ parser.snap.numEntities \in Nat
       /\ parser.old.parseEntitiesNum \in Nat
  BY DEF HeldInv, TypeOK, ParserInv, Snap
<1>11. parser'.oldIndex <= n
  <2>1. CASE advance
    <3>1. parser.oldIndex < n
      BY <1>8, <2>1
    <3> QED  BY <1>2, <1>10, <2>1, <3>1
  <2>2. CASE ~advance
    BY <1>2, <1>5, <2>2
  <2> QED  BY <2>1, <2>2
<1>12. parser'.oldNum = IF parser'.oldIndex < n THEN Old2(parser'.oldIndex).number ELSE NoMore
  <2>1. CASE advance
    <3>1. /\ parser'.oldIndex = parser.oldIndex + 1
          /\ parser'.oldNum = IF parser.oldIndex + 1 >= n THEN NoMore
               ELSE parseEntities'[EntitySlot(parser.old.parseEntitiesNum + parser.oldIndex + 1)].number
      BY <1>2, <2>1 DEF NextOld
    <3>2. parser.old.parseEntitiesNum + parser.oldIndex + 1
            = parser.old.parseEntitiesNum + (parser.oldIndex + 1)
      BY <1>10
    <3>3. (parser.oldIndex + 1 >= n) <=> ~(parser.oldIndex + 1 < n)
      BY <1>10
    <3> QED  BY <3>1, <3>2, <3>3
  <2>2. CASE ~advance
    <3>1. parser'.oldIndex = parser.oldIndex /\ parser'.oldNum = parser.oldNum
      BY <1>2, <2>2
    <3>2. parser.oldIndex < n => Old2(parser.oldIndex) = Old(parser.oldIndex)
      BY <1>9, <1>10
    <3> HIDE DEF Old, Old2
    <3> QED  BY <1>5, <3>1, <3>2
  <2> QED  BY <2>1, <2>2
<1>13. /\ F \in Frames /\ DOMAIN F \subseteq Int /\ DOMAIN parser.entries \subseteq DOMAIN D
       /\ DOMAIN D \subseteq Int /\ DOMAIN FrameOf(parser.base) \subseteq Int
  <2>1. BusyInv /\ F \in Frames
    BY DEF HeldInv, ParserInv, BusyInv, IsSnapshot
  <2>2. DOMAIN F \subseteq Int /\ DOMAIN FrameOf(parser.base) \subseteq Int
    BY <2>1, ParsedStates, FrameEntities DEF Numbers
  <2>3. DOMAIN parser.entries \subseteq DOMAIN D
    BY <2>1 DEF BusyInv
  <2>4. DOMAIN D \subseteq DOMAIN FrameOf(parser.base) \union DOMAIN F
    <3> DEFINE O == FrameOf(parser.base)
    <3> HIDE DEF O, F
    <3>1. DOMAIN Delta(O, F) \subseteq DOMAIN O \union DOMAIN F
      BY DeltaEntries
    <3> QED  BY <3>1 DEF ParsedDelta, O, F
  <2> QED  BY <2>1, <2>2, <2>3, <2>4
<1>14. /\ \A j \in 0 .. n - 1 : Old(j).number \in Int
       /\ \A i, j \in 0 .. n - 1 : i < j => Old(i).number < Old(j).number
  <2>1. \A j \in 0 .. n - 1 : Old(j).number \in DOMAIN FrameOf(parser.base)
    BY <1>5 DEF Holds, HoldsIn
  <2> QED  BY <1>5, <1>13, <2>1 DEF Holds, HoldsIn
<1>15. /\ m \in DOMAIN F => Kept(state) = 1
       /\ m \notin DOMAIN F => Kept(state) = 0
       /\ Kept(state) \in 0 .. 1
  BY <1>8, RingSizes DEF Kept, None, Numbers
<1>16. m \in Int /\ c \in Int /\ m + 1 \in 0 .. NoMore
  BY RingSizes DEF Numbers, NoMore
<1>17. parser'.oldIndex = IF parser.oldIndex < n /\ Old(parser.oldIndex).number = m
                          THEN parser.oldIndex + 1 ELSE parser.oldIndex
  BY <1>2, <1>8
<1>18. MergedIn(parseEntities, parser, D, F, c)
  BY <1>6 DEF MergedTo
<1> DEFINE p == parser
           p2 == parser'
           r == parseEntities
           r2 == parseEntities'
           k == Kept(state)
<1>19. /\ MergedIn(r, p, D, F, c) /\ k \in 0 .. 1 /\ c <= m
       /\ DOMAIN D \subseteq Int /\ DOMAIN F \subseteq Int /\ DOMAIN p.entries \subseteq DOMAIN D
       /\ p.old.numEntities \in Nat /\ p.snap.numEntities \in Nat /\ p.oldIndex \in Nat
       /\ \A j \in 0 .. p.old.numEntities - 1 :
            r[EntitySlot(p.old.parseEntitiesNum + j)].number \in Int
       /\ \A i, j \in 0 .. p.old.numEntities - 1 : i < j =>
            r[EntitySlot(p.old.parseEntitiesNum + i)].number
              < r[EntitySlot(p.old.parseEntitiesNum + j)].number
       /\ \A e \in DOMAIN p.entries : m <= e
       /\ \A j \in 0 .. p.old.numEntities - 1 :
            j >= p.oldIndex => m <= r[EntitySlot(p.old.parseEntitiesNum + j)].number
       /\ \A e \in DOMAIN F : c <= e => m <= e
       /\ \A j \in 0 .. p.old.numEntities - 1 :
            r2[EntitySlot(p.old.parseEntitiesNum + j)] = r[EntitySlot(p.old.parseEntitiesNum + j)]
       /\ \A i \in 0 .. p.snap.numEntities - 1 :
            r2[EntitySlot(p.snap.parseEntitiesNum + i)] = r[EntitySlot(p.snap.parseEntitiesNum + i)]
       /\ m \in DOMAIN F =>
            /\ k = 1
            /\ r2[EntitySlot(p.snap.parseEntitiesNum + p.snap.numEntities)].number = m
            /\ r2[EntitySlot(p.snap.parseEntitiesNum + p.snap.numEntities)].fields = F[m]
       /\ m \notin DOMAIN F => k = 0
       /\ p2.old = p.old /\ p2.snap.parseEntitiesNum = p.snap.parseEntitiesNum
       /\ p2.snap.numEntities = p.snap.numEntities + k
       /\ DOMAIN p2.entries = DOMAIN p.entries \ {m}
       /\ p2.oldIndex =
            IF /\ p.oldIndex < p.old.numEntities
               /\ r[EntitySlot(p.old.parseEntitiesNum + p.oldIndex)].number = m
            THEN p.oldIndex + 1 ELSE p.oldIndex
  BY <1>2, <1>3, <1>8, <1>9, <1>10, <1>13, <1>14, <1>15, <1>17, <1>18
<1> HIDE DEF p, p2, r, r2, k, D, F, n
<1>20. MergedIn(r2, p2, D, F, m + 1)
  BY <1>16, <1>19, MergeTurn
<1>21. \E b \in 0 .. NoMore : MergedIn(parseEntities', parser', D, F, b)
  BY <1>16, <1>20 DEF p2, r2
<1> QED  BY <1>5, <1>9, <1>11, <1>12, <1>21 DEF n, D, F

\* The three turns of the loops keep what is in the rings.
LEMMA TurnsKeepContent ==
    ASSUME FramesFit(1), HeldInv, ContentInv, CopyUnchanged \/ DeltaFromPrevious \/ DeltaFromBaseline
    PROVE  ContentInv'
<1>1. PICK state, next : \E advance \in BOOLEAN :
          Merge(state, next, advance) /\ ParseDeltaEntity(state, next, advance)
  BY TurnsMerge
<1>2. PICK advance \in BOOLEAN :
          Merge(state, next, advance) /\ ParseDeltaEntity(state, next, advance)
  BY <1>1
<1>3. parser.busy /\ HeldInv' /\ RoomInv
  BY TurnsMerge, TurnsKeepHeld DEF ContentInv
<1>4. RingInv'
  BY <1>2, <1>3, TurnKeepsRing
<1>5. RoomInv'
  BY <1>2, <1>3, TurnKeepsRoom
<1>6. MergeInv'
  BY <1>2, <1>3, TurnKeepsMerge
<1> QED  BY <1>4, <1>5, <1>6 DEF ContentInv

\* A delta lists no more entities that are there than the new frame has.
LEMMA DeltaLists ==
    ASSUME NEW O, NEW F \in Frames
    PROVE  LET S == {e \in DOMAIN Delta(O, F) : ~Delta(O, F)[e].removed}
           IN  Cardinality(S) \in Nat /\ Cardinality(S) <= Cardinality(DOMAIN F)
<1> DEFINE S == {e \in DOMAIN Delta(O, F) : ~Delta(O, F)[e].removed}
<1>1. S \subseteq DOMAIN F
  BY DeltaEntries
<1>2. IsFiniteSet(DOMAIN F)
  BY FrameEntities
<1> HIDE DEF S
<1>3. IsFiniteSet(S) /\ Cardinality(S) <= Cardinality(DOMAIN F)
  BY <1>1, <1>2, FS_Subset
<1> QED  BY <1>3, FS_CardinalityType DEF S

\* What a snapshot that a message is a delta of holds when the message is received.
LEMMA BaseIsIntact ==
    ASSUME FramesFit(1), HeldInv, ContentInv, ~parser.busy, Sound, NEW m \in net, m.snapshot,
           m.base # 0, m.num >= serverMessageSequence
    PROVE  LET old == snapshots[Slot(m.base)]
           IN  /\ old.numEntities >= 1
               /\ ~EntitiesTooOld(old) => Holds(old, frames[m.base])
<1> DEFINE old == snapshots[Slot(m.base)]
<1>1. m.base \in Nat /\ IsSnapshot(m.num)
  BY DEF HeldInv, TypeOK, MessagesInv
<1>2. Slot(m.base) \in 0 .. PacketBackup - 1 /\ old \in Snap
  BY <1>1, SlotStates DEF HeldInv
<1>3. old.valid /\ old.messageNum = m.base
  BY BaseOfMessage
<1>4. MaxSnapshotEntities > 0
  <2> DEFINE F == frames[m.num]
  <2>1. F \in Frames
    BY <1>1 DEF IsSnapshot
  <2>2. 1 * Cardinality(DOMAIN F) < MaxSnapshotEntities
    BY <2>1 DEF FramesFit
  <2>3. Cardinality(DOMAIN F) \in Nat
    BY <2>1, FrameEntities
  <2> HIDE DEF F
  <2> QED  BY <2>2, <2>3, RingSizes
<1>5. ASSUME ~EntitiesTooOld(old) PROVE Untouched(old)
  <2>1. CASE Roomy
    BY <1>5, <2>1 DEF Untouched
  <2>2. CASE ~Roomy
    <3>1. ~aborted /\ WrittenTo = parseEntitiesNum
      BY <2>2 DEF Sound, WrittenTo
    <3>2. parseEntitiesNum \in Nat /\ old.parseEntitiesNum \in Nat
      BY <1>2 DEF HeldInv, TypeOK, Snap
    <3>3. parseEntitiesNum < old.parseEntitiesNum + MaxParseEntities
      BY <1>4, <1>5, <3>2, RingSizes DEF EntitiesTooOld
    <3> QED  BY <3>1, <3>3 DEF Untouched
  <2> QED  BY <2>1, <2>2
<1> QED  BY <1>2, <1>3, <1>5 DEF ContentInv, RingInv

\* What is in the rings is what it was as long as nothing is written.
LEMMA RingUnchanged ==
    ASSUME RingInv, UNCHANGED <<snapshots, parseEntities, parseEntitiesNum, aborted>>,
           WrittenTo' = WrittenTo,
           \A i \in 0 .. PacketBackup - 1 : snapshots[i].valid =>
               frames'[snapshots[i].messageNum] = frames[snapshots[i].messageNum]
    PROVE  RingInv'
<1>1. Sound' = Sound
  BY DEF Sound
<1>2. ASSUME NEW i \in 0 .. PacketBackup - 1
      PROVE  /\ (Untouched(snapshots[i]))' => Untouched(snapshots[i])
             /\ (Holds(snapshots[i], frames[snapshots[i].messageNum]))'
                  = HoldsIn(parseEntities, snapshots[i], frames'[snapshots[i].messageNum])
  BY DEF Untouched, EntitiesTooOld, Holds
<1> QED  BY <1>1, <1>2 DEF RingInv, Holds

\* So is what is known of the message being parsed.
LEMMA ParserUnchanged ==
    ASSUME RoomInv, MergeInv, UNCHANGED <<parser, parseEntities, parseEntitiesNum, aborted>>,
           parser.busy =>
               /\ frames'[parser.snap.messageNum] = frames[parser.snap.messageNum]
               /\ (FrameOf(parser.base))' = FrameOf(parser.base)
    PROVE  RoomInv' /\ MergeInv'
<1>1. Sound' = Sound
  BY DEF Sound
<1>2. OldLeft' = OldLeft /\ NewLeft' = NewLeft
  BY DEF OldLeft, NewLeft, NoMore
<1>3. RoomInv'
  BY <1>1, <1>2 DEF RoomInv, NoMore
<1>4. MergeInv'
  <2> SUFFICES ASSUME parser.busy, parser.snap.valid, Sound
               PROVE  /\ (parser.base # 0 => ~EntitiesTooOld(parser.old))'
                      /\ (Holds(parser.old, FrameOf(parser.base)))'
                      /\ (parser.oldIndex <= parser.old.numEntities)'
                      /\ (parser.oldNum = IF parser.oldIndex < parser.old.numEntities
                              THEN Entity(parser.old.parseEntitiesNum + parser.oldIndex).number
                              ELSE NoMore)'
                      /\ \E c \in 0 .. NoMore : MergedTo(c)'
    BY <1>1 DEF MergeInv, NoMore
  <2>1. ParsedDelta' = ParsedDelta
    BY DEF ParsedDelta
  <2>2. PICK c \in 0 .. NoMore : MergedTo(c)
    BY DEF MergeInv
  <2>3. MergedTo(c)'
    BY <2>1, <2>2 DEF MergedTo
  <2>4. (Holds(parser.old, FrameOf(parser.base)))'
    BY DEF MergeInv, Holds
  <2> QED  BY <2>2, <2>3, <2>4 DEF MergeInv, EntitiesTooOld, Entity, NoMore
<1> QED  BY <1>3, <1>4

\* What a message that is received finds: all of it is left, and all of its base.
LEMMA ReceiveKeepsContent ==
    ASSUME FramesFit(1), HeldInv, ContentInv, NEW m \in net, Receive(m)
    PROVE  ContentInv'
<1>1. /\ ~parser.busy /\ m.num >= serverMessageSequence
      /\ UNCHANGED <<frames, snapshots, parseEntities, parseEntitiesNum, aborted>>
  BY DEF Receive, server, rings
<1>2. m.snapshot \in BOOLEAN
  BY DEF HeldInv, MessagesInv
<1>3. CASE ~m.snapshot
  <2>1. parser' = parser
    BY <1>3 DEF Receive
  <2>2. WrittenTo' = WrittenTo
    BY <1>1, <2>1 DEF WrittenTo
  <2> QED  BY <1>1, <2>1, <2>2, RingUnchanged, ParserUnchanged DEF ContentInv
<1>4. CASE m.snapshot
  <2> DEFINE F == frames[m.num]
             O == FrameOf(m.base)
             D == Delta(O, F)
             o == snapshots[Slot(m.base)]
             b == IF m.base = 0 THEN NullSnap ELSE o
             x == IF m.base = 0 THEN NoMore ELSE Entity(o.parseEntitiesNum).number
             v == m.base = 0 \/ ValidDelta(m.base, o)
             s == [valid |-> v, messageNum |-> m.num, parseEntitiesNum |-> parseEntitiesNum,
                   numEntities |-> 0]
  <2>1. parser' = [busy |-> TRUE, entries |-> m.entries, base |-> m.base, old |-> b, snap |-> s,
                   end |-> parseEntitiesNum, oldIndex |-> 0, oldNum |-> x]
    BY <1>4 DEF Receive, ParseSnapshot, Entity
  <2>2. /\ m.base \in Nat /\ F \in Frames /\ m.entries = D
        /\ m.base # 0 => IsSnapshot(m.base)
    BY <1>4 DEF HeldInv, TypeOK, MessagesInv, IsSnapshot
  <2>3. o \in Snap
    BY <2>2, SlotStates DEF HeldInv
  <2>4. /\ o.parseEntitiesNum \in Nat /\ o.numEntities \in Nat
        /\ b.parseEntitiesNum \in Nat /\ b.numEntities \in Nat
        /\ parseEntitiesNum \in Nat
    BY <2>3 DEF Snap, NullSnap, HeldInv, TypeOK
  <2>5. /\ s.messageNum = m.num /\ s.numEntities = 0 /\ s.parseEntitiesNum = parseEntitiesNum
        /\ s.valid = v
    OBVIOUS
  <2>6. Sound' = Sound
    BY <1>1 DEF Sound
  <2>7. DOMAIN D \subseteq Nat
    <3>1. DOMAIN F \subseteq Nat
      BY <2>2, FrameEntities DEF Numbers
    <3>2. DOMAIN O \subseteq Nat
      <4>1. CASE m.base = 0
        BY <4>1 DEF FrameOf
      <4>2. CASE m.base # 0
        <5>1. frames[m.base] \in Frames
          BY <2>2, <4>2 DEF IsSnapshot
        <5> QED  BY <4>2, <5>1, FrameEntities DEF FrameOf, Numbers
      <4> QED  BY <4>1, <4>2
    <3> HIDE DEF O, F
    <3> QED  BY <3>1, <3>2, DeltaEntries
  <2>8. ASSUME Sound, m.base # 0
        PROVE  o.numEntities >= 1 /\ (~EntitiesTooOld(o) => Holds(o, frames[m.base]))
    BY <1>1, <1>4, <2>8, BaseIsIntact
  <2>9. ParsedDelta' = D /\ (FrameOf(parser.base))' = O /\ frames'[parser'.snap.messageNum] = F
    BY <1>1, <2>1, <2>5 DEF ParsedDelta, FrameOf
  <2>10. NoMore \in Nat /\ x \in 0 .. NoMore
    <3>1. Entity(o.parseEntitiesNum).number \in 0 .. NoMore
      BY <2>4, RingStates DEF HeldInv
    <3> QED  BY <3>1, RingSizes DEF NoMore
  <2>11. /\ parser'.busy /\ parser'.entries = D /\ parser'.base = m.base /\ parser'.old = b
         /\ parser'.snap = s /\ parser'.end = parseEntitiesNum /\ parser'.oldIndex = 0
         /\ parser'.oldNum = x
    BY <2>1, <2>2
  <2>12. RingInv'
    <3>1. WrittenTo' = WrittenTo
      BY <1>1, <2>11 DEF WrittenTo
    <3> QED  BY <1>1, <3>1, RingUnchanged DEF ContentInv
  <2> HIDE DEF D, s, v
  <2>13. RoomInv'
    <3> SUFFICES ASSUME Sound
                 PROVE  /\ x # NoMore => 0 < b.numEntities
                        /\ 0 + OldLeft' + Cardinality(NewLeft')
                             <= b.numEntities + Cardinality(DOMAIN F)
      BY <2>5, <2>6, <2>9, <2>11 DEF RoomInv, NoMore
    <3>1. x # NoMore => 0 < b.numEntities
      BY <2>4, <2>8
    <3>2. OldLeft' = IF x = NoMore THEN 0 ELSE b.numEntities - 0
      BY <2>11 DEF OldLeft, NoMore
    <3>3. NewLeft' = {e \in DOMAIN D : ~D[e].removed}
      BY <2>11 DEF NewLeft
    <3>4. Cardinality(NewLeft') \in Nat /\ Cardinality(NewLeft') <= Cardinality(DOMAIN F)
      <4> HIDE DEF O, F
      <4> QED  BY <2>2, <3>3, DeltaLists DEF D
    <3>5. Cardinality(DOMAIN F) \in Nat
      BY <2>2, FrameEntities
    <3> HIDE DEF b, x, F
    <3> QED  BY <2>4, <3>1, <3>2, <3>4, <3>5
  <2>14. MergeInv'
    <3> SUFFICES ASSUME v, Sound
                 PROVE  /\ m.base # 0 => ~EntitiesTooOld(o)
                        /\ Holds(b, O)
                        /\ 0 <= b.numEntities
                        /\ x = IF 0 < b.numEntities THEN Entity(b.parseEntitiesNum + 0).number
                                                    ELSE NoMore
                        /\ MergedIn(parseEntities, parser', D, F, 0)
      <4>1. (EntitiesTooOld(parser.old))' = EntitiesTooOld(b)
        BY <1>1, <2>11 DEF EntitiesTooOld
      <4>2. (Holds(parser.old, FrameOf(parser.base)))' = Holds(b, O)
        BY <1>1, <2>9, <2>11 DEF Holds
      <4>3. MergedIn(parseEntities, parser', D, F, 0) => MergedTo(0)'
        BY <1>1, <2>9 DEF MergedTo
      <4>4. 0 \in 0 .. NoMore
        BY <2>10
      <4> QED  BY <1>1, <2>5, <2>6, <2>11, <4>1, <4>2, <4>3, <4>4 DEF MergeInv, Entity, NoMore
    <3>1. m.base # 0 => ~EntitiesTooOld(o)
      BY DEF v, ValidDelta
    <3>2. Holds(b, O)
      <4>1. CASE m.base = 0
        BY <4>1 DEF NullSnap, FrameOf, Holds, HoldsIn
      <4>2. CASE m.base # 0
        BY <2>8, <3>1, <4>2 DEF FrameOf
      <4> QED  BY <4>1, <4>2
    <3>3. /\ 0 <= b.numEntities
          /\ x = IF 0 < b.numEntities THEN Entity(b.parseEntitiesNum + 0).number ELSE NoMore
      <4>1. CASE m.base = 0
        BY <4>1 DEF NullSnap
      <4>2. CASE m.base # 0
        <5>1. b = o /\ o.numEntities >= 1 /\ o.parseEntitiesNum + 0 = o.parseEntitiesNum
          BY <2>4, <2>8, <4>2
        <5> QED  BY <2>4, <4>2, <5>1
      <4> QED  BY <4>1, <4>2
    <3>4. MergedIn(parseEntities, parser', D, F, 0)
      <4>1. \A e \in DOMAIN D : e \in DOMAIN parser'.entries <=> e >= 0
        BY <2>7, <2>11 DEF D
      <4>2. ASSUME NEW j \in 0 .. b.numEntities - 1
            PROVE  j < 0 <=> parseEntities[EntitySlot(b.parseEntitiesNum + j)].number < 0
        <5>1. b.parseEntitiesNum + j \in Nat
          BY <2>4
        <5>2. Entity(b.parseEntitiesNum + j).number \in 0 .. NoMore
          BY <5>1, RingStates DEF HeldInv
        <5> QED  BY <5>2 DEF Entity
      <4>3. \A e \in DOMAIN F : ~(e < 0)
        BY <2>2, FrameEntities DEF Numbers
      <4>4. parser'.snap.numEntities = 0 /\ parser'.old = b /\ parser'.oldIndex = 0
        BY <2>5, <2>11
      <4> HIDE DEF b, F
      <4> QED  BY <4>1, <4>2, <4>3, <4>4 DEF MergedIn
    <3> QED  BY <3>1, <3>2, <3>3, <3>4
  <2> QED  BY <2>12, <2>13, <2>14 DEF ContentInv
<1> QED  BY <1>2, <1>3, <1>4

\* When nothing is left of the message and of its base, what was written is the new frame.
LEMMA MergedAll ==
    ASSUME HeldInv, MergeInv, parser.busy, parser.snap.valid, Sound,
           NewNum = NoMore, parser.oldNum = NoMore
    PROVE  Holds(parser.snap, frames[parser.snap.messageNum])
<1> DEFINE F == frames[parser.snap.messageNum]
           O == FrameOf(parser.base)
           D == Delta(O, F)
           n == parser.old.numEntities
           k == parser.snap.numEntities
           Old(j) == parseEntities[EntitySlot(parser.old.parseEntitiesNum + j)]
           New(i) == parseEntities[EntitySlot(parser.snap.parseEntitiesNum + i)]
<1>1. PICK c \in 0 .. NoMore : MergedTo(c)
  BY DEF MergeInv
<1>2. DOMAIN parser.entries = {}
  <2>1. DOMAIN parser.entries \subseteq Numbers
    BY ParsedStates
  <2>2. NoMore \notin Numbers
    BY RingSizes DEF Numbers, NoMore
  <2> QED  BY <2>1, <2>2, NewNumIsLeast
<1>3. /\ n \in Nat /\ k \in Nat /\ parser.oldIndex \in Nat /\ parser.old.parseEntitiesNum \in Nat
  BY DEF HeldInv, TypeOK, ParserInv, Snap
<1>4. ~(parser.oldIndex < n)
  <2> SUFFICES ASSUME parser.oldIndex < n PROVE FALSE
    OBVIOUS
  <2> DEFINE i == parser.old.parseEntitiesNum + parser.oldIndex
  <2>1. Entity(i).number = NoMore
    BY DEF MergeInv
  <2>2. i \in Nat
    BY <1>3
  <2> HIDE DEF i
  <2>3. Entity(i).number \in Numbers \union {None}
    BY <2>2, RingStates DEF HeldInv, EntityState
  <2> QED  BY <2>1, <2>3, RingSizes DEF Numbers, None, NoMore
<1>5. /\ \A e \in DOMAIN D : e \in DOMAIN parser.entries <=> e >= c
      /\ \A j \in 0 .. n - 1 : j < parser.oldIndex <=> Old(j).number < c
      /\ \A i \in 0 .. k - 1 : New(i).number \in DOMAIN F /\ New(i).fields = F[New(i).number]
      /\ \A i, j \in 0 .. k - 1 : i < j => New(i).number < New(j).number
      /\ \A e \in DOMAIN F : e < c => \E i \in 0 .. k - 1 : New(i).number = e
  BY <1>1 DEF MergedTo, MergedIn, ParsedDelta
<1>6. \A e \in DOMAIN O : \E j \in 0 .. n - 1 : Old(j).number = e
  BY DEF MergeInv, Holds, HoldsIn
<1>7. F \in Frames
  BY DEF HeldInv, ParserInv, BusyInv, IsSnapshot
<1>8. DOMAIN F \subseteq Nat
  BY <1>7, FrameEntities DEF Numbers
<1>9. ASSUME NEW e \in DOMAIN F PROVE \E i \in 0 .. k - 1 : New(i).number = e
  <2>1. e \in DOMAIN D \/ e \in DOMAIN O
    <3> HIDE DEF O, F
    <3> QED  BY DeltaEntries
  <2> HIDE DEF O, F, D, n, k, Old, New
  <2>2. CASE e \in DOMAIN D
    <3>1. e < c
      BY <1>2, <1>5, <1>8, <2>2
    <3> QED  BY <1>5, <3>1
  <2>3. CASE e \in DOMAIN O
    <3>1. PICK j \in 0 .. n - 1 : Old(j).number = e
      BY <1>6, <2>3
    <3>2. j < parser.oldIndex
      BY <1>3, <1>4
    <3> QED  BY <1>5, <3>1, <3>2
  <2> QED  BY <2>1, <2>2, <2>3
<1> QED  BY <1>5, <1>9 DEF Holds, HoldsIn

\* The end of a message: its snapshot is the new frame, and no other one changes.
LEMMA ParseEndKeepsContent ==
    ASSUME FramesFit(1), HeldInv, ContentInv, ParseEnd
    PROVE  ContentInv'
<1> DEFINE F == frames[parser.snap.messageNum]
           n == parser.snap.messageNum
<1>1. /\ parser.busy /\ NewNum = NoMore /\ parser.oldNum = NoMore
      /\ parseEntitiesNum' = parser.end /\ parser' = Idle
      /\ UNCHANGED <<frames, parseEntities, aborted>>
  BY DEF ParseEnd, server
<1>2. ~parser'.busy
  BY <1>1 DEF Idle
<1>3. RoomInv' /\ MergeInv'
  BY <1>2 DEF RoomInv, MergeInv
<1>4. Sound' = Sound
  BY <1>1 DEF Sound
<1>5. /\ parseEntitiesNum \in Nat /\ parser.end \in Nat /\ parseEntitiesNum <= parser.end
      /\ parser.end = parseEntitiesNum + parser.snap.numEntities
  BY <1>1, WriteBounds
<1>6. ASSUME NEW s \in Snap, Untouched(s)' PROVE Untouched(s) /\ Sound
  <2>1. WrittenTo = parser.end /\ WrittenTo' = parser.end
    BY <1>1, <1>2 DEF WrittenTo
  <2>2. ~EntitiesTooOld(s)' => ~EntitiesTooOld(s)
    BY <1>1, <1>5, RingSizes DEF EntitiesTooOld, Snap
  <2> QED  BY <1>1, <1>6, <2>1, <2>2 DEF Untouched, Sound
<1>7. ASSUME NEW i \in 0 .. PacketBackup - 1, NEW t \in Snap,
             t.messageNum = snapshots[i].messageNum,
             t.parseEntitiesNum = snapshots[i].parseEntitiesNum,
             t.numEntities = snapshots[i].numEntities, t.valid => snapshots[i].valid
      PROVE  /\ t.parseEntitiesNum + t.numEntities <= parser.end
             /\ t.valid /\ Sound => /\ t.numEntities >= 1
                                    /\ Roomy => 2 * t.numEntities < MaxSnapshotEntities
             /\ t.valid /\ Untouched(t)' => Holds(t, frames[t.messageNum])
  <2>1. snapshots[i] \in Snap
    BY DEF HeldInv, TypeOK
  <2>2. PICK s \in Snap : s = snapshots[i]
    BY <2>1
  <2>3. /\ s.parseEntitiesNum + s.numEntities <= parseEntitiesNum
        /\ s.valid /\ Sound => /\ s.numEntities >= 1
                               /\ Roomy => 2 * s.numEntities < MaxSnapshotEntities
        /\ s.valid /\ Untouched(s) => Holds(s, frames[s.messageNum])
    BY <2>2 DEF ContentInv, RingInv
  <2>4. /\ t.messageNum = s.messageNum /\ t.parseEntitiesNum = s.parseEntitiesNum
        /\ t.numEntities = s.numEntities /\ (t.valid => s.valid)
        /\ s.parseEntitiesNum \in Nat /\ s.numEntities \in Nat
    BY <1>7, <2>2 DEF Snap
  <2>5. Untouched(t)' => Untouched(s)
    <3>1. Untouched(t) => Untouched(s)
      BY <2>4 DEF Untouched, EntitiesTooOld
    <3> QED  BY <1>6, <3>1
  <2>6. Holds(s, frames[s.messageNum]) => Holds(t, frames[t.messageNum])
    BY <2>4 DEF Holds, HoldsIn
  <2> QED  BY <1>5, <2>3, <2>4, <2>5, <2>6
<1>8. CASE ~parser.snap.valid
  <2>1. UNCHANGED snapshots
    BY <1>8 DEF ParseEnd
  <2>2. ASSUME NEW i \in 0 .. PacketBackup - 1
        PROVE  /\ snapshots[i].parseEntitiesNum + snapshots[i].numEntities <= parser.end
               /\ snapshots[i].valid /\ Sound =>
                    /\ snapshots[i].numEntities >= 1
                    /\ Roomy => 2 * snapshots[i].numEntities < MaxSnapshotEntities
               /\ snapshots[i].valid /\ (Untouched(snapshots[i]))' =>
                    Holds(snapshots[i], frames[snapshots[i].messageNum])
    <3>1. snapshots[i] \in Snap
      BY DEF HeldInv, TypeOK
    <3>2. PICK t \in Snap : t = snapshots[i]
      BY <3>1
    <3>3. (Untouched(snapshots[i]))' = Untouched(t)'
      BY <2>1, <3>2 DEF Untouched, EntitiesTooOld
    <3> QED  BY <1>7, <3>2, <3>3
  <2>3. RingInv'
    BY <1>1, <1>4, <2>1, <2>2 DEF RingInv, Holds
  <2> QED  BY <1>3, <2>3 DEF ContentInv
<1>9. CASE parser.snap.valid
  <2>1. SetNewSnap(parser.snap) /\ parser.snap \in Snap /\ F \in Frames
    BY <1>1, <1>9 DEF ParseEnd, HeldInv, TypeOK, ParserInv, BusyInv, IsSnapshot
  <2>2. /\ snapshots'[Slot(n)] = parser.snap
        /\ snapshots' \in [0 .. PacketBackup - 1 -> Snap]
        /\ \A i \in 0 .. PacketBackup - 1 : i # Slot(n) =>
             /\ snapshots'[i].valid = (snapshots[i].valid /\ i \notin Skipped(parser.snap))
             /\ snapshots'[i].messageNum = snapshots[i].messageNum
             /\ snapshots'[i].parseEntitiesNum = snapshots[i].parseEntitiesNum
             /\ snapshots'[i].numEntities = snapshots[i].numEntities
    BY <2>1, SlotAfterNewSnap DEF HeldInv
  <2>3. ASSUME Sound
        PROVE  /\ Holds(parser.snap, F) /\ parser.snap.numEntities >= 1
               /\ Roomy => 2 * parser.snap.numEntities < MaxSnapshotEntities
    <3>1. Holds(parser.snap, F)
      BY <1>1, <1>9, <2>3, MergedAll DEF ContentInv
    <3>2. parser.snap.numEntities = Cardinality(DOMAIN F)
      BY <2>1, <3>1, HoldsCount DEF Holds
    <3>3. DOMAIN F # {} /\ (Roomy => 2 * Cardinality(DOMAIN F) < MaxSnapshotEntities)
      BY <2>1 DEF FramesFit, Roomy
    <3>4. Cardinality(DOMAIN F) \in Nat /\ Cardinality(DOMAIN F) # 0
      BY <2>1, <3>3, FrameEntities, FS_EmptySet
    <3> QED  BY <3>1, <3>2, <3>3, <3>4
  <2>4. ASSUME NEW i \in 0 .. PacketBackup - 1
        PROVE  /\ snapshots'[i].parseEntitiesNum + snapshots'[i].numEntities <= parser.end
               /\ snapshots'[i].valid /\ Sound =>
                    /\ snapshots'[i].numEntities >= 1
                    /\ Roomy => 2 * snapshots'[i].numEntities < MaxSnapshotEntities
               /\ snapshots'[i].valid /\ (Untouched(snapshots[i]))' =>
                    Holds(snapshots'[i], frames[snapshots'[i].messageNum])
    <3>1. PICK t \in Snap : t = snapshots'[i]
      BY <2>2
    <3>2. (Untouched(snapshots[i]))' = Untouched(t)'
      BY <3>1 DEF Untouched, EntitiesTooOld
    <3>3. CASE i = Slot(n)
      <4>1. t = parser.snap
        BY <2>2, <3>1, <3>3
      <4>2. t.parseEntitiesNum + t.numEntities = parser.end
        BY <1>1, <1>5, <4>1 DEF HeldInv, ParserInv, BusyInv
      <4>3. Untouched(t)' => Holds(t, frames[t.messageNum])
        BY <1>6, <2>3, <4>1
      <4>4. t.parseEntitiesNum + t.numEntities <= parser.end
        BY <1>5, <4>2
      <4> QED  BY <2>3, <3>1, <3>2, <4>1, <4>3, <4>4
    <3>4. CASE i # Slot(n)
      <4>1. /\ t.messageNum = snapshots[i].messageNum
            /\ t.parseEntitiesNum = snapshots[i].parseEntitiesNum
            /\ t.numEntities = snapshots[i].numEntities
        BY <2>2, <3>1, <3>4
      <4>2. t.valid => snapshots[i].valid
        BY <2>2, <3>1, <3>4
      <4> QED  BY <1>7, <3>1, <3>2, <4>1, <4>2
    <3> QED  BY <3>3, <3>4
  <2>5. RingInv'
    BY <1>1, <1>4, <2>4 DEF RingInv, Holds
  <2> QED  BY <1>3, <2>5 DEF ContentInv
<1> QED  BY <1>8, <1>9

\* What an abandoned message wrote counts against every snapshot from then on.
LEMMA AbortKeepsContent ==
    ASSUME ContentInv, ParseAborts
    PROVE  ContentInv'
<1>1. /\ parser' = Idle /\ aborted'
      /\ UNCHANGED <<frames, snapshots, parseEntities, parseEntitiesNum>>
  BY DEF ParseAborts, server, client, rings
<1>2. RoomInv' /\ MergeInv'
  BY <1>1 DEF RoomInv, MergeInv, Idle
<1>3. Sound' => Sound
  BY <1>1 DEF Sound
<1>4. ASSUME NEW i \in 0 .. PacketBackup - 1, (Untouched(snapshots[i]))'
      PROVE  Untouched(snapshots[i])
  BY <1>1, <1>4 DEF Untouched, EntitiesTooOld
<1>5. RingInv'
  BY <1>1, <1>3, <1>4 DEF ContentInv, RingInv, Holds
<1> QED  BY <1>2, <1>5 DEF ContentInv

\* What the server sends later changes nothing of what is held.
LEMMA SendsKeepContent ==
    ASSUME HeldInv, ContentInv,
           ServerSendsOther \/ \E base \in acked \union {0}, f \in Frames : ServerSends(base, f)
    PROVE  ContentInv'
<1>1. /\ \E f \in Frames \union {NoSnapshot} : frames' = Append(frames, f)
      /\ UNCHANGED <<snapshots, parseEntities, parseEntitiesNum, parser, aborted>>
  BY DEF ServerSendsOther, ServerSends, client, rings
<1>2. /\ Len(frames) \in Nat
      /\ \A n \in 1 .. Len(frames) : frames'[n] = frames[n]
      /\ \A n \in 0 .. Len(frames) : FrameOf(n)' = FrameOf(n)
  BY <1>1, FramesStable DEF HeldInv
<1>3. WrittenTo' = WrittenTo
  BY <1>1 DEF WrittenTo
<1>4. \A i \in 0 .. PacketBackup - 1 : snapshots[i].valid =>
          frames'[snapshots[i].messageNum] = frames[snapshots[i].messageNum]
  BY <1>2 DEF HeldInv, SlotsInv, IsSnapshot
<1>5. ASSUME parser.busy
      PROVE  /\ frames'[parser.snap.messageNum] = frames[parser.snap.messageNum]
             /\ (FrameOf(parser.base))' = FrameOf(parser.base)
  <2>1. /\ parser.snap.messageNum \in 1 .. Len(frames) /\ parser.base \in Nat
        /\ parser.base # 0 => parser.base \in acked
    BY <1>5 DEF HeldInv, ParserInv, BusyInv, IsSnapshot
  <2>2. parser.base \in 0 .. Len(frames)
    BY <1>2, <2>1 DEF HeldInv, TypeOK
  <2>3. parser.base # 0 => frames'[parser.base] = frames[parser.base]
    BY <1>2, <2>2
  <2> QED  BY <1>1, <1>2, <2>1, <2>3 DEF FrameOf
<1> QED  BY <1>1, <1>3, <1>4, <1>5, RingUnchanged, ParserUnchanged DEF ContentInv

\* Neither does an acknowledgement, nor a stuttering step.
LEMMA OthersKeepContent ==
    ASSUME ContentInv, WritePacket \/ UNCHANGED vars
    PROVE  ContentInv'
<1>1. UNCHANGED <<frames, snapshots, parseEntities, parseEntitiesNum, parser, aborted>>
  BY DEF WritePacket, vars, server, client, rings
<1>2. WrittenTo' = WrittenTo /\ (FrameOf(parser.base))' = FrameOf(parser.base)
  BY <1>1 DEF WrittenTo, FrameOf
<1> QED  BY <1>1, <1>2, RingUnchanged, ParserUnchanged DEF ContentInv

\* The invariant at the beginning.
LEMMA ContentInit == Init => ContentInv
<1> SUFFICES ASSUME Init PROVE ContentInv
  OBVIOUS
<1>1. RoomInv /\ MergeInv
  BY DEF Init, RoomInv, MergeInv, Idle
<1>2. ASSUME NEW i \in 0 .. PacketBackup - 1
      PROVE  /\ snapshots[i].parseEntitiesNum + snapshots[i].numEntities <= parseEntitiesNum
             /\ ~snapshots[i].valid
  BY DEF Init, NullSnap
<1>3. RingInv
  BY <1>2 DEF RingInv
<1> QED  BY <1>1, <1>3 DEF ContentInv

\* Every step keeps both invariants, if every frame fits.
LEMMA ContentStep ==
    ASSUME FramesFit(1)
    PROVE  (HeldInv /\ ContentInv) /\ [Next]_vars => (HeldInv /\ ContentInv)'
<1> SUFFICES ASSUME HeldInv, ContentInv, [Next]_vars PROVE ContentInv'
  BY HeldStep
<1> QED  BY SendsKeepContent, ReceiveKeepsContent, TurnsKeepContent, ParseEndKeepsContent,
            AbortKeepsContent, OthersKeepContent DEF Next

\* They hold in every behaviour.
LEMMA ContentSafe ==
    ASSUME FramesFit(1)
    PROVE  Spec => [](HeldInv /\ ContentInv)
  BY HeldInit, ContentInit, ContentStep, PTL DEF Spec

\* A snapshot that getSnapshot returns is the one of that number; if nothing was written
\* over it, its entities are those of the frame.
LEMMA FoundIsFrame ==
    ASSUME HeldInv, ContentInv, NEW n \in 1 .. currentSnap.messageNum, GetSnapshot(n),
           Untouched(snapshots[Slot(n)])
    PROVE  IsFrame(OutEntities(n), frames[n])
<1> DEFINE s == snapshots[Slot(n)]
           a == s.messageNum
           c == currentSnap.messageNum
           k == s.numEntities
           f == frames[n]
           At(i) == parseEntities[EntitySlot(s.parseEntitiesNum + i)]
           out == OutEntities(n)
<1>1. n \in Nat /\ c \in Nat /\ n <= c
  BY DEF HeldInv, TypeOK, Snap
<1>2. Slot(n) \in 0 .. PacketBackup - 1 /\ s \in Snap
  BY <1>1, SlotStates DEF HeldInv
<1>3. s.valid /\ ~(c >= PacketBackup + n)
  BY DEF GetSnapshot
<1>4. IsSnapshot(a) /\ Slot(n) = Slot(a) /\ a <= c /\ c < a + PacketBackup
  BY <1>2, <1>3 DEF HeldInv, SlotsInv
<1>5. a \in Nat /\ k \in Nat /\ s.parseEntitiesNum \in Nat
  BY <1>2 DEF Snap
<1>6. Holds(s, frames[a])
  BY <1>2, <1>3 DEF ContentInv, RingInv
<1>7. out = [i \in 1 .. k |-> parseEntities[EntitySlot(s.parseEntitiesNum + i - 1)]]
  BY DEF OutEntities
<1>8. /\ \A i \in 0 .. k - 1 : At(i).number \in DOMAIN frames[a] /\ At(i).fields = frames[a][At(i).number]
      /\ \A i, j \in 0 .. k - 1 : i < j => At(i).number < At(j).number
  BY <1>6 DEF Holds, HoldsIn
<1>9. a = n
  <2> HIDE DEF a, c
  <2>1. a < n + PacketBackup /\ n < a + PacketBackup
    BY <1>1, <1>3, <1>4, <1>5, RingSizes
  <2>2. n % PacketBackup = a % PacketBackup
    BY <1>4 DEF Slot
  <2>3. PacketBackup \in Nat /\ PacketBackup # 0
    BY RingSizes
  <2>4. ~(n < a)
    BY <1>1, <1>5, <2>1, <2>2, <2>3, SlotsApart
  <2>5. ~(a < n)
    BY <1>1, <1>5, <2>1, <2>2, <2>3, SlotsApart
  <2> QED  BY <1>1, <1>5, <2>4, <2>5
<1>10. f \in Frames
  BY <1>4, <1>9 DEF IsSnapshot
<1>11. k = Cardinality(DOMAIN f)
  BY <1>2, <1>6, <1>9, <1>10, HoldsCount DEF Holds
<1>12. \A i \in 1 .. k : out[i] = At(i - 1) /\ i - 1 \in 0 .. k - 1
  <2> SUFFICES ASSUME NEW i \in 1 .. k PROVE out[i] = At(i - 1) /\ i - 1 \in 0 .. k - 1
    OBVIOUS
  <2>1. s.parseEntitiesNum + i - 1 = s.parseEntitiesNum + (i - 1) /\ i - 1 \in 0 .. k - 1
    BY <1>5
  <2> QED  BY <1>7, <2>1
<1>13. Len(out) = k
  BY <1>5, <1>7
<1>14. /\ \A i \in 0 .. k - 1 : At(i).number \in DOMAIN f /\ At(i).fields = f[At(i).number]
       /\ \A i, j \in 0 .. k - 1 : i < j => At(i).number < At(j).number
  BY <1>8, <1>9
<1> HIDE DEF s, k, f, At, out
<1>15. IsFrame(out, f)
  <2>1. \A i \in 1 .. k : out[i].number \in DOMAIN f /\ out[i].fields = f[out[i].number]
    BY <1>12, <1>14
  <2>2. ASSUME NEW i \in 1 .. k, NEW j \in 1 .. k, i < j PROVE out[i].number < out[j].number
    <3>1. i - 1 < j - 1
      BY <1>5, <2>2
    <3> QED  BY <1>12, <1>14, <3>1
  <2> QED  BY <1>11, <1>13, <2>1, <2>2 DEF IsFrame
<1> QED  BY <1>15 DEF out, f

\* Whatever getSnapshot returns is what the server had in sight in that message, for every
\* size of the rings and all frames that are not empty and fit in the room kept for a new
\* snapshot, as long as no message ended in the middle: the merge of parsePacketEntities
\* is right, and the two tests of age, of the base and of the snapshot returned, are enough.
THEOREM SnapshotsAreFrames ==
    ASSUME FramesFit(1)
    PROVE  Spec => []SnapshotsAreTheServersUntilAbort
<1>1. HeldInv /\ ContentInv => SnapshotsAreTheServersUntilAbort
  <2> SUFFICES ASSUME HeldInv, ContentInv, ~aborted, ~parser.busy,
                      NEW n \in 1 .. currentSnap.messageNum, GetSnapshot(n)
               PROVE  IsFrame(OutEntities(n), frames[n])
    BY DEF SnapshotsAreTheServersUntilAbort, SnapshotsAreTheServers
  <2> DEFINE s == snapshots[Slot(n)]
  <2>1. n \in Nat
    OBVIOUS
  <2>2. s.parseEntitiesNum \in Nat /\ parseEntitiesNum \in Nat
    BY <2>1, SlotStates DEF HeldInv, TypeOK, Snap
  <2>3. ~(parseEntitiesNum >= MaxParseEntities + s.parseEntitiesNum)
    BY DEF GetSnapshot
  <2>4. WrittenTo < s.parseEntitiesNum + MaxParseEntities
    BY <2>2, <2>3, RingSizes DEF WrittenTo
  <2>5. Untouched(s)
    BY <2>4 DEF Untouched
  <2> QED  BY <2>5, FoundIsFrame
<1> QED  BY <1>1, ContentSafe, PTL

\* A snapshot that a later message may still be a delta of is what the server had in sight
\* even after messages that ended in the middle, if two frames fit in that room.  With
\* frames that fit once only it is not: such a message adds the entities of a base that
\* was overwritten to its own before it is abandoned.
THEOREM BasesOfDeltasAreIntact ==
    ASSUME FramesFit(2)
    PROVE  Spec => []DeltaBasesAreIntact
<1>1. HeldInv /\ ContentInv => DeltaBasesAreIntact
  <2> SUFFICES ASSUME HeldInv, ContentInv, NEW n \in 1 .. currentSnap.messageNum,
                      GetSnapshot(n), ~EntitiesTooOld(snapshots[Slot(n)])
               PROVE  IsFrame(OutEntities(n), frames[n])
    BY DEF DeltaBasesAreIntact
  <2>1. Untouched(snapshots[Slot(n)])
    BY DEF Untouched, Roomy
  <2> QED  BY <2>1, FoundIsFrame
<1>2. FramesFit(1)
  <2> SUFFICES ASSUME NEW f \in Frames
               PROVE  DOMAIN f # {} /\ 1 * Cardinality(DOMAIN f) < MaxSnapshotEntities
    BY DEF FramesFit
  <2>1. DOMAIN f # {} /\ 2 * Cardinality(DOMAIN f) < MaxSnapshotEntities
    BY DEF FramesFit
  <2>2. Cardinality(DOMAIN f) \in Nat /\ MaxSnapshotEntities \in Nat
    BY FrameEntities, RingSizes
  <2> QED  BY <2>1, <2>2
<1> QED  BY <1>1, <1>2, ContentSafe, PTL

=============================================================================
