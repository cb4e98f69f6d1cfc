-------------------------- MODULE ServerSnapshots --------------------------
(***************************************************************************)
(* Snapshots of the game, delta-compressed against snapshots that the      *)
(* client has acknowledged.                                                *)
(*                                                                         *)
(* ServerSnapshotManager keeps the last PacketBackup snapshots in a ring   *)
(* and the entities of all of them in one ring of MaxParseEntities states. *)
(* A message says which snapshot it is a delta of; parsePacketEntities     *)
(* merges the entities it lists with those of that snapshot, both in       *)
(* increasing number, and writes the result at the end of the ring, over   *)
(* the oldest entities.                                                    *)
(*                                                                         *)
(* The game server is not part of this repository.  It is modelled by what *)
(* the client expects of it: it sends a snapshot as a delta of one that    *)
(* the client has acknowledged and that is less than PacketBackup messages *)
(* old.  An entity is its number and its fields; a delta holds the fields  *)
(* that changed, the others are those of the old state.  The player state, *)
(* sounds and area mask follow the same snapshot and are left out.         *)
(***************************************************************************)
EXTENDS Integers, Sequences, FiniteSets

CONSTANTS
    NumEntities,            \* entity numbers are 0 .. NumEntities - 1 (ENTITYNUM_NONE)
    Fields,                 \* the fields of an entity
    Values,                 \* values of a field; 0 is what the baselines hold
    PacketBackup,           \* PACKET_BACKUP
    MaxParseEntities,       \* MAX_PARSE_ENTITIES
    MaxSnapshotEntities,    \* maxSnapshotEntities
    Frames,                 \* what the server may have in sight: fields by entity number
    Aborts,                 \* a message may end, or be wrong, in the middle
    MaxMessages,            \* bound: messages sent by the server
    MaxParsed               \* bound: entities parsed, past which nothing is received

ASSUME EntitiesAssumption == NumEntities \in Nat \ {0} /\ 0 \in Values
ASSUME RingsAssumption ==
    /\ PacketBackup \in Nat \ {0}
    /\ MaxParseEntities \in Nat /\ MaxSnapshotEntities \in Nat
    /\ MaxSnapshotEntities < MaxParseEntities
ASSUME FramesAssumption ==
    \A f \in Frames : DOMAIN f \subseteq 0 .. NumEntities - 1
                     /\ \A e \in DOMAIN f : f[e] \in [Fields -> Values]
ASSUME BoundsAssumption == Aborts \in BOOLEAN /\ MaxMessages \in Nat /\ MaxParsed \in Nat

VARIABLES
    frames,                 \* history: frames[n] is the game in message n
    net,                    \* every message sent
    acked,                  \* snapshots the client acknowledged with a delta move
    serverMessageSequence,  \* client: number of the last message received
    currentSnap,            \* client: last valid snapshot
    snapshots,              \* client: ring of snapshots
    parseEntities,          \* client: ring of entities
    parseEntitiesNum,       \* client: entities written since the start
    parser,                 \* client: the snapshot being parsed
    aborted                 \* history: a message ended in the middle

server == <<frames, net, acked>>
rings == <<snapshots, parseEntities, parseEntitiesNum>>
client == <<serverMessageSequence, currentSnap, rings>>
vars == <<server, client, parser, aborted>>

Numbers == 0 .. NumEntities - 1
None == NumEntities         \* ENTITYNUM_NONE
NoMore == NumEntities + 1   \* 99999: no entity is left in the old snapshot

NoFields == [f \in Fields |-> 0]
NoSnapshot == [n \in {None} |-> NoFields]     \* a message without a snapshot

NullSnap == [valid |-> FALSE, messageNum |-> 0, parseEntitiesNum |-> 0, numEntities |-> 0]
Idle == [busy |-> FALSE, entries |-> <<>>, base |-> 0, old |-> NullSnap,
         snap |-> NullSnap, end |-> 0, oldIndex |-> 0, oldNum |-> NoMore]

Init ==
    /\ frames = <<>>
    /\ net = {}
    /\ acked = {}
    /\ serverMessageSequence = 0
    /\ currentSnap = NullSnap
    /\ snapshots = [i \in 0 .. PacketBackup - 1 |-> NullSnap]
    /\ parseEntities = [i \in 0 .. MaxParseEntities - 1 |-> [number |-> 0, fields |-> NoFields]]
    /\ parseEntitiesNum = 0
    /\ parser = Idle
    /\ aborted = FALSE

----------------------------------------------------------------------------
\* The server (external).

\* What differs between the old frame and the new one, by entity: that it is gone,
\* or its fields that are not those of the old frame or of the baseline.
Delta(old, new) ==
    LET From(e) == IF e \in DOMAIN old THEN old[e] ELSE NoFields
        Changed(e) == {x \in Fields : new[e][x] # From(e)[x]}
        Listed == {e \in DOMAIN old \union DOMAIN new :
                     e \notin DOMAIN old \/ e \notin DOMAIN new \/ old[e] # new[e]}
    IN  [e \in Listed |->
            IF e \in DOMAIN new
            THEN [removed |-> FALSE, fields |-> [x \in Changed(e) |-> new[e][x]]]
            ELSE [removed |-> TRUE, fields |-> <<>>]]

ServerSends(base, f) ==
    LET n == Len(frames) + 1 IN
    /\ n <= MaxMessages
    /\ base # 0 => base \in acked /\ n - base < PacketBackup
    /\ frames' = Append(frames, f)
    /\ net' = net \union
         {[num |-> n, snapshot |-> TRUE, base |-> base,
           entries |-> Delta(IF base = 0 THEN <<>> ELSE frames[base], f)]}
    /\ UNCHANGED <<acked, client, parser, aborted>>

\* A message with other operations only.
ServerSendsOther ==
    /\ Len(frames) < MaxMessages
    /\ frames' = Append(frames, NoSnapshot)
    /\ net' = net \union {[num |-> Len(frames) + 1, snapshot |-> FALSE, base |-> 0,
                           entries |-> <<>>]}
    /\ UNCHANGED <<acked, client, parser, aborted>>

----------------------------------------------------------------------------
\* Parsing a snapshot: one step per turn of the loops of parsePacketEntities.

Slot(n) == n % PacketBackup
EntitySlot(i) == i % MaxParseEntities

\* readOldSnapshot: whether the entities of the old snapshot are still there, and
\* will be while the new one is written.
\* Mutant: nothing is kept for the new snapshot.
EntitiesTooOldLate(old) == parseEntitiesNum > old.parseEntitiesNum + MaxParseEntities
EntitiesTooOld(old) ==
    parseEntitiesNum > old.parseEntitiesNum + (MaxParseEntities - MaxSnapshotEntities)

ValidDelta(base, old) == old.valid /\ old.messageNum = base /\ ~EntitiesTooOld(old)

ParseSnapshot(m) ==
    LET old == snapshots[Slot(m.base)] IN
    parser' =
      [busy |-> TRUE, entries |-> m.entries, base |-> m.base,
       old |-> IF m.base = 0 THEN NullSnap ELSE old,
       snap |-> [valid |-> m.base = 0 \/ ValidDelta(m.base, old), messageNum |-> m.num,
                 parseEntitiesNum |-> parseEntitiesNum, numEntities |-> 0],
       end |-> parseEntitiesNum,
       oldIndex |-> 0,
       \* the first entity of the old snapshot, even if it has none
       oldNum |-> IF m.base = 0 THEN NoMore
                  ELSE parseEntities[EntitySlot(old.parseEntitiesNum)].number]

\* A message with the number of the last one, or a later one, is received.
Receive(m) ==
    /\ ~parser.busy
    /\ parseEntitiesNum <= MaxParsed
    /\ m.num >= serverMessageSequence
    /\ serverMessageSequence' = m.num
    /\ IF m.snapshot THEN ParseSnapshot(m) ELSE UNCHANGED parser
    /\ UNCHANGED <<server, currentSnap, rings, aborted>>

NewNum ==
    IF DOMAIN parser.entries = {} THEN NoMore
    ELSE CHOOSE e \in DOMAIN parser.entries : \A d \in DOMAIN parser.entries : e <= d

\* oldState is a pointer into the ring: what it points to is read when it is used.
OldState == parseEntities[EntitySlot(parser.old.parseEntitiesNum + parser.oldIndex)]

\* Whether the old snapshot has more entities.
NextOld(ring) ==
    IF parser.oldIndex + 1 >= parser.old.numEntities THEN NoMore
    ELSE ring[EntitySlot(parser.old.parseEntitiesNum + parser.oldIndex + 1)].number

\* parseDeltaEntity: the state is written, and counted unless it is removed.
ParseDeltaEntity(state, nextEntries, advance) ==
    /\ parseEntities' = [parseEntities EXCEPT ![EntitySlot(parser.end)] = state]
    /\ LET kept == IF state.number = None THEN 0 ELSE 1
       IN  parser' = [parser EXCEPT
             !.entries = nextEntries,
             !.end = @ + kept,
             !.snap.numEntities = @ + kept,
             !.oldIndex = IF advance THEN @ + 1 ELSE @,
             !.oldNum = IF advance THEN NextOld(parseEntities') ELSE @]
    /\ UNCHANGED <<server, serverMessageSequence, currentSnap, snapshots, parseEntitiesNum,
                   aborted>>

Rest == [e \in DOMAIN parser.entries \ {NewNum} |-> parser.entries[e]]

\* LoadDelta of an entity: removed, or the old state with the fields that changed.
LoadDelta(from, e) ==
    LET delta == parser.entries[e]
    IN  IF delta.removed THEN [number |-> None, fields |-> NoFields]
        ELSE [number |-> e,
              fields |-> [x \in Fields |->
                  IF x \in DOMAIN delta.fields THEN delta.fields[x] ELSE from[x]]]

\* An entity that the message does not list is copied from the old snapshot.
CopyUnchanged ==
    /\ parser.busy
    /\ parser.oldNum < NewNum
    /\ ParseDeltaEntity(OldState, parser.entries, TRUE)

DeltaFromPrevious ==
    /\ parser.busy
    /\ parser.oldNum = NewNum /\ NewNum # NoMore
    /\ ParseDeltaEntity(LoadDelta(OldState.fields, NewNum), Rest, TRUE)

DeltaFromBaseline ==
    /\ parser.busy
    /\ parser.oldNum > NewNum
    /\ ParseDeltaEntity(LoadDelta(NoFields, NewNum), Rest, FALSE)

\* setNewSnap: the snapshots that were skipped are not valid any more.
SetNewSnap(snap) ==
    LET first == currentSnap.messageNum + 1
        oldMessageNum == IF snap.messageNum >= PacketBackup + first
                         THEN snap.messageNum - (PacketBackup - 1) ELSE first
        skipped == {Slot(n) : n \in oldMessageNum .. snap.messageNum - 1}
    IN  /\ currentSnap' = snap
        /\ snapshots' = [i \in DOMAIN snapshots |->
              IF i = Slot(snap.messageNum) THEN snap
              ELSE [snapshots[i] EXCEPT !.valid = @ /\ i \notin skipped]]

ParseEnd ==
    /\ parser.busy
    /\ NewNum = NoMore /\ parser.oldNum = NoMore
    /\ parseEntitiesNum' = parser.end
    /\ IF parser.snap.valid THEN SetNewSnap(parser.snap) ELSE UNCHANGED <<currentSnap, snapshots>>
    /\ parser' = Idle
    /\ UNCHANGED <<server, serverMessageSequence, parseEntities, aborted>>

\* An exception leaves the ring as it is and parseEntitiesNum as it was.
ParseAborts ==
    /\ Aborts
    /\ parser.busy
    /\ parser' = Idle
    /\ aborted' = TRUE
    /\ UNCHANGED <<server, client>>

----------------------------------------------------------------------------
\* writePacket: the move is a delta move only if the last message was a valid
\* snapshot.  Mutant: it is one as soon as there is a valid snapshot.
DeltaMoveAnyMessage == currentSnap.valid
DeltaMove == currentSnap.valid /\ serverMessageSequence = currentSnap.messageNum

WritePacket ==
    /\ ~parser.busy
    /\ DeltaMove
    /\ acked' = acked \union {serverMessageSequence}
    /\ UNCHANGED <<frames, net, client, parser, aborted>>

\* getSnapshot: whether a snapshot is returned, and with which entities.
\* Mutant: it looks at the entities one too late.
GetSnapshotLate(n) ==
    LET found == snapshots[Slot(n)] IN
    /\ ~(currentSnap.messageNum >= PacketBackup + n)
    /\ found.valid
    /\ ~(parseEntitiesNum > MaxParseEntities + found.parseEntitiesNum)
GetSnapshot(n) ==
    LET found == snapshots[Slot(n)] IN
    /\ ~(currentSnap.messageNum >= PacketBackup + n)
    /\ found.valid
    /\ ~(parseEntitiesNum >= MaxParseEntities + found.parseEntitiesNum)

OutEntities(n) ==
    LET found == snapshots[Slot(n)]
    IN  [i \in 1 .. found.numEntities |->
            parseEntities[EntitySlot(found.parseEntitiesNum + i - 1)]]

----------------------------------------------------------------------------
Next ==
    \/ \E base \in acked \union {0}, f \in Frames : ServerSends(base, f)
    \/ ServerSendsOther
    \/ \E m \in net : Receive(m)
    \/ CopyUnchanged \/ DeltaFromPrevious \/ DeltaFromBaseline
    \/ ParseEnd
    \/ ParseAborts
    \/ WritePacket

Spec == Init /\ [][Next]_vars

----------------------------------------------------------------------------
Snap == [valid : BOOLEAN, messageNum : 0 .. MaxMessages, parseEntitiesNum : Nat,
         numEntities : Nat]

\* Every variable keeps its type; no message is a delta of itself or a later one.
TypeOK ==
    /\ frames \in Seq(Frames \union {NoSnapshot})
    /\ \A m \in net : m.num \in 1 .. Len(frames) /\ m.base \in 0 .. m.num - 1
    /\ acked \subseteq 1 .. Len(frames)
    /\ serverMessageSequence \in 0 .. Len(frames)
    /\ currentSnap \in Snap
    /\ snapshots \in [0 .. PacketBackup - 1 -> Snap]
    /\ parseEntities \in [0 .. MaxParseEntities - 1 ->
                            [number : Numbers \union {None}, fields : [Fields -> Values]]]
    /\ parseEntitiesNum \in Nat
    /\ parser.snap \in Snap /\ parser.old \in Snap
    /\ parser.oldNum \in 0 .. NoMore
    /\ aborted \in BOOLEAN

IsFrame(entities, f) ==
    /\ Len(entities) = Cardinality(DOMAIN f)
    /\ \A i \in 1 .. Len(entities) :
         /\ entities[i].number \in DOMAIN f
         /\ entities[i].fields = f[entities[i].number]
    /\ \A i, j \in 1 .. Len(entities) : i < j => entities[i].number < entities[j].number

\* Whatever getSnapshot returns for a snapshot number, between two messages, is
\* what the server had in sight in that message: the right snapshot, with all of
\* its entities and no other, none of them overwritten by a later message.
SnapshotsAreTheServers ==
    ~parser.busy =>
        \A n \in 1 .. currentSnap.messageNum :
            GetSnapshot(n) => IsFrame(OutEntities(n), frames[n])

\* The same, while every snapshot that was begun was parsed to its end.
SnapshotsAreTheServersUntilAbort == ~aborted => SnapshotsAreTheServers

\* The snapshots that a later message may still be a delta of are intact even after
\* messages that ended in the middle: what those wrote is not counted, and the
\* room kept for a new snapshot has to make up for it.
DeltaBasesAreIntact ==
    ~parser.busy =>
        \A n \in 1 .. currentSnap.messageNum :
            GetSnapshot(n) /\ ~EntitiesTooOld(snapshots[Slot(n)])
                => IsFrame(OutEntities(n), frames[n])

\* "Delta from invalid frame (not supposed to happen!)": the snapshot that a message
\* is a delta of is held, valid and under its number, for every message that the
\* channel would still accept, however late and after however many others.
DeltaBasesAreHeld ==
    \A m \in net :
        m.base # 0 /\ m.num >= serverMessageSequence =>
            /\ snapshots[Slot(m.base)].valid
            /\ snapshots[Slot(m.base)].messageNum = m.base

=============================================================================
