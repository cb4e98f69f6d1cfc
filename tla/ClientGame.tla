----------------------------- MODULE ClientGame -----------------------------
(***************************************************************************)
(* The client game: the snapshots and the server commands that a          *)
(* connection received, turned into what an application is told.           *)
(*                                                                         *)
(* A tick of ServerConnection parses the messages that arrived (phase      *)
(* "receive"), enters the game at the first active snapshot, and runs      *)
(* SnapshotProcessor::processSnapshots (phase "process"), which reads the  *)
(* snapshots that follow the last one read, executes the server commands   *)
(* up to each of them and moves the entities to it.  When the time of the  *)
(* current snapshot is before that of an earlier tick, as after a game     *)
(* state, the tick throws ServerTimeWentBackward before the rest of it: a  *)
(* client that finds its first active snapshot in such a tick is active,   *)
(* and never runs the init of the processor.                               *)
(*                                                                         *)
(* The processor copies a snapshot into one of MAX_ACTIVE_SNAPSHOTS slots, *)
(* chosen by the number of the message, and snap and nextSnap point to     *)
(* slots.  When as many messages as there are slots separate two snapshots *)
(* the second is copied over the first: "aliased" records it.              *)
(*                                                                         *)
(* The state of an entity is its number and the number of the snapshot it  *)
(* was last sent in.  All server commands are "cs" commands for one config *)
(* string, and its value is the map and the command that set it.  The ring *)
(* of snapshots and its entities are the subject of ServerSnapshots; here  *)
(* a snapshot can be read until PacketBackup more messages arrived.  The   *)
(* break out of the loop of processSnapshots has a condition that is never *)
(* true (time >= snapTime && time < snapTime), so every snapshot is        *)
(* transitioned to at once and the simulated time has no part in it.       *)
(* Interpolation and teleport flags are left out.                          *)
(***************************************************************************)
EXTENDS Integers, FiniteSets, FiniteSetsExt

CONSTANTS
    NumEntities,        \* entity numbers are 0 .. NumEntities - 1
    PacketBackup,       \* PACKET_BACKUP
    CommandRing,        \* number of server commands kept
    Scenes,             \* what a snapshot may show: whether it is active, its entities
    MaxCommands,        \* bound: server commands sent
    MaxMessages,        \* bound: messages of the server
    MaxMaps             \* bound: game states sent

ASSUME SizesAssumption ==
    /\ NumEntities \in Nat \ {0} /\ PacketBackup \in Nat \ {0}
    /\ CommandRing \in Nat \ {0}
    /\ Scenes \subseteq [active : BOOLEAN, ents : SUBSET (0 .. NumEntities - 1)]
ASSUME BoundsAssumption ==
    MaxCommands \in Nat /\ MaxMessages \in Nat /\ MaxMaps \in Nat

Entities == 0 .. NumEntities - 1
None == -1
Slots == 0 .. 1                     \* MAX_ACTIVE_SNAPSHOTS

VARIABLES
    messages,               \* messages the server sent
    serverTime,             \* time of the server's last snapshot
    map,                    \* game states the server sent
    serverMessageSequence,  \* number of the last message received
    remoteCommandSequence,  \* last server command received
    commands,               \* ring of the server commands received
    configString,           \* the config string, in ServerGameState
    received,               \* valid snapshots, by number, that were not read yet
    currentSnap,            \* ServerSnapshotManager::currentSnap
    snapActive, newSnapshots,
    frameServerTime,        \* ClientTime: time of the snapshot of the last tick
    phase,
    activeSnapshots, snap, nextSnap,
    processedSnapshotNum, latestSnapshotNum, latestCommandSequence,
    prevSnap,               \* processSnapshots: snap at its start
    current, next, valid,   \* clientEnts: states, and the entities with currentValid
    view,                   \* application: the entities it was told of
    monitor,                \* application: the config string it was told of
    announced,              \* application: snapshot shown at the last snapshotParsed
    aliased,                \* history: a snapshot was copied over the one that is shown
    entered,                \* history: SnapshotProcessor::init was called
    reactivated,            \* history: an inactive snapshot was left
    overrun,                \* history: a command was executed that the ring had lost
    misread                 \* history: another command was executed than the next one

server == <<messages, serverTime, map>>
manager == <<serverMessageSequence, remoteCommandSequence, commands, configString,
             currentSnap>>
pointers == <<activeSnapshots, snap, nextSnap>>
entityInfos == <<current, next, valid>>
application == <<view, announced>>
executed == <<entered, latestCommandSequence, monitor, overrun, misread>>
vars == <<server, manager, received, snapActive, frameServerTime, newSnapshots, phase,
          pointers, processedSnapshotNum, latestSnapshotNum, prevSnap, entityInfos,
          application, executed, aliased, reactivated>>

Snapshot == [num : 0 .. MaxMessages, active : BOOLEAN, time : 0 .. MaxMessages,
             ents : SUBSET Entities, cmd : 0 .. MaxCommands]
NoSnapshot == [num |-> 0, active |-> TRUE, time |-> 0, ents |-> {}, cmd |-> 0]
Value == [map : 0 .. MaxMaps, cmd : 0 .. MaxCommands]
EntityState == [number : Entities, sent : 0 .. MaxMessages]

\* The constructor leaves latestCommandSequence out, so it starts with any value: one
\* below the commands of the server or one above them.
Init ==
    /\ messages = 0 /\ serverTime = 0 /\ map = 0
    /\ serverMessageSequence = 0 /\ remoteCommandSequence = 0
    /\ commands = [s \in 0 .. CommandRing - 1 |-> [map |-> 0, cmd |-> 0]]
    /\ configString = [map |-> 0, cmd |-> 0]
    /\ received = << >> /\ currentSnap = NoSnapshot
    /\ snapActive = FALSE /\ newSnapshots = FALSE /\ frameServerTime = 0
    /\ phase = "receive"
    /\ activeSnapshots = [s \in Slots |-> NoSnapshot]
    /\ snap = None /\ nextSnap = None /\ prevSnap = None
    /\ processedSnapshotNum = 0 /\ latestSnapshotNum = 0
    /\ latestCommandSequence \in {0, MaxCommands}
    /\ current = [e \in Entities |-> [number |-> 0, sent |-> 0]]
    /\ next = current /\ valid = {}
    /\ view = << >> /\ monitor = [map |-> 0, cmd |-> 0] /\ announced = 0
    /\ aliased = FALSE /\ reactivated = FALSE /\ entered = FALSE
    /\ overrun = FALSE /\ misread = FALSE

-----------------------------------------------------------------------------
(***************************************************************************)
(* The messages of the server, and ServerConnection::receive               *)
(***************************************************************************)

\* As addCommands, with the index of the command before it is counted.
addCommandsBefore(last) ==
    [s \in DOMAIN commands |->
        LET new == {c \in remoteCommandSequence + 1 .. last : (c - 1) % CommandRing = s}
        IN  IF new = {} THEN commands[s] ELSE [map |-> map, cmd |-> Max(new)]]

\* The commands up to the given one, with what the last command of each slot says.
addCommands(last) ==
    [s \in DOMAIN commands |->
        LET new == {c \in remoteCommandSequence + 1 .. last : c % CommandRing = s}
        IN  IF new = {} THEN commands[s] ELSE [map |-> map, cmd |-> Max(new)]]

\* A message that does not arrive.  Its commands are in the next one.
Lose ==
    /\ phase = "receive" /\ messages < MaxMessages
    /\ messages' = messages + 1
    /\ UNCHANGED <<serverTime, map, manager, received, snapActive, frameServerTime,
                   newSnapshots, phase, pointers, processedSnapshotNum, latestSnapshotNum, prevSnap,
                   entityInfos, application, executed, aliased, reactivated>>

\* What every message does: the commands it holds are stored, and ServerGameState
\* applies them at once.
Receive(last) ==
    /\ phase = "receive" /\ messages < MaxMessages
    /\ messages' = messages + 1
    /\ serverMessageSequence' = messages'
    /\ commands' = addCommands(last)
    /\ UNCHANGED <<snapActive, frameServerTime, phase, pointers, processedSnapshotNum,
                   latestSnapshotNum, prevSnap, entityInfos, application, executed, aliased,
                   reactivated>>

ConfigstringCommand(last) ==
    IF last > remoteCommandSequence THEN [map |-> map, cmd |-> last] ELSE configString

ReceiveCommands ==
    \E last \in remoteCommandSequence .. MaxCommands :
        /\ Receive(last)
        /\ remoteCommandSequence' = last
        /\ configString' = ConfigstringCommand(last)
        /\ UNCHANGED <<serverTime, map, received, currentSnap, newSnapshots>>

\* A new map: the config strings are those of the game state, and the numbering of the
\* commands continues where the server says.  The time of the server starts again.
ParseGameState ==
    /\ map < MaxMaps
    /\ \E last \in remoteCommandSequence .. MaxCommands :
        /\ Receive(last)
        /\ remoteCommandSequence' = last
        /\ map' = map + 1
        /\ configString' = [map |-> map', cmd |-> last]
    /\ serverTime' = 0
    /\ UNCHANGED <<received, currentSnap, newSnapshots>>

ParseSnapshot ==
    \E last \in remoteCommandSequence .. MaxCommands, scene \in Scenes :
        /\ Receive(last)
        /\ remoteCommandSequence' = last
        /\ configString' = ConfigstringCommand(last)
        /\ serverTime' = serverTime + 1
        /\ currentSnap' = [num |-> messages', active |-> scene.active, time |-> serverTime',
                           ents |-> scene.ents, cmd |-> last]
        /\ received' = [n \in DOMAIN received \cup {messages'} |->
                            IF n = messages' THEN currentSnap' ELSE received[n]]
        /\ newSnapshots' = TRUE
        /\ UNCHANGED map

-----------------------------------------------------------------------------
(***************************************************************************)
(* ServerConnection::tick after the messages                               *)
(***************************************************************************)

\* checkTime finds the first active snapshot.
HasEntered == ~snapActive /\ newSnapshots /\ currentSnap.active

\* The snapshots that can be read: the others have left the ring.
Gettable(n) == n \in DOMAIN received /\ currentSnap.num < PacketBackup + n

After(n, f) == [m \in {k \in DOMAIN f : k > n} |-> f[m]]

\* setTime: a snapshot is valid, and its time is before that of an earlier tick.
WentBackward == currentSnap.time < frameServerTime

\* setCGameTime throws ServerTimeWentBackward.  checkTime comes before it, and initSnapshot
\* and the tick of the module do not follow.
TickThrows ==
    /\ phase = "receive" /\ WentBackward
    /\ snapActive' = (snapActive \/ HasEntered)
    /\ newSnapshots' = FALSE
    /\ UNCHANGED <<server, manager, received, frameServerTime, phase, pointers,
                   processedSnapshotNum, latestSnapshotNum, prevSnap, entityInfos,
                   application, executed, aliased, reactivated>>

\* setCGameTime, with SnapshotProcessor::init when the game is entered, and the test of
\* the number of the current snapshot.
Tick ==
    LET processed == IF HasEntered THEN serverMessageSequence ELSE processedSnapshotNum
        latest == IF HasEntered THEN serverMessageSequence ELSE latestSnapshotNum
    IN  /\ phase = "receive" /\ ~WentBackward
        /\ snapActive' = (snapActive \/ HasEntered)
        /\ entered' = (entered \/ HasEntered)
        /\ newSnapshots' = FALSE
        /\ frameServerTime' = currentSnap.time
        /\ processedSnapshotNum' = processed
        /\ IF HasEntered
           THEN /\ latestCommandSequence' = remoteCommandSequence
                /\ monitor' = configString
           ELSE UNCHANGED <<latestCommandSequence, monitor>>
        /\ IF currentSnap.num < latest
           THEN latestSnapshotNum' = latest /\ UNCHANGED phase  \* SnapNumWentBackward
           ELSE latestSnapshotNum' = currentSnap.num /\ phase' = "process"
        /\ received' = After(processed, received)
        /\ prevSnap' = snap
        /\ UNCHANGED <<server, manager, pointers, entityInfos, application, overrun,
                       misread, aliased, reactivated>>

-----------------------------------------------------------------------------
(***************************************************************************)
(* SnapshotProcessor                                                       *)
(***************************************************************************)

Readable == {n \in processedSnapshotNum + 1 .. latestSnapshotNum : Gettable(n)}

\* The slot readNextSnapshot copies snapshot n to.
SlotOf(n) == (n - 1) % Cardinality(Slots)

\* Nothing left to read.
NothingRead ==
    /\ Readable = {}
    /\ processedSnapshotNum' = latestSnapshotNum
    /\ received' = After(latestSnapshotNum, received)

\* As readNextSnapshot, counting all snapshots as processed.
readNextSnapshotOnce(n) ==
    /\ n = Min(Readable)
    /\ processedSnapshotNum' = latestSnapshotNum
    /\ received' = After(latestSnapshotNum, received)
    /\ activeSnapshots' = [activeSnapshots EXCEPT ![SlotOf(n)] = received[n]]
    /\ aliased' = (aliased \/ snap = SlotOf(n))

\* The first snapshot after the last one processed that can be read.
readNextSnapshot(n) ==
    /\ n = Min(Readable)
    /\ processedSnapshotNum' = n
    /\ received' = After(n, received)
    /\ activeSnapshots' = [activeSnapshots EXCEPT ![SlotOf(n)] = received[n]]
    /\ aliased' = (aliased \/ snap = SlotOf(n))

\* The given commands are read in the ring, where the slot of a command may hold a later
\* one, and executed.
executeCommands(new) ==
    /\ latestCommandSequence' = Max({latestCommandSequence} \cup new)
    /\ monitor' = IF new = {} THEN monitor ELSE commands[Max(new) % CommandRing]
    /\ overrun' = \/ overrun
                  \/ entered /\ \E c \in new : c + CommandRing <= remoteCommandSequence
    /\ misread' = \/ misread
                  \/ entered /\ \E c \in new : commands[c % CommandRing].cmd # c
    /\ UNCHANGED entered

\* As executeNewServerCommands, without the command of the snapshot itself.
executeNewServerCommandsBefore(last) == executeCommands(latestCommandSequence + 1 .. last - 1)

\* The commands after the last one executed, up to that of a snapshot.
executeNewServerCommands(last) == executeCommands(latestCommandSequence + 1 .. last)

\* processSnapshots returns without a broadcast.
NoInitialSnapshot ==
    /\ phase = "process" /\ snap = None
    /\ NothingRead
    /\ phase' = "receive"
    /\ UNCHANGED <<server, manager, snapActive, frameServerTime, newSnapshots, pointers,
                   latestSnapshotNum, prevSnap, entityInfos, application, executed, aliased,
                   reactivated>>

\* A snapshot that is not active is passed over, and the next tick reads another.
SkipInactiveSnapshot ==
    /\ phase = "process" /\ snap = None
    /\ \E n \in Readable :
        /\ readNextSnapshot(n)
        /\ ~received[n].active
    /\ phase' = "receive"
    /\ UNCHANGED <<server, manager, snapActive, frameServerTime, newSnapshots, snap,
                   nextSnap, latestSnapshotNum, prevSnap, entityInfos, application, executed,
                   reactivated>>

StatesOf(s) == [e \in s.ents |-> [number |-> e, sent |-> s.num]]
Overwrite(f, g) == [x \in DOMAIN f |-> IF x \in DOMAIN g THEN g[x] ELSE f[x]]

\* The application's copy of an entity is the state it was last told of, when it is told
\* of the given states in the order of clientEnts.
ViewOf(states) ==
    [n \in {states[e].number : e \in DOMAIN states} |->
        states[Max({e \in DOMAIN states : states[e].number = n})].sent]
Merge(f, g) == [x \in DOMAIN f \cup DOMAIN g |-> IF x \in DOMAIN g THEN g[x] ELSE f[x]]

setInitialSnapshot ==
    /\ phase = "process" /\ snap = None
    /\ \E n \in Readable :
        LET found == received[n]
        IN  /\ readNextSnapshot(n)
            /\ found.active
            /\ snap' = SlotOf(n)
            /\ executeNewServerCommands(found.cmd)
            /\ current' = Overwrite(current, StatesOf(found))
            /\ next' = Overwrite(next, StatesOf(found))
            /\ valid' = valid \cup found.ents
            /\ view' = Merge(view, ViewOf(StatesOf(found)))
    /\ UNCHANGED <<server, manager, snapActive, frameServerTime, newSnapshots, phase,
                   nextSnap, latestSnapshotNum, prevSnap, announced, reactivated>>

\* NextSnapTimeWentBackward leaves the snapshot as the next one.
setNextSnap ==
    /\ phase = "process" /\ snap # None /\ nextSnap = None
    /\ \E n \in Readable :
        /\ readNextSnapshot(n)
        /\ nextSnap' = SlotOf(n)
        /\ next' = Overwrite(next, StatesOf(received[n]))
    /\ phase' = IF activeSnapshots'[nextSnap'].time < activeSnapshots'[snap].time
                THEN "receive" ELSE "process"
    /\ UNCHANGED <<server, manager, snapActive, frameServerTime, newSnapshots, snap,
                   latestSnapshotNum, prevSnap, current, valid, application, executed, reactivated>>

\* entityAdded: from an active snapshot, for those that are new, with their new state;
\* from an inactive one, for all of them, with the state clientEnts holds.
Added(from, target) ==
    IF from.active THEN [e \in target.ents \ from.ents |-> StatesOf(target)[e]]
                   ELSE [e \in target.ents |-> current[e]]

\* entityModified: the comparison is of the address of a pointer and always differs.
Modified(from, target) ==
    [n \in {current[e].number : e \in from.ents} \cap target.ents |-> StatesOf(target)[n]]

\* As Removed, when the entities of the next snapshot are looked up in the current one.
RemovedSwapped(from, target) == IF from.active THEN target.ents \ from.ents ELSE {}

\* As NowValid, without clearing.
NowValidKept(from, target) == valid \cup target.ents

\* The entities the transition makes valid: those of the current snapshot are cleared.
NowValid(from, target) == (valid \ from.ents) \cup target.ents

Removed(from, target) == IF from.active THEN from.ents \ target.ents ELSE {}

transitionSnapshot ==
    LET from == activeSnapshots[snap]
        target == activeSnapshots[nextSnap]
        told == Merge(Merge(view, ViewOf(Added(from, target))),
                      ViewOf(Modified(from, target)))
    IN  /\ phase = "process" /\ snap # None /\ nextSnap # None
        /\ executeNewServerCommands(target.cmd)
        /\ view' = [n \in DOMAIN told \ Removed(from, target) |-> told[n]]
        /\ current' = [e \in Entities |->
                           IF e \in target.ents THEN next[e] ELSE current[e]]
        /\ valid' = NowValid(from, target)
        /\ snap' = nextSnap /\ nextSnap' = None
        /\ reactivated' = (reactivated \/ ~from.active)
        /\ UNCHANGED <<server, manager, received, snapActive, frameServerTime, newSnapshots,
                       phase, activeSnapshots, processedSnapshotNum, latestSnapshotNum, prevSnap,
                       next, announced, aliased>>

\* The end of processSnapshots: the broadcast compares pointers to slots.
EndOfSnapshots ==
    /\ phase = "process" /\ snap # None /\ nextSnap = None
    /\ NothingRead
    /\ announced' = IF prevSnap # snap THEN activeSnapshots[snap].num ELSE announced
    /\ phase' = "receive"
    /\ UNCHANGED <<server, manager, snapActive, frameServerTime, newSnapshots, pointers,
                   latestSnapshotNum, prevSnap, entityInfos, view, executed, aliased, reactivated>>

-----------------------------------------------------------------------------
processSnapshots ==
    NoInitialSnapshot \/ SkipInactiveSnapshot \/ setInitialSnapshot \/ setNextSnap
        \/ transitionSnapshot \/ EndOfSnapshots

Next == Lose \/ ReceiveCommands \/ ParseGameState \/ ParseSnapshot
            \/ Tick \/ TickThrows \/ processSnapshots

Spec == Init /\ [][Next]_vars

\* The application calls tick again and again, and a call of it ends.
FairSpec == Spec /\ WF_vars(Tick \/ TickThrows) /\ WF_vars(processSnapshots)
-----------------------------------------------------------------------------
(***************************************************************************)
(* Properties                                                              *)
(***************************************************************************)

\* The types of the variables.
TypeOK ==
    /\ messages \in 0 .. MaxMessages /\ map \in 0 .. MaxMaps
    /\ frameServerTime \in 0 .. MaxMessages
    /\ serverMessageSequence \in 0 .. messages /\ currentSnap \in Snapshot
    /\ remoteCommandSequence \in 0 .. MaxCommands /\ configString \in Value
    /\ commands \in [0 .. CommandRing - 1 -> Value]
    /\ DOMAIN received \subseteq 1 .. messages /\ \A n \in DOMAIN received : received[n].num = n
    /\ activeSnapshots \in [Slots -> Snapshot]
    /\ {snap, nextSnap, prevSnap} \subseteq Slots \cup {None}
    /\ processedSnapshotNum \in 0 .. latestSnapshotNum /\ latestSnapshotNum \in 0 .. messages
    /\ latestCommandSequence \in 0 .. MaxCommands /\ monitor \in Value
    /\ current \in [Entities -> EntityState] /\ next \in [Entities -> EntityState]
    /\ valid \subseteq Entities /\ DOMAIN view \subseteq Entities

Shown == activeSnapshots[snap]
Idle == phase = "receive"

\* Between two ticks getEntity finds the entities of the current snapshot and no other,
\* each in the state that the snapshot has for it, unless a snapshot was copied over the
\* one that was shown.
EntitiesAreTheSnapshots ==
    Idle /\ snap # None /\ ~aliased =>
        /\ valid = Shown.ents
        /\ \A e \in valid : current[e] = StatesOf(Shown)[e]

\* An application that keeps the entities it is told of (entityAdded, entityModified,
\* entityRemoved) has those of the current snapshot between two ticks, unless a snapshot
\* was copied over the one that was shown or an inactive one was left.
ToldIsTheWorld ==
    Idle /\ snap # None /\ ~aliased /\ ~reactivated =>
        view = [e \in Shown.ents |-> Shown.num]

\* From SnapshotProcessor::init on every server command is executed once, in order and with
\* its own text, unless it had left the ring: the config string the monitors were told of
\* is that of the last command executed.
CommandsExecutedAsSent ==
    entered /\ ~overrun => ~misread /\ monitor.cmd = latestCommandSequence

\* From SnapshotProcessor::init on the server commands that belong to a snapshot are
\* executed by the time its entities are shown, whatever messages were lost and however
\* many snapshots one tick goes through.
CommandsMatchTheSnapshot ==
    Idle /\ snap # None /\ entered /\ ~aliased => latestCommandSequence >= Shown.cmd

\* An active snapshot that arrives when the client is active is shown sooner or later, or a
\* later one, unless it leaves the ring before, or the time of the server stays before that
\* of an earlier tick for ever: as long as it does every tick throws
\* ServerTimeWentBackward, and nothing is shown.
EventuallyShown ==
    \A n \in 1 .. MaxMessages :
        (n \in DOMAIN received /\ n = currentSnap.num /\ received[n].active /\ snapActive)
            ~> \/ snap # None /\ activeSnapshots[snap].num >= n
               \/ currentSnap.num >= PacketBackup + n
               \/ []WentBackward

-----------------------------------------------------------------------------
(***************************************************************************)
(* Statements of the documentation that do not hold                        *)
(***************************************************************************)

\* "Whether or not this entity info exists in world."
ValidIsInTheWorld == Idle /\ snap # None => valid = Shown.ents

\* "Called when an entity has just been added/spawned.", with "The entity that was
\* added.": the application knows of no entity that is not in the snapshot.
AddedAreInTheWorld ==
    Idle /\ snap # None /\ ~aliased => DOMAIN view = Shown.ents

\* "Called after the snapshot was parsed."
ParsedIsAnnounced == Idle /\ snap # None => announced = Shown.num

\* "Called after the insertion/modification of a new configstring."
MonitorsFollowTheGame ==
    entered /\ ~overrun /\ latestCommandSequence = remoteCommandSequence
        => monitor = configString

\* "This should never happen": the number of the current snapshot is less than the latest.
SnapNumNeverGoesBackward == entered => currentSnap.num >= latestSnapshotNum

\* "at this point the client has entered the game"
ActiveHasEntered == snapActive => entered

\* "NOTE: don't think it's an issue", of a time before that of an earlier tick: an active
\* snapshot is shown nevertheless.
BackwardIsNoIssue ==
    \A n \in 1 .. MaxMessages :
        (n \in DOMAIN received /\ n = currentSnap.num /\ received[n].active /\ snapActive)
            ~> snap # None /\ activeSnapshots[snap].num >= n
=============================================================================
