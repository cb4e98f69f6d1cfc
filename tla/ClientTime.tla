----------------------------- MODULE ClientTime -----------------------------
(***************************************************************************)
(* The clock of the client: ClientTime simulates the time of the server    *)
(* between snapshots, ClientTimeManager and ServerSnapshotManager drive it *)
(* on every tick and notify the application of the first snapshot and of   *)
(* the restarts of the server.                                             *)
(*                                                                         *)
(* Both clocks count in one unit.  The network may delay a snapshot, so    *)
(* the time in it is any time since the last one; several snapshots may be *)
(* parsed before the tick goes on to the clock.                            *)
(***************************************************************************)
EXTENDS Integers

CONSTANTS
    ResetTime,          \* resetTime (500 ms)
    MaxDeltaTime,       \* maxDeltaTime (100 ms)
    Margin,             \* 5 ms: the clock is ahead of the server's from there on
    SlowDown,           \* 2 ms
    SpeedUp,            \* 1 ms
    Nudges,             \* values of setTimeNudge
    FirstServerCount,   \* SNAPFLAG_SERVERCOUNT when the client connects
    ServerTimeRestarts, \* a restart of the server may set its time back
    MaxTime,            \* bound: time of the client and time of the server
    MaxRestarts,        \* bound: restarts of the server
    MaxSnapshots        \* bound: snapshots parsed

ASSUME DurationsAssumption ==
    /\ {ResetTime, MaxDeltaTime, Margin, SlowDown, SpeedUp} \subseteq Nat
    /\ MaxDeltaTime < ResetTime
ASSUME NudgesAssumption == Nudges \subseteq Int
ASSUME ServerAssumption == FirstServerCount \in {0, 1} /\ ServerTimeRestarts \in BOOLEAN
ASSUME BoundsAssumption == {MaxTime, MaxRestarts, MaxSnapshots} \subseteq Nat

VARIABLES
    now,                \* the time of the client
    snap,               \* currentSnap, as far as its time and flags go
    newSnapshots,       \* a snapshot was parsed since the last tick
    snapActive,         \* the first active snapshot was seen
    lastServerCount,    \* SNAPFLAG_SERVERCOUNT in lastSnapFlags
    realTimeStart, serverStartTime, frameServerTime,
    simulatedServerTime, oldSimulated, extrapolation, timeNudge,
    serverCount,        \* the server's SNAPFLAG_SERVERCOUNT
    parsed,             \* history: snapshots parsed
    restarts,           \* history: restarts of the server
    restartsNotified,   \* history: calls of serverRestartedHandler
    resets,             \* history: times the clock was reset to a snapshot
    threw,              \* history: a tick threw ServerTimeWentBackward
    fastAdjust          \* history: distance to the server's time before and after
                        \* the last fast adjustment in the game

clock == <<realTimeStart, serverStartTime, frameServerTime, simulatedServerTime,
           oldSimulated, extrapolation>>
flags == <<newSnapshots, snapActive, lastServerCount, restartsNotified>>
server == <<serverCount, restarts>>
history == <<resets, threw, fastAdjust>>
vars == <<now, snap, parsed, flags, clock, timeNudge, server, history>>

Init ==
    /\ now = 0
    /\ snap = [valid |-> FALSE, time |-> 0, active |-> TRUE, count |-> 0]
    /\ newSnapshots = FALSE
    /\ snapActive = FALSE
    /\ lastServerCount = 0
    /\ realTimeStart = 0
    /\ serverStartTime = 0
    /\ frameServerTime = 0
    /\ simulatedServerTime = 0
    /\ oldSimulated = 0
    /\ extrapolation = "None"
    /\ timeNudge = 0
    /\ serverCount = FirstServerCount
    /\ parsed = 0
    /\ restarts = 0
    /\ restartsNotified = 0
    /\ resets = 0
    /\ threw = FALSE
    /\ fastAdjust = [before |-> 0, after |-> 0]

----------------------------------------------------------------------------
Distance(a, b) == IF a < b THEN b - a ELSE a - b    \* getTimeDelta

\* The part of ServerSnapshotManager::parseSnapshot after the snapshot is parsed.
ParseSnapshot(time, active) ==
    /\ snap' = [valid |-> TRUE, time |-> time, active |-> active, count |-> serverCount]
    /\ newSnapshots' = TRUE
    /\ parsed' = parsed + 1
    /\ IF snap.valid /\ snap.count # serverCount
       THEN realTimeStart' = now /\ serverStartTime' = time
       ELSE UNCHANGED <<realTimeStart, serverStartTime>>
    /\ UNCHANGED <<now, snapActive, lastServerCount, restartsNotified, frameServerTime,
                   simulatedServerTime, oldSimulated, extrapolation, timeNudge, server,
                   history>>

\* checkTime: the first active snapshot, or a look at the server's restarts.
Entering == ~snapActive /\ newSnapshots /\ snap.active

\* Mutant: a restart is noticed on every tick.
RestartNotForgotten ==
    /\ UNCHANGED lastServerCount
    /\ restartsNotified' = restartsNotified + (IF snap.count # lastServerCount THEN 1 ELSE 0)
ServerRestarted ==
    /\ lastServerCount' = snap.count
    /\ restartsNotified' = restartsNotified + (IF snap.count # lastServerCount THEN 1 ELSE 0)

CheckTime ==
    /\ newSnapshots' = FALSE
    /\ snapActive' = (snapActive \/ Entering)
    /\ IF ~snapActive /\ newSnapshots
       THEN /\ lastServerCount' = IF snap.active THEN snap.count ELSE lastServerCount
            /\ UNCHANGED restartsNotified
       ELSE ServerRestarted

\* initRemoteTime, on entering.
Start == IF Entering THEN snap.time ELSE serverStartTime

Simulated == Start + (now - realTimeStart)

\* "guarantee that time will never flow backwards".  Mutant: it is not.
NudgedOnly == Simulated - timeNudge
Nudged == IF Simulated - timeNudge < oldSimulated THEN oldSimulated ELSE Simulated - timeNudge

\* Half of what the distance is too large by is taken off, ahead or behind.
FastStart == Start - (Distance(Nudged, snap.time) - MaxDeltaTime) \div 2

Ahead == Simulated + Margin >= snap.time

\* adjustTimeDelta.
Reset ==
    /\ realTimeStart' = now
    /\ serverStartTime' = snap.time
    /\ simulatedServerTime' = snap.time
    /\ oldSimulated' = snap.time
    /\ extrapolation' = IF Ahead THEN "Extrapolate" ELSE "Catchup"
    /\ resets' = resets + 1
    /\ UNCHANGED fastAdjust

KeepSimulated ==
    /\ simulatedServerTime' = Nudged
    /\ oldSimulated' = Nudged
    /\ UNCHANGED <<realTimeStart, resets>>

FastAdjust ==
    /\ KeepSimulated
    /\ serverStartTime' = FastStart
    /\ extrapolation' = IF Ahead THEN "Extrapolate" ELSE "Catchup"
    /\ fastAdjust' = IF ~snapActive THEN fastAdjust
         ELSE [before |-> Distance(Simulated, snap.time),
               after |-> Distance(FastStart + (now - realTimeStart), snap.time)]

SlowAdjust ==
    /\ KeepSimulated
    /\ serverStartTime' = IF Ahead THEN Start - SlowDown ELSE Start + SpeedUp
    /\ extrapolation' = IF Ahead THEN "None" ELSE "Catchup"
    /\ UNCHANGED fastAdjust

\* Mutant: a clock that is too far away is not reset.
TooFarNever == FALSE
TooFar == Distance(Nudged, snap.time) > ResetTime

AdjustTimeDelta ==
    IF TooFar THEN Reset
    ELSE IF Distance(Nudged, snap.time) > MaxDeltaTime THEN FastAdjust
    ELSE SlowAdjust

----------------------------------------------------------------------------
\* ClientTimeManager::setTime, on every tick.

\* Without a snapshot the start of time moves along.
TickWithoutSnapshot ==
    /\ ~snap.valid
    /\ CheckTime
    /\ realTimeStart' = now
    /\ UNCHANGED <<now, snap, parsed, serverStartTime, frameServerTime, simulatedServerTime,
                   oldSimulated, extrapolation, timeNudge, server, history>>

\* The exception leaves what checkTime and initRemoteTime have done.
TickThrows ==
    /\ snap.valid
    /\ snap.time < frameServerTime
    /\ CheckTime
    /\ serverStartTime' = Start
    /\ simulatedServerTime' = IF Entering THEN Simulated ELSE simulatedServerTime
    /\ threw' = TRUE
    /\ UNCHANGED <<now, snap, parsed, realTimeStart, frameServerTime, oldSimulated, extrapolation,
                   timeNudge, server, resets, fastAdjust>>

TickSetsTime ==
    /\ snap.valid
    /\ snap.time >= frameServerTime
    /\ CheckTime
    /\ frameServerTime' = snap.time
    /\ IF newSnapshots
       THEN AdjustTimeDelta
       ELSE /\ KeepSimulated
            /\ serverStartTime' = Start
            /\ extrapolation' = IF Ahead THEN "Extrapolate" ELSE "Catchup"
            /\ UNCHANGED fastAdjust
    /\ UNCHANGED <<now, snap, parsed, timeNudge, server, threw>>

Tick == TickWithoutSnapshot \/ TickThrows \/ TickSetsTime

SetTimeNudge(n) ==
    /\ timeNudge # n
    /\ timeNudge' = n
    /\ UNCHANGED <<now, snap, parsed, flags, clock, server, history>>

\* External: the clock, and the server.
PassTime ==
    /\ now < MaxTime
    /\ now' = now + 1
    /\ UNCHANGED <<snap, parsed, flags, clock, timeNudge, server, history>>

ServerRestarts ==
    /\ restarts < MaxRestarts
    /\ restarts' = restarts + 1
    /\ serverCount' = 1 - serverCount
    /\ UNCHANGED <<now, snap, parsed, flags, clock, timeNudge, history>>

\* The server is inactive for a client that has not entered yet.
SnapshotArrives(time, active) ==
    /\ time >= snap.time \/ (ServerTimeRestarts /\ snap.count # serverCount)
    /\ (snap.valid /\ snap.active) => active
    /\ parsed < MaxSnapshots
    /\ ParseSnapshot(time, active)

Next ==
    \/ \E time \in 0 .. MaxTime, active \in BOOLEAN : SnapshotArrives(time, active)
    \/ Tick
    \/ \E n \in Nudges : SetTimeNudge(n)
    \/ PassTime
    \/ ServerRestarts

Spec == Init /\ [][Next]_vars

\* The application keeps calling tick.
FairSpec == Spec /\ WF_vars(Tick)

----------------------------------------------------------------------------
\* Every variable keeps its type, and a restart is notified at most once more
\* than the server restarted.
TypeOK ==
    /\ now \in 0 .. MaxTime
    /\ snap \in [valid : BOOLEAN, time : 0 .. MaxTime, active : BOOLEAN, count : {0, 1}]
    /\ {newSnapshots, snapActive, threw} \subseteq BOOLEAN
    /\ lastServerCount \in {0, 1} /\ serverCount \in {0, 1}
    /\ {realTimeStart, frameServerTime} \subseteq 0 .. MaxTime
    /\ {serverStartTime, simulatedServerTime, oldSimulated} \subseteq Int
    /\ extrapolation \in {"None", "Extrapolate", "Catchup"}
    /\ timeNudge \in Nudges \union {0}
    /\ parsed \in 0 .. MaxSnapshots
    /\ restarts \in 0 .. MaxRestarts /\ restartsNotified \in 0 .. MaxRestarts + 1
    /\ resets \in Nat

\* "guarantee that time will never flow backwards": no tick, adjustment or change
\* of the nudge turns the simulated time back.
TimeNeverFlowsBackwards == [][simulatedServerTime' >= simulatedServerTime]_vars

\* The same for every step that does not reset the clock to a snapshot, as long as
\* no tick threw.
OnlyResetsTurnBack ==
    [][resets' # resets \/ threw' \/ simulatedServerTime' >= simulatedServerTime]_vars

\* After a tick that saw a new snapshot the simulated time is near the server's,
\* wherever delays, restarts and earlier adjustments had taken it.
NearAfterSnapshot ==
    [][newSnapshots /\ ~newSnapshots' /\ snap.time >= frameServerTime
         => Distance(simulatedServerTime', snap.time) <= ResetTime]_vars

\* serverRestartedHandler is "called when the server has restarted (when a restart
\* command has been issued on the server)", never more often.
RestartsAreReal == restartsNotified <= restarts

\* The "fast adjust" of a clock that is too far from the server's brings it nearer.
FastAdjustBringsNearer == fastAdjust.after <= fastAdjust.before

=============================================================================
