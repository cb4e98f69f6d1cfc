-------------------------- MODULE ClientTimeProofs --------------------------
(***************************************************************************)
(* Proofs about ClientTime, for every choice of its durations, any nudge,  *)
(* and any number of snapshots, ticks and restarts.                        *)
(***************************************************************************)
EXTENDS ClientTime, TLAPS

\* The restarts that have still to be seen: those between the flags that checkTime
\* saw last and the snapshot, and between the snapshot and the server.
Unseen == (IF lastServerCount # snap.count THEN 1 ELSE 0)
              + (IF snap.count # serverCount THEN 1 ELSE 0)

\* A notification stands for a restart that was not notified before; a server whose
\* count is not 0 when the client connects is good for one more.
RestartsAccounted == restartsNotified + Unseen <= restarts + FirstServerCount

\* Unless a tick threw, the simulated time is the one that the next tick compares with.
OldIsCurrent == ~threw => oldSimulated = simulatedServerTime

\* checkTime has nothing to see before the first snapshot.
NewMeansValid == newSnapshots => snap.valid

\* The inductive invariant.
TimeInv == TypeOK /\ RestartsAccounted /\ OldIsCurrent /\ NewMeansValid

----------------------------------------------------------------------------
\* The values that a tick computes are times.
LEMMA TimesAreNumbers ==
    ASSUME TypeOK
    PROVE  {Start, Simulated, Nudged, FastStart} \subseteq Int
<1>1. Entering \in BOOLEAN
  BY DEF Entering
<1>2. now \in Int /\ snap.time \in Int /\ realTimeStart \in Int /\ oldSimulated \in Int
      /\ serverStartTime \in Int
  BY BoundsAssumption DEF TypeOK
<1>3. timeNudge \in Int
  BY NudgesAssumption DEF TypeOK
<1>4. Start \in Int
  BY <1>2 DEF Start
<1>5. Simulated \in Int
  BY <1>2, <1>4 DEF Simulated
<1>6. Nudged \in Int
  BY <1>2, <1>3, <1>5 DEF Nudged
<1>7. Distance(Nudged, snap.time) \in Int
  BY <1>2, <1>6 DEF Distance
<1>8. FastStart \in Int
  BY <1>4, <1>7, DurationsAssumption DEF FastStart
<1> QED  BY <1>4, <1>5, <1>6, <1>8

\* "guarantee that time will never flow backwards", of the value that a tick computes.
LEMMA NudgedNotBefore ==
    ASSUME TypeOK
    PROVE  Nudged >= oldSimulated
<1>1. Simulated \in Int /\ oldSimulated \in Int /\ timeNudge \in Int
  BY TimesAreNumbers, NudgesAssumption DEF TypeOK
<1> QED  BY <1>1 DEF Nudged

\* checkTime notifies only a restart that it had not seen.
LEMMA CheckTimeAccounts ==
    ASSUME TypeOK, RestartsAccounted, CheckTime, UNCHANGED <<snap, server>>
    PROVE  /\ newSnapshots' = FALSE
           /\ snapActive' \in BOOLEAN
           /\ lastServerCount' \in {0, 1}
           /\ restartsNotified' \in Nat
           /\ RestartsAccounted'
<1>1. newSnapshots' = FALSE /\ snapActive' \in BOOLEAN
  BY DEF CheckTime, TypeOK, Entering
<1>2. lastServerCount' \in {lastServerCount, snap.count}
  BY DEF CheckTime, ServerRestarted
<1>3. snap.count \in {0, 1} /\ restartsNotified \in Nat /\ restarts \in Nat
  BY BoundsAssumption DEF TypeOK
<1>4. lastServerCount' \in {0, 1}
  BY <1>2, <1>3 DEF TypeOK
<1>5. restartsNotified' = restartsNotified \/ restartsNotified' = restartsNotified + 1
  BY <1>3 DEF CheckTime, ServerRestarted
<1>6. RestartsAccounted'
  <2>1. FirstServerCount \in Int /\ UNCHANGED <<snap, serverCount, restarts>>
    BY ServerAssumption DEF server
  <2>2. CASE UNCHANGED <<lastServerCount, restartsNotified>>
    BY <2>1, <2>2 DEF RestartsAccounted, Unseen
  <2>3. CASE lastServerCount' = snap.count /\ restartsNotified' = restartsNotified
    BY <1>3, <2>1, <2>3 DEF RestartsAccounted, Unseen
  <2>4. CASE ServerRestarted
    BY <1>3, <2>1, <2>4 DEF RestartsAccounted, Unseen, ServerRestarted
  <2> QED  BY <2>2, <2>3, <2>4 DEF CheckTime
<1> QED  BY <1>1, <1>3, <1>4, <1>5, <1>6

----------------------------------------------------------------------------
\* The invariant holds when the client connects.
LEMMA TimeInit == Init => TimeInv
<1> SUFFICES ASSUME Init PROVE TimeInv
  OBVIOUS
<1>1. /\ {newSnapshots, snapActive, threw} \subseteq BOOLEAN
      /\ snap.valid = FALSE /\ snap.active = TRUE
  BY DEF Init
<1>2. snap \in [valid : BOOLEAN, time : 0 .. MaxTime, active : BOOLEAN, count : {0, 1}]
  BY BoundsAssumption DEF Init
<1>3. TypeOK
  BY <1>1, <1>2, BoundsAssumption, ServerAssumption DEF Init, TypeOK
<1>4. RestartsAccounted
  BY ServerAssumption DEF Init, RestartsAccounted, Unseen
<1>5. OldIsCurrent /\ NewMeansValid
  BY DEF Init, OldIsCurrent, NewMeansValid
<1> QED  BY <1>3, <1>4, <1>5 DEF TimeInv

\* A snapshot is parsed.
LEMMA SnapshotArrivesKeeps ==
    ASSUME TimeInv, NEW time \in 0 .. MaxTime, NEW active \in BOOLEAN,
           SnapshotArrives(time, active)
    PROVE  TimeInv'
<1> USE DEF TimeInv
<1>1. ParseSnapshot(time, active) /\ parsed < MaxSnapshots
  BY DEF SnapshotArrives
<1>2. /\ snap' \in [valid : BOOLEAN, time : 0 .. MaxTime, active : BOOLEAN, count : {0, 1}]
      /\ snap'.valid = TRUE
      /\ snap'.count = serverCount
  BY <1>1 DEF ParseSnapshot, TypeOK
<1>3. {newSnapshots', snapActive', threw'} \subseteq BOOLEAN
  BY <1>1 DEF ParseSnapshot, TypeOK, history
<1>4. /\ realTimeStart' \in 0 .. MaxTime
      /\ serverStartTime' \in Int
      /\ parsed' \in 0 .. MaxSnapshots
  BY <1>1, BoundsAssumption DEF ParseSnapshot, TypeOK
<1>5. UNCHANGED <<now, lastServerCount, restartsNotified, frameServerTime, simulatedServerTime,
                  oldSimulated, extrapolation, timeNudge, serverCount, restarts, resets, threw>>
  BY <1>1 DEF ParseSnapshot, server, history
<1>6. TypeOK'
  BY <1>2, <1>3, <1>4, <1>5 DEF TypeOK
<1>7. RestartsAccounted'
  <2>1. restartsNotified \in Int /\ restarts \in Int /\ FirstServerCount \in Int
    BY ServerAssumption, BoundsAssumption DEF TypeOK
  <2> QED  BY <1>2, <1>5, <2>1 DEF RestartsAccounted, Unseen
<1>8. OldIsCurrent' /\ NewMeansValid'
  BY <1>2, <1>5 DEF OldIsCurrent, NewMeansValid
<1> QED  BY <1>6, <1>7, <1>8

\* A tick, whichever way it ends.
LEMMA TickKeeps ==
    ASSUME TimeInv, Tick
    PROVE  TimeInv'
<1> USE DEF TimeInv
<1>1. CheckTime /\ UNCHANGED <<now, snap, parsed, timeNudge, serverCount, restarts>>
  BY DEF Tick, TickWithoutSnapshot, TickThrows, TickSetsTime, server
<1>2. /\ newSnapshots' = FALSE
      /\ snapActive' \in BOOLEAN
      /\ lastServerCount' \in {0, 1}
      /\ restartsNotified' \in Nat
      /\ RestartsAccounted'
  BY <1>1, CheckTimeAccounts DEF server
<1>3. restartsNotified' \in 0 .. MaxRestarts + 1
  <2> DEFINE n == restartsNotified'
             r == restarts'
             u == Unseen'
  <2>1. n \in Nat /\ r \in 0 .. MaxRestarts /\ u \in Nat
    BY <1>1, <1>2 DEF TypeOK, Unseen
  <2>2. n + u <= r + FirstServerCount
    BY <1>2 DEF RestartsAccounted
  <2>3. MaxRestarts \in Nat /\ FirstServerCount \in 0 .. 1
    BY ServerAssumption, BoundsAssumption
  <2> HIDE DEF n, r, u
  <2>4. n \in 0 .. MaxRestarts + 1
    BY <2>1, <2>2, <2>3
  <2> QED  BY <2>4 DEF n
<1>4. ASSUME /\ {realTimeStart', frameServerTime'} \subseteq 0 .. MaxTime
             /\ {serverStartTime', simulatedServerTime', oldSimulated'} \subseteq Int
             /\ extrapolation' \in {"None", "Extrapolate", "Catchup"}
             /\ resets' \in Nat /\ threw' \in BOOLEAN
             /\ OldIsCurrent'
      PROVE  TimeInv'
  <2>1. {newSnapshots', snapActive', threw'} \subseteq BOOLEAN
    BY <1>2, <1>4
  <2>2. TypeOK'
    BY <1>1, <1>2, <1>3, <1>4, <2>1 DEF TypeOK
  <2>3. NewMeansValid'
    BY <1>2 DEF NewMeansValid
  <2> QED  BY <1>2, <1>4, <2>2, <2>3
<1>5. {Start, Simulated, Nudged, FastStart} \subseteq Int
  BY TimesAreNumbers
<1>6. now \in 0 .. MaxTime /\ snap.time \in 0 .. MaxTime
  BY DEF TypeOK
<1>7. CASE TickWithoutSnapshot
  <2>1. UNCHANGED <<serverStartTime, frameServerTime, simulatedServerTime, oldSimulated,
                    extrapolation, resets, threw>> /\ realTimeStart' = now
    BY <1>7 DEF TickWithoutSnapshot, history
  <2>2. threw' \in BOOLEAN /\ OldIsCurrent'
    BY <2>1 DEF TypeOK, OldIsCurrent
  <2> QED  BY <1>4, <1>6, <2>1, <2>2 DEF TypeOK
<1>8. CASE TickThrows
  <2>1. /\ UNCHANGED <<realTimeStart, frameServerTime, oldSimulated, extrapolation, resets>>
        /\ threw' = TRUE
        /\ serverStartTime' \in Int /\ simulatedServerTime' \in Int
    BY <1>5, <1>8 DEF TickThrows, TypeOK
  <2>2. threw' \in BOOLEAN /\ OldIsCurrent'
    BY <2>1 DEF OldIsCurrent
  <2> QED  BY <1>4, <2>1, <2>2 DEF TypeOK
<1>9. CASE TickSetsTime
  <2>1. frameServerTime' = snap.time /\ threw' = threw
    BY <1>9 DEF TickSetsTime
  <2>2. CASE Reset
    <3>1. /\ realTimeStart' = now
          /\ serverStartTime' = snap.time
          /\ simulatedServerTime' = snap.time
          /\ oldSimulated' = snap.time
          /\ extrapolation' \in {"None", "Extrapolate", "Catchup"}
          /\ resets' = resets + 1
      BY <2>2 DEF Reset
    <3>2. threw' \in BOOLEAN /\ OldIsCurrent'
      BY <2>1, <3>1 DEF TypeOK, OldIsCurrent
    <3>3. snap.time \in Int
      BY <1>6
    <3> QED  BY <1>4, <1>6, <2>1, <3>1, <3>2, <3>3 DEF TypeOK
  <2>3. CASE /\ KeepSimulated
             /\ serverStartTime' \in Int
             /\ extrapolation' \in {"None", "Extrapolate", "Catchup"}
    <3>1. /\ simulatedServerTime' = Nudged
          /\ oldSimulated' = Nudged
          /\ UNCHANGED <<realTimeStart, resets>>
      BY <2>3 DEF KeepSimulated
    <3>2. threw' \in BOOLEAN /\ OldIsCurrent'
      BY <2>1, <3>1 DEF TypeOK, OldIsCurrent
    <3> QED  BY <1>4, <1>5, <1>6, <2>1, <2>3, <3>1, <3>2 DEF TypeOK
  <2>4. CASE FastAdjust
    BY <1>5, <2>3, <2>4 DEF FastAdjust
  <2>5. CASE SlowAdjust
    <3>1. serverStartTime' \in Int
      BY <1>5, <2>5, DurationsAssumption DEF SlowAdjust
    <3> QED  BY <2>3, <2>5, <3>1 DEF SlowAdjust
  <2>6. CASE ~newSnapshots
    <3>1. /\ KeepSimulated
          /\ serverStartTime' = Start
          /\ extrapolation' \in {"None", "Extrapolate", "Catchup"}
      BY <1>9, <2>6 DEF TickSetsTime
    <3> QED  BY <1>5, <2>3, <3>1
  <2> QED  BY <1>9, <2>2, <2>4, <2>5, <2>6 DEF TickSetsTime, AdjustTimeDelta
<1> QED  BY <1>7, <1>8, <1>9 DEF Tick

\* A restart of the server is one more to be seen.
LEMMA ServerRestartsKeeps ==
    ASSUME TimeInv, ServerRestarts
    PROVE  TimeInv'
<1> USE DEF TimeInv
<1>1. /\ restarts' = restarts + 1 /\ restarts < MaxRestarts
      /\ serverCount' = 1 - serverCount
      /\ UNCHANGED <<now, snap, parsed, flags, clock, timeNudge, history>>
  BY DEF ServerRestarts
<1>2. restarts' \in 0 .. MaxRestarts /\ serverCount' \in {0, 1}
  BY <1>1, BoundsAssumption DEF TypeOK
<1>3. {newSnapshots', snapActive', threw'} \subseteq BOOLEAN
  BY <1>1 DEF TypeOK, flags, history
<1>4. TypeOK'
  BY <1>1, <1>2, <1>3 DEF TypeOK, flags, clock, history
<1>5. RestartsAccounted'
  <2>1. restartsNotified \in Int /\ restarts \in Int /\ FirstServerCount \in Int
    BY ServerAssumption, BoundsAssumption DEF TypeOK
  <2>2. serverCount \in {0, 1} /\ snap.count \in {0, 1}
    BY DEF TypeOK
  <2> QED  BY <1>1, <2>1, <2>2 DEF RestartsAccounted, Unseen, flags
<1>6. OldIsCurrent' /\ NewMeansValid'
  BY <1>1 DEF OldIsCurrent, NewMeansValid, flags, clock, history
<1> QED  BY <1>4, <1>5, <1>6

\* The nudge, the clock, and steps of other components.
LEMMA OtherStepsKeep ==
    ASSUME TimeInv,
           (\E n \in Nudges : SetTimeNudge(n)) \/ PassTime \/ UNCHANGED vars
    PROVE  TimeInv'
<1> USE DEF TimeInv
<1>1. /\ UNCHANGED <<snap, parsed, flags, clock, server, history>>
      /\ timeNudge' \in Nudges \union {0}
      /\ now' \in 0 .. MaxTime
  BY BoundsAssumption DEF SetTimeNudge, PassTime, vars, TypeOK
<1>2. {newSnapshots', snapActive', threw'} \subseteq BOOLEAN
  BY <1>1 DEF TypeOK, flags, history
<1>3. TypeOK'
  BY <1>1, <1>2 DEF TypeOK, flags, clock, server, history
<1>4. RestartsAccounted' /\ OldIsCurrent' /\ NewMeansValid'
  BY <1>1 DEF RestartsAccounted, Unseen, OldIsCurrent, NewMeansValid, flags, clock, server,
              history
<1> QED  BY <1>3, <1>4

\* The invariant holds in every behaviour.
LEMMA TimeSafe == Spec => []TimeInv
<1>1. TimeInv /\ [Next]_vars => TimeInv'
  BY SnapshotArrivesKeeps, TickKeeps, ServerRestartsKeeps, OtherStepsKeep DEF Next
<1> QED  BY <1>1, TimeInit, PTL DEF Spec

----------------------------------------------------------------------------
\* Type correctness: the fields of ClientTime stay times, and no more restarts are
\* notified than there were, plus one.
THEOREM TimeTypeCorrect == Spec => []TypeOK
<1>1. TimeInv => TypeOK
  BY DEF TimeInv
<1> QED  BY <1>1, TimeSafe, PTL

\* serverRestartedHandler is called at most once for each restart of the server, however
\* snapshots and ticks interleave with restarts, if the server's count was 0 when the
\* client connected; for a server with an odd count this fails (ClientTimeClaims).
THEOREM RestartsNotifiedAreReal ==
    ASSUME FirstServerCount = 0
    PROVE  Spec => []RestartsAreReal
<1>1. TimeInv => RestartsAreReal
  BY BoundsAssumption DEF TimeInv, TypeOK, RestartsAccounted, Unseen, RestartsAreReal
<1> QED  BY <1>1, TimeSafe, PTL

\* Whatever the durations, the nudge and the order of snapshots: the simulated time is
\* set back by a reset of adjustTimeDelta and by nothing else, until a tick throws.
THEOREM TimeGoesForward == Spec => OnlyResetsTurnBack
<1>1. ASSUME TimeInv, [Next]_vars
      PROVE  [resets' # resets \/ threw' \/ simulatedServerTime' >= simulatedServerTime]_vars
  <2>1. simulatedServerTime \in Int
    BY <1>1 DEF TimeInv, TypeOK
  <2>2. CASE UNCHANGED simulatedServerTime
    BY <2>1, <2>2
  <2>3. CASE KeepSimulated /\ UNCHANGED threw
    <3>1. simulatedServerTime' >= oldSimulated
      BY <1>1, <2>3, NudgedNotBefore DEF KeepSimulated, TimeInv
    <3> QED  BY <1>1, <2>3, <3>1 DEF TimeInv, OldIsCurrent
  <2>4. CASE Reset
    <3>1. resets' # resets
      BY <1>1, <2>4 DEF Reset, TimeInv, TypeOK
    <3> QED  BY <3>1
  <2>5. CASE Tick
    <3>1. CASE TickThrows
      BY <3>1 DEF TickThrows
    <3>2. CASE TickWithoutSnapshot
      BY <2>2, <3>2 DEF TickWithoutSnapshot
    <3>3. CASE TickSetsTime
      <4>1. threw' = threw /\ (Reset \/ KeepSimulated)
        BY <3>3 DEF TickSetsTime, AdjustTimeDelta, FastAdjust, SlowAdjust
      <4> QED  BY <2>3, <2>4, <4>1
    <3> QED  BY <2>5, <3>1, <3>2, <3>3 DEF Tick
  <2>6. CASE \/ \E time \in 0 .. MaxTime, active \in BOOLEAN : SnapshotArrives(time, active)
             \/ \E n \in Nudges : SetTimeNudge(n)
             \/ PassTime \/ ServerRestarts \/ UNCHANGED vars
    BY <2>2, <2>6 DEF SnapshotArrives, ParseSnapshot, SetTimeNudge, PassTime, ServerRestarts,
                      clock, vars
  <2> QED  BY <1>1, <2>5, <2>6 DEF Next
<1> QED  BY <1>1, TimeSafe, PTL DEF Spec, OnlyResetsTurnBack

\* A tick that sees a new snapshot, and does not throw, leaves the simulated time within
\* resetTime of the server's, wherever it was before.
THEOREM ClockNearServer == Spec => NearAfterSnapshot
<1>1. ASSUME TimeInv, [Next]_vars
      PROVE  [newSnapshots /\ ~newSnapshots' /\ snap.time >= frameServerTime
                => Distance(simulatedServerTime', snap.time) <= ResetTime]_vars
  <2>1. SUFFICES ASSUME newSnapshots, ~newSnapshots', snap.time >= frameServerTime
                 PROVE  Distance(simulatedServerTime', snap.time) <= ResetTime
    OBVIOUS
  <2>2. Tick
    BY <1>1, <2>1 DEF Next, SnapshotArrives, ParseSnapshot, SetTimeNudge, PassTime,
                      ServerRestarts, flags, vars
  <2>3. /\ snap.valid
        /\ snap.time \in Int /\ frameServerTime \in Int /\ Nudged \in Int /\ ResetTime \in Int
        /\ 0 <= ResetTime
    BY <1>1, <2>1, TimesAreNumbers, DurationsAssumption, BoundsAssumption
    DEF TimeInv, NewMeansValid, TypeOK
  <2>4. AdjustTimeDelta
    BY <2>1, <2>2, <2>3 DEF Tick, TickWithoutSnapshot, TickThrows, TickSetsTime
  <2>5. CASE TooFar
    <3>1. simulatedServerTime' = snap.time
      BY <2>4, <2>5 DEF AdjustTimeDelta, Reset
    <3> QED  BY <2>3, <3>1 DEF Distance
  <2>6. CASE ~TooFar
    <3>1. simulatedServerTime' = Nudged
      BY <2>4, <2>6 DEF AdjustTimeDelta, FastAdjust, SlowAdjust, KeepSimulated
    <3>2. Distance(Nudged, snap.time) \in Int
      BY <2>3 DEF Distance
    <3> QED  BY <2>3, <2>6, <3>1, <3>2 DEF TooFar
  <2> QED  BY <2>5, <2>6
<1> QED  BY <1>1, TimeSafe, PTL DEF Spec, NearAfterSnapshot

=============================================================================
