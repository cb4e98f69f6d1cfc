------------------------- MODULE ConnectionProofs -------------------------
(***************************************************************************)
(* Proofs about the two ends of a connection.  Of the client's,            *)
(* ServerConnection: for every set of messages, every set of handlers that *)
(* disconnect and every timeout, interval and bound.  Of the server's,     *)
(* ServerHost: for any number of addresses, qports and challenges.  The two*)
(* modules share no variable, and nothing is proved of one from the other. *)
(***************************************************************************)
EXTENDS ServerConnection, ServerHost, SequenceTheorems, FiniteSetTheorems,
        WellFoundedInduction, TLAPS

(***************************************************************************)
(* ServerConnection: the connection is whole, and its end is final.        *)
(***************************************************************************)

----------------------------------------------------------------------------
\* The inductive invariants, in their parts.

\* The channel and the module go together.
WholeInv == channel \in BOOLEAN /\ cgame \in BOOLEAN /\ NeverHalfClosed

\* The part of tick that uses the module and the channel without a look at them.
LatePcs == {"time", "init", "input", "send", "transmit", "cgtick"}
ModuleIsThereLate == pc \in LatePcs => cgame /\ channel

TickInv == WholeInv /\ ModuleIsThereLate /\ SafeToDisconnectInHandler

----------------------------------------------------------------------------
\* disconnect() does to the connection what serverDisconnected does, and a handler
\* does that or leaves it alone.
LEMMA HandlersEndOrNot ==
    ASSUME NEW h, NEW misused, Handler(h, misused) \/ HandlerInModule(h) \/ Disconnect(misused)
    PROVE  UNCHANGED <<channel, cgame, notified>> \/ ServerDisconnected
  BY DEF Handler, HandlerInModule, Disconnect, ServerDisconnected, connection

\* A step of the model does one of two things to the connection.
LEMMA StepsOfTheConnection ==
    ASSUME [Next]_vars
    PROVE  UNCHANGED <<channel, cgame, notified>> \/ ServerDisconnected
<1>1. CASE TickTimedOut
  BY <1>1, HandlersEndOrNot DEF TickTimedOut, TimedOut
<1>2. CASE TickStart \/ ReceiveMessage \/ ReceiveNothing \/ ReceiveShort
  BY <1>2 DEF TickStart, ReceiveMessage, ReceiveNothing, ReceiveShort, connection
<1>3. CASE ReceiveBadFragment \/ ReceiveDrop
  BY <1>3, HandlersEndOrNot DEF ReceiveBadFragment, ReceiveDrop
<1>4. CASE ParseHandled
  BY <1>4, HandlersEndOrNot DEF ParseHandled, connection
<1>5. CASE ParseGameState \/ ParseError
  BY <1>5, HandlersEndOrNot DEF ParseGameState, ParseError
<1>6. CASE ParseTruncated \/ ParseEnd \/ ProcessEnd
  BY <1>6 DEF ParseTruncated, ParseEnd, ProcessEnd, connection
<1>7. CASE SetCGameTime \/ SetCGameTimeThrows
  BY <1>7, HandlersEndOrNot DEF SetCGameTime, SetCGameTimeThrows, connection
<1>8. CASE InitSnapshot \/ ProcessInput
  BY <1>8, HandlersEndOrNot DEF InitSnapshot, ProcessInput, connection
<1>9. CASE WritePacket \/ Transmit \/ WriteNothing \/ CGameTick
  BY <1>9, HandlersEndOrNot DEF WritePacket, Transmit, WriteNothing, CGameTick, connection
<1>10. CASE ApplicationDisconnects
  BY <1>10, HandlersEndOrNot DEF ApplicationDisconnects
<1>11. CASE SetInputModule \/ PassTime \/ ServerStops \/ \E p \in Packets : ServerSends(p)
  BY <1>11 DEF SetInputModule, PassTime, ServerStops, ServerSends, connection
<1>12. CASE UNCHANGED vars
  BY <1>12 DEF vars, connection
<1> QED
  BY <1>1, <1>2, <1>3, <1>4, <1>5, <1>6, <1>7, <1>8, <1>9, <1>10, <1>11, <1>12 DEF Next, Tick

----------------------------------------------------------------------------
\* The life of a connection, whoever ends it.
LEMMA WholeInit == Init => WholeInv /\ ToldOnceOfTheEnd
  BY DEF Init, WholeInv, NeverHalfClosed, ToldOnceOfTheEnd

\* Every step of a tick, of the application and of the server keeps a connection whole.
LEMMA WholeStep == WholeInv /\ [Next]_vars => WholeInv'
  BY StepsOfTheConnection DEF WholeInv, NeverHalfClosed, ServerDisconnected, Terminate

\* Each of them tells the handler when it ends the connection, and only then.
LEMMA ToldStep ==
    ASSUME "disconnect" \notin DisconnectsIn
    PROVE  WholeInv /\ ToldOnceOfTheEnd /\ [Next]_vars => ToldOnceOfTheEnd'
<1> SUFFICES ASSUME WholeInv, ToldOnceOfTheEnd, [Next]_vars  PROVE ToldOnceOfTheEnd'
  OBVIOUS
<1>1. CASE UNCHANGED <<channel, cgame, notified>>
  BY <1>1 DEF ToldOnceOfTheEnd
<1>2. CASE ServerDisconnected
  <2>1. cgame' = FALSE /\ (~cgame => notified' = notified) /\ (cgame => notified' = notified + 1)
    BY <1>2 DEF ServerDisconnected, Terminate, Tell
  <2> QED  BY <2>1 DEF ToldOnceOfTheEnd, WholeInv
<1> QED  BY <1>1, <1>2, StepsOfTheConnection

\* Whichever exception, handler, timeout or call ended it, the channel and the game
\* module of a connection go together, in every state of a tick.
THEOREM ConnectionNeverHalfClosed == Spec => []NeverHalfClosed
<1>1. WholeInv => NeverHalfClosed
  BY DEF WholeInv
<1> QED  BY <1>1, WholeInit, WholeStep, PTL DEF Spec

\* The disconnect handler is called when the connection ends, and never again: not by
\* the timeouts that every later tick broadcasts, nor by the drops it still receives.
\* The one assumption is that this handler does not itself call disconnect(), which
\* would find the module still there and call it again.
THEOREM DisconnectHandlerToldOnce ==
    ASSUME "disconnect" \notin DisconnectsIn
    PROVE  Spec => []ToldOnceOfTheEnd
  BY WholeInit, WholeStep, ToldStep, PTL DEF Spec

----------------------------------------------------------------------------
\* The tick, step by step: the module that ProcessEnd saw is still there when the last
\* steps of the tick use it, if no handler between them and it disconnects.
LEMMA TickInit == Init => TickInv
<1> SUFFICES ASSUME Init PROVE TickInv
  OBVIOUS
<1>1. ModuleIsThereLate /\ SafeToDisconnectInHandler
  BY DEF Init, ModuleIsThereLate, LatePcs, SafeToDisconnectInHandler
<1> QED  BY <1>1, WholeInit DEF TickInv

\* No packet handler of disconnect() wipes the channel under it.
LEMMA PacketsKeepChannel ==
    ASSUME DisconnectsIn \subseteq SafeHandlers
    PROVE  ~WipedUnderPackets
  BY DEF WipedUnderPackets, SafeHandlers

\* From where a step of tick uses the channel or the module, none is left without them.
LEMMA TickStep ==
    ASSUME DisconnectsIn \subseteq SafeHandlers
    PROVE  TickInv /\ [Next]_vars => TickInv'
<1> SUFFICES ASSUME TickInv, [Next]_vars
             PROVE  ModuleIsThereLate' /\ SafeToDisconnectInHandler'
  BY WholeStep DEF TickInv
<1> USE DEF LatePcs
<1>0. /\ cgame \in BOOLEAN /\ channel \in BOOLEAN /\ channel = cgame
      /\ pc \in LatePcs => cgame /\ channel
      /\ ~crashed
  BY DEF TickInv, WholeInv, NeverHalfClosed, ModuleIsThereLate, SafeToDisconnectInHandler
<1> USE DEF ModuleIsThereLate, SafeToDisconnectInHandler
<1>1. CASE TickTimedOut
  <2>1. pc = "idle" /\ pc' = pc
    BY <1>1 DEF TickTimedOut
  <2>2. ~crashed'
    BY <1>0, <1>1, PacketsKeepChannel DEF TickTimedOut, TimedOut, Disconnect
  <2> QED  BY <1>0, <2>1, <2>2
<1>2. CASE TickStart
  BY <1>0, <1>2 DEF TickStart
<1>3. CASE ReceiveMessage \/ ReceiveNothing \/ ReceiveBadFragment \/ ReceiveShort \/ ReceiveDrop
  <2>1. pc' \in {"parse", "process", "idle"}
    BY <1>3
    DEF ReceiveMessage, ReceiveNothing, ReceiveBadFragment, ReceiveShort, ReceiveDrop, TakePacket
  <2>2. ~crashed'
    BY <1>0, <1>3, PacketsKeepChannel
    DEF ReceiveMessage, ReceiveNothing, ReceiveBadFragment, ReceiveShort, ReceiveDrop,
        Handler, Disconnect
  <2> QED  BY <2>1, <2>2
<1>4. CASE ParseHandled
  <2>1. pc = "parse" /\ cgame /\ channel /\ pc' = pc
    BY <1>0, <1>4 DEF ParseHandled, ParseOp, ParsingGoesOn
  <2>2. CASE ParseOp("nop") /\ UNCHANGED <<connection, haveSnap, crashed>>
    BY <1>0, <2>1, <2>2
  <2>3. CASE Handler("print", FALSE) \/ Handler("command", FALSE)
    BY <1>0, <2>1, <2>3, PacketsKeepChannel DEF Handler, Disconnect
  <2>4. CASE HandlerInModule("cgmessage")
    <3>1. "cgmessage" \notin DisconnectsIn
      BY DEF SafeHandlers
    <3> QED  BY <1>0, <2>1, <2>4, <3>1 DEF HandlerInModule
  <2>5. CASE Handler("snapshot", ~channel)
    BY <1>0, <2>1, <2>5, PacketsKeepChannel DEF Handler, Disconnect
  <2> QED  BY <1>4, <2>2, <2>3, <2>4, <2>5 DEF ParseHandled
<1>5. CASE ParseGameState
  <2>1. pc' = "parse"
    BY <1>5 DEF ParseGameState, ParseOp
  <2>2. ~crashed'
    BY <1>0, <1>5, PacketsKeepChannel DEF ParseGameState, Disconnect
  <2> QED  BY <2>1, <2>2
<1>6. CASE ParseError \/ ParseTruncated \/ ParseEnd
  <2>1. pc' = "process"
    BY <1>6 DEF ParseError, ParseTruncated, ParseEnd
  <2>2. ~crashed'
    BY <1>0, <1>6, PacketsKeepChannel DEF ParseError, ParseTruncated, ParseEnd, Handler, Disconnect
  <2> QED  BY <2>1, <2>2
<1>7. CASE ProcessEnd
  <2>1. /\ pc' = IF cgame THEN "time" ELSE "idle"
        /\ cgame' = cgame /\ channel' = channel /\ crashed' = crashed
    BY <1>7 DEF ProcessEnd, connection
  <2> QED  BY <1>0, <2>1
<1>8. CASE SetCGameTime \/ SetCGameTimeThrows \/ ProcessInput \/ WritePacket
  <2>1. {"time", "input", "preWrite"} \intersect DisconnectsIn = {}
    BY DEF SafeHandlers
  <2>2. pc \in LatePcs
    BY <1>8 DEF SetCGameTime, SetCGameTimeThrows, ProcessInput, WritePacket
  <2>3. \/ UNCHANGED <<connection, crashed>>
        \/ UNCHANGED connection /\ crashed' = (crashed \/ FALSE)
    <3>1. CASE SetCGameTime \/ SetCGameTimeThrows
      BY <2>1, <3>1 DEF SetCGameTime, SetCGameTimeThrows, Handler
    <3>2. CASE ProcessInput \/ WritePacket
      BY <2>1, <3>2 DEF ProcessInput, WritePacket, Handler
    <3> QED  BY <1>8, <3>1, <3>2
  <2>4. UNCHANGED <<channel, cgame>>
    BY <2>3 DEF connection
  <2>5. ~crashed'
    BY <1>0, <2>3
  <2> QED  BY <1>0, <2>2, <2>4, <2>5
<1>9. CASE InitSnapshot \/ Transmit \/ CGameTick
  <2>1. {"init", "postWrite", "cgtick"} \intersect DisconnectsIn = {}
    BY DEF SafeHandlers
  <2>2. pc \in LatePcs /\ UNCHANGED <<channel, cgame>> /\ ~crashed'
    BY <1>0, <1>9, <2>1
    DEF InitSnapshot, Transmit, CGameTick, Handler, HandlerInModule, connection
  <2> QED  BY <1>0, <2>2
<1>10. CASE WriteNothing
  BY <1>0, <1>10 DEF WriteNothing, connection
<1>11. CASE ApplicationDisconnects
  BY <1>0, <1>11, PacketsKeepChannel DEF ApplicationDisconnects, Disconnect
<1>12. CASE SetInputModule \/ PassTime \/ ServerStops \/ \E p \in Packets : ServerSends(p)
  BY <1>0, <1>12 DEF SetInputModule, PassTime, ServerStops, ServerSends, connection
<1>13. CASE UNCHANGED vars
  BY <1>0, <1>13 DEF vars, connection
<1> QED
  BY <1>1, <1>2, <1>3, <1>4, <1>5, <1>6, <1>7, <1>8, <1>9, <1>10, <1>11, <1>12, <1>13 DEF Next, Tick

\* "The callee can safely disconnect the game client": whatever the messages, no step
\* of a tick uses the channel or the module after a handler has disconnected, as long
\* as only handlers of SafeHandlers do: those of the timeout, of an error, and of the
\* prints, commands, game states and snapshots of a message.  After every other
\* handler the code goes on without a look at the connection.
THEOREM HandlersCanDisconnect ==
    ASSUME DisconnectsIn \subseteq SafeHandlers
    PROVE  Spec => []SafeToDisconnectInHandler
<1>1. TickInv => SafeToDisconnectInHandler
  BY DEF TickInv
<1> QED  BY <1>1, TickInit, TickStep, PTL DEF Spec

\* A connection that has ended is never taken up again by a later step of the tick, a
\* late packet or a second call: the module is not created twice and the handler is
\* not told again.
THEOREM ClosedStaysClosed ==
    Spec => [][~cgame => ~cgame' /\ ~channel' /\ notified' = notified]_vars
<1>1. WholeInv /\ [Next]_vars =>
        [~cgame => ~cgame' /\ ~channel' /\ notified' = notified]_vars
  <2> SUFFICES ASSUME WholeInv, [Next]_vars, ~cgame
               PROVE  ~cgame' /\ ~channel' /\ notified' = notified
    OBVIOUS
  <2>1. CASE UNCHANGED <<channel, cgame, notified>>
    BY <2>1 DEF WholeInv, NeverHalfClosed
  <2>2. CASE ServerDisconnected
    BY <2>2 DEF ServerDisconnected, Terminate, Tell
  <2> QED  BY <2>1, <2>2, StepsOfTheConnection
<1> QED  BY <1>1, WholeInit, WholeStep, PTL DEF Spec


(***************************************************************************)
(* ServerHost: a challenge makes at most one client.                       *)
(***************************************************************************)

\* A number is drawn before it is the number of a challenge or a client, and no two
\* challenges have the same.
NumbersAreDrawn ==
    /\ \A i \in 1 .. Len(challenges) : challenges[i].number <= numbers
    /\ \A i, j \in 1 .. Len(challenges) : challenges[i].number = challenges[j].number => i = j
    /\ \A i \in 1 .. Len(clientList) : clientList[i].number <= numbers

\* The inductive invariant.
HostInv == HostTypeOK /\ NumbersAreDrawn /\ ChallengeUsedOnce

----------------------------------------------------------------------------
\* The search for the first of several indices finds one.
LEMMA FirstIndex ==
    ASSUME NEW S \in SUBSET Nat, S # {}
    PROVE  (CHOOSE i \in S : \A j \in S : i <= j) \in S
<1>1. PICK m \in S : \A j \in S : ~(<<j, m>> \in OpToRel(<, Nat))
  BY WFMin, NatLessThanWellFounded, Zenon
<1>2. \A j \in S : ~(j < m)
  BY <1>1 DEF OpToRel
<1>3. \A j \in S : m <= j
  BY <1>2
<1> QED  BY <1>3

\* What RemoveAt returns.
LEMMA RemoveAtProperties ==
    ASSUME NEW S, NEW s \in Seq(S), NEW k \in 1 .. Len(s)
    PROVE  /\ RemoveAt(s, k) \in Seq(S)
           /\ Len(RemoveAt(s, k)) = Len(s) - 1
           /\ \A i \in 1 .. Len(s) - 1 : RemoveAt(s, k)[i] = IF i < k THEN s[i] ELSE s[i + 1]
<1> DEFINE a == SubSeq(s, 1, k - 1)
           b == SubSeq(s, k + 1, Len(s))
<1>0. Len(s) \in Nat /\ k \in Nat
  OBVIOUS
<1>1. /\ a \in Seq(S) /\ Len(a) = k - 1
      /\ \A i \in 1 .. k - 1 : a[i] = s[i]
  BY SubSeqProperties
<1>2. /\ b \in Seq(S) /\ Len(b) = Len(s) - k
      /\ \A i \in 1 .. Len(s) - k : b[i] = s[k + i]
  BY SubSeqProperties
<1> HIDE DEF a, b
<1>3. a \o b \in Seq(S) /\ Len(a \o b) = Len(s) - 1
  <2>1. a \o b \in Seq(S) /\ Len(a \o b) = Len(a) + Len(b)
    <3>1. a \in Seq(S) /\ b \in Seq(S)
      BY <1>1, <1>2
    <3> QED  BY <3>1, ConcatProperties, Zenon
  <2> QED  BY <1>0, <1>1, <1>2, <2>1
<1>4. ASSUME NEW i \in 1 .. Len(s) - 1
      PROVE  (a \o b)[i] = IF i < k THEN s[i] ELSE s[i + 1]
  <2>1. CASE i < k
    <3>1. i \in 1 .. Len(a)
      BY <1>1, <2>1
    <3> QED  BY <1>1, <1>2, <2>1, <3>1
  <2>2. CASE i >= k
    <3>1. /\ i \in Len(a) + 1 .. Len(a) + Len(b)
          /\ i - Len(a) \in 1 .. Len(b) /\ k + (i - Len(a)) = i + 1
      BY <1>1, <1>2, <2>2
    <3>2. (a \o b)[i] = b[i - Len(a)]
      <4>1. a \in Seq(S) /\ b \in Seq(S)
        BY <1>1, <1>2
      <4> QED  BY <3>1, <4>1
    <3>3. b[i - Len(a)] = s[i + 1]
      BY <1>2, <3>1
    <3> QED  BY <1>0, <2>2, <3>2, <3>3
  <2>3. i < k \/ i >= k
    BY <1>0
  <2> QED  BY <2>1, <2>2, <2>3
<1> QED  BY <1>3, <1>4 DEF RemoveAt, a, b

\* The fields of a challenge.
LEMMA ChallengeFields ==
    ASSUME HostTypeOK, NEW i \in 1 .. Len(challenges)
    PROVE  /\ challenges[i].time \in Nat
           /\ challenges[i].time <= now
           /\ challenges[i].number \in Nat
           /\ challenges[i].number \in 1 .. MaxNumbers
<1>1. challenges[i] \in Challenges
  BY DEF HostTypeOK
<1>2. challenges[i].time <= now
  BY DEF HostTypeOK
<1> QED  BY <1>1, <1>2, HostBoundsAssumption DEF Challenges

\* The number of a client.
LEMMA ClientNumber ==
    ASSUME HostTypeOK, NEW i \in 1 .. Len(clientList)
    PROVE  clientList[i].number \in Nat
<1>1. clientList[i] \in Clients
  BY DEF HostTypeOK
<1> QED  BY <1>1, HostBoundsAssumption DEF Clients

\* hasElapsed compares with a time to come, so tick removes no challenge.
LEMMA NoneExpires ==
    ASSUME HostTypeOK
    PROVE  RemoveExpired(challenges) = challenges
<1> DEFINE n == Len(challenges)
           kept == {i \in 1 .. n : ~HasElapsed(challenges[i])}
           Nth(k) == CHOOSE i \in kept : Cardinality({j \in kept : j <= i}) = k
<1>1. n \in Nat /\ challenges \in Seq(Challenges)
  BY DEF HostTypeOK
<1>2. kept = 1 .. n
  <2>1. ASSUME NEW i \in 1 .. n
        PROVE  ~HasElapsed(challenges[i])
    <3>1. challenges[i].time \in Int /\ challenges[i].time <= now
      BY ChallengeFields
    <3>2. now \in Int /\ Expiry \in Nat \ {0}
      BY HostBoundsAssumption DEF HostTypeOK
    <3> QED  BY <3>1, <3>2 DEF HasElapsed
  <2> QED  BY <2>1
<1>3. Cardinality(kept) = n
  <2>1. Cardinality(1 .. n) = IF 1 > n THEN 0 ELSE n - 1 + 1
    <3> HIDE DEF n
    <3> QED  BY <1>1, FS_Interval
  <2> HIDE DEF kept
  <2> QED  BY <1>1, <1>2, <2>1
<1>4. ASSUME NEW i \in 1 .. n
      PROVE  Cardinality({j \in kept : j <= i}) = i
  <2> DEFINE T == {j \in kept : j <= i}
  <2>1. T = 1 .. i
    BY <1>1, <1>2
  <2>2. Cardinality(1 .. i) = IF 1 > i THEN 0 ELSE i - 1 + 1
    <3>1. 1 \in Int /\ i \in Int
      OBVIOUS
    <3> QED  BY <3>1, FS_Interval
  <2> HIDE DEF T
  <2>3. Cardinality(T) = i
    BY <1>1, <2>1, <2>2
  <2> QED  BY <2>3 DEF T
<1>5. ASSUME NEW k \in 1 .. n
      PROVE  Nth(k) = k
  BY <1>2, <1>4
<1>6. RemoveExpired(challenges) = [k \in 1 .. Cardinality(kept) |-> challenges[Nth(k)]]
  BY DEF RemoveExpired
<1> HIDE DEF kept, Nth
<1>7. RemoveExpired(challenges) = [k \in 1 .. n |-> challenges[k]]
  BY <1>3, <1>5, <1>6
<1> QED  BY <1>1, <1>7

\* A non-zero index is that of a challenge.
LEMMA GetChallengeIndex ==
    ASSUME HostTypeOK, NEW from, GetChallenge(challenges, from) # 0
    PROVE  GetChallenge(challenges, from) + 1 \in 1 .. Len(challenges)
<1> DEFINE found == {i \in 1 .. Len(challenges) : challenges[i].from = from}
           first == CHOOSE i \in found : \A j \in found : i <= j
<1>1. found # {} /\ GetChallenge(challenges, from) = first - 1
  BY DEF GetChallenge
<1>2. first \in found
  <2>1. found \in SUBSET Nat
    BY DEF HostTypeOK
  <2> HIDE DEF found
  <2> QED  BY <1>1, <2>1, FirstIndex
<1>3. first \in 1 .. Len(challenges) /\ Len(challenges) \in Nat
  BY <1>2 DEF HostTypeOK
<1> HIDE DEF first
<1> QED  BY <1>1, <1>3

\* A client that is found is in the list.
LEMMA FindClientIndex ==
    ASSUME HostTypeOK, NEW from, NEW qport, FindClient(from, qport) # 0
    PROVE  FindClient(from, qport) \in 1 .. Len(clientList)
<1> DEFINE found == {i \in 1 .. Len(clientList) :
                        clientList[i].from = from /\ clientList[i].qport = qport}
           first == CHOOSE i \in found : \A j \in found : i <= j
<1>1. found # {} /\ FindClient(from, qport) = first
  BY DEF FindClient
<1>2. first \in found
  <2>1. found \in SUBSET Nat
    BY DEF HostTypeOK
  <2> HIDE DEF found
  <2> QED  BY <1>1, <2>1, FirstIndex
<1> QED  BY <1>1, <1>2

----------------------------------------------------------------------------
\* The server starts with nothing.
LEMMA HostBegins == HostInit => HostInv
<1> SUFFICES ASSUME HostInit PROVE HostInv
  OBVIOUS
<1>1. challenges \in Seq(Challenges) /\ clientList \in Seq(Clients)
  BY DEF HostInit
<1>2. turnedAway \in BOOLEAN
  BY DEF HostInit
<1>3. HostTypeOK
  BY <1>1, <1>2, HostBoundsAssumption DEF HostInit, HostTypeOK
<1>4. NumbersAreDrawn /\ ChallengeUsedOnce
  BY DEF HostInit, NumbersAreDrawn, ChallengeUsedOnce
<1> QED  BY <1>3, <1>4 DEF HostInv

\* A step that leaves both vectors and the numbers alone.
LEMMA SameVectorsKeep ==
    ASSUME HostInv, UNCHANGED <<challenges, clientList, numbers, told>>,
           now' \in now .. MaxTime, lastTick' \in 0 .. now', turnedAway' \in BOOLEAN
    PROVE  HostInv'
<1> USE DEF HostInv
<1>1. ASSUME NEW i \in 1 .. Len(challenges)
      PROVE  challenges[i].time <= now'
  <2>1. challenges[i].time \in Int /\ challenges[i].time <= now /\ now \in Int
    <3>1. HostTypeOK
      OBVIOUS
    <3>2. challenges[i].time \in Nat /\ challenges[i].time <= now
      BY <3>1, ChallengeFields, Zenon
    <3>3. now \in Int
      BY <3>1, HostBoundsAssumption DEF HostTypeOK
    <3> QED  BY <3>2, <3>3
  <2>2. now' \in Int /\ now <= now'
    BY <2>1, HostBoundsAssumption
  <2> HIDE DEF HostInv
  <2> QED  BY <2>1, <2>2
<1>2. now' \in 0 .. MaxTime
  BY HostBoundsAssumption DEF HostTypeOK
<1>3. HostTypeOK'
  BY <1>1, <1>2 DEF HostTypeOK
<1>4. NumbersAreDrawn' /\ ChallengeUsedOnce'
  BY DEF NumbersAreDrawn, ChallengeUsedOnce
<1> QED  BY <1>3, <1>4

\* "getchallenge".
LEMMA GetChallengeKeeps ==
    ASSUME HostInv, NEW from \in Addresses, TickGetChallenge(from)
    PROVE  HostInv'
<1> USE DEF HostInv
<1>1. /\ lastTick' = now /\ now' = now
      /\ UNCHANGED <<clientList, turnedAway>>
      /\ ProcessGetChallenge(challenges, from)
  BY NoneExpires DEF TickGetChallenge, ProcessGetChallenge
<1>2. CASE GetChallenge(challenges, from) # 0
  <2> DEFINE k == GetChallenge(challenges, from) + 1
             number == challenges[k].number
  <2>1. k \in 1 .. Len(challenges)
    BY <1>2, GetChallengeIndex
  <2>2. number \in 1 .. numbers
    BY <2>1, ChallengeFields DEF HostTypeOK, NumbersAreDrawn
  <2>3. /\ UNCHANGED <<challenges, numbers>>
        /\ told' = [told EXCEPT ![from] = @ \union {number}]
    BY <1>1, <1>2 DEF ProcessGetChallenge
  <2> HIDE DEF k, number
  <2>4. told' \in [Addresses -> SUBSET (1 .. numbers')]
    BY <2>2, <2>3 DEF HostTypeOK
  <2>5. HostTypeOK'
    BY <1>1, <2>3, <2>4 DEF HostTypeOK
  <2>6. NumbersAreDrawn' /\ ChallengeUsedOnce'
    BY <1>1, <2>3 DEF NumbersAreDrawn, ChallengeUsedOnce
  <2> QED  BY <2>5, <2>6
<1>3. CASE GetChallenge(challenges, from) = 0
  <2> DEFINE c == CreateChallenge(from)
             n == Len(challenges)
  <2>1. /\ numbers < MaxNumbers /\ numbers' = numbers + 1
        /\ challenges' = Append(challenges, c)
        /\ told' = [told EXCEPT ![from] = @ \union {numbers + 1}]
    BY <1>1, <1>3 DEF ProcessGetChallenge
  <2>2. numbers \in Nat /\ MaxNumbers \in Nat /\ now \in 0 .. MaxTime
    BY HostBoundsAssumption DEF HostTypeOK
  <2>3. c \in Challenges /\ c.number = numbers + 1 /\ c.time = now
    BY <2>1, <2>2 DEF CreateChallenge, Challenges
  <2> HIDE DEF c
  <2>4. /\ n \in Nat
        /\ challenges' \in Seq(Challenges)
        /\ Len(challenges') = n + 1
        /\ \A i \in 1 .. n : challenges'[i] = challenges[i]
        /\ challenges'[n + 1] = c
    BY <2>1, <2>3 DEF HostTypeOK
  <2> HIDE DEF n
  <2>5. \A i \in 1 .. Len(challenges') : i \in 1 .. n \/ i = n + 1
    BY <2>4
  <2>6. \A i \in 1 .. n : /\ challenges[i].number \in Nat /\ challenges[i].number <= numbers
                          /\ challenges[i].time <= now
    BY ChallengeFields DEF NumbersAreDrawn, n
  <2>7. HostTypeOK'
    <3>1. told' \in [Addresses -> SUBSET (1 .. numbers')]
      BY <2>1, <2>2 DEF HostTypeOK
    <3>2. \A i \in 1 .. Len(challenges') : challenges'[i].time <= now'
      BY <1>1, <2>2, <2>3, <2>4, <2>5, <2>6
    <3>3. lastTick' \in 0 .. now' /\ numbers' \in 0 .. MaxNumbers
      BY <1>1, <2>1, <2>2
    <3> QED  BY <1>1, <2>2, <2>4, <3>1, <3>2, <3>3 DEF HostTypeOK
  <2>8. NumbersAreDrawn'
    <3>1. \A i \in 1 .. Len(challenges') : challenges'[i].number <= numbers'
      BY <2>1, <2>2, <2>3, <2>4, <2>5, <2>6
    <3>2. ASSUME NEW i \in 1 .. Len(challenges'), NEW j \in 1 .. Len(challenges'),
                 challenges'[i].number = challenges'[j].number
          PROVE  i = j
      <4>1. CASE i = n + 1 /\ j \in 1 .. n
        BY <2>2, <2>3, <2>4, <2>6, <3>2, <4>1
      <4>2. CASE j = n + 1 /\ i \in 1 .. n
        BY <2>2, <2>3, <2>4, <2>6, <3>2, <4>2
      <4>3. CASE i \in 1 .. n /\ j \in 1 .. n
        BY <2>4, <3>2, <4>3 DEF NumbersAreDrawn, n
      <4> QED  BY <2>5, <4>1, <4>2, <4>3
    <3>3. ASSUME NEW i \in 1 .. Len(clientList')
          PROVE  clientList'[i].number <= numbers'
      <4>1. clientList[i].number <= numbers /\ clientList[i].number \in Nat
        BY <1>1, ClientNumber DEF NumbersAreDrawn
      <4> QED  BY <1>1, <2>1, <2>2, <4>1
    <3> QED  BY <3>1, <3>2, <3>3 DEF NumbersAreDrawn
  <2>9. ChallengeUsedOnce'
    <3>1. ASSUME NEW i \in 1 .. Len(clientList), NEW j \in 1 .. Len(challenges')
          PROVE  clientList[i].number # challenges'[j].number
      <4>1. CASE j \in 1 .. n
        BY <2>4, <4>1 DEF ChallengeUsedOnce, n
      <4>2. CASE j = n + 1
        <5>1. clientList[i].number <= numbers /\ clientList[i].number \in Nat
          BY ClientNumber DEF NumbersAreDrawn
        <5> QED  BY <2>2, <2>3, <2>4, <4>2, <5>1
      <4> QED  BY <2>5, <4>1, <4>2
    <3> QED  BY <1>1, <3>1 DEF ChallengeUsedOnce
  <2> QED  BY <2>7, <2>8, <2>9
<1> QED  BY <1>2, <1>3

\* "connect": the number moves from the challenges to the clients.
LEMMA ConnectKeeps ==
    ASSUME HostInv, NEW from \in Addresses, NEW qport \in QPorts, NEW number \in told[from],
           TickConnect(from, qport, number)
    PROVE  HostInv'
<1> USE DEF HostInv
<1> DEFINE index == GetChallenge(challenges, from)
<1>1. /\ lastTick' = now /\ now' = now
      /\ UNCHANGED <<numbers, told>>
      /\ ProcessConnect(challenges, from, qport, number)
  BY NoneExpires DEF TickConnect, ProcessConnect
<1>2. CASE ~Accepts(challenges, index, number)
  <2>1. UNCHANGED <<challenges, clientList>>
    BY <1>1, <1>2 DEF ProcessConnect
  <2>2. turnedAway' \in BOOLEAN
    BY <1>1, <1>2 DEF ProcessConnect, HostTypeOK
  <2>3. now' \in now .. MaxTime /\ lastTick' \in 0 .. now'
    BY <1>1, HostBoundsAssumption DEF HostTypeOK
  <2> QED  BY <1>1, <2>1, <2>2, <2>3, SameVectorsKeep
<1>3. CASE Accepts(challenges, index, number)
  <2> DEFINE k == index + 1
             client == CreateClient(from, qport, number)
             n == Len(challenges)
             m == Len(clientList)
  <2>1. /\ challenges' = RemoveAt(challenges, k)
        /\ clientList' = Append(clientList, client)
        /\ UNCHANGED turnedAway
    BY <1>1, <1>3 DEF ProcessConnect
  <2>2. k \in 1 .. n /\ challenges[k].number = number
    BY <1>3, GetChallengeIndex DEF Accepts
  <2>3. client \in Clients /\ client.number = number
    <3>1. number \in 1 .. MaxNumbers
      BY <2>2, ChallengeFields
    <3> QED  BY <3>1, HostBoundsAssumption DEF CreateClient, Clients
  <2> HIDE DEF k, client
  <2>4. /\ n \in Nat
        /\ challenges' \in Seq(Challenges)
        /\ Len(challenges') = n - 1
        /\ \A i \in 1 .. n - 1 : challenges'[i] = IF i < k THEN challenges[i] ELSE challenges[i + 1]
    <3>1. challenges \in Seq(Challenges) /\ n \in Nat
      BY DEF HostTypeOK
    <3>2. /\ RemoveAt(challenges, k) \in Seq(Challenges)
          /\ Len(RemoveAt(challenges, k)) = n - 1
          /\ \A i \in 1 .. n - 1 : RemoveAt(challenges, k)[i] =
                IF i < k THEN challenges[i] ELSE challenges[i + 1]
      BY <2>2, <3>1, RemoveAtProperties, Zenon
    <3> QED  BY <2>1, <3>1, <3>2
  <2>5. /\ m \in Nat
        /\ clientList' \in Seq(Clients)
        /\ Len(clientList') = m + 1
        /\ \A i \in 1 .. m : clientList'[i] = clientList[i]
        /\ clientList'[m + 1] = client
    BY <2>1, <2>3 DEF HostTypeOK
  \* Where a remaining challenge was.
  <2> DEFINE old(i) == IF i < k THEN i ELSE i + 1
  <2>6. ASSUME NEW i \in 1 .. Len(challenges')
        PROVE  old(i) \in 1 .. n /\ old(i) # k /\ challenges'[i] = challenges[old(i)]
    BY <2>2, <2>4
  <2>7. ASSUME NEW i \in 1 .. Len(challenges'), NEW j \in 1 .. Len(challenges'), old(i) = old(j)
        PROVE  i = j
    BY <2>2, <2>4, <2>7
  <2>8. \A i \in 1 .. Len(clientList') : i \in 1 .. m \/ i = m + 1
    BY <2>5
  <2> HIDE DEF old
  <2>9. HostTypeOK'
    <3>1. \A i \in 1 .. Len(challenges') : challenges'[i].time <= now'
      BY <1>1, <2>6 DEF HostTypeOK
    <3>2. lastTick' \in 0 .. now'
      BY <1>1 DEF HostTypeOK
    <3> QED  BY <1>1, <2>1, <2>4, <2>5, <3>1, <3>2 DEF HostTypeOK
  <2>10. NumbersAreDrawn'
    <3>1. \A i \in 1 .. Len(challenges') : challenges'[i].number <= numbers'
      BY <1>1, <2>6 DEF NumbersAreDrawn
    <3>2. \A i, j \in 1 .. Len(challenges') :
             challenges'[i].number = challenges'[j].number => i = j
      BY <2>6, <2>7 DEF NumbersAreDrawn
    <3>3. \A i \in 1 .. Len(clientList') : clientList'[i].number <= numbers'
      BY <1>1, <2>2, <2>3, <2>5, <2>8 DEF NumbersAreDrawn
    <3> QED  BY <3>1, <3>2, <3>3 DEF NumbersAreDrawn
  <2>11. ASSUME NEW i \in 1 .. m  PROVE clientList[i].number # number
    BY <2>2 DEF ChallengeUsedOnce
  <2>12. ASSUME NEW i \in 1 .. Len(clientList'), NEW j \in 1 .. Len(clientList'),
                clientList'[i].number = clientList'[j].number
         PROVE  i = j
    <3>1. CASE i \in 1 .. m /\ j \in 1 .. m
      BY <2>5, <2>12, <3>1 DEF ChallengeUsedOnce
    <3> QED  BY <2>3, <2>5, <2>8, <2>11, <2>12, <3>1
  <2>13. ASSUME NEW i \in 1 .. Len(clientList'), NEW j \in 1 .. Len(challenges')
         PROVE  clientList'[i].number # challenges'[j].number
    <3>1. CASE i \in 1 .. m
      <4>1. clientList'[i] = clientList[i]
        BY <2>5, <3>1
      <4>2. old(j) \in 1 .. n /\ challenges'[j] = challenges[old(j)]
        BY <2>6
      <4>3. clientList[i].number # challenges[old(j)].number
        BY <3>1, <4>2 DEF ChallengeUsedOnce
      <4> QED  BY <4>1, <4>2, <4>3
    <3>2. CASE i = m + 1
      BY <2>2, <2>3, <2>5, <2>6, <3>2 DEF NumbersAreDrawn
    <3> QED  BY <2>8, <3>1, <3>2
  <2>14. ChallengeUsedOnce'
    BY <2>12, <2>13 DEF ChallengeUsedOnce
  <2> QED  BY <2>9, <2>10, <2>14
<1> QED  BY <1>2, <1>3

\* An in-game packet: a client may be sent the game state, and keeps its number.
LEMMA InGameKeeps ==
    ASSUME HostInv, NEW from \in Addresses, NEW qport \in QPorts, NEW current \in BOOLEAN,
           TickInGame(from, qport, current)
    PROVE  HostInv'
<1> USE DEF HostInv
<1> DEFINE k == FindClient(from, qport)
<1>1. /\ lastTick' = now /\ now' = now
      /\ UNCHANGED <<challenges, numbers, told, turnedAway>>
      /\ ProcessInGame(challenges, from, qport, current)
  BY NoneExpires DEF TickInGame, ProcessInGame
<1>2. now' \in now .. MaxTime /\ lastTick' \in 0 .. now'
  BY <1>1, HostBoundsAssumption DEF HostTypeOK
<1>3. turnedAway' \in BOOLEAN
  BY <1>1 DEF HostTypeOK
<1>4. CASE k = 0
  <2>1. UNCHANGED clientList
    BY <1>1, <1>4 DEF ProcessInGame
  <2> QED  BY <1>1, <1>2, <1>3, <2>1, SameVectorsKeep
<1>5. CASE k # 0
  <2>1. k \in 1 .. Len(clientList)
    BY <1>5, FindClientIndex
  <2>2. /\ current \/ clientList[k].sequence < MaxGameStates
        /\ clientList' = [clientList EXCEPT ![k] = Answered(@, current)]
    BY <1>1, <1>5 DEF ProcessInGame
  <2> DEFINE c == clientList[k]
             sequence == IF current THEN c.sequence ELSE c.sequence + 1
             d == Answered(c, current)
  <2> HIDE DEF k
  <2>3. c \in Clients
    BY <2>1 DEF HostTypeOK
  <2>4. sequence \in 0 .. MaxGameStates
    BY <2>2, <2>3, HostBoundsAssumption DEF Clients
  <2>5. clientList' = [clientList EXCEPT ![k] = d]
    BY <2>2
  <2>6. d \in Clients /\ d.number = c.number
    BY <2>3, <2>4 DEF Clients, Answered
  <2> HIDE DEF c, d, sequence
  <2>7. clientList' \in Seq(Clients) /\ Len(clientList') = Len(clientList)
    BY <2>1, <2>5, <2>6 DEF HostTypeOK
  <2>8. \A i \in 1 .. Len(clientList') : clientList'[i].number = clientList[i].number
    BY <2>1, <2>5, <2>6, <2>7 DEF c, HostTypeOK
  <2>9. HostTypeOK'
    BY <1>1, <1>2, <1>3, <2>7 DEF HostTypeOK
  <2>10. NumbersAreDrawn' /\ ChallengeUsedOnce'
    BY <1>1, <2>7, <2>8 DEF NumbersAreDrawn, ChallengeUsedOnce
  <2> QED  BY <2>9, <2>10
<1> QED  BY <1>4, <1>5

\* Steps without a datagram.
LEMMA IdleKeeps ==
    ASSUME HostInv, TickIdle \/ Advance \/ UNCHANGED hostVars
    PROVE  HostInv'
<1> USE DEF HostInv
<1>1. UNCHANGED <<challenges, clientList, numbers, told, turnedAway>>
  BY NoneExpires DEF TickIdle, Advance, hostVars
<1>2. now' \in now .. MaxTime /\ lastTick' \in 0 .. now'
  BY HostBoundsAssumption DEF TickIdle, Advance, hostVars, HostTypeOK
<1>3. turnedAway' \in BOOLEAN
  BY <1>1 DEF HostTypeOK
<1> QED  BY <1>1, <1>2, <1>3, SameVectorsKeep

\* The invariant holds in every behaviour.
LEMMA HostSafe == HostSpec => []HostInv
<1>1. HostInv /\ [HostNext]_hostVars => HostInv'
  BY GetChallengeKeeps, ConnectKeeps, InGameKeeps, IdleKeeps DEF HostNext
<1> QED  BY <1>1, HostBegins, PTL DEF HostSpec

----------------------------------------------------------------------------
\* Type correctness: no challenge is from the future, and no address was told a number
\* that was not drawn.
THEOREM HostTypeCorrect == HostSpec => []HostTypeOK
<1>1. HostInv => HostTypeOK
  BY DEF HostInv
<1> QED  BY <1>1, HostSafe, PTL

\* However many clients connect, and however late or often a connect arrives: a challenge
\* makes at most one client, and is no longer a challenge then.
THEOREM ChallengeMakesOneClient == HostSpec => []ChallengeUsedOnce
<1>1. HostInv => ChallengeUsedOnce
  BY DEF HostInv
<1> QED  BY <1>1, HostSafe, PTL

\* The test of hasElapsed holds of no challenge, ever: the loop of tick, which steps over
\* the element after an erased one, erases none.
THEOREM NoChallengeEverExpires == HostSpec => [](RemoveExpired(challenges) = challenges)
<1>1. HostInv => RemoveExpired(challenges) = challenges
  BY NoneExpires DEF HostInv
<1> QED  BY <1>1, HostSafe, PTL

============================================================================
