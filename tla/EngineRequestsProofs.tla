------------------------ MODULE EngineRequestsProofs ------------------------
(***************************************************************************)
(* Proofs about EngineRequests, for every sequence of calls, every timeout *)
(* and every number of retries: each call ends once, however many answers  *)
(* arrive, arrive again or never arrive.                                   *)
(***************************************************************************)
EXTENDS EngineRequests, SequenceTheorems, TLAPS

\* The active request and the queued ones are of different calls, all of them made;
\* nothing is queued behind no request.
OneRequestPerCall ==
    /\ request = NoRequest => pending = <<>>
    /\ request.call <= called
    /\ \A i \in 1 .. Len(pending) :
          /\ pending[i].call <= called
          /\ pending[i].call # request.call
          /\ \A j \in 1 .. Len(pending) : pending[i].call = pending[j].call => i = j

\* The inductive invariant.
RequestInv == TypeOK /\ OneRequestPerCall /\ EndsExactlyOnce

----------------------------------------------------------------------------
\* A request is of a call, and so is not the null pointer.
LEMMA RequestIsSome ==
    ASSUME NEW r \in Requests
    PROVE  r # NoRequest /\ r.call \in CallIds /\ r.call \in Nat \ {0}
<1>1. r.call \in CallIds /\ r.call \in Nat \ {0}
  BY CallsAssumption DEF Requests, CallIds
<1>2. NoRequest.call = 0
  BY DEF NoRequest
<1> QED  BY <1>1, <1>2

\* A request that is started becomes the active one; its times are points of the clock.
LEMMA StartRequestType ==
    ASSUME TypeOK, NEW req \in Requests, NEW count \in Nat, StartRequest(req, count)
    PROVE  /\ request' = req
           /\ {elapsed', timeout', deferred', asked'} \subseteq Nat
           /\ answers' \subseteq Answers
<1>1. req.kind \in Kinds
  BY DEF Requests
<1>2. RequestDeferredTime(req.kind) \in Nat
  BY TimesAssumption DEF RequestDeferredTime
<1>3. RequestTimeout(req.kind) \in Nat
  BY TimesAssumption, <1>1 DEF RequestTimeout, Kinds
<1>4. Replies(req.kind) \subseteq Answers
  BY <1>1 DEF Replies, Answers, Kinds
<1>5. asked' \in Nat /\ answers' \subseteq Answers
  BY <1>4 DEF StartRequest, SendData, TypeOK
<1> QED  BY <1>2, <1>3, <1>5 DEF StartRequest

\* A request that replaces the active one within its call leaves the other calls and
\* the ends of all calls as they were.
LEMMA SameCallKeeps ==
    ASSUME RequestInv, request # NoRequest, request' # NoRequest,
           request'.call = request.call, UNCHANGED <<called, pending, outcome>>
    PROVE  OneRequestPerCall' /\ EndsExactlyOnce'
  BY DEF RequestInv, OneRequestPerCall, EndsExactlyOnce, Ended

\* The end of the active request: its call gets its one end, and the head of the queue
\* becomes the active request.
LEMMA FinishKeeps ==
    ASSUME RequestInv, request # NoRequest, UNCHANGED called,
           NEW how \in {"connected", "refused", "answered", "timedOut", "silent"},
           Finish(how)
    PROVE  /\ request' \in Requests \union {NoRequest}
           /\ pending' \in Seq(Requests)
           /\ {elapsed', timeout', deferred', asked'} \subseteq Nat
           /\ answers' \subseteq Answers
           /\ outcome' \in [CallIds -> Seq(Outcomes)]
           /\ OneRequestPerCall'
           /\ EndsExactlyOnce'
<1> USE DEF RequestInv
<1>1. request \in Requests /\ request.call \in CallIds
  BY DEF TypeOK, Requests
<1>2. outcome' = [outcome EXCEPT ![request.call] =
                      Append(@, [how |-> how, asked |-> asked > 0])]
  BY DEF Finish
<1>3. [how |-> how, asked |-> asked > 0] \in Outcomes
  BY DEF Outcomes
<1>4. outcome' \in [CallIds -> Seq(Outcomes)]
  BY <1>1, <1>2, <1>3 DEF TypeOK
<1>5. \A c \in CallIds : Len(outcome'[c]) =
          IF c = request.call THEN Len(outcome[c]) + 1 ELSE Len(outcome[c])
  BY <1>1, <1>2, <1>3 DEF TypeOK
<1>6. Len(outcome[request.call]) = 0
  BY <1>1 DEF EndsExactlyOnce, Ended
<1>7. CASE pending = <<>>
  <2>1. request' = NoRequest /\ UNCHANGED <<pending, timers, network>>
    BY <1>7 DEF Finish
  <2>2. request'.call = 0 /\ called \in Nat
    BY <2>1 DEF NoRequest, TypeOK
  <2>3. OneRequestPerCall'
    BY <1>7, <2>1, <2>2 DEF OneRequestPerCall
  <2>4. ASSUME NEW c \in CallIds
        PROVE  Ended(c)' <=> (Ended(c) \/ c = request.call)
    BY <1>7, <2>1, <2>2 DEF Ended, CallIds, OneRequestPerCall
  <2>5. EndsExactlyOnce'
    BY <1>1, <1>5, <1>6, <2>4 DEF EndsExactlyOnce, Ended
  <2> QED  BY <1>4, <2>1, <2>3, <2>5 DEF TypeOK, timers, network
<1>8. CASE pending # <<>>
  <2>1. StartRequest(Head(pending), 0) /\ pending' = Tail(pending)
    BY <1>8 DEF Finish
  <2>2. /\ Head(pending) \in Requests
        /\ Head(pending) = pending[1]
        /\ pending' \in Seq(Requests)
        /\ Len(pending) \in Nat \ {0}
        /\ Len(pending') = Len(pending) - 1
        /\ \A i \in 1 .. Len(pending') : pending'[i] = pending[i + 1]
    BY <1>8, <2>1 DEF TypeOK
  <2>3. /\ request' = pending[1]
        /\ {elapsed', timeout', deferred', asked'} \subseteq Nat
        /\ answers' \subseteq Answers
    BY <2>1, <2>2, StartRequestType
  <2>4. request' \in Requests /\ request' # NoRequest
    BY <2>2, <2>3, RequestIsSome
  <2>5. OneRequestPerCall'
    <3>1. request'.call <= called'
      BY <2>2, <2>3 DEF OneRequestPerCall
    <3>2. ASSUME NEW i \in 1 .. Len(pending')
          PROVE  /\ pending'[i].call <= called'
                 /\ pending'[i].call # request'.call
                 /\ \A j \in 1 .. Len(pending') :
                       pending'[i].call = pending'[j].call => i = j
      <4>1. /\ i + 1 \in 1 .. Len(pending) /\ i + 1 # 1 /\ 1 \in 1 .. Len(pending)
            /\ pending'[i] = pending[i + 1]
        BY <2>2
      <4>2. pending'[i].call <= called' /\ pending'[i].call # request'.call
        BY <2>3, <4>1 DEF OneRequestPerCall
      <4>3. ASSUME NEW j \in 1 .. Len(pending'), pending'[i].call = pending'[j].call
            PROVE  i = j
        <5>1. j + 1 \in 1 .. Len(pending) /\ pending'[j] = pending[j + 1]
          BY <2>2
        <5>2. i + 1 = j + 1
          BY <4>1, <4>3, <5>1 DEF OneRequestPerCall
        <5> QED  BY <5>2
      <4> QED  BY <4>2, <4>3
    <3> QED  BY <2>4, <3>1, <3>2 DEF OneRequestPerCall
  <2>6. ASSUME NEW c \in CallIds
        PROVE  Ended(c)' <=> (Ended(c) \/ c = request.call)
    <3>1. (\E i \in 1 .. Len(pending) : pending[i].call = c)
             <=> \/ request'.call = c
                 \/ \E i \in 1 .. Len(pending') : pending'[i].call = c
      <4>1. ASSUME NEW i \in 1 .. Len(pending), pending[i].call = c
            PROVE  \/ request'.call = c
                   \/ \E k \in 1 .. Len(pending') : pending'[k].call = c
        <5>1. CASE i = 1
          BY <4>1, <5>1, <2>3
        <5>2. CASE i # 1
          <6>1. i - 1 \in 1 .. Len(pending') /\ pending'[i - 1] = pending[i]
            BY <5>2, <2>2
          <6> QED  BY <6>1, <4>1
        <5> QED  BY <5>1, <5>2
      <4>2. ASSUME request'.call = c
            PROVE  \E k \in 1 .. Len(pending) : pending[k].call = c
        <5>1. 1 \in 1 .. Len(pending) /\ pending[1].call = c
          BY <4>2, <2>2, <2>3
        <5> QED  BY <5>1
      <4>3. ASSUME NEW i \in 1 .. Len(pending'), pending'[i].call = c
            PROVE  \E k \in 1 .. Len(pending) : pending[k].call = c
        <5>1. i + 1 \in 1 .. Len(pending) /\ pending[i + 1].call = c
          BY <4>3, <2>2
        <5> QED  BY <5>1
      <4> QED  BY <4>1, <4>2, <4>3
    <3> QED  BY <3>1, <1>1 DEF Ended, OneRequestPerCall
  <2>7. EndsExactlyOnce'
    BY <1>1, <1>5, <1>6, <2>6 DEF EndsExactlyOnce, Ended
  <2> QED  BY <1>4, <2>2, <2>3, <2>4, <2>5, <2>7
<1> QED  BY <1>7, <1>8

----------------------------------------------------------------------------
\* No call was made.
LEMMA RequestInit == Init => RequestInv
<1> SUFFICES ASSUME Init PROVE RequestInv
  OBVIOUS
<1>0. Len(Calls) \in Nat
  BY CallsAssumption
<1>1. TypeOK
  <2>1. outcome \in [CallIds -> Seq(Outcomes)]
    BY DEF Init
  <2>2. pending \in Seq(Requests)
    BY DEF Init
  <2>3. crashed \in BOOLEAN
    BY DEF Init
  <2>4. called \in 0 .. Len(Calls) /\ request \in Requests \union {NoRequest}
    BY <1>0 DEF Init
  <2>5. /\ {elapsed, timeout, deferred, asked} \subseteq Nat
        /\ phase \in {"comm", "deferred", "timeout"}
        /\ answers \subseteq Answers
    BY DEF Init
  <2> QED  BY <2>1, <2>2, <2>3, <2>4, <2>5 DEF TypeOK
<1>2. OneRequestPerCall
  BY <1>0 DEF Init, OneRequestPerCall, NoRequest
<1>3. EndsExactlyOnce
  BY <1>0 DEF Init, EndsExactlyOnce, Ended, CallIds
<1> QED  BY <1>1, <1>2, <1>3 DEF RequestInv

\* connect(), getStatus(), getInfo().
LEMMA CallKeeps ==
    ASSUME RequestInv, Call
    PROVE  RequestInv'
<1> USE DEF RequestInv
<1> DEFINE c == called + 1
           req == FirstRequest(c)
<1>0. Len(Calls) \in Nat /\ called \in Nat
  BY CallsAssumption DEF TypeOK
<1>1. /\ c \in CallIds
      /\ called' = c
      /\ UNCHANGED <<phase, outcome, crashed>>
      /\ SendRequest(req)
  BY <1>0 DEF Call, CallIds
<1>2. req \in Requests /\ req.call = c /\ req # NoRequest
  <2>1. Calls[c] \in {"connect", "status", "info"}
    BY <1>1, CallsAssumption DEF CallIds
  <2> QED  BY <1>1, <2>1, TimesAssumption DEF FirstRequest, Requests, Kinds, NoRequest
<1>3. ~Ended(c) /\ Len(outcome[c]) = 0
  BY <1>0, <1>1 DEF EndsExactlyOnce, Ended
<1>4. CASE request = NoRequest
  <2>1. StartRequest(req, 0) /\ UNCHANGED pending /\ pending = <<>>
    BY <1>1, <1>4 DEF SendRequest, OneRequestPerCall
  <2>2. /\ request' = req
        /\ {elapsed', timeout', deferred', asked'} \subseteq Nat
        /\ answers' \subseteq Answers
    BY <1>2, <2>1, StartRequestType
  <2>3. TypeOK'
    BY <1>0, <1>1, <1>2, <2>1, <2>2 DEF TypeOK, CallIds
  <2>4. OneRequestPerCall'
    <3> HIDE DEF req
    <3> QED  BY <1>0, <1>1, <1>2, <2>1, <2>2 DEF OneRequestPerCall
  <2>5. ASSUME NEW d \in CallIds  PROVE Ended(d)' <=> Ended(d)
    <3> HIDE DEF req
    <3> QED  BY <1>0, <1>1, <1>2, <1>4, <2>1, <2>2 DEF Ended, CallIds, NoRequest
  <2>6. EndsExactlyOnce'
    BY <1>1, <2>5 DEF EndsExactlyOnce
  <2> QED  BY <2>3, <2>4, <2>6
<1>5. CASE request # NoRequest
  <2>1. pending' = Append(pending, req) /\ UNCHANGED <<request, timers, network>>
    BY <1>1, <1>5 DEF SendRequest
  <2>2. /\ pending' \in Seq(Requests)
        /\ Len(pending) \in Nat
        /\ Len(pending') = Len(pending) + 1
        /\ \A i \in 1 .. Len(pending) : pending'[i] = pending[i]
        /\ pending'[Len(pending) + 1] = req
    <3> HIDE DEF req
    <3> QED  BY <1>2, <2>1 DEF TypeOK
  <2>3. TypeOK'
    BY <1>0, <1>1, <2>1, <2>2 DEF TypeOK, CallIds, timers, network
  <2> HIDE DEF req
  <2>4. OneRequestPerCall'
    <3>1. request.call <= called /\ request.call \in Nat
      BY DEF OneRequestPerCall, TypeOK, Requests, CallIds, NoRequest
    <3>2. ASSUME NEW i \in 1 .. Len(pending)
          PROVE  pending[i].call <= called /\ pending[i].call \in Nat
      <4>1. pending[i] \in Requests
        BY DEF TypeOK
      <4> QED  BY <4>1, RequestIsSome DEF OneRequestPerCall
    <3>3. \A i \in 1 .. Len(pending') : i \in 1 .. Len(pending) \/ i = Len(pending) + 1
      BY <2>2
    <3> QED  BY <1>0, <1>1, <1>2, <1>5, <2>1, <2>2, <3>1, <3>2, <3>3 DEF OneRequestPerCall
  <2>5. ASSUME NEW d \in CallIds  PROVE Ended(d)' <=> Ended(d)
    <3>1. CASE d = c
      <4>1. pending'[Len(pending) + 1].call = d /\ Len(pending) + 1 \in 1 .. Len(pending')
        BY <3>1, <1>2, <2>2
      <4> QED  BY <3>1, <4>1, <1>3 DEF Ended
    <3>2. CASE d # c
      <4>1. \A i \in 1 .. Len(pending') : i \in 1 .. Len(pending) \/ i = Len(pending) + 1
        BY <2>2
      <4> QED  BY <3>2, <4>1, <1>0, <1>1, <1>2, <2>1, <2>2 DEF Ended, CallIds
    <3> QED  BY <3>1, <3>2
  <2>6. EndsExactlyOnce'
    BY <1>1, <2>5 DEF EndsExactlyOnce
  <2> QED  BY <2>3, <2>4, <2>6
<1> QED  BY <1>4, <1>5

\* handleIncoming: the answers of all kinds of requests.
LEMMA ReceiveKeeps ==
    ASSUME RequestInv, NEW a \in answers, Receive(a)
    PROVE  RequestInv'
<1> USE DEF RequestInv
<1>1. /\ request # NoRequest /\ request \in Requests
      /\ UNCHANGED <<called, crashed>>
      /\ phase' = "deferred"
      /\ HandleResponse(a)
  BY DEF Receive, TypeOK
<1>2. ASSUME NEW kind \in Kinds, Follow(kind)
      PROVE  RequestInv'
  <2> DEFINE req == [request EXCEPT !.kind = kind, !.retries = 0]
  <2>1. req \in Requests /\ req.call = request.call /\ req # NoRequest
    <3>1. req \in Requests /\ req.call = request.call
      <4>1. 0 \in 0 .. MaxRetries + 1
        BY TimesAssumption
      <4> QED  BY <1>1, <4>1 DEF Requests
    <3> QED  BY <3>1, RequestIsSome
  <2>2. StartRequest(req, 0) /\ UNCHANGED <<pending, outcome>>
    BY <1>2 DEF Follow
  <2> HIDE DEF req
  <2>3. /\ request' = req
        /\ {elapsed', timeout', deferred', asked'} \subseteq Nat
        /\ answers' \subseteq Answers
    BY <2>1, <2>2, StartRequestType
  <2>4. TypeOK'
    BY <1>1, <2>1, <2>2, <2>3 DEF TypeOK
  <2>5. OneRequestPerCall' /\ EndsExactlyOnce'
    BY <1>1, <2>1, <2>2, <2>3, SameCallKeeps
  <2> QED  BY <2>4, <2>5
<1>3. ASSUME NEW how \in {"connected", "refused", "answered", "timedOut", "silent"},
             Finish(how)
      PROVE  RequestInv'
  <2>1. called' \in 0 .. Len(Calls) /\ crashed' \in BOOLEAN
    BY <1>1 DEF TypeOK
  <2> QED  BY <1>1, <1>3, <2>1, FinishKeeps DEF TypeOK
<1>4. ASSUME request.retries < MaxRetries,
             request' = [request EXCEPT !.retries = @ + 1],
             timeout' = elapsed + timeout,
             UNCHANGED <<pending, elapsed, deferred, network, outcome>>
      PROVE  RequestInv'
  <2>1. request' \in Requests /\ request'.call = request.call /\ request' # NoRequest
    BY <1>1, <1>4, TimesAssumption DEF Requests, NoRequest, CallIds
  <2>2. TypeOK'
    BY <1>1, <1>4, <2>1 DEF TypeOK, network
  <2>3. OneRequestPerCall' /\ EndsExactlyOnce'
    BY <1>1, <1>4, <2>1, SameCallKeeps
  <2> QED  BY <2>2, <2>3
<1>5. CASE ConnectResponse(a)
  BY <1>3, <1>4, <1>5 DEF ConnectResponse
<1> QED  BY <1>1, <1>2, <1>3, <1>5 DEF HandleResponse, Kinds

\* processTimeOut: nothing, a retry of the same call, or its end.
LEMMA ProcessTimeOutKeeps ==
    ASSUME RequestInv, ProcessTimeOut
    PROVE  RequestInv'
<1> USE DEF RequestInv
<1>1. UNCHANGED <<called, crashed>> /\ phase' = "comm"
  BY DEF ProcessTimeOut
<1>2. CASE UNCHANGED <<request, pending, timers, network, outcome>>
  <2>1. TypeOK'
    BY <1>1, <1>2 DEF TypeOK, timers, network
  <2>2. OneRequestPerCall' /\ EndsExactlyOnce'
    BY <1>1, <1>2 DEF OneRequestPerCall, EndsExactlyOnce, Ended
  <2> QED  BY <2>1, <2>2
<1>3. CASE request # NoRequest /\ MayRetry(request)
            /\ StartRequest([request EXCEPT !.retries = @ + 1], asked)
            /\ UNCHANGED <<pending, outcome>>
  <2> DEFINE req == [request EXCEPT !.retries = @ + 1]
  <2>1. req \in Requests /\ req.call = request.call /\ req # NoRequest
    <3>1. request \in Requests /\ request.retries + 1 \in 0 .. MaxRetries + 1
      <4>1. MaxRetries \in Nat /\ MaxAuthorizations \in Nat /\ MaxAuthorizations <= MaxRetries
        BY TimesAssumption
      <4>2. request \in Requests
        BY <1>3 DEF TypeOK
      <4>3. request.retries \in Nat
        BY <4>1, <4>2 DEF Requests
      <4>4. request.retries <= MaxRetries
        BY <1>3, <4>1, <4>3 DEF MayRetry
      <4> QED  BY <4>1, <4>2, <4>3, <4>4
    <3>2. req \in Requests /\ req.call = request.call
      BY <3>1 DEF Requests
    <3> QED  BY <3>2, RequestIsSome
  <2> HIDE DEF req
  <2>2. asked \in Nat /\ StartRequest(req, asked)
    BY <1>3 DEF TypeOK, req
  <2>3. /\ request' = req
        /\ {elapsed', timeout', deferred', asked'} \subseteq Nat
        /\ answers' \subseteq Answers
    BY <2>1, <2>2, StartRequestType
  <2>4. TypeOK'
    BY <1>1, <1>3, <2>1, <2>3 DEF TypeOK
  <2>5. OneRequestPerCall' /\ EndsExactlyOnce'
    BY <1>1, <1>3, <2>1, <2>3, SameCallKeeps
  <2> QED  BY <2>4, <2>5
<1>4. CASE request # NoRequest /\ Finish("timedOut")
  <2>1. called' \in 0 .. Len(Calls) /\ crashed' \in BOOLEAN
    BY <1>1 DEF TypeOK
  <2> QED  BY <1>1, <1>4, <2>1, FinishKeeps DEF TypeOK
<1> QED  BY <1>2, <1>3, <1>4 DEF ProcessTimeOut

\* The steps that touch neither a request nor the queue.
LEMMA OthersKeep ==
    ASSUME RequestInv, NoMessage \/ ProcessDeferred \/ Tick \/ UNCHANGED vars
    PROVE  RequestInv'
<1> USE DEF RequestInv
<1>1. UNCHANGED <<called, request, pending, outcome>>
  BY DEF NoMessage, ProcessDeferred, Tick, vars
<1>2. OneRequestPerCall' /\ EndsExactlyOnce'
  BY <1>1 DEF OneRequestPerCall, EndsExactlyOnce, Ended
<1>3. ASSUME UNCHANGED <<timers, network>>, crashed' = crashed,
             phase' \in {"comm", "deferred", "timeout"}
      PROVE  TypeOK'
  BY <1>1, <1>3 DEF TypeOK, timers, network
<1>4. CASE NoMessage
  BY <1>2, <1>3, <1>4 DEF NoMessage
<1>5. CASE Tick
  <2>1. TypeOK'
    BY <1>1, <1>5 DEF Tick, TypeOK, network
  <2> QED  BY <1>2, <2>1
<1>6. CASE UNCHANGED vars
  <2>1. phase' \in {"comm", "deferred", "timeout"}
    BY <1>6 DEF vars, TypeOK
  <2> QED  BY <1>2, <1>3, <1>6, <2>1 DEF vars
<1>7. CASE ProcessDeferred
  <2>1. deferred' \in Nat /\ elapsed' \in Nat /\ timeout' \in Nat
    BY <1>7 DEF ProcessDeferred, TypeOK
  <2>2. crashed' \in BOOLEAN
    BY <1>7 DEF ProcessDeferred, TypeOK
  <2>3. asked' \in Nat /\ answers' \subseteq Answers
    <3>1. CASE UNCHANGED network
      BY <3>1 DEF network, TypeOK
    <3>2. CASE request # NoRequest /\ SendData(request, asked)
      <4>1. Replies(request.kind) \subseteq Answers
        BY <3>2 DEF TypeOK, Requests, Replies, Answers, Kinds
      <4> QED  BY <3>2, <4>1 DEF SendData, TypeOK
    <3> QED  BY <1>7, <3>1, <3>2 DEF ProcessDeferred
  <2>4. phase' = "timeout"
    BY <1>7 DEF ProcessDeferred
  <2>5. TypeOK'
    BY <1>1, <2>1, <2>2, <2>3, <2>4 DEF TypeOK
  <2> QED  BY <1>2, <2>5
<1> QED  BY <1>4, <1>5, <1>6, <1>7

\* Every step keeps the invariant.
LEMMA RequestStep == RequestInv /\ [Next]_vars => RequestInv'
  BY CallKeeps, ReceiveKeeps, ProcessTimeOutKeeps, OthersKeep DEF Next, Dispatch

\* The invariant holds in every behaviour.
LEMMA RequestsSafe == Spec => []RequestInv
  BY RequestInit, RequestStep, PTL DEF Spec

----------------------------------------------------------------------------
\* Type correctness: no request is retried past its limit, the queue holds requests
\* only, and every timer is a point of the clock.
THEOREM RequestsTypeCorrect == Spec => []TypeOK
<1>1. RequestInv => TypeOK
  BY DEF RequestInv
<1> QED  BY <1>1, RequestsSafe, PTL

\* Every call that was made is active, queued or has ended, and has ended exactly once:
\* connect(), getStatus() and getInfo() call back at most once for one call, whatever
\* the handler's order of deferring, retrying, timing out and answering.
THEOREM CallsEndExactlyOnce == Spec => []EndsExactlyOnce
<1>1. RequestInv => EndsExactlyOnce
  BY DEF RequestInv
<1> QED  BY <1>1, RequestsSafe, PTL

----------------------------------------------------------------------------
\* An ended call is never taken up again, and never ends anew.
EndedStaysEnded ==
    [][\A c \in CallIds : Ended(c) => Ended(c)' /\ outcome'[c] = outcome[c]]_vars

\* The end of the active request ends no other call, and takes none up again.
LEMMA FinishIsFinal ==
    ASSUME RequestInv, request # NoRequest, UNCHANGED called,
           NEW how, Finish(how), NEW c \in CallIds, Ended(c)
    PROVE  Ended(c)' /\ outcome'[c] = outcome[c]
<1> USE DEF RequestInv
<1>1. c # request.call
  BY DEF Ended
<1>2. outcome'[c] = outcome[c]
  BY <1>1 DEF Finish, TypeOK
<1>3. CASE pending = <<>>
  <2>1. request' = NoRequest /\ pending' = <<>>
    BY <1>3 DEF Finish
  <2>2. request'.call # c
    BY <2>1 DEF NoRequest, CallIds
  <2> QED  BY <1>2, <2>1, <2>2 DEF Ended
<1>4. CASE pending # <<>>
  <2>1. request' = Head(pending) /\ pending' = Tail(pending)
    BY <1>4 DEF Finish, StartRequest
  <2>2. /\ Head(pending) = pending[1] /\ 1 \in 1 .. Len(pending)
        /\ \A i \in 1 .. Len(pending') :
              i + 1 \in 1 .. Len(pending) /\ pending'[i] = pending[i + 1]
    BY <1>4, <2>1 DEF TypeOK
  <2> QED  BY <1>2, <2>1, <2>2 DEF Ended
<1> QED  BY <1>3, <1>4

\* The same for all steps.
LEMMA StepIsFinal ==
    ASSUME RequestInv, [Next]_vars, NEW c \in CallIds, Ended(c)
    PROVE  Ended(c)' /\ outcome'[c] = outcome[c]
<1> USE DEF RequestInv
<1>1. ASSUME UNCHANGED <<called, outcome, pending>>, request'.call = request.call
      PROVE  Ended(c)' /\ outcome'[c] = outcome[c]
  BY <1>1 DEF Ended
<1>2. ASSUME request # NoRequest, UNCHANGED called, NEW how, Finish(how)
      PROVE  Ended(c)' /\ outcome'[c] = outcome[c]
  BY <1>2, FinishIsFinal
<1>3. ASSUME NEW kind, Follow(kind), UNCHANGED called, request # NoRequest
      PROVE  Ended(c)' /\ outcome'[c] = outcome[c]
  <2>1. request'.call = request.call
    BY <1>3 DEF Follow, StartRequest, TypeOK, Requests
  <2> QED  BY <1>1, <1>3, <2>1 DEF Follow
<1>4. CASE Call
  <2>1. called' = called + 1 /\ called \in Nat /\ outcome' = outcome
    BY <1>4, CallsAssumption DEF Call, TypeOK
  <2>2. c # called + 1 /\ c <= called'
    BY <2>1 DEF Ended, CallIds
  <2>3. FirstRequest(called + 1).call = called + 1
    BY DEF FirstRequest
  <2>4. CASE request = NoRequest
    <3>1. request' = FirstRequest(called + 1) /\ pending' = pending
      BY <1>4, <2>4 DEF Call, SendRequest, StartRequest
    <3> HIDE DEF FirstRequest
    <3> QED  BY <2>1, <2>2, <2>3, <3>1 DEF Ended
  <2>5. CASE request # NoRequest
    <3> DEFINE req == FirstRequest(called + 1)
    <3>1. request' = request /\ pending' = Append(pending, req)
      BY <1>4, <2>5 DEF Call, SendRequest
    <3> HIDE DEF req
    <3>2. \A i \in 1 .. Len(pending') :
             \/ i \in 1 .. Len(pending) /\ pending'[i] = pending[i]
             \/ pending'[i] = req
      BY <3>1 DEF TypeOK
    <3>3. req.call # c
      BY <2>2, <2>3 DEF req
    <3> QED  BY <2>1, <2>2, <3>1, <3>2, <3>3 DEF Ended
  <2> QED  BY <2>4, <2>5
<1>5. ASSUME NEW a \in answers, Receive(a)
      PROVE  Ended(c)' /\ outcome'[c] = outcome[c]
  <2>1. request # NoRequest /\ UNCHANGED called /\ HandleResponse(a)
    BY <1>5 DEF Receive
  <2>2. ASSUME request' = [request EXCEPT !.retries = @ + 1],
               UNCHANGED <<pending, outcome>>
        PROVE  Ended(c)' /\ outcome'[c] = outcome[c]
    <3>1. request'.call = request.call
      BY <2>1, <2>2 DEF TypeOK, Requests
    <3> QED  BY <1>1, <2>1, <2>2, <3>1
  <2>3. CASE ConnectResponse(a)
    BY <1>2, <2>1, <2>2, <2>3 DEF ConnectResponse
  <2> QED  BY <1>2, <1>3, <2>1, <2>3 DEF HandleResponse
<1>6. CASE ProcessTimeOut
  <2>1. ASSUME request # NoRequest, UNCHANGED <<pending, outcome>>,
               StartRequest([request EXCEPT !.retries = @ + 1], asked)
        PROVE  Ended(c)' /\ outcome'[c] = outcome[c]
    <3>1. request'.call = request.call
      BY <2>1 DEF StartRequest, TypeOK, Requests
    <3> QED  BY <1>1, <1>6, <2>1, <3>1 DEF ProcessTimeOut
  <2> QED  BY <1>1, <1>2, <1>6, <2>1 DEF ProcessTimeOut
<1>7. CASE NoMessage \/ ProcessDeferred \/ Tick \/ UNCHANGED vars
  BY <1>1, <1>7 DEF NoMessage, ProcessDeferred, Tick, vars
<1> QED  BY <1>4, <1>5, <1>6, <1>7 DEF Next, Dispatch

\* An ended call is never taken up again: an answer that is late or comes twice finds
\* no request of that call, and neither a retry nor the queue brings one back.
THEOREM EndIsFinal == Spec => EndedStaysEnded
<1>1. RequestInv /\ [Next]_vars =>
          [\A c \in CallIds : Ended(c) => Ended(c)' /\ outcome'[c] = outcome[c]]_vars
  BY StepIsFinal
<1> QED  BY <1>1, RequestsSafe, PTL DEF Spec, EndedStaysEnded

----------------------------------------------------------------------------
\* Calls end in the order in which they were made.
CallsEndInOrder ==
    \A c, d \in CallIds : c < d /\ Ended(d) => Ended(c)

\* The active request and the queue are of the last calls made, in their order.
QueueInOrder ==
    request # NoRequest =>
        /\ called = request.call + Len(pending)
        /\ \A i \in 1 .. Len(pending) : pending[i].call = request.call + i

\* The end of the active request moves the queue up by one.
LEMMA FinishKeepsOrder ==
    ASSUME RequestInv, QueueInOrder, request # NoRequest, UNCHANGED called,
           NEW how, Finish(how)
    PROVE  QueueInOrder'
<1>1. CASE pending = <<>>
  BY <1>1 DEF Finish, QueueInOrder
<1>2. CASE pending # <<>>
  <2>1. request' = Head(pending) /\ pending' = Tail(pending)
    BY <1>2 DEF Finish, StartRequest
  <2>2. pending \in Seq(Requests) /\ request \in Requests
    BY DEF RequestInv, TypeOK
  <2>3. /\ Head(pending) = pending[1] /\ Len(pending) \in Nat \ {0}
        /\ Len(pending') = Len(pending) - 1
        /\ \A i \in 1 .. Len(pending') :
              i + 1 \in 1 .. Len(pending) /\ pending'[i] = pending[i + 1]
    BY <1>2, <2>1, <2>2
  <2>4. request.call \in Nat
    BY <2>2, RequestIsSome
  <2>5. request'.call = request.call + 1
    BY <2>1, <2>3 DEF QueueInOrder
  <2>6. called' = request'.call + Len(pending')
    BY <2>3, <2>4, <2>5 DEF QueueInOrder
  <2>7. ASSUME NEW i \in 1 .. Len(pending')
        PROVE  pending'[i].call = request'.call + i
    <3>1. i \in Nat /\ pending'[i] = pending[i + 1] /\ i + 1 \in 1 .. Len(pending)
      BY <2>3
    <3>2. pending[i + 1].call = request.call + (i + 1)
      BY <3>1 DEF QueueInOrder
    <3>3. request.call + (i + 1) = (request.call + 1) + i
      BY <2>4, <3>1
    <3> QED  BY <2>5, <3>1, <3>2, <3>3
  <2> QED  BY <2>6, <2>7 DEF QueueInOrder
<1> QED  BY <1>1, <1>2

\* Every step keeps the order.
LEMMA StepKeepsOrder ==
    ASSUME RequestInv, QueueInOrder, [Next]_vars
    PROVE  QueueInOrder'
<1> USE DEF RequestInv
<1>1. ASSUME UNCHANGED <<called, pending>>, request # NoRequest \/ request' = request,
             request'.call = request.call
      PROVE  QueueInOrder'
  BY <1>1 DEF QueueInOrder
<1>2. ASSUME request # NoRequest, UNCHANGED called, NEW how, Finish(how)
      PROVE  QueueInOrder'
  BY <1>2, FinishKeepsOrder
<1>3. ASSUME NEW kind, Follow(kind), UNCHANGED called, request # NoRequest
      PROVE  QueueInOrder'
  <2>1. request'.call = request.call
    BY <1>3 DEF Follow, StartRequest, TypeOK, Requests
  <2> QED  BY <1>1, <1>3, <2>1 DEF Follow
<1>4. CASE Call
  <2> DEFINE req == FirstRequest(called + 1)
  <2>1. called' = called + 1 /\ called \in Nat
    BY <1>4, CallsAssumption DEF Call, TypeOK
  <2>2. req.call = called + 1
    BY DEF FirstRequest
  <2>3. CASE request = NoRequest
    <3>1. request' = req /\ pending' = <<>>
      BY <1>4, <2>3 DEF Call, SendRequest, StartRequest, OneRequestPerCall
    <3> HIDE DEF req
    <3> QED  BY <2>1, <2>2, <3>1 DEF QueueInOrder
  <2>4. CASE request # NoRequest
    <3>1. request' = request /\ pending' = Append(pending, req)
      BY <1>4, <2>4 DEF Call, SendRequest
    <3> HIDE DEF req
    <3>2. /\ Len(pending) \in Nat /\ Len(pending') = Len(pending) + 1
          /\ \A i \in 1 .. Len(pending) : pending'[i] = pending[i]
          /\ pending'[Len(pending) + 1] = req
      BY <3>1 DEF TypeOK
    <3>3. request \in Requests /\ request.call \in Nat
      BY <2>4, RequestIsSome DEF TypeOK
    <3>4. /\ called = request.call + Len(pending)
          /\ \A i \in 1 .. Len(pending) : pending[i].call = request.call + i
      BY <2>4 DEF QueueInOrder
    <3>5. called' = request.call + Len(pending')
      <4>1. (request.call + Len(pending)) + 1 = request.call + (Len(pending) + 1)
        BY <3>2, <3>3
      <4> QED  BY <2>1, <3>2, <3>4, <4>1
    <3>6. ASSUME NEW i \in 1 .. Len(pending') PROVE pending'[i].call = request.call + i
      <4>1. CASE i \in 1 .. Len(pending)
        BY <3>2, <3>4, <4>1
      <4>2. CASE i = Len(pending) + 1
        BY <2>2, <3>2, <3>3, <3>4, <4>2
      <4> QED  BY <3>2, <4>1, <4>2
    <3> QED  BY <3>1, <3>5, <3>6 DEF QueueInOrder
  <2> QED  BY <2>3, <2>4
<1>5. ASSUME NEW a \in answers, Receive(a)
      PROVE  QueueInOrder'
  <2>1. request # NoRequest /\ UNCHANGED called /\ HandleResponse(a)
    BY <1>5 DEF Receive
  <2>2. ASSUME request' = [request EXCEPT !.retries = @ + 1], UNCHANGED pending
        PROVE  QueueInOrder'
    <3>1. request'.call = request.call
      BY <2>1, <2>2 DEF TypeOK, Requests
    <3> QED  BY <1>1, <2>1, <2>2, <3>1
  <2>3. CASE ConnectResponse(a)
    BY <1>2, <2>1, <2>2, <2>3 DEF ConnectResponse
  <2> QED  BY <1>2, <1>3, <2>1, <2>3 DEF HandleResponse
<1>6. CASE ProcessTimeOut
  <2>1. ASSUME request # NoRequest, UNCHANGED <<called, pending>>,
               StartRequest([request EXCEPT !.retries = @ + 1], asked)
        PROVE  QueueInOrder'
    <3>1. request'.call = request.call
      BY <2>1 DEF StartRequest, TypeOK, Requests
    <3> QED  BY <1>1, <2>1, <3>1
  <2> QED  BY <1>1, <1>2, <1>6, <2>1 DEF ProcessTimeOut
<1>7. CASE NoMessage \/ ProcessDeferred \/ Tick \/ UNCHANGED vars
  BY <1>1, <1>7 DEF NoMessage, ProcessDeferred, Tick, vars
<1> QED  BY <1>4, <1>5, <1>6, <1>7 DEF Next, Dispatch

\* connect(), getStatus() and getInfo() end in the order in which they were called,
\* whatever is retried, deferred or timed out: a call is served when all before it
\* have ended.
THEOREM RequestsEndInOrder == Spec => []CallsEndInOrder
<1>1. Init => QueueInOrder
  BY DEF Init, QueueInOrder
<1>2. RequestInv /\ QueueInOrder => CallsEndInOrder
  <2> SUFFICES ASSUME RequestInv, QueueInOrder, NEW c \in CallIds, NEW d \in CallIds,
                      c < d, Ended(d)
               PROVE  Ended(c)
    BY DEF CallsEndInOrder
  <2>1. /\ called \in Nat /\ c \in Nat /\ d \in Nat /\ d <= called /\ request.call # d
        /\ \A i \in 1 .. Len(pending) : pending[i].call # d
        /\ pending \in Seq(Requests)
    BY CallsAssumption DEF RequestInv, TypeOK, CallIds, Ended
  <2>2. c <= called
    BY <2>1
  <2>3. CASE request = NoRequest
    <3>1. pending = <<>> /\ request.call # c
      BY <2>3 DEF RequestInv, OneRequestPerCall, NoRequest, CallIds
    <3> QED  BY <2>2, <3>1 DEF Ended
  <2>4. CASE request # NoRequest
    <3>1. request.call \in Nat /\ Len(pending) \in Nat
      BY <2>1, <2>4, RequestIsSome DEF RequestInv, TypeOK
    <3>2. /\ called = request.call + Len(pending)
          /\ \A i \in 1 .. Len(pending) : pending[i].call = request.call + i
      BY <2>4 DEF QueueInOrder
    <3>3. d < request.call
      <4> SUFFICES ASSUME d > request.call PROVE FALSE
        BY <2>1, <3>1
      <4>1. d - request.call \in 1 .. Len(pending)
        BY <2>1, <3>1, <3>2
      <4>2. pending[d - request.call].call = request.call + (d - request.call)
        BY <3>2, <4>1
      <4> QED  BY <2>1, <3>1, <4>1, <4>2
    <3>4. \A i \in 1 .. Len(pending) : pending[i].call # c
      BY <2>1, <3>1, <3>2, <3>3
    <3>5. request.call # c
      BY <2>1, <3>1, <3>3
    <3> QED  BY <2>2, <3>4, <3>5 DEF Ended
  <2> QED  BY <2>3, <2>4
<1>3. RequestInv /\ QueueInOrder /\ [Next]_vars => QueueInOrder'
  BY StepKeepsOrder
<1> QED  BY <1>1, <1>2, <1>3, RequestsSafe, PTL DEF Spec

=============================================================================
