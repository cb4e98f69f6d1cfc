---------------------------- MODULE EngineRequests ----------------------------
(***************************************************************************)
(* What a client asks of a server before it is connected: connect(),       *)
(* getStatus() and getInfo() of an EngineServer, the requests they are     *)
(* made of, and the handler that sends, queues, defers, retries and times  *)
(* them out while the dispatcher's loop runs.                              *)
(*                                                                         *)
(* connect() is a chain of requests: the protocol version, the challenge,  *)
(* an authorisation if the server wants one, and the connection itself.    *)
(* The handler keeps times as points of a steady clock; here they are      *)
(* kept relative to startTime.  The server and the network are external:   *)
(* an answer the server has sent may arrive at any time, any number of     *)
(* times, or never.                                                        *)
(***************************************************************************)
EXTENDS Integers, Sequences

CONSTANTS
    Calls,              \* what the application calls, in order
    InfoTimeout,        \* timeout of version, status and info (10000 ms)
    ChallengeTimeout,   \* 3000 ms
    AuthorizeTimeout,   \* 5500 ms
    ConnectTimeout,     \* 3000 ms
    DeferredTime,       \* deferredChallengeTime and deferredConnectTime (100 ms)
    MaxRetries,         \* retries of a challenge and of a connect (5)
    MaxAuthorizations,  \* retries of an authorisation (2)
    OtherRequesting     \* another handler of the dispatcher has a request

Kinds == {"version", "challenge", "authorize", "connect", "status", "info"}
Answers == {"infoResponse", "infoResponseBad", "getKey", "challengeResponse",
            "connectResponse", "droperror", "print", "serverfull", "statusResponse"}

ASSUME CallsAssumption == Calls \in Seq({"connect", "status", "info"})
ASSUME TimesAssumption ==
    /\ {InfoTimeout, ChallengeTimeout, AuthorizeTimeout, ConnectTimeout} \subseteq Nat \ {0}
    /\ {DeferredTime, MaxRetries, MaxAuthorizations} \subseteq Nat
    /\ MaxAuthorizations <= MaxRetries
    /\ OtherRequesting \in BOOLEAN

VARIABLES
    called,     \* how many of the Calls were made
    request,    \* the active request, or NoRequest
    pending,    \* pendingRequests
    elapsed,    \* now - startTime
    timeout,    \* timeoutTime - startTime
    deferred,   \* deferTime - startTime; 0 for the null time
    phase,      \* the step of the dispatcher's loop that comes next
    answers,    \* answers the server has sent so far
    asked,      \* history: datagrams sent for the active request
    outcome,    \* history: for each call, how it ended
    crashed     \* history: sendData was called without a request

timers == <<elapsed, timeout, deferred>>
network == <<answers, asked>>
vars == <<called, request, pending, timers, phase, network, outcome, crashed>>

CallIds == 1 .. Len(Calls)
NoRequest == [kind |-> "none", call |-> 0, retries |-> 0]
Requests == [kind : Kinds, call : CallIds, retries : 0 .. MaxRetries + 1]
\* silent: the request is dropped and no callback is called.
Outcomes == [how : {"connected", "refused", "answered", "timedOut", "silent"}, asked : BOOLEAN]

\* The first request of a call.
FirstRequest(c) ==
    [kind |-> IF Calls[c] = "connect" THEN "version" ELSE Calls[c],
     call |-> c, retries |-> 0]

----------------------------------------------------------------------------
\* What distinguishes the requests.

\* supportsEvent: the answers a request takes as its own.
SupportsEvent(kind) ==
    CASE kind \in {"version", "info"} -> {"infoResponse", "infoResponseBad"}
      [] kind \in {"challenge", "authorize"} -> {"getKey", "challengeResponse"}
      [] kind = "connect" -> {"connectResponse", "droperror", "print", "serverfull"}
      [] kind = "status" -> {"statusResponse"}

\* overrideTimeoutTime, or the timeout given to sendRequest.
RequestTimeout(kind) ==
    CASE kind = "challenge" -> ChallengeTimeout
      [] kind = "authorize" -> AuthorizeTimeout
      [] kind = "connect" -> ConnectTimeout
      [] OTHER -> InfoTimeout

\* deferredTime.
RequestDeferredTime(kind) ==
    IF kind \in {"challenge", "connect"} THEN DeferredTime ELSE 0

\* timedOut: whether the request is sent once more.
MayRetry(req) ==
    \/ req.kind \in {"challenge", "connect"} /\ req.retries <= MaxRetries
    \/ req.kind = "authorize" /\ req.retries <= MaxAuthorizations

\* External: the answers a server may give to a request.
Replies(kind) ==
    CASE kind \in {"version", "info"} -> {"infoResponse", "infoResponseBad"}
      [] kind = "challenge" -> {"getKey", "challengeResponse"}
      [] kind = "authorize" -> {"challengeResponse"}
      [] kind = "connect" -> {"connectResponse", "droperror", "print", "serverfull"}
      [] kind = "status" -> {"statusResponse"}

----------------------------------------------------------------------------
\* The handler's helpers.

\* sendData: one datagram, which the server may answer.
SendData(req, count) ==
    /\ asked' = count + 1
    /\ \E a \in Replies(req.kind) : answers' \in {answers, answers \union {a}}

\* startRequest: deferred, or sent now; count datagrams were sent for it before.
StartRequest(req, count) ==
    /\ request' = req
    /\ elapsed' = 0
    /\ deferred' = RequestDeferredTime(req.kind)
    /\ timeout' = RequestDeferredTime(req.kind) + RequestTimeout(req.kind)
    /\ IF RequestDeferredTime(req.kind) > 0
       THEN asked' = count /\ UNCHANGED answers
       ELSE SendData(req, count)

\* sendRequest: started, or queued behind the active request.
\* Mutant: the active request is overwritten.
SendRequestOver(req) ==
    /\ StartRequest(req, 0)
    /\ UNCHANGED pending
SendRequest(req) ==
    IF request = NoRequest
    THEN StartRequest(req, 0) /\ UNCHANGED pending
    ELSE pending' = Append(pending, req) /\ UNCHANGED <<request, timers, network>>

\* The active request ends, as handleNewRequest(nullptr) does: the next is dequeued.
\* Neither timer is reset; without a request only deferTime is ever looked at.
\* Mutant: the queue is not looked at.
FinishOnly(how) ==
    /\ outcome' = [outcome EXCEPT ![request.call] =
                       Append(@, [how |-> how, asked |-> asked > 0])]
    /\ request' = NoRequest
    /\ UNCHANGED <<pending, timers, network>>
Finish(how) ==
    /\ outcome' = [outcome EXCEPT ![request.call] =
                       Append(@, [how |-> how, asked |-> asked > 0])]
    /\ IF pending = <<>>
       THEN request' = NoRequest /\ UNCHANGED <<pending, timers, network>>
       ELSE StartRequest(Head(pending), 0) /\ pending' = Tail(pending)

\* The request is replaced by the next of its chain.
Follow(kind) ==
    /\ StartRequest([request EXCEPT !.kind = kind, !.retries = 0], 0)
    /\ UNCHANGED <<pending, outcome>>

\* handleResponse of a connect: "print" is counted as a retry, and nothing is sent.
ConnectResponse(a) ==
    \/ a = "connectResponse" /\ Finish("connected")
    \/ a = "droperror" /\ Finish("refused")
    \/ a = "serverfull" /\ Finish("silent")
    \/ a = "print" /\ request.retries >= MaxRetries /\ Finish("silent")
    \/ /\ a = "print"
       /\ request.retries < MaxRetries
       /\ request' = [request EXCEPT !.retries = @ + 1]
       /\ timeout' = elapsed + timeout  \* handleIncoming; startTime stays
       /\ UNCHANGED <<pending, elapsed, deferred, network, outcome>>

\* handleResponse of the active request.
HandleResponse(a) ==
    \/ request.kind = "version" /\ a = "infoResponse" /\ Follow("challenge")
    \/ request.kind = "version" /\ a = "infoResponseBad" /\ Finish("silent")
    \/ request.kind = "challenge" /\ a = "getKey" /\ Follow("authorize")
    \/ request.kind = "authorize" /\ a = "getKey" /\ Finish("silent")
    \/ /\ request.kind \in {"challenge", "authorize"}
       /\ a = "challengeResponse"
       /\ Follow("connect")
    \/ request.kind = "connect" /\ ConnectResponse(a)
    \/ request.kind \in {"status", "info"} /\ Finish("answered")

----------------------------------------------------------------------------
Init ==
    /\ called = 0
    /\ request = NoRequest
    /\ pending = <<>>
    /\ elapsed = 0
    /\ timeout = 0
    /\ deferred = 0
    /\ phase = "comm"
    /\ answers = {}
    /\ asked = 0
    /\ outcome = [c \in CallIds |-> <<>>]
    /\ crashed = FALSE

\* connect(), getStatus() or getInfo(), also from within a callback: the
\* request that calls back is still the active one then.
Call ==
    /\ called < Len(Calls)
    /\ called' = called + 1
    /\ SendRequest(FirstRequest(called + 1))
    /\ UNCHANGED <<phase, outcome, crashed>>

\* needsProcessing: the condition of the dispatcher's loop.
NeedsProcessing == request # NoRequest \/ OtherRequesting

\* processComm: nothing arrives before the wait is over.
NoMessage ==
    /\ phase = "comm"
    /\ NeedsProcessing
    /\ phase' = "deferred"
    /\ UNCHANGED <<called, request, pending, timers, network, outcome, crashed>>

\* processComm and handleIncoming: an answer that is not the request's is dropped.
Receive(a) ==
    /\ phase = "comm"
    /\ NeedsProcessing
    /\ request # NoRequest
    /\ a \in SupportsEvent(request.kind)
    /\ phase' = "deferred"
    /\ HandleResponse(a)
    /\ UNCHANGED <<called, crashed>>

\* processDeferred: the request is sent once its time has come.
ProcessDeferred ==
    /\ phase = "deferred"
    /\ phase' = "timeout"
    /\ IF deferred = 0 \/ elapsed < deferred
       THEN UNCHANGED <<deferred, network, crashed>>
       ELSE /\ deferred' = 0
            /\ IF request = NoRequest
               THEN crashed' = TRUE /\ UNCHANGED network
               ELSE SendData(request, asked) /\ UNCHANGED crashed
    /\ UNCHANGED <<called, request, pending, elapsed, timeout, outcome>>

\* processTimeOut: the request is retried, or ends with the timeout callback.
ProcessTimeOut ==
    /\ phase = "timeout"
    /\ phase' = "comm"
    /\ \/ /\ request = NoRequest \/ timeout = 0 \/ elapsed < timeout
          /\ UNCHANGED <<request, pending, timers, network, outcome>>
       \/ /\ request # NoRequest
          /\ timeout > 0
          /\ elapsed >= timeout
          /\ IF MayRetry(request)
             THEN /\ StartRequest([request EXCEPT !.retries = @ + 1], asked)
                  /\ UNCHANGED <<pending, outcome>>
             ELSE Finish("timedOut")
    /\ UNCHANGED <<called, crashed>>

\* Time passes; bound: not past what any timer still waits for.
Tick ==
    /\ \/ request # NoRequest /\ elapsed <= timeout
       \/ elapsed < deferred
    /\ elapsed' = elapsed + 1
    /\ UNCHANGED <<called, request, pending, timeout, deferred, phase, network, outcome, crashed>>

Dispatch ==
    \/ NoMessage
    \/ \E a \in answers : Receive(a)
    \/ ProcessDeferred
    \/ ProcessTimeOut

Next ==
    /\ ~crashed
    /\ Call \/ Dispatch \/ Tick

Spec == Init /\ [][Next]_vars

\* The application runs the dispatcher's loop, as processIncomingMessages asks, and
\* the clock runs; nothing is assumed of the server, the network or the application.
FairSpec == Spec /\ WF_vars(~crashed /\ Dispatch) /\ WF_vars(~crashed /\ Tick)

----------------------------------------------------------------------------
\* Every variable has the type the code gives it.
TypeOK ==
    /\ called \in 0 .. Len(Calls)
    /\ request \in Requests \union {NoRequest}
    /\ pending \in Seq(Requests)
    /\ {elapsed, timeout, deferred, asked} \subseteq Nat
    /\ phase \in {"comm", "deferred", "timeout"}
    /\ answers \subseteq Answers
    /\ outcome \in [CallIds -> Seq(Outcomes)]
    /\ crashed \in BOOLEAN

\* A call that was made and has neither the active request nor a queued one.
Ended(c) ==
    /\ c <= called
    /\ request.call # c
    /\ \A i \in 1 .. Len(pending) : pending[i].call # c

\* A call ends in exactly one way, and only calls that ended have: no request of the
\* queue is lost or overwritten, no callback is called twice whatever is duplicated.
EndsExactlyOnce ==
    \A c \in CallIds : Len(outcome[c]) = IF Ended(c) THEN 1 ELSE 0

\* isThisRequest "Should return true if the reply is the correct one": an answer that
\* ends a call arrives after a datagram was sent for the request that it ends.
AnswersAQuestion ==
    \A c \in CallIds : \A i \in 1 .. Len(outcome[c]) :
        outcome[c][i].how # "timedOut" => outcome[c][i].asked

\* sendData is given a request: a deferred start is the start of a request.
NeverSendsNothing == ~crashed

\* connect()'s result "will be called when finished connecting or when an error has
\* occurred", its timeoutResult on timeout: no call ends without a callback.
EveryEndIsTold == \A c \in CallIds : \A i \in 1 .. Len(outcome[c]) : outcome[c][i].how # "silent"

\* The timeout of a request is what overrideTimeoutTime says, counted from its start
\* or from the last answer it accepted.
WaitsAtMostItsTimeout ==
    request # NoRequest =>
        timeout - elapsed <= RequestDeferredTime(request.kind) + RequestTimeout(request.kind)

\* Every call ends, even if the server never answers or answers for ever.
EveryCallEnds == \A c \in CallIds : called >= c ~> Ended(c)
=============================================================================
