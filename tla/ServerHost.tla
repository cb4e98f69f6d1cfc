------------------------------ MODULE ServerHost ------------------------------
(***************************************************************************)
(* The server's side of a connection: the challenges it gives, the clients *)
(* it accepts and the game states it sends them.  A tick looks for expired *)
(* challenges and then processes at most one datagram.                     *)
(*                                                                         *)
(* Addresses are compared without their port.  Challenge numbers are       *)
(* random in the code; here they are drawn without repetition.  The        *)
(* clients are external: a datagram is one a client may send, late or      *)
(* again, after what the server has told its address.                      *)
(***************************************************************************)
EXTENDS Integers, Sequences, FiniteSets, SequencesExt

CONSTANTS
    Addresses,      \* the addresses of the clients
    QPorts,         \* their qports
    Expiry,         \* age at which a challenge expires (10000 ms)
    MaxNumbers,     \* bound: challenge numbers drawn
    MaxTime,        \* bound: the clock
    MaxGameStates   \* bound: game states sent to one client

ASSUME HostBoundsAssumption ==
    {Expiry, MaxNumbers, MaxTime, MaxGameStates} \subseteq Nat \ {0}

VARIABLES
    challenges, \* the vector of challenges
    clientList, \* the vector of clients
    now,        \* the steady clock
    lastTick,   \* history: when tick was last called
    numbers,    \* how many challenge numbers were drawn
    told,       \* challengeResponse: the numbers given to each address
    turnedAway  \* history: a connect with a number given to its address, and used
                \* for no client yet, was not answered

hostVars == <<challenges, clientList, now, lastTick, numbers, told, turnedAway>>

Challenges == [from : Addresses, time : 0 .. MaxTime, number : 1 .. MaxNumbers]
Clients == [from : Addresses, qport : QPorts, number : 1 .. MaxNumbers,
            sequence : 0 .. MaxGameStates, spoke : BOOLEAN]

HostInit ==
    /\ challenges = <<>>
    /\ clientList = <<>>
    /\ now = 0
    /\ lastTick = 0
    /\ numbers = 0
    /\ told = [a \in Addresses |-> {}]
    /\ turnedAway = FALSE

\* hasElapsed, as written: the challenge's time against the time to come.
HasElapsed(challenge) == challenge.time >= now + Expiry

\* The loop of tick: the challenges that have not expired, in their order.  It steps over
\* the element after an erased one, which never happens: HasElapsed is false of a
\* challenge that was created in the past.
RemoveExpired(cs) ==
    LET kept == {i \in 1 .. Len(cs) : ~HasElapsed(cs[i])}
        Nth(k) == CHOOSE i \in kept : Cardinality({j \in kept : j <= i}) = k
    IN  [k \in 1 .. Cardinality(kept) |-> cs[Nth(k)]]

\* getChallenge: the index, counted from 0, of the first challenge of an address, and
\* 0 as well if there is none.
GetChallenge(cs, from) ==
    LET found == {i \in 1 .. Len(cs) : cs[i].from = from}
    IN  IF found = {} THEN 0 ELSE (CHOOSE i \in found : \A j \in found : i <= j) - 1

\* createChallenge.
CreateChallenge(from) == [from |-> from, time |-> now, number |-> numbers + 1]

\* "getchallenge": the number of the challenge at a non-zero index, or a new one.
ProcessGetChallenge(cs, from) ==
    LET index == GetChallenge(cs, from)
    IN  /\ IF index # 0
           THEN /\ challenges' = cs
                /\ told' = [told EXCEPT ![from] = @ \union {cs[index + 1].number}]
                /\ UNCHANGED numbers
           ELSE /\ numbers < MaxNumbers
                /\ challenges' = Append(cs, CreateChallenge(from))
                /\ told' = [told EXCEPT ![from] = @ \union {numbers + 1}]
                /\ numbers' = numbers + 1
        /\ UNCHANGED <<clientList, turnedAway>>

\* createClient.
CreateClient(from, qport, number) ==
    [from |-> from, qport |-> qport, number |-> number, sequence |-> 0, spoke |-> FALSE]

\* A connect is accepted if the address's challenge has its number; the challenge is
\* used up.  Mutant: the number is not compared.
AcceptsAnyNumber(cs, index, number) == index # 0
Accepts(cs, index, number) == index # 0 /\ cs[index + 1].number = number

\* "connect": a client is created, or nothing is answered.
ProcessConnect(cs, from, qport, number) ==
    LET index == GetChallenge(cs, from)
        unused == \A i \in 1 .. Len(clientList) : clientList[i].number # number
    IN  /\ IF Accepts(cs, index, number)
           THEN /\ challenges' = RemoveAt(cs, index + 1)
                /\ clientList' = Append(clientList, CreateClient(from, qport, number))
                /\ UNCHANGED turnedAway
           ELSE /\ challenges' = cs
                /\ turnedAway' = (turnedAway \/ unused)
                /\ UNCHANGED clientList
        /\ UNCHANGED <<numbers, told>>

\* findClient: the first client of that address and qport; 0 if there is none.
FindClient(from, qport) ==
    LET found == {i \in 1 .. Len(clientList) :
                     clientList[i].from = from /\ clientList[i].qport = qport}
    IN  IF found = {} THEN 0 ELSE CHOOSE i \in found : \A j \in found : i <= j

\* The client has spoken, and is sent the game state unless it has the current serverId.
Answered(client, current) ==
    [client EXCEPT !.spoke = TRUE, !.sequence = IF current THEN @ ELSE @ + 1]

\* An in-game packet: a client that has not the current serverId is sent the game
\* state; one that is not known is told to disconnect, and nothing changes.
ProcessInGame(cs, from, qport, current) ==
    LET client == FindClient(from, qport)
    IN  /\ challenges' = cs
        /\ IF client = 0
           THEN UNCHANGED clientList
           ELSE /\ current \/ clientList[client].sequence < MaxGameStates
                /\ clientList' = [clientList EXCEPT ![client] = Answered(@, current)]
        /\ UNCHANGED <<numbers, told, turnedAway>>

\* tick with no data on the socket; sendStateToClients sends nothing yet.
TickIdle ==
    /\ lastTick' = now
    /\ challenges' = RemoveExpired(challenges)
    /\ UNCHANGED <<clientList, now, numbers, told, turnedAway>>

\* tick with a datagram on the socket.
TickGetChallenge(from) ==
    /\ lastTick' = now
    /\ ProcessGetChallenge(RemoveExpired(challenges), from)
    /\ UNCHANGED now

TickConnect(from, qport, number) ==
    /\ lastTick' = now
    /\ ProcessConnect(RemoveExpired(challenges), from, qport, number)
    /\ UNCHANGED now

TickInGame(from, qport, current) ==
    /\ lastTick' = now
    /\ ProcessInGame(RemoveExpired(challenges), from, qport, current)
    /\ UNCHANGED now

\* Time passes.
Advance ==
    /\ now < MaxTime
    /\ now' = now + 1
    /\ UNCHANGED <<challenges, clientList, lastTick, numbers, told, turnedAway>>

HostNext ==
    \/ TickIdle
    \/ \E a \in Addresses : TickGetChallenge(a)
    \/ \E a \in Addresses, q \in QPorts : \E n \in told[a] : TickConnect(a, q, n)
    \/ \E a \in Addresses, q \in QPorts, c \in BOOLEAN : TickInGame(a, q, c)
    \/ Advance

HostSpec == HostInit /\ [][HostNext]_hostVars

----------------------------------------------------------------------------
\* Every variable has the type the code gives it; no challenge is from the future.
HostTypeOK ==
    /\ challenges \in Seq(Challenges)
    /\ clientList \in Seq(Clients)
    /\ now \in 0 .. MaxTime
    /\ lastTick \in 0 .. now
    /\ \A i \in 1 .. Len(challenges) : challenges[i].time <= now
    /\ numbers \in 0 .. MaxNumbers
    /\ told \in [Addresses -> SUBSET (1 .. numbers)]
    /\ turnedAway \in BOOLEAN

\* A challenge makes one client, however often its connect arrives, and is gone then.
ChallengeUsedOnce ==
    \A i \in 1 .. Len(clientList) :
        /\ \A j \in 1 .. Len(clientList) : clientList[i].number = clientList[j].number => i = j
        /\ \A j \in 1 .. Len(challenges) : clientList[i].number # challenges[j].number

\* "a challenge already exist for this ip": no address holds two challenges.
OneChallengePerAddress ==
    \A i, j \in 1 .. Len(challenges) : challenges[i].from = challenges[j].from => i = j

\* "remove the challenge if it has expired": none survives a tick at its expiry.
ChallengesExpire ==
    \A i \in 1 .. Len(challenges) : lastTick - challenges[i].time < Expiry

\* "find the challenge by the source address": a connect with the number that was
\* given to its address, and that made no client yet, is answered.
GivenNumbersAreAccepted == ~turnedAway
=============================================================================
