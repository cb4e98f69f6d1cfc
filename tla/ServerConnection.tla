--------------------------- MODULE ServerConnection ---------------------------
(***************************************************************************)
(* The life of a connection to a server: the tick, the packets it takes    *)
(* from the channel, the exceptions they raise, the handlers it calls and  *)
(* the ways it ends.                                                       *)
(*                                                                         *)
(* Everything runs on the thread that calls tick; any handler of the       *)
(* application may call disconnect() before it returns, and disconnect()   *)
(* calls handlers itself.  The contents of the commands, game states and   *)
(* snapshots are left to other modules: a message is here a sequence of    *)
(* operations, told apart by what they do to the connection.               *)
(***************************************************************************)
EXTENDS Integers, Sequences

CONSTANTS
    Messages,       \* sequenced messages of the server: sequences of Ops
    DisconnectsIn,  \* the handlers in which the application calls disconnect()
    Timeout,        \* the timeout (60 s), in units of time
    SlowInterval,   \* time between packets before the input module exists (1 s)
    FastInterval,   \* time between packets once it does
    MaxAtOnce,      \* maxPacketsAtOnce
    MaxInbox        \* bound: packets waiting on the socket

\* print: centerprint, locprint and download; command: a reliable command other than
\* "disconnect", which is kick; cgmessage: parsed by the module; illegible: any
\* operation that throws a NetworkException; truncated: the message ends early.
Ops == {"nop", "gamestate", "snapshot", "print", "command", "cgmessage", "kick",
        "illegible", "truncated"}
\* The handlers, by the place of the call.  After these the code looks at the
\* connection again before it uses it.
SafeHandlers == {"timeout", "error", "print", "command", "gamestate", "snapshot",
                 "disconnect"}
\* time: firstSnapshot and serverRestarted; init, cgmessage, cgtick: of the module and
\* its snapshot processor; input: userInput; preWrite, postWrite: of writePacket.
Handlers == SafeHandlers \union
            {"time", "init", "input", "preWrite", "postWrite", "cgmessage", "cgtick"}

ASSUME MessagesAssumption == \A m \in Messages : m \in Seq(Ops)
ASSUME HandlersAssumption == DisconnectsIn \subseteq Handlers
ASSUME BoundsAssumption ==
    /\ {Timeout, MaxAtOnce, MaxInbox} \subseteq Nat \ {0}
    /\ {SlowInterval, FastInterval} \subseteq Nat
    /\ FastInterval <= SlowInterval

VARIABLES
    pc,             \* where tick is: idle between ticks
    channel,        \* serverChannel.isChannelValid()
    cgame,          \* cgameModule exists
    serverId,       \* a game state was parsed
    haveSnap,       \* a valid snapshot was parsed
    entered,        \* the first active snapshot was seen
    inputModule,    \* the application has set the input module
    message,        \* operations left in the message being parsed
    count,          \* packets taken in this tick
    silence,        \* time since the timeout timer was updated
    sinceSend,      \* time since lastPacketSendTime
    inbox,          \* packets waiting on the socket
    serverGone,     \* the server has stopped sending
    kicked,         \* history: the server's reliable "disconnect" was executed
    failed,         \* history: the last tick was ended by an exception
    notified,       \* history: calls of the disconnect handler
    crashed         \* history: a wiped channel or a deleted module was used

connection == <<channel, cgame, serverId, notified>>
game == <<haveSnap, entered, inputModule>>
timers == <<silence, sinceSend>>
server == <<inbox, serverGone>>
history == <<kicked, failed>>
vars == <<pc, connection, game, message, count, timers, server, history, crashed>>

\* What arrives: a sequenced message, one that ends before its operations ("short"),
\* a packet that receive does not accept ("stale"), throws on ("badFragment"), or
\* finds connectionless ("oob", and "drop" if it is a disconnect or a droperror).
Packets == [kind : {"message"}, ops : Messages]
           \union [kind : {"short", "stale", "badFragment", "oob", "drop"}, ops : {<<>>}]

Init ==
    /\ pc = "idle"
    /\ channel = TRUE
    /\ cgame = TRUE
    /\ serverId = FALSE
    /\ haveSnap = FALSE
    /\ entered = FALSE
    /\ inputModule = FALSE
    /\ message = <<>>
    /\ count = 0
    /\ silence = 0
    /\ sinceSend = SlowInterval
    /\ inbox = <<>>
    /\ serverGone = FALSE
    /\ kicked = FALSE
    /\ failed = FALSE
    /\ notified = 0
    /\ crashed = FALSE

----------------------------------------------------------------------------
\* The ends of a connection.

\* terminateConnection: the game state is reset, the handler is told, the module is
\* deleted.  A disconnect() from that handler finds the module still there and tells
\* it again.  Mutant: the module is not forgotten once deleted.
Tell ==
    \/ ~cgame /\ UNCHANGED notified
    \/ cgame /\ notified' = notified + 1
    \/ cgame /\ "disconnect" \in DisconnectsIn /\ notified' = notified + 2
TerminateDangling == serverId' = FALSE /\ Tell /\ UNCHANGED cgame
Terminate == serverId' = FALSE /\ Tell /\ cgame' = FALSE

\* serverDisconnected.
ServerDisconnected ==
    /\ channel' = FALSE
    /\ Terminate

\* disconnect(): three packets with the "disconnect" command, if there is a channel.
\* A packet handler that calls disconnect() again wipes the channel under the rest
\* of these packets.  misused: the caller has used what was gone.
\* Mutant: the channel survives the call.
WipedUnderPackets == channel /\ DisconnectsIn \intersect {"preWrite", "postWrite"} # {}
DisconnectKeepingChannel(misused) ==
    /\ UNCHANGED channel
    /\ Terminate
    /\ crashed' = (crashed \/ misused)
Disconnect(misused) ==
    /\ channel' = FALSE
    /\ Terminate
    /\ \/ crashed' = (crashed \/ misused)
       \/ crashed' = (crashed \/ misused \/ WipedUnderPackets)

\* A handler of the application runs, and may call disconnect().
Handler(h, misused) ==
    \/ UNCHANGED connection /\ crashed' = (crashed \/ misused)
    \/ h \in DisconnectsIn /\ Disconnect(misused)

\* A handler that the module calls from one of its own methods: the module has to be
\* there when the method is called, and still when the handler returns to it.
HandlerInModule(h) ==
    \/ UNCHANGED connection /\ crashed' = (crashed \/ ~cgame)
    \/ h \in DisconnectsIn /\ Disconnect(TRUE)

----------------------------------------------------------------------------
\* tick.

\* The timeout handler, then serverDisconnected.  The timer is not rearmed: every
\* later tick broadcasts the timeout again.
\* Mutant: the handler is told, the connection is left as it is.
TimedOutOnlyTold == UNCHANGED <<connection, crashed>>
TimedOut ==
    \/ ServerDisconnected /\ UNCHANGED crashed
    \/ "timeout" \in DisconnectsIn /\ Disconnect(FALSE)

TickTimedOut ==
    /\ pc = "idle"
    /\ silence >= Timeout
    /\ TimedOut
    /\ UNCHANGED <<pc, game, message, count, timers, server, history>>

TickStart ==
    /\ pc = "idle"
    /\ silence < Timeout
    /\ pc' = "process"
    /\ count' = 0
    /\ failed' = FALSE
    /\ UNCHANGED <<connection, game, message, timers, server, kicked, crashed>>

\* One turn of the loop of ServerChannel::process.
MorePackets == channel /\ inbox # <<>> /\ count < MaxAtOnce

\* Mutant: the packets are not counted.
TakePacketUncounted ==
    /\ pc = "process"
    /\ MorePackets
    /\ inbox' = Tail(inbox)
    /\ UNCHANGED <<count, serverGone>>
TakePacket ==
    /\ pc = "process"
    /\ MorePackets
    /\ count' = count + 1
    /\ inbox' = Tail(inbox)
    /\ UNCHANGED serverGone

\* receive: the timer is updated, the message is parsed.
ReceiveMessage ==
    /\ TakePacket
    /\ Head(inbox).kind = "message"
    /\ message' = Head(inbox).ops
    /\ silence' = 0
    /\ pc' = "parse"
    /\ UNCHANGED <<connection, game, sinceSend, history, crashed>>

\* A packet that receive refuses, or a connectionless one that is no disconnect.
ReceiveNothing ==
    /\ TakePacket
    /\ Head(inbox).kind \in {"stale", "oob"}
    /\ UNCHANGED <<pc, connection, game, message, timers, history, crashed>>

\* The NetworkException ends the tick: nothing is sent in it.
ReceiveBadFragment ==
    /\ TakePacket
    /\ Head(inbox).kind = "badFragment"
    /\ Handler("error", FALSE)
    /\ failed' = TRUE
    /\ pc' = "idle"
    /\ UNCHANGED <<game, message, timers, kicked>>

\* Reading past the end before parseServerMessage: tick does not catch the
\* StreamMessageException, it goes to the application.
ReceiveShort ==
    /\ TakePacket
    /\ Head(inbox).kind = "short"
    /\ failed' = TRUE
    /\ pc' = "idle"
    /\ UNCHANGED <<connection, game, message, timers, kicked, crashed>>

\* The DisconnectException of ClientConnectionlessHandler reaches tick.
ReceiveDrop ==
    /\ TakePacket
    /\ Head(inbox).kind = "drop"
    /\ ServerDisconnected
    /\ failed' = TRUE
    /\ pc' = "idle"
    /\ UNCHANGED <<game, message, timers, kicked, crashed>>

\* parseServerMessage: one operation.  The loop also ends when a handler has
\* disconnected and the module is gone.
\* Mutant: it does not look at the module.
ParsingGoesOnAnyway == message # <<>>
ParsingGoesOn == cgame /\ message # <<>>

ParseEnd ==
    /\ pc = "parse"
    /\ ~ParsingGoesOn
    /\ message' = <<>>
    /\ pc' = "process"
    /\ UNCHANGED <<connection, game, count, timers, server, history, crashed>>

ParseOp(op) ==
    /\ pc = "parse"
    /\ ParsingGoesOn
    /\ Head(message) = op
    /\ UNCHANGED <<entered, inputModule, count, timers, server, failed>>

\* The operation is parsed, then its handlers are called.
ParseHandled ==
    /\ \/ ParseOp("nop") /\ UNCHANGED <<connection, haveSnap, crashed>>
       \/ ParseOp("print") /\ Handler("print", FALSE) /\ UNCHANGED haveSnap
       \/ ParseOp("command") /\ Handler("command", FALSE) /\ UNCHANGED haveSnap
       \/ ParseOp("cgmessage") /\ HandlerInModule("cgmessage") /\ UNCHANGED haveSnap
       \/ ParseOp("snapshot") /\ haveSnap' = TRUE /\ Handler("snapshot", ~channel)
    /\ message' = Tail(message)
    /\ UNCHANGED <<pc, kicked>>

ParseGameState ==
    /\ ParseOp("gamestate")
    /\ \/ serverId' = TRUE /\ UNCHANGED <<channel, cgame, notified, crashed>>
       \/ "gamestate" \in DisconnectsIn /\ Disconnect(FALSE)
    /\ message' = Tail(message)
    /\ UNCHANGED <<pc, haveSnap, kicked>>

\* A NetworkException is caught in receive, the rest of the message is dropped.
\* A DisconnectException is one: the command "disconnect" goes no further.
ParseError ==
    /\ ParseOp("illegible") \/ ParseOp("kick")
    /\ Handler("error", FALSE)
    /\ kicked' = (kicked \/ Head(message) = "kick")
    /\ message' = <<>>
    /\ pc' = "process"
    /\ UNCHANGED haveSnap

ParseTruncated ==
    /\ ParseOp("truncated")
    /\ message' = <<>>
    /\ pc' = "process"
    /\ UNCHANGED <<connection, haveSnap, kicked, crashed>>

\* After the packets: the rest of the tick needs the module.
ProcessEnd ==
    /\ pc = "process"
    /\ ~MorePackets
    /\ pc' = IF cgame THEN "time" ELSE "idle"
    /\ UNCHANGED <<connection, game, message, count, timers, server, history, crashed>>

\* setCGameTime: the clock, and the handlers of checkTime once there is a snapshot.
SetCGameTime ==
    /\ pc = "time"
    /\ \/ ~haveSnap /\ pc' = "input" /\ UNCHANGED <<connection, entered, crashed>>
       \/ haveSnap /\ pc' = "input" /\ Handler("time", FALSE) /\ UNCHANGED entered
       \/ /\ haveSnap /\ ~entered
          /\ entered' = TRUE
          /\ Handler("time", FALSE)
          /\ pc' = "init"
    /\ UNCHANGED <<haveSnap, inputModule, message, count, timers, server, history>>

\* The server's time went backward: no NetworkException, so tick does not catch it
\* and nothing is sent; it goes to the application.  init is not called then.
SetCGameTimeThrows ==
    /\ pc = "time"
    /\ haveSnap
    /\ Handler("time", FALSE)
    /\ entered' \in {entered, TRUE}
    /\ failed' = TRUE
    /\ pc' = "idle"
    /\ UNCHANGED <<haveSnap, inputModule, message, count, timers, server, kicked>>

\* cgameModule->init, with no look at the pointer.
InitSnapshot ==
    /\ pc = "init"
    /\ HandlerInModule("init")
    /\ pc' = "input"
    /\ UNCHANGED <<game, message, count, timers, server, history>>

ProcessInput ==
    /\ pc = "input"
    /\ \/ inputModule /\ Handler("input", FALSE)
       \/ ~inputModule /\ UNCHANGED <<connection, crashed>>
    /\ pc' = "send"
    /\ UNCHANGED <<game, message, count, timers, server, history>>

ReadyToSendPacket ==
    sinceSend >= IF serverId /\ inputModule THEN FastInterval ELSE SlowInterval

\* writePacket: the handler before, the channel with no look at it, the handler after.
WritePacket ==
    /\ pc = "send"
    /\ ReadyToSendPacket
    /\ Handler("preWrite", FALSE)
    /\ pc' = "transmit"
    /\ UNCHANGED <<game, message, count, timers, server, history>>

Transmit ==
    /\ pc = "transmit"
    /\ Handler("postWrite", ~channel)
    /\ sinceSend' = 0
    /\ pc' = "cgtick"
    /\ UNCHANGED <<game, message, count, silence, server, history>>

WriteNothing ==
    /\ pc = "send"
    /\ ~ReadyToSendPacket
    /\ pc' = "cgtick"
    /\ UNCHANGED <<connection, game, message, count, timers, server, history, crashed>>

\* cgameModule->tick, with no look at the pointer.
CGameTick ==
    /\ pc = "cgtick"
    /\ HandlerInModule("cgtick")
    /\ pc' = "idle"
    /\ UNCHANGED <<game, message, count, timers, server, history>>

Tick ==
    \/ TickTimedOut \/ TickStart
    \/ ReceiveMessage \/ ReceiveNothing \/ ReceiveBadFragment \/ ReceiveShort
    \/ ReceiveDrop
    \/ ParseHandled \/ ParseGameState \/ ParseError \/ ParseTruncated \/ ParseEnd
    \/ ProcessEnd \/ SetCGameTime \/ SetCGameTimeThrows \/ InitSnapshot
    \/ ProcessInput \/ WritePacket \/ Transmit \/ WriteNothing \/ CGameTick

----------------------------------------------------------------------------
\* The application between ticks, the clock, and the server (external).

ApplicationDisconnects ==
    /\ pc = "idle"
    /\ channel
    /\ Disconnect(FALSE)
    /\ UNCHANGED <<pc, game, message, count, timers, server, history>>

SetInputModule ==
    /\ pc = "idle"
    /\ ~inputModule
    /\ inputModule' = TRUE
    /\ UNCHANGED <<pc, connection, haveSnap, entered, message, count, timers, server,
                   history, crashed>>

PassTime ==
    /\ silence < Timeout \/ sinceSend < SlowInterval
    /\ silence' = IF silence < Timeout THEN silence + 1 ELSE silence
    /\ sinceSend' = IF sinceSend < SlowInterval THEN sinceSend + 1 ELSE sinceSend
    /\ UNCHANGED <<pc, connection, game, message, count, server, history, crashed>>

\* A server that has dropped the client sends it nothing more.
ServerSends(p) ==
    /\ ~serverGone
    /\ Len(inbox) < MaxInbox
    /\ inbox' = Append(inbox, p)
    /\ serverGone' = (p.kind = "drop" \/ \E i \in DOMAIN p.ops : p.ops[i] = "kick")
    /\ UNCHANGED <<pc, connection, game, message, count, timers, history, crashed>>

ServerStops ==
    /\ ~serverGone
    /\ serverGone' = TRUE
    /\ UNCHANGED <<pc, connection, game, message, count, timers, inbox, history, crashed>>

----------------------------------------------------------------------------
Next ==
    \/ Tick
    \/ ApplicationDisconnects
    \/ SetInputModule
    \/ PassTime
    \/ \E p \in Packets : ServerSends(p)
    \/ ServerStops

Spec == Init /\ [][Next]_vars

\* The application keeps calling tick, and the clock does not stop.
FairSpec == Spec /\ WF_vars(Tick) /\ WF_vars(PassTime)

----------------------------------------------------------------------------
\* Every variable keeps its type.
TypeOK ==
    /\ pc \in {"idle", "process", "parse", "time", "init", "input", "send",
              "transmit", "cgtick"}
    /\ {channel, cgame, serverId, haveSnap, entered, inputModule} \subseteq BOOLEAN
    /\ {serverGone, kicked, failed, crashed} \subseteq BOOLEAN
    /\ message \in Seq(Ops)
    /\ count \in 0 .. MaxAtOnce
    /\ silence \in 0 .. Timeout
    /\ sinceSend \in 0 .. SlowInterval
    /\ inbox \in Seq(Packets)
    /\ notified \in 0 .. 2

\* "The callee can safely disconnect the game client" (of the error handler): when a
\* handler of SafeHandlers disconnects in the middle of a tick, no later step of the
\* tick, and no packet of disconnect() itself, uses the channel that was wiped or the
\* module that was deleted.  It does not hold of the other handlers.
SafeToDisconnectInHandler == ~crashed

\* Between ticks a connection is open or closed, never half: whichever exception
\* or handler ended it, the channel and the game module go together.
NeverHalfClosed == channel = cgame

\* The disconnect handler is told of the end of the connection, and told once, unless
\* it calls disconnect() itself.
ToldOnceOfTheEnd == notified = IF cgame THEN 0 ELSE 1

\* "Could happen if the server sent a "disconnect" message": the command
\* "disconnect" ("Server kicking out the client") has ended the connection by the
\* time the tick that executed it returns.
KickEndsConnection == kicked /\ pc = "idle" => ~cgame

\* A server that has gone silent, for whatever reason, is noticed.
SilenceEndsConnection == serverGone ~> ~cgame

\* However many packets keep arriving, the client still sends its own when one is due,
\* unless exceptions keep ending its ticks: the packets taken in a tick are counted,
\* and the ones after maxPacketsAtOnce wait.
DueIsSent ==
    <>[]~failed => (sinceSend = SlowInterval ~> sinceSend = 0 \/ ~cgame)

=============================================================================
