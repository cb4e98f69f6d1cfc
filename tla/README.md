# A TLA+ model of mohpc

mohpc reads the assets of Medal of Honor: Allied Assault and speaks its network
protocol, as a client and, in part, as a server. The network code is where a
mistake takes several steps of several actors: it runs over UDP, keeps rings
that wrap and counters that overflow, retries, times out, and calls back into an
application that may close the connection from inside a callback. Most of this
project models that part: from the bits of a message to the entities an
application is told of. Two modules are about sequential code in which a long
sequence of legal steps must keep an invariant that no test would state: the
parser of text that the readers of assets use, and the tessellation of a map's
terrain.

Paths below are relative to `src/mohpc-lib/Network/` unless they say otherwise.

## 1. Inventory

| Component | State it keeps | Operations | What makes it correct |
|---|---|---|---|
| Reliable commands (`Types/Reliable.cpp`, `Parsing/Input.cpp`) | ring of commands, last number added, last acknowledged; last number received | `addCommand`, `writeCommands`, `updateAcknowledge`, `parseCommandString` | every command executed once, in order, unchanged; no acknowledgement of what was not stored |
| Sequenced channel (`Remote/Channel.cpp`) | next and last packet number (32 and 16 bits), message being assembled | `transmit`, `transmitNextFragment`, `receive` | only whole messages, in order; every message when nothing is lost |
| Server connection (`Client/ServerConnection.cpp`) | channel, game module, game state, timers | `tick`, `receive`, `parseServerMessage`, `writePacket`, `disconnect` | a connection ends completely, once, and only for a reason; a silent server is noticed; handlers may disconnect |
| Snapshots (`Client/ServerSnapshot.cpp`, `Parsing/Snapshot.cpp`) | ring of snapshots, ring of entities shared by them | `parseSnapshot`, `setNewSnap`, `getSnapshot`, the delta move of `writePacket` | what is returned is what the server sent; the base of a delta is held and intact |
| Client clock (`Client/Time.cpp`, `Client/TimeManager.cpp`) | simulated server time, its start, the nudge, flags of the last snapshot | `setTime`, `adjustTimeDelta`, `checkTime` | near the server's time, not backwards; restarts that are real |
| Requests (`Client/Server.cpp`, `Client/ServerCommands.cpp`, `../Utility/RequestHandler.cpp`) | active request, queue, start, timeout and deferred times | `connect`, `getStatus`, `getInfo`; `handleIncoming`, `processDeferred`, `processTimeOut` | every call ends, once, in order, and says so |
| Message dispatcher (`../Utility/MessageDispatcher.cpp`) | list of handlers, list of communicators | `processIncomingMessages` | every handler gets its messages and its time |
| Server host (`Server/ServerHost.cpp`) | challenges, clients | `tick`: expiry, `getchallenge`, `connect`, packets of clients | a challenge makes one client; it expires; who was given one gets in |
| Game state, config strings (`Client/GameState.cpp`) | map info, config strings | `parseGameState`, which moves the numbering of the commands; `cs` commands | config strings and commands in the server's order |
| Snapshot processor (`Client/CGame/Snapshot.cpp`) | two slots for snapshots, the states of the entities, last command executed | `processSnapshots`, `transitionSnapshot`, `executeNewServerCommands` | the entities are those of the snapshot shown, and what the application was told; commands in order and in time |
| Simulated latency (`Remote/SocketUdpDelay.cpp`) | two queues, two threads, two mutexes and events | `send`, `receive`, `wait`, the threads, the destructor | nothing lost between threads; what is sent goes out; the destructor ends |
| Message streams (`../Utility/Misc/MSG/`) | stream, buffer of bits, Huffman tree | `WriteBits`, `ReadBits`, `Flush`, `Reset`, `Compress`, `Decompress` | what is read is what was written; the end is noticed |
| Token parser (`../Utility/TokenParser.cpp`) | text, position, line, token, macros | `GetToken`, `GetString`, `GetLine`, `TokenAvailable`, `UnGetToken`, `MarkPosition` and others | tokens are the words of the text, on the line it says |
| Terrain (`../Assets/Formats/BSP/BSP_Terrain.cpp`) | triangles and vertices, lists of each patch | `TR_PreTessellateTerrain`, `TR_DoTriSplitting` with `TR_ForceSplit`, `GenerateTerrainPatch2` | no cracks, closed seams, every triangle as small as its tree asks |
| Downloads (`Client/DownloadManager.cpp`) | name, size, block | `processDownload`, `startDownload` | blocks in order; a file ends once |
| Encoding, user input, master list, remote console, sockets, prediction, other assets, files, collision | | | see section 8 |

How they interact. An application makes an `EngineServer` and calls `connect`;
the requests of the connection run under the dispatcher's loop, and the last
one creates a `ServerConnection`. From then on the application calls `tick`.
A tick takes the packets that wait on the socket through the channel
(`Netchan::receive`), reads the acknowledgement in each, parses what follows -
reliable commands, game states, snapshots - and calls the application's
handlers as it goes; it then moves the clock, lets the input module run, writes
a packet if it is time (header, unacknowledged commands, move) and ticks the
client game. Everything but the simulated latency is on one thread; the
concurrency is that of the two ends, of what the network does to the packets
between them, and of callbacks that come back into the code.

What is hard: packets lost, repeated and reordered everywhere; the wrapping of
16-bit copies of 32-bit numbers; rings that are overwritten while older parts of
them are in use; messages abandoned in the middle by an exception; four
different ways in which a connection ends, and an exception hierarchy between
them; late answers to a request that was retried or replaced; handlers that
close what the caller goes on to use; threads that test a flag and wait without
holding the mutex in between; a list that is walked while it changes.
`PROJECT.json` lists each of these, under
`hazards`, at the line where it bites.

## 2. Modules

Each component has one module, `M.tla`, with the specification and its
properties. Where the constants of an instance are sets or functions that a
configuration cannot write, an `MCM.tla` defines them and TLC runs that module;
`Netchan`, `ClientTime` and `SimulatedSocket` need none and are run themselves. The
theorems about `M` and their proofs are in `MProofs.tla`; those about the two ends of
a connection, `ServerConnection` and `ServerHost`, are in `ConnectionProofs.tla`. A definition
has the name of the function it models wherever TLA+ allows it, and
`PROJECT.json` (`map`) gives its lines. Definitions marked *Mutant* are
deliberate mistakes, kept next to the definition they would replace: they show
that the property they break can be broken.

| Module | Models | State | Actions |
|---|---|---|---|
| `ReliableLink` | reliable commands, one direction, both ends, over the channel | the ring and its two numbers, the receiver's number, the commands left in the packet being parsed, every packet written | `AddCommand`, `WriteCommands`, `ReceiveCommands`, `ParseCommandString`, `AbortParse`, `WriteHeader`, `ReceiveHeader` |
| `ReliableLinkProofs`, `NetchanProofs`, `ConnectionProofs`, `ServerSnapshotsProofs`, `ClientTimeProofs`, `EngineRequestsProofs`, `SimulatedSocketProofs`, `ClientGameProofs` | the theorems of section 6 | | |
| `Netchan` | numbering, fragments and reassembly; the writer is this code or a game server | what `transmit` has left to do, every packet, the receiver's two 16-bit numbers and its stream | `Transmit`, `TransmitNextFragment`, `Receive` |
| `ServerConnection` | the life of a connection | where `tick` is, channel, game module, timers, packets waiting, the message being parsed | one per step of `tick`, with `WritePacket` and `Transmit` around the handlers of a packet; `ApplicationDisconnects`, `SetInputModule`, the server, the clock |
| `ServerSnapshots` | delta-compressed snapshots | both rings, the parser in the middle of a snapshot, what the server sent and had acknowledged | `ServerSends`, `Receive`, the three ways an entity is made (`CopyUnchanged`, `DeltaFromPrevious`, `DeltaFromBaseline`), `ParseEnd`, `ParseAborts`, `WritePacket` |
| `ClientTime` | the clock, first snapshot and restarts | the fields of `ClientTime` and the flags of the snapshot manager | `SnapshotArrives`, `Tick`, `SetTimeNudge`, the server, the clock |
| `EngineRequests` | requests before a connection, and the dispatcher's loop | active request, queue, times relative to `startTime`, answers under way | `Call`, `Receive`, `NoMessage`, `ProcessDeferred`, `ProcessTimeOut`, `Tick` |
| `ServerHost` | the server's side of a connection | both vectors, the clock, numbers given | `TickIdle`, `TickGetChallenge`, `TickConnect`, `TickInGame`, `Advance` |
| `CommandQueue` | what reliable commands promise: a queue | commands accepted, commands delivered | `Accept`, `Deliver`, `Break` |
| `SimulatedSocket` | the sockets that simulate latency and loss, and the dispatcher that polls them | where each of three threads is, both queues, what each thread has in hand | one per critical section of `incomingThread`, `outgoingThread`, `send`, `wait`, `receive` and the destructor |
| `ClientGame` | messages of a server, `tick`, and the snapshot processor with the server commands | snapshots received, the two slots, `clientEnts`, ring of commands, what the application was told | `ReceiveCommands`, `ParseGameState`, `ParseSnapshot`, `Lose`, `Tick`, `TickThrows`, and one per branch of `processSnapshots` |
| `Huffman` | the adaptive tree: nodes, parents, the list in the order of weights, the head of each block | operators on a tree (no variables) | `addRef`, `transmit`, `receive` |
| `BitStream` | the three formats of a message, over `Huffman` | buffer and position, stream, tree, values | `Write`, `Flush`, `Compress`, `Reset`, and the reading of a value in each format |
| `TokenParser` | the parser, one action per call | text, position, line, token, macros | `CallGetToken`, `CallGetString`, `CallGetLine`, `UnGetToken`, `GetSpecific` and so on |
| `Terrain` | tessellation of a map's terrain | triangles, vertices, lists, the triangle being looked at | `TR_PreTessellateTerrain`, `SplitCurrent`, `SkipCurrent`, `NextPatch`, `GenerateTerrainPatch2` |

What is abstracted. A command, a name or an address is a model value. A message
is what the component tells apart: to `Netchan` a sequence of units, to
`ServerConnection` a sequence of operations, to `ServerSnapshots` a list of
entities with the fields that changed. An action is a whole handler. The two
exceptions are handlers in which the application is called or an exception may
be raised part of the way: `tick`, and the parsing of a message, are split
there, and nowhere else. Threads are split at their critical sections.

`ClientGame` composes what it needs of the connection, of the ring of commands and
of the game state; the ring of snapshots, which `ServerSnapshots` models entity by
entity, is in it only the rule for which snapshots can still be read. To
`BitStream` a byte has two bits: what matters is that a value is cut into
bytes and a rest, that codes have different lengths, and that both are
longer than what is left of the buffer. To `TokenParser` a text is a sequence over one
character of each kind that the code tells apart.

`ReliableLink` contains the part of the channel it relies on, the test on the
packet number and the number it keeps, and not its fragments: a fragmented
packet is for it one that arrives when its last fragment does, which is what
`DeliveredIntact` of `Netchan` says.

External parts. The game server and the network are not in the repository. They
are modelled by what the code expects of them, and marked `external` in the
map: a network may hand over any packet written so far, at any time and any
number of times; a server may send any answer that answers something it was
asked, and deltas only of snapshots that the client acknowledged.

## 3. Runs

`tlc -config <cfg> <module>`, or all of them from `PROJECT.json`.

| Run | Shows |
|---|---|
| `reliable_link` | Both ends implement `CommandQueue` (`ImplementsQueue`): commands are executed once, in order and unchanged (`ExecutedAsAdded`); acknowledgements are never taken back; and `LinkInv`, from which the proofs get all of these. All up to the first overrun of the ring. |
| `netchan` | Over a lossy network, messages are returned whole (`DeliveredIntact`) and never an older one after a newer one (`DeliveredInOrder`), both for a game server's fragments and for those of `transmit`. On a network that keeps order and loses nothing, a game server's message of every length is returned (`EventuallyDelivered`). |
| `server_connection` | Whatever ends a connection, channel and game module go together (`NeverHalfClosed`) and the application is told once (`ToldOnceOfTheEnd`); a handler of `SafeHandlers` may disconnect in the middle of a tick (`SafeToDisconnectInHandler`); the client's own packets go out however many arrive (`DueIsSent`), and a silent server is noticed (`SilenceEndsConnection`). |
| `server_snapshots` | What `getSnapshot` returns is what the server had in sight, entity by entity and field by field, until a message was abandoned in the middle (`SnapshotsAreTheServersUntilAbort`); after that too, the bases of deltas are intact (`DeltaBasesAreIntact`), and every base that may still be named is held (`DeltaBasesAreHeld`). |
| `client_time` | Time turns back only at a reset or where a tick threw (`OnlyResetsTurnBack`), is near the server's after every snapshot (`NearAfterSnapshot`), and reported restarts happened (`RestartsAreReal`, on a server that was not restarted before). |
| `engine_requests` | Every call ends (`EveryCallEnds`), and once (`EndsExactlyOnce`). |
| `server_host` | A challenge makes one client (`ChallengeUsedOnce`). |
| `simulated_socket` | Between the threads nothing is lost, repeated or overtaken (`NothingLostBetweenThreads`), also with `setOutOfOrder`; `receive` never uses the front of an empty queue (`ReceiveFindsAPacket`); what `send` took goes out (`SentIsTransmitted`); the destructor returns but in three cases that it names (`DestructorReturnsOutsideWindow`). |
| `client_game` | The entities are those of the snapshot shown (`EntitiesAreTheSnapshots`) and those the application was told of (`ToldIsTheWorld`); from the initialisation of the module on, server commands are executed in order and with their own text (`CommandsExecutedAsSent`), by the time of their snapshot (`CommandsMatchTheSnapshot`); an active snapshot is shown in the end, or a later one, unless it leaves the ring or the server's time stays behind that of an earlier tick (`EventuallyShown`). |
| `bit_stream` | Every sequence of values is read back as written (`ReadsWhatWasWritten`); no code goes past the buffer while none is longer than what half of the buffer leaves free (`BufferHoldsEveryCode`); the tree keeps the order that both ends rely on (`TreeIsWellFormed`); a reader that asks for more than was written gets zeros, and is stopped within a buffer (`OverreadIsStopped`). |
| `token_parser` | From wherever the calls before left the parser, and whatever follows the text in memory, `GetToken` returns the next word of a definition without a cursor (`TokensAreTheWords`); `TokenAvailable` says no only when no word is left behind the position (`NothingLeftUnread`); the line is that of the position (`LineIsThePositions`). |
| `terrain` | After any split with those it forces, no corner of a triangle lies on a side of another (`NoCracks`) and two vertices at one place have one height (`SeamsAreClosed`); when the walk is over, every triangle was split that has to be (`NeedsAreMet`). The first and the last unless a walk went astray (section 5). |

Eight of the modules define a `TypeOK` that documents the values of their
variables (`HostTypeOK` in `ServerHost`). It holds in each of these runs; for seven of
them it is a theorem, and that of `ServerConnection` can be added to a configuration.

### Bounds

Every bound is a constant and appears in a guard; `CHECK_DEADLOCK FALSE` stands
where a bound, or the end of a connection, stops the system. `ServerHost` never
stops, and its deadlock check is on.

* `ReliableLink`: two commands (interchangeable, hence the symmetry), a ring of
  two, four commands added and three packets each way: the ring is gone round
  twice, and each packet may be lost, repeated or overtaken. The ring of 64, and
  every other size, is in the proofs.
* `Netchan`: fragments of two units; lengths 1, 2, 3 and 5 are a single packet, a
  full fragment with an empty one after it, two fragments and three. Three
  messages and four deliveries let fragments of two messages interleave and a
  message be delivered again. `Modulus = 4` keeps three messages below the width
  of the counter; `NetchanWrapClaims.cfg` goes past it.
* `ServerConnection`: the application may disconnect in every handler of `SafeHandlers`,
  those after which the code looks at the connection again: timeout, error, prints,
  commands, game state, snapshot, and the three packets of `disconnect()`. Those after
  which it does not are in `ServerConnectionClaims.cfg`. One message for each way in which parsing can end, alone
  and in the middle of a longer one; two packets per tick and two waiting, so
  that a tick ends both by its limit and by an empty socket; a timeout of two
  units, which may pass in any step of a tick.
* `ServerSnapshots`: two entities of two fields, a ring of two snapshots and of
  seven entities: four messages overwrite both rings. Frames in which entities
  appear, change and disappear. The room kept for a new snapshot is five entities,
  more than any two frames have: that is what `DeltaBasesAreIntact` needs (section 6).
* `ClientTime`: a unit of about 100 ms, so that a clock can be in each of the
  three ranges of `adjustTimeDelta`; three snapshots, one restart, one nudge.
* `EngineRequests`: a connection with a status and an info queued behind it, two
  retries, timeouts of two and three units and a deferral of one, so that a
  deferred retry can race both a late answer and its own timeout.
* `ServerHost`: three addresses (interchangeable), two qports and four
  challenges: three addresses are what it takes for one to be neither first nor
  last in the list.
* `SimulatedSocket`: two datagrams before the destructor is called (from then on they
  may keep coming: `IncomingLate`) and two packets: a queue holds one while a
  thread has another in hand; polls that wait and polls that do not; loss.
* `ClientGame`: two entities, two slots (as in the code), a ring of two commands for
  three sent, four messages, one change of map: a snapshot can be copied over
  the one shown, a command can leave the ring before its snapshot is reached. The time
  of the server is the number of its message, and starts again with the map.
* `BitStream`: four symbols, with codes of different lengths; messages of up to
  four values of two or three bits, or of six bytes, which slide the buffer. A byte has two
  bits. The buffer has eight bytes, as in `CompressedMessage`, or, in the compressed format,
  also four, for which the codes of these messages can be too long; `Decompress`
  is asked for three or five bytes.
* `TokenParser`: every text of up to three characters out of nine kinds, and
  twenty longer ones with macros, strings and comments; three calls of any kind
  in any order. What follows the text in memory is a null, as for what comes from the
  network, or a quote or an end of line, as it may be for the contents of a file.
* `Terrain`: three by two patches with alternating diagonals, which meet at one of the
  two corners inside and not at the other. Trees of four levels: from a triangle of the
  last but one a chain of forced splits can cross two borders, which with three
  it cannot. The trees ask for each of the smallest triangles with each of
  the large ones (of the first two levels), and for what is above them. The code has six
  levels, for chains over three borders.

### Fairness

* `Netchan`: whoever is sending goes on sending, and the owner of the socket
  reads it; both are loops in the code. Used only on the network that loses
  nothing: with losses nothing is promised.
* `ServerConnection`: weak fairness of `tick`, which the application must call
  for anything to happen, and of the clock. Nothing is assumed of the server.
* `EngineRequests`: weak fairness of the dispatcher's loop, which
  `processIncomingMessages` runs while a request is active, and of the clock.
  Nothing is assumed of the server, the network or further calls. The loop
  may get an answer again and again: that this does not keep a call from ending
  is what is checked.
* `SimulatedSocket`: the scheduler runs both threads and the call the application
  is in, time passes, and the application goes on polling. Nothing makes it send
  or destroy the socket; no spurious wake-up is assumed, though they happen.
* `ClientGame`: the application calls `tick`, and a call ends, be it with an exception
  (`TickThrows`). Nothing is assumed of the server or the network: its time may stay
  where it is, which is why `EventuallyShown` has an exception for it.

`Terrain` has no liveness property: fairness of an action that splits recursively
asks TLC for its ENABLED predicate, which it cannot evaluate in time. That the
walk ends is seen from the runs being finite, with no bound in any guard.

## 4. What the checks are for

Each property is paired, under `mutants`, with a plausible mistake in the code
that breaks it: a test on packet numbers left out, the empty fragment forgotten,
a base looked for one entity too late, a callback that leaves half of a
connection open, a condition tested once instead of after each wake-up, an
entity that stays valid, a node moved to the end of a block that it heads, a
neighbour split without its larger base.

## 5. Where the code disagrees with its comments

Or, where the row says that no doc promises it, with what it relies on. These have configurations of their own, to be run by hand with the module
of the component's run (`MC...` if there is one): `tlc -continue -workers 1 -config
<cfg> <module>`. TLC reports every property listed as violated. They are not part of the standing
runs, which show what does hold.

| Configuration | Property | Where | What |
|---|---|---|---|
| `ReliableLinkOverrun` | `ResendsWhatWasAdded` | `Types/Reliable.cpp:19` | the test in `addCommand` takes one command more than the ring holds; the oldest one not acknowledged is from then on resent as the new one |
| `NetchanClaims` | `DeliveredOnce` | `Remote/Channel.cpp:113` | "discard out of order or duplicated packets", and a second copy of the last packet is accepted |
| `NetchanClaims` | `LengthFieldIsDataLength` | `Remote/Channel.cpp:243` | "length of fragment": the length of the whole message is written |
| `NetchanClaims` | `FragmentsCarryTheMessage` | `Remote/Channel.cpp:252` | `Copy` takes an end position and gets a length ("Length to copy"): wrong data from the second fragment on |
| `NetchanWrapClaims` | `DeliveredInOrder` | `Remote/Channel.cpp:113` | a 16-bit `incomingSequence` against a 32-bit number: past 65535 old packets are accepted |
| `NetchanWrapClaims` | `DrainedMeansDelivered` | `Remote/Channel.cpp:120` | `fragmentSequence` is 16 bits as well: past 65535 no fragmented message is ever complete |
| `ServerConnectionClaims` | `KickEndsConnection` | `Client/ServerConnection.cpp:371` | `disconnectCommand` throws a `DisconnectException` for `tick`, and `receive` catches it first as the `NetworkException` that it also is: the connection lasts until its timeout |
| `ServerConnectionClaims` | `SafeToDisconnectInHandler` | `Client/ServerConnection.cpp:265` | with `disconnect()` in a handler that is not in `SafeHandlers`: after the handlers of `writePacket` (lines 502 and 539), of the input module, of the first snapshot and of restarts, and after all those that the game module calls from its own methods, the code goes on with the wiped channel or the deleted module. `DisconnectsIn` set to any one of `time`, `init`, `input`, `preWrite`, `postWrite`, `cgmessage`, `cgtick` is enough. The headers give the permission to disconnect for the error handler only, so this is a limit of the promise rather than a broken one |
| `ServerConnectionClaims` | `ToldOnceOfTheEnd` | `Client/ServerConnection.cpp:679` | a disconnect handler that calls `disconnect()` is called again, for the module is deleted only after it returned |
| `ServerSnapshotsEmpty` | `SnapshotsAreTheServers` | `Parsing/Snapshot.cpp:135` | "delta from the entities present in oldframe": one is read even if there are none |
| `ServerSnapshotsOverwritten` | `SnapshotsAreTheServers` | `Client/ServerSnapshot.cpp:72` | the entities of an abandoned snapshot are in the ring and not counted, so `getSnapshot` returns one that has "fallen out of their circular buffer" |
| `ClientTimeClaims` | `TimeNeverFlowsBackwards` | `Client/Time.cpp:144` | "guarantee that time will never flow backwards": a reset sets it back |
| `ClientTimeClaims` | `RestartsAreReal` | `Client/ServerSnapshot.cpp:159` | "when a restart command has been issued": also on joining a server while not active yet, if its count is odd |
| `ClientTimeClaims` | `FastAdjustBringsNearer` | `Client/Time.cpp:150` | "fast adjust" always slows the clock down, also one that is behind |
| `EngineRequestsClaims` | `EveryEndIsTold` | `Client/ServerCommands.cpp:270` | a connection may end with no callback ("when finished connecting or when an error has occurred") |
| `EngineRequestsClaims` | `WaitsAtMostItsTimeout` | `../Utility/RequestHandler.cpp:42` | every accepted answer makes the timeout longer |
| `EngineRequestsClaims` | `AnswersAQuestion` | `../Utility/RequestHandler.cpp:40` | "Should return true if the reply is the correct one": an answer to an earlier connection ends a later one |
| `EngineRequestsClaims` | `NeverSendsNothing` | `../Utility/RequestHandler.cpp:115` | a deferred retry outlives its request and dereferences none |
| `ServerHostClaims` | `OneChallengePerAddress` | `Server/ServerHost.cpp:145` | index 0 means "none" and "the first" |
| `ServerHostClaims` | `ChallengesExpire` | `Server/ServerHost.cpp:37` | "remove the challenge if it has expired": none ever is |
| `ServerHostClaims` | `GivenNumbersAreAccepted` | `Server/ServerHost.cpp:253` | "find the challenge by the source address": the first one is never found |
| `SimulatedSocketClaims` | `OnlyEmptyIsIgnored` | `../Utility/MessageDispatcher.cpp:186` | "empty message, ignore": also a packet that is not due yet when `wait` returns |
| `SimulatedSocketClaims` | `DestructorReturns` | `Remote/SocketUdpDelay.cpp:98` | the flag is cleared and the event notified without the mutex: a notification between the thread's test and its wait is lost, and the destructor joins for ever. It also does while `incomingThread` blocks in a read for a datagram to drop, and while datagrams keep arriving: the inner loop (lines 337-346) does not look at the flag |
| `SimulatedSocketClaims` | `OutOfOrderOvertakes` | `Remote/SocketUdpDelay.cpp:131` | "Send packets out-of-order" (`SocketUdpDelay.h:62`): the branch inserts the packet at the end of the queue, as the other one does, and no packet ever overtakes another |
| `ClientGameClaims` | `ValidIsInTheWorld` | `Client/CGame/Snapshot.cpp:139` | "Whether or not this entity info exists in world": not when a snapshot was copied over the one shown |
| `ClientGameClaims` | `AddedAreInTheWorld` | `Client/CGame/Snapshot.cpp:331` | on leaving an inactive snapshot, entities are added in the state they had before, and none is removed |
| `ClientGameClaims` | `ParsedIsAnnounced` | `Client/CGame/Snapshot.cpp:220` | "Called after the snapshot was parsed": pointers to slots are compared, so not when two snapshots in one tick end in the same slot |
| `ClientGameClaims` | `MonitorsFollowTheGame` | `Client/GameState.cpp` | a game state replaces the config strings and tells nobody |
| `ClientGameClaims` | `SnapNumNeverGoesBackward` | `Client/CGame/Snapshot.cpp:161` | "This should never happen": it does when a message without a snapshot is the last one before the game is entered |
| `ClientGameClaims` | `ActiveHasEntered` | `Client/TimeManager.cpp:20` | "at this point the client has entered the game": not if the tick throws `ServerTimeWentBackward` between the first active snapshot and `init` of the module, which then never comes: the snapshot processor starts with command 0 |
| `ClientGameClaims` | `BackwardIsNoIssue` | `Client/Time.cpp:94` | "NOTE: don't think it's an issue": after a game state has set the clock back, every tick throws until the time of the server has passed that of the last one, and nothing is shown meanwhile |
| `BitStreamEarlyEnd` | `ThrowsAtTheEnd` | `../Utility/Misc/MSG/Codec.cpp:227` | "the stream and the buffer has been fully read already": thrown with a value of zeros still in the buffer |
| `BitStreamShortInput` | `CompressedCanBeRead` | `../Utility/Misc/MSG/MSG.cpp:1019` | `Decompress` fills its buffer of 8 bytes in one read, and throws on a compressed message of fewer |
| `BitStreamShortInput` | `BufferIsLargeEnough` | `../Utility/Misc/MSG/Codec.cpp:201` | nothing in the repository promises it, but it is what the code relies on: half of the 8 bytes and 7 bits may be in use when a code comes, which leaves 25 bits, and the code of a byte that is new is the path of NYT and 8 bits more. A path of 18 takes frequencies that grow like Fibonacci numbers, some kilobytes of them, which the 16-bit length of a message allows. The run shows it on a buffer of half the size |
| `BitStreamShortInput` | `NulIsLast` | `../Utility/Misc/MSG/MSG.cpp:1039` | "write the NUL character": when `len` is less than the number in the message, the output is cut and a NUL put over the last character that was read |
| `TokenParserClaims` | `AvailableMeansToken` | `../Utility/TokenParser.cpp:301` | a comma, a separator that `GetToken` passes over, counts as a token that is available |
| `TokenParserClaims` | `StaysOnTheLine` | `../Utility/TokenParser.cpp:734` | `isMacro` looks for a token across lines whatever `crossline` says |
| `TokenParserClaims` | `UngetIsReported` | `../Utility/TokenParser.cpp:482` | "should be reported for the next GetToken": after a macro the name of the macro is reported, not the text that was returned |
| `TokenParserClaims` | `GivenBackIsAvailable` | `../Utility/TokenParser.cpp:294` | "should be reported for the next GetToken": `TokenAvailable` does not look at a token that was given back, so the loop of `Client/CGame/Vote.cpp:351` ends with the last word of the text read, given back (line 385) and neither parsed nor refused |
| `TerrainClaims` | `NoCracks` | `../Assets/Formats/BSP/BSP_Terrain.cpp:1040` | a patch with flag 0x40 has the first two points of its triangles swapped, and its neighbours do not |
| `TerrainClaims` | `AllNeedsAreMet` | `../Assets/Formats/BSP/BSP_Terrain.cpp:715` | no doc says it, but the walk is for it: a chain of forced splits over two borders takes the head of a patch's list by way of another patch's lists, so that `triHead` stays with a triangle that was split and leads into the other patch's list of these. If the walk over the patch is still to come (`astray`), it misses the patch's own triangles and splits others again, which leaves triangles that overlap: `Conforming` fails then too. `NoCracks` and `NeedsAreMet` hold but for this |
| `TerrainClaims` | `DrawnAreTheLeaves` | `../Assets/Formats/BSP/BSP_Terrain.cpp:715` | the triangle is taken from the lists of the patch of its base: across a border, from another patch's |
| `TerrainClaims` | `BordersCanBeSplit` | `../Assets/Formats/BSP/BSP_Terrain.cpp:715` | a triangle at the border has no base, and the lists of base 0 are a null pointer |

## 6. Proofs

Eight modules hold theorems, checked with TLAPS to the last leaf: `tlapm
MProofs.tla`. They hold for every value of the constants that satisfies the named
assumptions of `M`, which TLC evaluates on every run; a theorem that needs more says
so in its statement. Every invariant below was checked by TLC on the instance of the
component's run before it was proved.

| Module | Theorem | States |
|---|---|---|
| `ReliableLinkProofs` | `TypeCorrect` | `TypeOK` |
| | `LinkConsistent` | `LinkInv`, the inductive invariant |
| | `ExactlyOnceInOrder` | `ExecutedAsAdded` |
| | `ResendsFaithfully` | what is resent under a number is what was added under it |
| | `AcknowledgeSound` | no command is acknowledged that was not stored |
| | `AcknowledgeMonotonic` | `AcknowledgeNeverGoesBack` |
| | `LinkImplementsQueue` | `ImplementsQueue`, the refinement of `CommandQueue` |
| `NetchanProofs` | `TypeCorrect` | `TypeOK` |
| | `ReceivesIntact` | `DeliveredIntact`, if `MaxMessages < Modulus` |
| | `ReceivesInOrder` | `DeliveredInOrder`, if `MaxMessages < Modulus` |
| `ConnectionProofs` | `ConnectionNeverHalfClosed` | `NeverHalfClosed` |
| | `DisconnectHandlerToldOnce` | `ToldOnceOfTheEnd`, if the disconnect handler does not disconnect |
| | `HandlersCanDisconnect` | `SafeToDisconnectInHandler`, if the application disconnects in handlers of `SafeHandlers` only |
| | `ClosedStaysClosed` | no step takes up a connection that has ended |
| | `HostTypeCorrect` | `HostTypeOK` |
| | `ChallengeMakesOneClient` | `ChallengeUsedOnce` |
| | `NoChallengeEverExpires` | `tick` of the host never erases a challenge |
| `ServerSnapshotsProofs` | `SnapshotsTypeCorrect` | `TypeOK` |
| | `BasesOfDeltasAreHeld` | `DeltaBasesAreHeld` |
| | `SnapshotsAreFrames` | `SnapshotsAreTheServersUntilAbort`, if every frame fits (`FramesFit(1)`) |
| | `BasesOfDeltasAreIntact` | `DeltaBasesAreIntact`, if two frames fit (`FramesFit(2)`) |
| `ClientTimeProofs` | `TimeTypeCorrect` | `TypeOK` |
| | `RestartsNotifiedAreReal` | `RestartsAreReal`, if the server's count was 0 at first |
| | `TimeGoesForward` | `OnlyResetsTurnBack` |
| | `ClockNearServer` | `NearAfterSnapshot` |
| `EngineRequestsProofs` | `RequestsTypeCorrect` | `TypeOK` |
| | `CallsEndExactlyOnce` | `EndsExactlyOnce` |
| | `EndIsFinal` | no step takes up a call that has ended |
| | `RequestsEndInOrder` | calls end in the order in which they were made |
| `SimulatedSocketProofs` | `NoPacketLost` | `NothingLostBetweenThreads` |
| | `ReceiveNeverEmpty` | `ReceiveFindsAPacket` |
| `ClientGameProofs` | `GameTypeCorrect` | `TypeOK` |
| | `ShownEntitiesAreTheSnapshots` | `EntitiesAreTheSnapshots` |
| | `ApplicationKnowsTheWorld` | `ToldIsTheWorld` |
| | `ServerCommandsExecutedAsSent` | `CommandsExecutedAsSent`, which speaks of what follows `SnapshotProcessor::init` |
| | `ServerCommandsMatchTheSnapshot` | `CommandsMatchTheSnapshot` |
| | `SnapshotsGoForward` | a snapshot that is shown is never replaced by an older one |
| | `CommandsExecutedOnce` | no server command is executed again |

The hypotheses are real restrictions, and each is needed. `ReliableLink` assumes,
and two theorems of `Netchan` have as hypothesis, that the numbers of a session stay
below the width of the 16-bit counters: `NetchanWrapClaims` shows what happens past it.
`RestartsNotifiedAreReal` fails for a server with an odd count (`ClientTimeClaims`).
`HandlersCanDisconnect` leaves out the handlers after which `tick`, `writePacket` or
the game module do not look at the connection: each of them alone violates it
(`ServerConnectionClaims`). `FramesFit(k)` says of the server that it never has nothing
in sight, and that `k` frames together have fewer entities than the room that
`readOldSnapshot` keeps for a new snapshot, 128 in the code: with empty frames
`ServerSnapshotsEmpty` shows a snapshot that is not the server's; with frames that fit once
but not twice TLC finds `DeltaBasesAreIntact` violated (six entities, frames `{2, 3}`,
`{0, 1}` and `{4, 5}`, five snapshots and entities, a room of three): a message whose base is
too old is parsed all the same, adds the entities of the base to its own, and is
abandoned after it wrote over the first entity of a snapshot that a later message may be a
delta of. `NoChallengeEverExpires` is a theorem about a
disagreement of section 5, `ChallengesExpire`: it says that the loop in `tick` is
without effect in every state of every instance, and so that nothing else in the
host depends on it.

### Reliable commands

The argument. `ExecutedAsAdded` is not inductive: nothing in it speaks of
packets that were written long ago and may still arrive. `LinkInv` adds what
they can contain, as long as the ring was not overrun:

* `Window`: acknowledged <= stored <= added, and added is at most a ring ahead of
  acknowledged, so two unacknowledged commands never share a slot (lemma
  `SlotsDiffer`, an argument about remainders);
* `ResendsWhatWasAdded`: every slot in the window holds its command;
* `CommandsInFlight`: every packet ever written, and what is left of the one
  being parsed, is a run of consecutive commands, each the one added under its
  number, that starts no later than the next command to be stored. A packet
  from long ago can only repeat commands, and never leaves a gap;
* `HeadersInFlight`: later headers acknowledge more, none acknowledges
  what is not stored, and those that the channel would still accept acknowledge
  at least as much as the last one accepted. This is where the test on the
  packet number is needed: without it an acknowledgement is taken back, and a
  slot may be reused for a command that the sender counts as pending again.

Each action has a lemma of its own (`AddCommandKeepsLink` and so on);
`FaithfulStable` says that a run of commands stays right when more are added,
and `UnacknowledgedFaithful` that what `writeCommands` puts in a packet is one.
`StepLink` puts the lemmas together and the theorems follow with temporal
logic.

The refinement maps `accepted` to the commands added, `delivered` to those
executed without their numbers, and `broken` to the overrun of the ring. Only
`AddCommand` and `ParseCommandString` change any of them. That the second one, when
it executes a command, executes the first that was not delivered yet is where
`LinkInv` is needed: `ExecutedAsAdded`, which it implies, holds before and after
the step, and fixes the command that was appended. That is
lemma `ExecutedIsDelivered`, and `StepQueue` the whole step.

### The channel

That a message is returned intact takes three facts about what is under way.
`LoopPosition` says where the loop over `transmitNextFragment` is in its message.
`PacketsAreSound` divides all packets ever written into whole messages, good
fragments - the units that their header says, short only at the end of a message -
and the fragments of this code's own writer that claim more than they carry, which
`receive` always refuses. `StreamIsAPrefix` says that the stream holds the beginning of
message `fragmentSequence` and nothing else: a fragment is appended only if its
start is the length of the stream, so one of the same message continues it, and the
first one of another message starts again. For the order, `DeliveredIsPast` keeps
everything returned at or below `incomingSequence`. Both need that a number and its
16-bit copy are equal, which is where `MaxMessages < Modulus` is used.

### The life of a connection

`ConnectionIsWhole` joins `NeverHalfClosed` and `ToldOnceOfTheEnd`, which need each other:
the handler is told when the module is there, so that they go together is what
makes the second call silent. Lemma `StepsOfTheConnection` shows that every step does one
of three things to the connection: nothing, `ServerDisconnected`, `Disconnect`. For the
safety of handlers, `ModuleIsThereLate` adds that `tick`, once past the loop over the
packets, has a module: the test there is what makes the rest of it safe.

### Snapshots

`HeldInv` needs no hypothesis. `SlotsInv`: a valid snapshot is in the slot of its number,
was sent, and is less than `PacketBackup` numbers older than the current one;
`AckedInv`: one that was acknowledged is held as long as it is that young. Both rest on
`setNewSnap` marking the slots it skips, all of them and no others (`ValidIsRecent`,
`RecentIsKept`), which are arguments about remainders. A message is a delta of a snapshot
that was acknowledged and is less than `PacketBackup` numbers older than the message
(`MessagesInv`), so its base is held when it arrives.

`ContentInv` is about the entities. `RingInv`: a valid snapshot that nothing was written
over is its frame. What may be written over it differs: until a message is abandoned
(`aborted`) it is what `parseEntitiesNum` counts; afterwards it is also what abandoned
messages wrote and nobody counts, and only the room kept for a new snapshot makes up
for it. `RoomInv` bounds what a message writes, from a wrong base too: each entity
comes from one of the base that is passed over or from an entry, so it is at
most base and frame together. `MergeInv` is the loop of `parsePacketEntities`: at some
number `c`, what is left of the message and of the base is from `c` on, and what was
written is the new frame up to `c`. A turn takes the least number left, `m`, and writes
entity `m` of the new frame or nothing if it is gone (`TurnFacts`, from what a delta
lists), which moves `c` to `m + 1` (`MergeTurn`). At the end nothing is left, so all of the
frame was written (`MergedAll`), and the snapshot has as many entities as the frame
(`CountIncreasing`: an increasing sequence is an injection). The induction is thus over the
steps of the loop, and no induction over lists is needed.

### The clock

`RestartsAccounted` counts the restarts that are on their way: between the server and the
snapshot, and between the snapshot and the flags that `checkTime` saw last. A
notification takes one of them. `OldIsCurrent` ties the time that the next tick
compares with to the present one, unless a tick threw in between. The two action
properties then are arithmetic on what a tick computes.

### Requests

`OneRequestPerCall`: the active request and the queued ones are of different
calls, all of them made. With it the end of a request ends the call of one request
and of no other, which is `EndsExactlyOnce`; the retries, deferrals and the four
stages of a connection replace the active request within its call
(`SameCallKeeps`). `QueueInOrder` says more, that the active request and the queue are of
the last calls made, in their order; the order of the ends follows.

### The host

`NumbersAreDrawn`: the numbers of all challenges and clients were drawn, and no two
challenges have the same one. The challenge that `connect` erases, when it makes a
client, is thus the only one with its number, and a number drawn later is new. That
erasing keeps the others takes the properties of `RemoveAt`, which are lemmas.

### The threads

`NothingLostBetweenThreads` is an equation between sequences: what was taken, what is
queued and what a thread has in hand are, in this order, the packets in the order in
which they came. `InHand` says where a thread may have something in hand; each critical
section then moves the head of one sequence to the end of the one before it, and the
proof is the associativity of concatenation (`MoveFirst`, `AddLast`). `ReceiveFindsAPacket`
needs only that no other thread removes from the queue.

### The client game

`GameInv` has five parts. `ConnectionInv`: the ring holds the last `CommandRing`
commands, each at its own number (`RingHolds`, kept by `addCommands` because commands
less than a ring apart have different slots), and no snapshot that was received
belongs to a command still to come. `PointersInv`: the two slots hold such snapshots,
and `snap` and `nextSnap` are different slots until a snapshot is copied over the one
shown. `ExecutedInv`, `EntitiesInv` and `ToldInv` are the four properties made
inductive: they hold in every phase and not only between ticks, they say what
`next` holds for the snapshot in `nextSnap`, and that before the first snapshot no
entity is valid and the application knows of none. The history variables `aliased`,
`overrun` and `reactivated` mark exactly the events after which a property is lost
(section 5). Lemma `TransitionTells` is the argument of `transitionSnapshot`:
added, modified and removed entities together are the difference of two snapshots.
`SnapshotsGoForward` needs `OrderInv`, the order of the numbers of the snapshot shown,
the next one and the last one processed; it holds also when one slot is copied over.

### Only model-checked

* Everything under fairness (`EventuallyDelivered`, `SilenceEndsConnection`, `DueIsSent`,
  `EveryCallEnds`, `SentIsTransmitted`, `DestructorReturnsOutsideWindow`, `EventuallyShown`):
  liveness and ENABLED are out of the prover's reach.
* `Huffman`, `BitStream`, `TokenParser` and `Terrain` follow the recursion or the loops
  of their code with RECURSIVE operators, which the prover does not support; what
  they compute needs induction over data.
* What happens after an overrun of a ring, or past the width of a counter: the
  by-hand configurations of section 5.

## 7. Plan

Done: the modules of section 2. First those of the network, each resting on the
ones before it: commands, channel, connection, snapshots, clock, requests,
host. Then the queue that the commands implement, the sockets with threads, and
the client game on top of snapshots and commands. Then sequential code with
deep invariants: bits and Huffman codes, tokens, terrain. The safety properties of
the nine components with loops and no recursion are proved.

Next, proving more:

1. `ServerHost`: which clients `findClient` finds, and who is turned away.
2. `SimulatedSocket`: the type of its variables, and the mutual exclusion that its
   critical sections stand for.
3. `ServerConnection`: that a connection ends only for a reason.
4. `ServerSnapshots`: that an empty frame is harmless when it is not the base of a delta,
   which would weaken `FramesFit`.

And modelling more: the dispatcher with several handlers that are removed while
the list is walked; downloads; the reader of TIKI scripts, which is built on the
token parser; both directions of reliable commands in one connection, with the
encoding of packets, whose key depends on the commands.

## 8. Not modelled

* Downloads and several handlers of the dispatcher: planned, see above.
* The contents of packets: the XOR encoding (`Client/ChainEncode.cpp`,
  `Remote/Encoding.cpp`), the fields of entities and players beyond "changed or
  not", GameSpy's cipher. They are functions on data, or need the game's own data
  to say anything.
* User input, user info, command manager, tick registry, ping, remote console,
  master list: small tables on one thread, or users of the request handler
  that `EngineRequests` models.
* Sockets and addresses: the operating system's. What the network may do is in
  every module.
* Movement prediction, collision, model rendering, emitters: floating point.
* Of the client game: effects, scores, votes and texts, which are decoded and
  handed on at once.
* The other assets, files: sequential readers of files into tables.
* In `Terrain`, coordinates on textures and lightmaps, and the merging of
  triangles, which nothing calls. The trees of a patch come from the compiler of
  the map: a node asks for a split only if its parent does.
* In `Netchan`, the `qport` that `transmit` puts into its headers, which a game server
  takes off again, and messages of 2^16 bytes and more, whose length `transmit` cuts to
  16 bits. The lengths of its second and later fragments cannot be observed: what it
  sends there is refused for its data (`NetchanClaims`).
* In `TokenParser`, the assertion of `RestorePosition` that the mark is not behind the
  end: the model takes the release build, which moves the position there.
