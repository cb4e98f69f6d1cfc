---------------------------- MODULE ReliableLink ----------------------------
(***************************************************************************)
(* Reliable commands over the unreliable channel, one direction.           *)
(*                                                                         *)
(* The sending end keeps an IReliableSequence: a ring of MaxElements       *)
(* commands, the number of the last command added and the number of the    *)
(* last one the other end acknowledged.  Every packet it writes repeats    *)
(* all the commands that are not acknowledged yet.  The receiving end      *)
(* keeps an ICommandSequence, executes every command whose number is above *)
(* the last one it stored, and puts that number in the header of every     *)
(* packet it writes.  Packets may be lost, duplicated and reordered; the   *)
(* only protection is the sequence test of Netchan::receive, on a 16-bit   *)
(* copy of the 32-bit packet number.                                       *)
(***************************************************************************)
EXTENDS Integers, Sequences

CONSTANTS
    Commands,       \* the command strings
    NoCommand,      \* what a slot of the ring holds before it is first set
    MaxElements,    \* getMaxElements(): 64 in every protocol
    Modulus,        \* incomingSequence is kept modulo 2^16
    MaxCommands,    \* bound: calls to addCommand
    MaxPackets      \* bound: packets written by each end

ASSUME NoCommandAssumption == NoCommand \notin Commands
ASSUME MaxElementsAssumption == MaxElements \in Nat \ {0}
ASSUME MaxCommandsAssumption == MaxCommands \in Nat
\* Sessions whose packet numbers fit in incomingSequence: see Netchan for longer ones.
ASSUME MaxPacketsAssumption == MaxPackets \in Nat /\ Modulus \in Nat /\ MaxPackets < Modulus

VARIABLES
    reliableSequence,       \* sender: number of the last command added
    reliableAcknowledge,    \* sender: number of the last acknowledged one
    reliableCommands,       \* sender: the ring
    remoteCommandSequence,  \* receiver: number of the last command stored
    parsing,                \* receiver: commands left in the packet being parsed
    toReceiver, toSender,   \* every packet written so far, in each direction
    outgoingSequence,       \* Netchan: next packet number, at each end
    incomingSequence,       \* Netchan: last packet number accepted, at each end
    added,                  \* history: added[i] was stored under number i
    executed,               \* history: what the receiver executed, in order
    overrun                 \* history: a command was added over an unacknowledged one

sender == <<reliableSequence, reliableAcknowledge, reliableCommands>>
receiver == <<remoteCommandSequence, parsing>>
history == <<added, executed, overrun>>
vars == <<sender, receiver, toReceiver, toSender, outgoingSequence,
          incomingSequence, history>>

End == {"sender", "receiver"}
Numbered == [seq : Nat, cmd : Commands \union {NoCommand}]

Init ==
    /\ reliableSequence = 0
    /\ reliableAcknowledge = 0
    /\ reliableCommands = [i \in 0 .. MaxElements - 1 |-> NoCommand]
    /\ remoteCommandSequence = 0
    /\ parsing = <<>>
    /\ toReceiver = {}
    /\ toSender = {}
    /\ outgoingSequence = [e \in End |-> 1]
    /\ incomingSequence = [e \in End |-> 0]
    /\ added = <<>>
    /\ executed = <<>>
    /\ overrun = FALSE

----------------------------------------------------------------------------
\* The Netchan at each end.

\* A packet older than the last accepted one is discarded; the last one again is not.
\* Mutant: the channel takes every packet.
AcceptsAny(end, p) == TRUE
Accepts(end, p) == p.num >= incomingSequence[end]

\* incomingSequence is a uint16_t.
Accept(end, p) ==
    incomingSequence' = [incomingSequence EXCEPT ![end] = p.num % Modulus]

\* A packet takes the current number and the number moves on.
Number(end) ==
    /\ outgoingSequence[end] <= MaxPackets
    /\ outgoingSequence' = [outgoingSequence EXCEPT ![end] = @ + 1]

----------------------------------------------------------------------------
\* The sending end.

\* The slot of a command.
Slot(i) == i % MaxElements

\* getSequence: the command stored under a number, whatever is in its slot.
GetSequence(i) == reliableCommands[Slot(i)]

\* The command is dropped without a word once the acknowledgement is too far behind.
AddCommandRefused == reliableAcknowledge + MaxElements < reliableSequence

AddCommand(c) ==
    /\ reliableSequence < MaxCommands
    /\ ~AddCommandRefused
    /\ reliableSequence' = reliableSequence + 1
    /\ reliableCommands' =
         [reliableCommands EXCEPT ![Slot(reliableSequence + 1)] = c]
    /\ added' = Append(added, c)
    /\ overrun' = (overrun \/ reliableSequence - reliableAcknowledge >= MaxElements)
    /\ UNCHANGED <<reliableAcknowledge, receiver, toReceiver, toSender,
                   outgoingSequence, incomingSequence, executed>>

\* writeCommands: every number above the acknowledged one, with what its slot holds.
\* Mutant: the first unacknowledged command is skipped.
UnacknowledgedOffByOne ==
    [j \in 1 .. reliableSequence - reliableAcknowledge - 1 |->
        [seq |-> reliableAcknowledge + j + 1,
         cmd |-> GetSequence(reliableAcknowledge + j + 1)]]
Unacknowledged ==
    [j \in 1 .. reliableSequence - reliableAcknowledge |->
        [seq |-> reliableAcknowledge + j, cmd |-> GetSequence(reliableAcknowledge + j)]]

WriteCommands ==
    /\ Number("sender")
    /\ toReceiver' = toReceiver \union
         {[num |-> outgoingSequence["sender"], cmds |-> Unacknowledged]}
    /\ UNCHANGED <<sender, receiver, toSender, incomingSequence, history>>

\* updateAcknowledge believes the peer, and gives up on what it cannot resend.
UpdateAcknowledge(acknowledged) ==
    reliableAcknowledge' = IF acknowledged + MaxElements < reliableSequence
                           THEN reliableSequence
                           ELSE acknowledged

ReceiveHeader(p) ==
    /\ Accepts("sender", p)
    /\ Accept("sender", p)
    /\ UpdateAcknowledge(p.ack)
    /\ UNCHANGED <<reliableSequence, reliableCommands, receiver, toReceiver,
                   toSender, outgoingSequence, history>>

----------------------------------------------------------------------------
\* The receiving end.

ReceiveCommands(p) ==
    /\ parsing = <<>>
    /\ Accepts("receiver", p)
    /\ Accept("receiver", p)
    /\ parsing' = p.cmds
    /\ UNCHANGED <<sender, remoteCommandSequence, toReceiver, toSender,
                   outgoingSequence, history>>

\* A command already stored is skipped; any later number is stored and executed.
ParseCommandString ==
    /\ parsing # <<>>
    /\ parsing' = Tail(parsing)
    /\ IF remoteCommandSequence >= Head(parsing).seq
       THEN UNCHANGED <<remoteCommandSequence, executed>>
       ELSE /\ remoteCommandSequence' = Head(parsing).seq
            /\ executed' = Append(executed, Head(parsing))
    /\ UNCHANGED <<sender, toReceiver, toSender, outgoingSequence,
                   incomingSequence, added, overrun>>

\* An exception, of the message or of a handler, drops the rest of the message.
AbortParse ==
    /\ parsing # <<>>
    /\ parsing' = <<>>
    /\ UNCHANGED <<sender, remoteCommandSequence, toReceiver, toSender,
                   outgoingSequence, incomingSequence, history>>

WriteHeader ==
    /\ parsing = <<>>
    /\ Number("receiver")
    /\ toSender' = toSender \union
         {[num |-> outgoingSequence["receiver"], ack |-> remoteCommandSequence]}
    /\ UNCHANGED <<sender, receiver, toReceiver, incomingSequence, history>>

----------------------------------------------------------------------------
Next ==
    \/ \E c \in Commands : AddCommand(c)
    \/ WriteCommands
    \/ \E p \in toSender : ReceiveHeader(p)
    \/ \E p \in toReceiver : ReceiveCommands(p)
    \/ ParseCommandString
    \/ AbortParse
    \/ WriteHeader

Spec == Init /\ [][Next]_vars

----------------------------------------------------------------------------
\* Every variable keeps its type; packet numbers stay below the bound.
TypeOK ==
    /\ reliableSequence \in Nat
    /\ reliableAcknowledge \in Nat
    /\ reliableCommands \in [0 .. MaxElements - 1 -> Commands \union {NoCommand}]
    /\ remoteCommandSequence \in Nat
    /\ parsing \in Seq(Numbered)
    /\ toReceiver \subseteq [num : 1 .. MaxPackets, cmds : Seq(Numbered)]
    /\ toSender \subseteq [num : 1 .. MaxPackets, ack : Nat]
    /\ outgoingSequence \in [End -> 1 .. MaxPackets + 1]
    /\ incomingSequence \in [End -> 0 .. MaxPackets]
    /\ added \in Seq(Commands)
    /\ executed \in Seq(Numbered)
    /\ overrun \in BOOLEAN

\* Exactly once, in order, unchanged: as long as no command was added over an
\* unacknowledged one, the k-th command that parseCommandString executes is the
\* k-th that addCommand took, whatever the network lost, repeated or reordered.
ExecutedAsAdded ==
    ~overrun =>
        /\ remoteCommandSequence = Len(executed)
        /\ Len(executed) <= Len(added)
        /\ \A k \in 1 .. Len(executed) :
              executed[k] = [seq |-> k, cmd |-> added[k]]

\* What writeCommands would send is what was added: no slot of a command that
\* still has to be resent was reused ("write commands that the server didn't
\* acknowledge", ServerConnection.cpp).  False once the ring is overrun.
ResendsWhatWasAdded ==
    \A i \in reliableAcknowledge + 1 .. reliableSequence : GetSequence(i) = added[i]

\* The same, while no command was added over an unacknowledged one.
ResendsWhatWasAddedUntilOverrun == ~overrun => ResendsWhatWasAdded

\* updateAcknowledge never forgets that the peer has a command, nor believes
\* that it has one it has not stored: the command would never be sent again.
AcknowledgeIsSound ==
    ~overrun => reliableAcknowledge <= remoteCommandSequence

\* An acknowledgement is never taken back, although every header is believed:
\* the stale ones are stopped by the packet number.
AcknowledgeNeverGoesBack ==
    [][overrun' \/ reliableAcknowledge' >= reliableAcknowledge]_vars

----------------------------------------------------------------------------
\* The two ends and the packets between them are a queue of commands: what was added
\* was accepted, and what was executed was delivered.
Delivered == [k \in 1 .. Len(executed) |-> executed[k].cmd]

Queue == INSTANCE CommandQueue
            WITH accepted <- added, delivered <- Delivered, broken <- overrun

\* Every step of the link is a step of the queue or leaves it alone: a command that
\* addCommand took is executed once and in its turn, over any loss, repetition and
\* reordering of packets and any parse that is cut short, until the ring is overrun.
ImplementsQueue == Queue!Spec

----------------------------------------------------------------------------
\* The inductive invariant behind the properties above.

\* A run of consecutive commands, each the one added under its number.
Faithful(cmds) ==
    \A j \in 1 .. Len(cmds) :
        /\ cmds[j].seq = cmds[1].seq + j - 1
        /\ cmds[j].seq \in 1 .. Len(added)
        /\ cmds[j].cmd = added[cmds[j].seq]

\* Nothing is missing between what is stored and where the run starts.
NoGap(cmds) == cmds # <<>> => cmds[1].seq <= remoteCommandSequence + 1

Window ==
    /\ reliableAcknowledge <= remoteCommandSequence
    /\ remoteCommandSequence <= reliableSequence
    /\ reliableSequence - reliableAcknowledge <= MaxElements

CommandsInFlight ==
    /\ Faithful(parsing) /\ NoGap(parsing)
    /\ \A p \in toReceiver : Faithful(p.cmds) /\ NoGap(p.cmds)

\* A header that the channel would still accept acknowledges at least as much
\* as the last one accepted, and later headers acknowledge more.
HeadersInFlight ==
    /\ \A p \in toSender :
          /\ p.ack <= remoteCommandSequence
          /\ Accepts("sender", p) => reliableAcknowledge <= p.ack
    /\ \A p, q \in toSender : p.num <= q.num => p.ack <= q.ack

\* The link is in a consistent state as long as the ring was not overrun, across
\* the two ends and everything written between them.
LinkInv ==
    /\ Len(added) = reliableSequence
    /\ \A p \in toSender : p.num < outgoingSequence["receiver"]
    /\ ~overrun =>
         /\ Window
         /\ ExecutedAsAdded
         /\ ResendsWhatWasAdded
         /\ CommandsInFlight
         /\ HeadersInFlight

=============================================================================
