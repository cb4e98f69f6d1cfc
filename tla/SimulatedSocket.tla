-------------------------- MODULE SimulatedSocket --------------------------
(***************************************************************************)
(* The socket that simulates latency, over the one that simulates loss,    *)
(* over a UDP socket: UdpSocketSimLatency and UdpSocketSimLoss, stacked as *)
(* the network test stacks them and used by the message dispatcher.        *)
(*                                                                         *)
(* Three threads.  incomingThread moves datagrams from the socket below    *)
(* to the queue incomings, outgoingThread moves packets from the queue     *)
(* outbounds to the socket below, and the application polls, sends and in  *)
(* the end destroys the object.  A packet may be used once its time has    *)
(* come; how long that takes is abstracted to "not due yet" and "due".     *)
(*                                                                         *)
(* A critical section that does not wait is one step.  The only one that   *)
(* waits with a mutex held is receive, which sleeps until the packet is    *)
(* due: incomingMutex is held exactly while the application is there.      *)
(***************************************************************************)
EXTENDS Integers, Sequences

CONSTANTS
    PollTimes,      \* whether a poll waits: subset of {"none", "some"}
    InboundLoss,    \* inboundLossAlpha > 0
    EnableOOD,      \* setOutOfOrder was called with true
    MaxArrivals,    \* bound: datagrams that arrive before the destructor is called
    MaxSends        \* bound: packets the application sends

ASSUME PollTimesAssumption == PollTimes \subseteq {"none", "some"}
ASSUME OptionsAssumption == InboundLoss \in BOOLEAN /\ EnableOOD \in BOOLEAN
ASSUME BoundsAssumption == MaxArrivals \in Nat /\ MaxSends \in Nat

VARIABLES
    isThreadActive,
    app, in, out,       \* where each thread is
    wire,               \* datagrams that reached the UDP socket and were not read
    incomings,          \* queue between incomingThread and the application
    outbounds,          \* queue between the application and outgoingThread
    reading,            \* what incomingThread has read and not queued yet
    receiving,          \* what receive has taken from the queue and sleeps for
    sending,            \* what outgoingThread has taken from the queue
    arrived,            \* history: datagrams that reached the UDP socket
    kept,               \* history: those that UdpSocketSimLoss did not drop
    taken,              \* history: those the dispatcher took, and what it did with them
    sent,               \* history: packets given to send
    transmitted         \* history: those given to the socket below

inbound == <<wire, incomings, reading, receiving, arrived, kept, taken>>
outbound == <<outbounds, sending, sent, transmitted>>
vars == <<isThreadActive, app, in, out, inbound, outbound>>

\* A packet: its number, whether it has no data, whether its time has come.
Packet(n, empty) == [num |-> n, empty |-> empty, due |-> FALSE]

Init ==
    /\ isThreadActive = TRUE
    /\ app = "idle" /\ in = "test" /\ out = "test"
    /\ wire = <<>> /\ incomings = <<>> /\ outbounds = <<>>
    /\ reading = <<>> /\ receiving = <<>> /\ sending = <<>>
    /\ arrived = 0
    /\ kept = <<>> /\ taken = <<>>
    /\ sent = 0
    /\ transmitted = <<>>

----------------------------------------------------------------------------
\* The world (external): datagrams arrive, and time passes for any packet.

Arrive(empty) ==
    /\ arrived < MaxArrivals
    /\ arrived' = arrived + 1
    /\ wire' = Append(wire, Packet(arrived + 1, empty))
    /\ UNCHANGED <<isThreadActive, app, in, out, incomings, reading, receiving, kept,
                   taken, outbound>>

Elapsed(queue) ==
    {[queue EXCEPT ![i].due = TRUE] : i \in {j \in DOMAIN queue : ~queue[j].due}}

Elapse ==
    /\ \/ incomings' \in Elapsed(incomings) /\ UNCHANGED <<receiving, outbounds, sending>>
       \/ receiving' \in Elapsed(receiving) /\ UNCHANGED <<incomings, outbounds, sending>>
       \/ outbounds' \in Elapsed(outbounds) /\ UNCHANGED <<incomings, receiving, sending>>
       \/ sending' \in Elapsed(sending) /\ UNCHANGED <<incomings, receiving, outbounds>>
    /\ UNCHANGED <<isThreadActive, app, in, out, wire, reading, arrived, kept, taken,
                   sent, transmitted>>

----------------------------------------------------------------------------
\* incomingThread.

IncomingMutexFree == app # "sleeping"

IncomingTest ==
    /\ in = "test"
    /\ in' = IF isThreadActive THEN "wait" ELSE "gone"
    /\ UNCHANGED <<isThreadActive, app, out, inbound, outbound>>

\* UdpSocketSimLoss::wait(100): when it decides to drop, it does so whether or not
\* something is pending; otherwise what is pending will be processed.
IncomingWait ==
    /\ in = "wait"
    /\ in' \in (IF InboundLoss THEN {"drop"} ELSE {})
               \union (IF wire = <<>> THEN {"test"} ELSE {"read"})
    /\ UNCHANGED <<isThreadActive, app, out, inbound, outbound>>

\* dropIncoming is a blocking read; then the time to wait may be over, or not.
DropIncoming ==
    /\ in = "drop"
    /\ wire # <<>>
    /\ wire' = Tail(wire)
    /\ in' \in {"wait", "test"}
    /\ UNCHANGED <<isThreadActive, app, out, incomings, reading, receiving, arrived, kept,
                   taken, outbound>>

\* The datagram is read, with data or without.
IncomingRead ==
    /\ in = "read"
    /\ reading' = <<Head(wire)>>
    /\ kept' = Append(kept, Head(wire).num)
    /\ wire' = Tail(wire)
    /\ in' = "queue"
    /\ UNCHANGED <<isThreadActive, app, out, incomings, receiving, arrived, taken, outbound>>

IncomingQueue ==
    /\ in = "queue"
    /\ IncomingMutexFree
    /\ incomings' = incomings \o reading
    /\ reading' = <<>>
    /\ in' = "wait"
    /\ UNCHANGED <<isThreadActive, app, out, wire, receiving, arrived, kept, taken, outbound>>

\* Datagrams that arrive, without a bound, while the destructor waits for the thread.
\* The inner loop looks at the socket and not at isThreadActive: one that is read
\* and queued brings the thread back to wait(100).  Nobody will take it, so it is not
\* kept here; a drop that was waiting for one ends.
IncomingLate ==
    /\ app \in {"notify", "join"}
    /\ wire = <<>>
    /\ \/ in = "wait" /\ in' = "late"
       \/ in = "drop" /\ in' \in {"wait", "test"}
    /\ UNCHANGED <<isThreadActive, app, out, inbound, outbound>>

IncomingLateQueue ==
    /\ in = "late"
    /\ in' = "wait"
    /\ UNCHANGED <<isThreadActive, app, out, inbound, outbound>>

----------------------------------------------------------------------------
\* outgoingThread.

OutgoingTest ==
    /\ out = "test"
    /\ out' = IF isThreadActive THEN "take" ELSE "gone"
    /\ UNCHANGED <<isThreadActive, app, in, inbound, outbound>>

\* The thread waits at most once, and tests the queue again when it is woken.
\* Mutant: it takes the front again after it was woken, without removing it.
OutgoingTakeKeepingFront ==
    /\ out \in {"take", "woken"}
    /\ IF outbounds = <<>>
       THEN /\ out' = IF out = "take" THEN "waiting" ELSE "test"
            /\ UNCHANGED <<outbounds, sending>>
       ELSE /\ sending' = <<Head(outbounds)>>
            /\ outbounds' = IF out = "take" THEN Tail(outbounds) ELSE outbounds
            /\ out' = "send"
    /\ UNCHANGED <<isThreadActive, app, in, inbound, sent, transmitted>>
OutgoingTake ==
    /\ out \in {"take", "woken"}
    /\ IF outbounds = <<>>
       THEN /\ out' = IF out = "take" THEN "waiting" ELSE "test"
            /\ UNCHANGED <<outbounds, sending>>
       ELSE /\ sending' = <<Head(outbounds)>>
            /\ outbounds' = Tail(outbounds)
            /\ out' = "send"
    /\ UNCHANGED <<isThreadActive, app, in, inbound, sent, transmitted>>

\* A condition variable may wake its waiter for no reason, and need not.
SpuriousWake ==
    /\ out = "waiting"
    /\ out' = "woken"
    /\ UNCHANGED <<isThreadActive, app, in, inbound, outbound>>

\* UdpSocketSimLoss::send then drops it or sends it once or twice, and keeps nothing.
OutgoingSend ==
    /\ out = "send"
    /\ sending[1].due
    /\ transmitted' = transmitted \o sending
    /\ sending' = <<>>
    /\ out' = "test"
    /\ UNCHANGED <<isThreadActive, app, in, inbound, outbounds, sent>>

\* notify_all on outgoingEvent: whoever waits now is woken.
NotifyOutgoing == out' = IF out = "waiting" THEN "woken" ELSE out

----------------------------------------------------------------------------
\* The application: send.

SendAs(queue) ==
    /\ app = "idle"
    /\ sent < MaxSends
    /\ sent' = sent + 1
    /\ outbounds' = queue
    /\ app' = "sent"
    /\ UNCHANGED <<isThreadActive, in, out, inbound, sending, transmitted>>

Send == SendAs(Append(outbounds, Packet(sent + 1, FALSE)))

\* The branch of shouldSendOutOfOrder: insert(outbounds.end(), ...), so that the packet
\* comes last here too.
SendOutOfOrder ==
    /\ EnableOOD
    /\ SendAs(outbounds \o <<Packet(sent + 1, FALSE)>>)

\* Mutant: nobody is notified.
SendNotifyNobody ==
    /\ app = "sent"
    /\ app' = "idle"
    /\ UNCHANGED <<isThreadActive, in, out, inbound, outbound>>
SendNotify ==
    /\ app = "sent"
    /\ NotifyOutgoing
    /\ app' = "idle"
    /\ UNCHANGED <<isThreadActive, in, inbound, outbound>>

----------------------------------------------------------------------------
\* The application: processComm, by way of UDPCommunicator.

\* dataCount: the size of the first packet once it is due, and 0 before that.
DataCountPositive ==
    incomings # <<>> /\ Head(incomings).due /\ ~Head(incomings).empty

\* waitIncoming(0) looks at dataCount, any other time calls wait.
Poll(time) ==
    /\ app = "idle"
    /\ app' = IF time = "none" THEN IF DataCountPositive THEN "size" ELSE "idle"
              ELSE IF incomings = <<>> THEN "waiting" ELSE "dozing"
    /\ UNCHANGED <<isThreadActive, in, out, inbound, outbound>>

\* wait is notified, or its time is over: without a packet it returns false.
\* Mutant: to be woken is taken for a packet.
WakeWithoutTest ==
    /\ app = "waiting"
    /\ app' = "dozing"
    /\ UNCHANGED <<isThreadActive, in, out, inbound, outbound>>
Wake ==
    /\ app = "waiting"
    /\ app' = IF incomings = <<>> THEN "idle" ELSE "dozing"
    /\ UNCHANGED <<isThreadActive, in, out, inbound, outbound>>

\* It sleeps until the packet is due, or its time is over, and returns true.
Doze ==
    /\ app = "dozing"
    /\ app' = "size"
    /\ UNCHANGED <<isThreadActive, in, out, inbound, outbound>>

\* getIncomingSize, then receive: a message without data is received and ignored.
\* The packet leaves the queue, and receive sleeps until it is due.
Receive ==
    /\ app = "size"
    /\ receiving' = <<Head(incomings)>>
    /\ incomings' = Tail(incomings)
    /\ taken' = Append(taken, [num |-> Head(incomings).num, empty |-> Head(incomings).empty,
                               handled |-> DataCountPositive])
    /\ app' = "sleeping"
    /\ UNCHANGED <<isThreadActive, in, out, wire, reading, arrived, kept, outbound>>

ReceiveReturns ==
    /\ app = "sleeping"
    /\ receiving[1].due
    /\ receiving' = <<>>
    /\ app' = "idle"
    /\ UNCHANGED <<isThreadActive, in, out, wire, incomings, reading, arrived, kept, taken,
                   outbound>>

----------------------------------------------------------------------------
\* The application: the destructor.  The flag is a plain bool, cleared without a mutex.

Destroy ==
    /\ app = "idle"
    /\ isThreadActive' = FALSE
    /\ app' = "notify"
    /\ UNCHANGED <<in, out, inbound, outbound>>

\* Mutant: only the other event is notified.
DestroyNotifyIncomingOnly ==
    /\ app = "notify"
    /\ app' = "join"
    /\ UNCHANGED <<isThreadActive, in, out, inbound, outbound>>
DestroyNotify ==
    /\ app = "notify"
    /\ NotifyOutgoing
    /\ app' = "join"
    /\ UNCHANGED <<isThreadActive, in, inbound, outbound>>

Join ==
    /\ app = "join"
    /\ in = "gone" /\ out = "gone"
    /\ app' = "destroyed"
    /\ UNCHANGED <<isThreadActive, in, out, inbound, outbound>>

----------------------------------------------------------------------------
IncomingThread ==
    \/ IncomingTest \/ IncomingWait \/ DropIncoming \/ IncomingRead \/ IncomingQueue
    \/ IncomingLate \/ IncomingLateQueue

OutgoingThread == OutgoingTest \/ OutgoingTake \/ OutgoingSend

\* What a call of the application does once it was made.
Call ==
    SendNotify \/ Wake \/ Doze \/ Receive \/ ReceiveReturns \/ DestroyNotify \/ Join

Next ==
    \/ \E empty \in BOOLEAN : Arrive(empty)
    \/ Elapse
    \/ IncomingThread \/ OutgoingThread \/ SpuriousWake
    \/ Send \/ SendOutOfOrder
    \/ \E time \in PollTimes : Poll(time)
    \/ Call
    \/ Destroy

Spec == Init /\ [][Next]_vars

\* The threads run, time passes, calls go on to their end and the application polls
\* with a time to wait; nothing makes it send or destroy the socket, nothing makes
\* datagrams arrive, and nothing wakes a waiting thread but a notification.
FairSpec ==
    /\ Spec
    /\ WF_vars(Elapse) /\ WF_vars(IncomingThread) /\ WF_vars(OutgoingThread)
    /\ WF_vars(Call)
    /\ WF_vars("some" \in PollTimes /\ Poll("some"))

----------------------------------------------------------------------------
Numbers(packets) == [i \in DOMAIN packets |-> packets[i].num]

\* Between the two threads and the application no packet is lost, repeated or
\* overtaken, in either direction: what the dispatcher took, what the queue holds and
\* what incomingThread has in hand is what it read from the socket below; what was
\* given to that socket, what outgoingThread has in hand and what the queue holds is
\* what send took.  That nothing is overtaken holds also of a packet sent "out of
\* order": see OutOfOrderOvertakes.
NothingLostBetweenThreads ==
    /\ Numbers(taken) \o Numbers(incomings) \o Numbers(reading) = kept
    /\ Numbers(transmitted) \o Numbers(sending) \o Numbers(outbounds) = [i \in 1 .. sent |-> i]

\* "Send packets out-of-order" (setOutOfOrder): a packet that is sent out of order is
\* not the last of the queue, if there is another.  False of the code, which inserts
\* it at the end.
OutOfOrderOvertakes ==
    [][SendOutOfOrder /\ outbounds # <<>> => outbounds'[Len(outbounds')].num # sent']_vars

\* receive is never called on an empty queue, whose front it would use: a packet that
\* wait or dataCount saw is still there, although the mutex was released in between.
ReceiveFindsAPacket == app \in {"dozing", "size"} => incomings # <<>>

\* "True if there is any pending data" (ISocket::wait), "empty message, ignore"
\* (processComm): only messages without data are ignored.  False of the code when the
\* latency is longer than the time waited.
OnlyEmptyIsIgnored == \A i \in DOMAIN taken : taken[i].handled \/ taken[i].empty

\* Every packet given to send is given to the socket below in the end, unless the
\* socket is destroyed: the notification is not missed however it falls.
SentIsTransmitted ==
    \A n \in 1 .. MaxSends :
        sent >= n ~> (Len(transmitted) >= n \/ ~isThreadActive)

\* The destructor returns.  False of the code: see the next property.
DestructorReturns == app = "notify" ~> app = "destroyed"

\* outgoingThread has seen isThreadActive set, and is about to wait.
AboutToWait == out = "take" /\ outbounds = <<>>

\* A drop that was decided with nothing pending is a blocking read.
DroppingNothing == in = "drop" /\ wire = <<>>

\* The destructor returns, wherever it finds the threads, but in three cases: the
\* notification comes between outgoingThread's test of the flag and its wait,
\* incomingThread is waiting for a datagram that it wants to drop, or datagrams keep
\* arriving for ever, which keeps incomingThread in its inner loop.
DestructorReturnsOutsideWindow ==
    <>[](in # "late") =>
        ((app = "notify" /\ ~AboutToWait) ~> (app = "destroyed" \/ DroppingNothing))

=============================================================================
