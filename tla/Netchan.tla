------------------------------ MODULE Netchan ------------------------------
(***************************************************************************)
(* One direction of the sequenced channel: a writer numbers its messages   *)
(* and cuts the long ones into fragments, Netchan::receive filters what    *)
(* arrives by number and puts the fragments together again.                *)
(*                                                                         *)
(* The data of message n is the sequence <<n, 1>>, <<n, 2>>, ...  Lengths  *)
(* are counted in units, FragmentSize of which make a full fragment (1300  *)
(* bytes in the code).  The writer is either Netchan::transmit or a game   *)
(* server, which is not part of this repository and is modelled by what    *)
(* Netchan::receive expects of it.  The packets from another address, and  *)
(* the connectionless ones, leave the channel as it is.                    *)
(*                                                                         *)
(* A client also writes its qport into the header.  What receives from it  *)
(* is a game server, modelled as Netchan::receive after it has taken the   *)
(* qport off; a Netchan::receive would read it as part of what follows.    *)
(* Messages are shorter than 2^16 bytes, so that their length fits in the  *)
(* uint16_t of transmit.                                                   *)
(***************************************************************************)
EXTENDS Integers, Sequences, FiniteSets

CONSTANTS
    Writers,        \* who may write: "Netchan", this code; "server", a game server
    FragmentSize,   \* FRAGMENT_SIZE
    Lengths,        \* lengths of the messages
    Modulus,        \* 2^16: incomingSequence and fragmentSequence are uint16_t
    Networks,       \* "lossy" loses, repeats and reorders packets; "fifo" does not
    MaxMessages,    \* bound: messages written
    MaxDeliveries   \* bound: messages handed to the caller of receive

ASSUME WritersAssumption == Writers \subseteq {"Netchan", "server"}
ASSUME NetworksAssumption == Networks \subseteq {"lossy", "fifo"}
ASSUME FragmentSizeAssumption == FragmentSize \in Nat \ {0}
ASSUME LengthsAssumption == Lengths \subseteq Nat
ASSUME ModulusAssumption == Modulus \in Nat \ {0}
ASSUME BoundsAssumption == MaxMessages \in Nat /\ MaxDeliveries \in Nat

VARIABLES
    network,            \* which of the Networks is between the two ends
    writtenBy,          \* which of the Writers is at the other end
    outgoingSequence,   \* writer: number of the next message
    sending,            \* writer: what transmit has left to do, or NotSending
    length,             \* history: length[n] of message n
    failed,             \* writer: transmit threw StreamOverflowException
    net,                \* every packet written, in order
    cursor,             \* packets taken from a network that is not lossy
    incomingSequence,   \* receiver: number of the last message accepted
    fragmentSequence,   \* receiver: number of the message being assembled
    fragmentStream,     \* receiver: what is assembled of it
    delivered,          \* history: what receive returned to its caller
    badLength           \* receiver: receive threw BadFragmentLengthException

writer == <<writtenBy, outgoingSequence, sending, length, failed>>
receiver == <<incomingSequence, fragmentSequence, fragmentStream, delivered, badLength>>
vars == <<network, writer, net, cursor, receiver>>

NotSending == [start |-> 0, position |-> 0, busy |-> FALSE]
Garbage == <<0, 0>>
Unit == [1 .. 2 -> Nat]
Data(n) == [k \in 1 .. length[n] |-> <<n, k>>]

Init ==
    /\ network \in Networks
    /\ writtenBy \in Writers
    /\ outgoingSequence = 1
    /\ sending = NotSending
    /\ length = <<>>
    /\ failed = FALSE
    /\ net = <<>>
    /\ cursor = 0
    /\ incomingSequence = 0
    /\ fragmentSequence = 0
    /\ fragmentStream = <<>>
    /\ delivered = <<>>
    /\ badLength = FALSE

----------------------------------------------------------------------------
\* transmit.  A message shorter than a fragment is one packet.

TransmitUnfragmented(len) ==
    /\ len < FragmentSize
    /\ net' = Append(net, [seq |-> outgoingSequence, fragmented |-> FALSE, start |-> 0,
                           len |-> 0, data |-> [k \in 1 .. len |-> <<outgoingSequence, k>>]])
    /\ outgoingSequence' = outgoingSequence + 1
    /\ UNCHANGED sending

\* A longer one is sent by a loop over transmitNextFragment.
TransmitFragmented(len) ==
    /\ len >= FragmentSize
    /\ sending' = [start |-> 0, position |-> 0, busy |-> TRUE]
    /\ UNCHANGED <<outgoingSequence, net>>

Transmit(len) ==
    /\ ~sending.busy /\ ~failed
    /\ outgoingSequence <= MaxMessages
    /\ length' = Append(length, len)
    /\ TransmitUnfragmented(len) \/ TransmitFragmented(len)
    /\ UNCHANGED <<network, writtenBy, failed, cursor, receiver>>

Total == length[outgoingSequence]

FragmentLength ==
    IF sending.start + FragmentSize > Total THEN Total - sending.start ELSE FragmentSize

\* The length written in the fragment header is the length of the whole message.
LengthField == IF writtenBy = "Netchan" THEN Total ELSE FragmentLength

\* streamHelpers::Copy takes an end position, transmitNextFragment passes a length:
\* the unsigned difference is zero, or wraps and is cut to the block size.
CopyCount ==
    IF writtenBy = "server" THEN FragmentLength
    ELSE IF FragmentLength = 0 THEN 0
    ELSE IF sending.position <= FragmentLength THEN FragmentLength - sending.position
    ELSE FragmentSize

\* Read allows one unit past the end of the stream.
CopyOverflows == CopyCount > 0 /\ sending.position + CopyCount - 1 > Total

\* What was not copied is what the allocation left there.
FragmentData ==
    [k \in 1 .. (IF CopyCount > FragmentLength THEN CopyCount ELSE FragmentLength) |->
        IF k <= CopyCount /\ sending.position + k <= Total
        THEN <<outgoingSequence, sending.position + k>>
        ELSE Garbage]

\* A message that ends on a full fragment is closed by an empty one.
\* Mutant: the message ends as soon as all its data is sent.
LastFragmentEager == sending.start + FragmentLength = Total
LastFragment == sending.start + FragmentLength = Total /\ FragmentLength # FragmentSize

TransmitNextFragment ==
    /\ sending.busy
    /\ IF CopyOverflows
       THEN /\ failed' = TRUE
            /\ sending' = NotSending
            /\ UNCHANGED <<outgoingSequence, net>>
       ELSE /\ net' = Append(net, [seq |-> outgoingSequence, fragmented |-> TRUE,
                                   start |-> sending.start, len |-> LengthField,
                                   data |-> FragmentData])
            /\ IF LastFragment
               THEN /\ sending' = NotSending
                    /\ outgoingSequence' = outgoingSequence + 1
               ELSE /\ sending' = [start |-> sending.start + FragmentLength,
                                   position |-> sending.position + CopyCount, busy |-> TRUE]
                    /\ UNCHANGED outgoingSequence
            /\ UNCHANGED failed
    /\ UNCHANGED <<network, writtenBy, length, cursor, receiver>>

----------------------------------------------------------------------------
\* receive.

\* "discard out of order or duplicated packets".  Mutant: nothing is discarded.
DiscardsNone(p) == FALSE
Discards(p) == p.seq < incomingSequence

\* A message is handed over.
Deliver(p, data) ==
    /\ delivered' = Append(delivered, [seq |-> p.seq, data |-> data])
    /\ incomingSequence' = p.seq % Modulus

\* The comparison is between 32 and 16 bits.
SameMessage(p) == p.seq = fragmentSequence

Assembled(p) == IF SameMessage(p) THEN fragmentStream ELSE <<>>

\* Mutant: a fragment that does not start where the last one ended is taken too.
FollowsAlways(p) == TRUE
Follows(p) == p.start = Len(Assembled(p))

\* The fragment says that it is longer than what arrived.
LengthIsBad(p) == p.len > Len(p.data)

\* What p.len units of the packet hold.
Payload(p) == [k \in 1 .. p.len |-> IF k <= Len(p.data) THEN p.data[k] ELSE Garbage]

ReceiveFragment(p) ==
    /\ fragmentSequence' = IF SameMessage(p) THEN fragmentSequence ELSE p.seq % Modulus
    /\ \/ /\ ~Follows(p)
          /\ fragmentStream' = Assembled(p)
          /\ UNCHANGED <<incomingSequence, delivered, badLength>>
       \/ /\ Follows(p)
          /\ LengthIsBad(p)
          /\ fragmentStream' = Assembled(p)
          /\ badLength' = TRUE
          /\ UNCHANGED <<incomingSequence, delivered>>
       \/ /\ Follows(p)
          /\ ~LengthIsBad(p)
          /\ LET stream == Assembled(p) \o Payload(p)
             IN  IF p.len = FragmentSize
                 THEN /\ fragmentStream' = stream
                      /\ UNCHANGED <<incomingSequence, delivered>>
                 ELSE /\ fragmentStream' = <<>>
                      /\ Deliver(p, stream)
          /\ UNCHANGED badLength

ReceiveWhole(p) ==
    /\ Deliver(p, p.data)
    /\ UNCHANGED <<fragmentSequence, fragmentStream, badLength>>

Receive(i) ==
    LET p == net[i] IN
    /\ Len(delivered) < MaxDeliveries
    /\ cursor' = IF network = "lossy" THEN cursor ELSE i
    /\ IF Discards(p) THEN UNCHANGED receiver
       ELSE IF p.fragmented THEN ReceiveFragment(p) ELSE ReceiveWhole(p)
    /\ UNCHANGED <<network, writer, net>>

\* External.  A lossy network hands over any packet, any number of times.
Arriving ==
    IF network = "lossy" THEN 1 .. Len(net)
    ELSE IF cursor < Len(net) THEN {cursor + 1} ELSE {}

----------------------------------------------------------------------------
Next ==
    \/ \E len \in Lengths : Transmit(len)
    \/ TransmitNextFragment
    \/ \E i \in Arriving : Receive(i)

Spec == Init /\ [][Next]_vars

\* The owner of the socket reads it on every tick.
FairSpec ==
    /\ Spec
    /\ WF_vars(TransmitNextFragment)
    /\ WF_vars(\E i \in Arriving : Receive(i))

----------------------------------------------------------------------------
\* Every variable keeps its type, and the 16-bit counters their width.
TypeOK ==
    /\ network \in Networks
    /\ writtenBy \in Writers
    /\ outgoingSequence \in 1 .. MaxMessages + 1
    /\ sending \in [start : Nat, position : Nat, busy : BOOLEAN]
    /\ length \in Seq(Lengths)
    /\ failed \in BOOLEAN
    /\ net \in Seq([seq : Nat, fragmented : BOOLEAN, start : Nat, len : Nat, data : Seq(Unit)])
    /\ cursor \in 0 .. Len(net)
    /\ incomingSequence \in 0 .. Modulus - 1
    /\ fragmentSequence \in 0 .. Modulus - 1
    /\ fragmentStream \in Seq(Unit)
    /\ delivered \in Seq([seq : Nat, data : Seq(Unit)])
    /\ badLength \in BOOLEAN

\* A message that receive returns is a message that was written, whole and under
\* its number: fragments of two messages, or of two copies of one, are never mixed.
DeliveredIntact ==
    \A k \in 1 .. Len(delivered) : delivered[k].data = Data(delivered[k].seq)

\* "discard out of order": receive never returns a message older than the last one.
DeliveredInOrder ==
    \A j, k \in 1 .. Len(delivered) : j < k => delivered[j].seq <= delivered[k].seq

\* "discard ... duplicated packets": receive never returns a message twice.
DeliveredOnce ==
    \A j, k \in 1 .. Len(delivered) : j # k => delivered[j].seq # delivered[k].seq

\* On a network that loses nothing and keeps the order, every message written is
\* returned, fragmented or not.
DrainedMeansDelivered ==
    (/\ network = "fifo" /\ ~sending.busy /\ ~failed
     /\ cursor = Len(net) /\ Len(delivered) < MaxDeliveries)
        => Len(delivered) = Len(length)

\* "a fragment contains: [...] length of fragment": the length in a fragment
\* header is the length of the data that follows it.
LengthFieldIsDataLength ==
    \A i \in 1 .. Len(net) : net[i].fragmented => net[i].len = Len(net[i].data)

\* "start offset of fragment [...] data up to FRAGMENT_SIZE": a fragment carries
\* the part of the message that its start offset says, and transmit finishes.
FragmentsCarryTheMessage ==
    /\ ~failed
    /\ \A i \in 1 .. Len(net) :
         net[i].data = [k \in 1 .. Len(net[i].data) |-> <<net[i].seq, net[i].start + k>>]

\* Every message that a game server writes is eventually returned by receive, whatever
\* its length, on a network that keeps every packet in order.
EventuallyDelivered ==
    \A n \in 1 .. MaxMessages :
        (network = "fifo" /\ writtenBy = "server" /\ Len(length) >= n)
            ~> (\E k \in DOMAIN delivered : delivered[k].seq = n)

=============================================================================
