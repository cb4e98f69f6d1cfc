---------------------------- MODULE CommandQueue ----------------------------
(***************************************************************************)
(* What a direction of reliable commands promises to those who use it: the *)
(* commands that one end accepts are executed by the other end, each once, *)
(* in the order they were accepted in.  Rings, numbers, acknowledgements,  *)
(* packets and the network do not appear.                                  *)
(*                                                                         *)
(* The promise ends when more commands wait than can be kept: broken says  *)
(* so, and nothing is promised from then on.                               *)
(***************************************************************************)
EXTENDS Integers, Sequences

CONSTANT Commands

VARIABLES accepted, delivered, broken

Init == accepted = <<>> /\ delivered = <<>> /\ broken = FALSE

\* IReliableSequence::addCommand takes a command.
Accept(c) ==
    /\ broken' = broken
    /\ accepted' = Append(accepted, c)
    /\ UNCHANGED delivered

\* The other end executes the first command that it has not executed yet.
Deliver ==
    /\ broken' = broken
    /\ Len(delivered) < Len(accepted)
    /\ delivered' = Append(delivered, accepted[Len(delivered) + 1])
    /\ UNCHANGED accepted

\* Too many commands wait: whatever happens now and later is allowed.
Break == broken'

Next == (\E c \in Commands : Accept(c)) \/ Deliver \/ Break

Spec == Init /\ [][Next]_<<accepted, delivered, broken>>
=============================================================================
