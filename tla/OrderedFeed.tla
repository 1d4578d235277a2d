----------------------------- MODULE OrderedFeed -----------------------------
(***************************************************************************)
(* What an outbound queue of charlotte-client promises to its reader, with *)
(* nothing said of sockets, rings or callbacks.  Messages are numbered in  *)
(* the order the program offers them.  A message may be lost, but what is  *)
(* delivered is delivered once, in the order offered, and a message that   *)
(* was given up is never delivered later.                                  *)
(*                                                                         *)
(* CloudLink implements this specification.                                *)
(***************************************************************************)
EXTENDS Integers, Sequences

VARIABLES
  offered,  \* how many messages the program has offered so far
  pending,  \* the numbers of the messages accepted and not yet delivered
  last      \* the number of the last message delivered, 0 before the first

vars == <<offered, pending, last>>

\* What is left of the queue once its first n messages are gone.
After(n) == SubSeq(pending, n + 1, Len(pending))

Init ==
  /\ offered = 0
  /\ pending = <<>>
  /\ last = 0

\* A new message is offered: it joins the queue or it is refused.
Offer ==
  /\ offered' = offered + 1
  /\ pending' \in {pending, Append(pending, offered + 1)}
  /\ UNCHANGED last

\* The reader gets a message; any queued before it are lost.
Deliver ==
  \E n \in 1 .. Len(pending) :
    /\ last' = pending[n]
    /\ pending' = After(n)
    /\ UNCHANGED offered

\* The oldest messages of the queue, perhaps all of them, are lost.
Discard ==
  \E n \in 1 .. Len(pending) :
    /\ pending' = After(n)
    /\ UNCHANGED <<offered, last>>

Next == Offer \/ Deliver \/ Discard

Spec == Init /\ [][Next]_vars
-----------------------------------------------------------------------------
TypeOK ==
  /\ offered \in Nat
  /\ pending \in Seq(Nat)
  /\ last \in Nat

\* The queue is in the order offered, and everything in it is newer than
\* what was delivered: delivery can neither repeat nor step back.
InOrder ==
  /\ last <= offered
  /\ \A i \in 1 .. Len(pending) : last < pending[i] /\ pending[i] <= offered
  /\ \A i, j \in 1 .. Len(pending) : i < j => pending[i] < pending[j]

\* Each delivered message is newer than every one delivered before it.
OnlyNewer == [][last' # last => last' > last]_vars
=============================================================================
