-------------------------- MODULE OrderedFeed_proofs --------------------------
(***************************************************************************)
(* Proofs about OrderedFeed: the queue is always in the order offered, and *)
(* nothing is delivered twice or after something newer.                    *)
(***************************************************************************)
EXTENDS OrderedFeed, TLAPS

\* The types of the abstract queue.
THEOREM FeedTypes == Spec => []TypeOK
<1>1. Init => TypeOK
  BY DEF Init, TypeOK
<1>2. TypeOK /\ [Next]_vars => TypeOK'
  <2> SUFFICES ASSUME TypeOK, [Next]_vars PROVE TypeOK'
    OBVIOUS
  <2> USE DEF TypeOK
  <2>1. CASE Offer
    BY <2>1 DEF Offer
  <2>2. CASE Deliver
    BY <2>2 DEF Deliver, After
  <2>3. CASE Discard
    BY <2>3 DEF Discard, After
  <2>4. CASE UNCHANGED vars
    BY <2>4 DEF vars
  <2> QED BY <2>1, <2>2, <2>3, <2>4 DEF Next
<1> QED BY <1>1, <1>2, PTL DEF Spec

\* What is left after the first n messages keeps its order.
LEMMA AfterProperties ==
  ASSUME TypeOK, NEW n \in 1 .. Len(pending)
  PROVE  /\ Len(After(n)) = Len(pending) - n
         /\ \A i \in 1 .. Len(After(n)) : After(n)[i] = pending[n + i]
  BY DEF TypeOK, After

\* The step of the induction: no step of the queue breaks its order.
LEMMA OrderPreserved == TypeOK /\ InOrder /\ [Next]_vars => InOrder'
<1> SUFFICES ASSUME TypeOK, InOrder, [Next]_vars PROVE InOrder'
  OBVIOUS
<1> USE DEF TypeOK, InOrder
<1>1. CASE Offer
  <2>1. CASE pending' = pending
    BY <1>1, <2>1 DEF Offer
  <2>2. CASE pending' = Append(pending, offered + 1)
    BY <1>1, <2>2 DEF Offer
  <2> QED BY <1>1, <2>1, <2>2 DEF Offer
<1>2. CASE Deliver
  <2>1. PICK n \in 1 .. Len(pending) :
          last' = pending[n] /\ pending' = After(n) /\ UNCHANGED offered
    BY <1>2 DEF Deliver
  <2>2. /\ Len(pending') = Len(pending) - n
        /\ \A i \in 1 .. Len(pending') : pending'[i] = pending[n + i]
    BY <2>1, AfterProperties
  <2>3. \A i \in 1 .. Len(pending') : n + i \in 1 .. Len(pending) /\ n < n + i
    BY <2>2
  <2>4. \A i \in 1 .. Len(pending') : last' < pending'[i] /\ pending'[i] <= offered'
    BY <2>1, <2>2, <2>3
  <2>5. \A i, j \in 1 .. Len(pending') : i < j => pending'[i] < pending'[j]
    <3> SUFFICES ASSUME NEW i \in 1 .. Len(pending'), NEW j \in 1 .. Len(pending'), i < j
                 PROVE  pending'[i] < pending'[j]
      OBVIOUS
    <3>1. n + i < n + j
      OBVIOUS
    <3> QED BY <2>2, <2>3, <3>1
  <2>6. last' <= offered'
    BY <2>1
  <2> QED BY <2>4, <2>5, <2>6
<1>3. CASE Discard
  <2>1. PICK n \in 1 .. Len(pending) :
          pending' = After(n) /\ UNCHANGED <<offered, last>>
    BY <1>3 DEF Discard
  <2>2. /\ Len(pending') = Len(pending) - n
        /\ \A i \in 1 .. Len(pending') : pending'[i] = pending[n + i]
    BY <2>1, AfterProperties
  <2>3. \A i \in 1 .. Len(pending') : n + i \in 1 .. Len(pending)
    BY <2>2
  <2>4. \A i \in 1 .. Len(pending') : last' < pending'[i] /\ pending'[i] <= offered'
    BY <2>1, <2>2, <2>3
  <2>5. \A i, j \in 1 .. Len(pending') : i < j => pending'[i] < pending'[j]
    <3> SUFFICES ASSUME NEW i \in 1 .. Len(pending'), NEW j \in 1 .. Len(pending'), i < j
                 PROVE  pending'[i] < pending'[j]
      OBVIOUS
    <3>1. n + i < n + j
      OBVIOUS
    <3> QED BY <2>2, <2>3, <3>1
  <2>6. last' <= offered'
    BY <2>1
  <2> QED BY <2>4, <2>5, <2>6
<1>4. CASE UNCHANGED vars
  BY <1>4 DEF vars
<1> QED BY <1>1, <1>2, <1>3, <1>4 DEF Next

\* The queue is in the order offered and newer than what was delivered.
THEOREM FeedInOrder == Spec => []InOrder
<1>1. Init => InOrder
  BY DEF Init, InOrder
<1> QED BY <1>1, FeedTypes, OrderPreserved, PTL DEF Spec

\* A delivered message is newer than every one delivered before it.
THEOREM FeedOnlyNewer == Spec => OnlyNewer
<1>1. TypeOK /\ InOrder /\ [Next]_vars => [last' # last => last' > last]_vars
  BY DEF TypeOK, InOrder, Next, Offer, Deliver, Discard, vars
<1> QED BY <1>1, FeedTypes, FeedInOrder, PTL DEF Spec, OnlyNewer
===============================================================================
