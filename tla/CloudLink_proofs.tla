--------------------------- MODULE CloudLink_proofs ---------------------------
(***************************************************************************)
(* Proofs about the link to the cloud and what arrives on it.  CloudLink:  *)
(* its types, the retry timer, the ring and its connection, the writable   *)
(* callback, what a connection has written, and the refinement of          *)
(* OrderedFeed.  CloudInbound: the types, the string in receive_message,   *)
(* and that a torn frame spoils the next one at most.                      *)
(***************************************************************************)
EXTENDS CloudInbound, SequenceTheorems, TLAPS

-----------------------------------------------------------------------------
(***************************************************************************)
(* Types.                                                                  *)
(***************************************************************************)
\* The timer's variables keep their types whenever a retry is scheduled.
LEMMA ScheduleType ==
  ASSUME NEW n \in Nat, Conceals(n), Schedule(n)
  PROVE  sul' \in BOOLEAN /\ delay' \in 0 .. TableCount /\ retry_count' \in 0 .. ConcealCount
  BY LinkAssumption DEF Conceals, Schedule, BackoffEntry

LEMMA DoRetryType ==
  ASSUME TypeOK, DoRetry
  PROVE  sul' \in BOOLEAN /\ delay' \in 0 .. TableCount /\ retry_count' \in 0 .. ConcealCount
<1>1. retry_count \in Nat /\ 0 \in Nat /\ Conceals(0)
  BY LinkAssumption DEF TypeOK, Conceals
<1>2. CASE Conceals(retry_count)
  <2>1. Schedule(retry_count)
    BY <1>2 DEF DoRetry
  <2> QED BY <1>1, <1>2, <2>1, ScheduleType
<1>3. CASE ~Conceals(retry_count)
  <2>1. Schedule(0)
    BY <1>3 DEF DoRetry
  <2> QED BY <1>1, <2>1, ScheduleType
<1> QED BY <1>2, <1>3

\* The deferred consume never lengthens the ring.
LEMMA ConsumeType ==
  ASSUME TypeOK
  PROVE  DeferredConsume \in Seq(Nat) /\ Len(DeferredConsume) <= Capacity
<1>1. ring \in Seq(Nat) /\ Len(ring) <= Capacity /\ Capacity \in Int
  BY LinkAssumption DEF TypeOK, Capacity
<1>2. CASE write_consume_pending /\ ring # <<>>
  <2>1. Tail(ring) \in Seq(Nat) /\ Len(Tail(ring)) = Len(ring) - 1 /\ Len(ring) \in Nat
    BY <1>1, <1>2, HeadTailProperties
  <2> QED BY <1>1, <1>2, <2>1 DEF DeferredConsume
<1>3. CASE ~(write_consume_pending /\ ring # <<>>)
  BY <1>1, <1>3 DEF DeferredConsume
<1> QED BY <1>2, <1>3

LEMMA TypePreserved == TypeOK /\ [Next]_vars => TypeOK'
<1> SUFFICES ASSUME TypeOK, [Next]_vars PROVE TypeOK'
  OBVIOUS
<1>c. Capacity \in Nat /\ 0 \in Nat /\ <<>> \in Seq(Nat) /\ Len(<<>>) = 0
  BY LinkAssumption DEF Capacity
<1>1. CASE connect_client
  <2>1. CASE ConnectRefused
    <3>1. Conceals(0)
      BY LinkAssumption DEF Conceals
    <3>2. Schedule(0) /\ UNCHANGED <<wsi, ringVars, historyVars>>
      BY <2>1, <3>1 DEF ConnectRefused, ConnectFails
    <3>3. sul' \in BOOLEAN /\ delay' \in 0 .. TableCount /\ retry_count' \in 0 .. ConcealCount
      BY <3>1, <3>2, ScheduleType
    <3> QED BY <3>2, <3>3 DEF TypeOK, ringVars, historyVars, Capacity
  <2>2. CASE ConnectStarts
    BY <2>2 DEF ConnectStarts, TypeOK, ringVars, historyVars, Capacity
  <2> QED BY <1>1, <2>1, <2>2 DEF connect_client
<1>2. CASE ClientEstablished
  <2>1. ring' \in Seq(Nat) /\ Len(ring') <= Capacity /\ accepted' \in Seq(Nat) /\ sent' \in Seq(Nat)
    BY <1>2, <1>c DEF ClientEstablished
  <2> QED BY <1>2, <2>1 DEF ClientEstablished, TypeOK, timerVars, Capacity
<1>3. CASE ClientConnectionError
  <2>1. sul' \in BOOLEAN /\ delay' \in 0 .. TableCount /\ retry_count' \in 0 .. ConcealCount
    BY <1>3, DoRetryType DEF ClientConnectionError
  <2>2. ring' \in Seq(Nat) /\ Len(ring') <= Capacity /\ accepted' \in Seq(Nat) /\ sent' \in Seq(Nat)
    BY <1>3, <1>c DEF ClientConnectionError, DestroyRing
  <2> QED BY <1>3, <2>1, <2>2 DEF ClientConnectionError, DestroyRing, TypeOK, Capacity
<1>4. CASE PeerGone
  BY <1>4 DEF PeerGone, TypeOK, timerVars, ringVars, historyVars, Capacity
<1>5. CASE ClientClosed
  <2>1. sul' \in BOOLEAN /\ delay' \in 0 .. TableCount /\ retry_count' \in 0 .. ConcealCount
    BY <1>5, DoRetryType DEF ClientClosed
  <2>2. ring' \in Seq(Nat) /\ Len(ring') <= Capacity /\ accepted' \in Seq(Nat) /\ sent' \in Seq(Nat)
    BY <1>5, <1>c DEF ClientClosed, DestroyRing
  <2> QED BY <1>5, <2>1, <2>2 DEF ClientClosed, DestroyRing, TypeOK, Capacity
<1>6. CASE ws_write_cloud
  <2>1. offered' \in Nat /\ offered + 1 \in Nat
    BY <1>6 DEF ws_write_cloud, TypeOK
  <2>2. CASE Len(ring) < Capacity /\ Insert
    <3>1. /\ ring' \in Seq(Nat) /\ Len(ring') = Len(ring) + 1
          /\ accepted' \in Seq(Nat)
      BY <2>1, <2>2, AppendProperties DEF Insert, TypeOK
    <3>2. Len(ring) \in Nat
      BY LenProperties DEF TypeOK
    <3> QED BY <1>6, <2>1, <2>2, <3>1, <3>2, <1>c
            DEF ws_write_cloud, Insert, TypeOK, timerVars, Capacity
  <2>3. CASE UNCHANGED <<ring, accepted, writable>>
    BY <1>6, <2>1, <2>3 DEF ws_write_cloud, TypeOK, timerVars, Capacity
  <2> QED BY <1>6, <2>2, <2>3 DEF ws_write_cloud
<1>7. CASE ClientWriteable
  <2>1. DeferredConsume \in Seq(Nat) /\ Len(DeferredConsume) <= Capacity
    BY ConsumeType
  <2>2. CASE WriteableFindsNothing
    BY <2>1, <2>2 DEF WriteableFindsNothing, Writeable, TypeOK, timerVars, Capacity
  <2>3. CASE WriteableSends
    <3>1. Head(DeferredConsume) \in Nat
      BY <2>1, <2>3, HeadTailProperties DEF WriteableSends
    <3>2. sent' \in Seq(Nat)
      BY <2>3, <3>1, AppendProperties DEF WriteableSends, TypeOK
    <3> QED BY <2>1, <2>3, <3>1, <3>2
            DEF WriteableSends, Writeable, TypeOK, timerVars, Capacity
  <2>4. CASE WriteableFails
    BY <2>1, <2>4 DEF WriteableFails, Writeable, TypeOK, timerVars, Capacity
  <2> QED BY <1>7, <2>2, <2>3, <2>4 DEF ClientWriteable
<1>8. CASE UNCHANGED vars
  BY <1>8 DEF vars, timerVars, ringVars, historyVars, TypeOK, Capacity
<1> QED BY <1>1, <1>2, <1>3, <1>4, <1>5, <1>6, <1>7, <1>8 DEF Next

LEMMA StartsTyped == Init => TypeOK
<1> SUFFICES ASSUME Init PROVE TypeOK
  OBVIOUS
<1>1. Capacity \in Nat /\ <<>> \in Seq(Nat) /\ Len(<<>>) = 0
  BY LinkAssumption DEF Capacity
<1>2. ring \in Seq(Nat) /\ Len(ring) <= Capacity /\ accepted \in Seq(Nat) /\ sent \in Seq(Nat)
  BY <1>1 DEF Init
<1>3. delay \in 0 .. TableCount /\ retry_count \in 0 .. ConcealCount
  BY LinkAssumption DEF Init
<1> QED BY <1>2, <1>3 DEF Init, TypeOK

\* The variables have their types, and the ring never outgrows its slots.
THEOREM LinkTypes == Spec => []TypeOK
  BY StartsTyped, TypePreserved, PTL DEF Spec
-----------------------------------------------------------------------------
(***************************************************************************)
(* The retry timer and the connection.                                     *)
(***************************************************************************)
\* Scheduling a retry starts the timer, whatever the count.
LEMMA DoRetryStarts == DoRetry => sul' = TRUE
  BY DEF DoRetry, Schedule

LEMMA NailedUpPreserved == NailedUp /\ [Next]_vars => NailedUp'
<1> SUFFICES ASSUME NailedUp, [Next]_vars PROVE NailedUp'
  OBVIOUS
<1> USE DEF NailedUp
<1>1. CASE connect_client
  <2>1. CASE ConnectRefused
    <3>1. Conceals(0)
      BY LinkAssumption DEF Conceals
    <3> QED BY <2>1, <3>1 DEF ConnectRefused, ConnectFails, Schedule
  <2>2. CASE ConnectStarts
    BY <2>2 DEF ConnectStarts
  <2> QED BY <1>1, <2>1, <2>2 DEF connect_client
<1>2. CASE ClientEstablished
  BY <1>2 DEF ClientEstablished, timerVars
<1>3. CASE ClientConnectionError
  BY <1>3, DoRetryStarts DEF ClientConnectionError
<1>4. CASE PeerGone
  BY <1>4 DEF PeerGone, timerVars
<1>5. CASE ClientClosed
  BY <1>5, DoRetryStarts DEF ClientClosed
<1>6. CASE ws_write_cloud
  BY <1>6 DEF ws_write_cloud, timerVars
<1>7. CASE ClientWriteable
  BY <1>7 DEF ClientWriteable, WriteableFindsNothing, WriteableSends, WriteableFails,
              Writeable, timerVars
<1>8. CASE UNCHANGED vars
  BY <1>8 DEF vars, timerVars
<1> QED BY <1>1, <1>2, <1>3, <1>4, <1>5, <1>6, <1>7, <1>8 DEF Next

\* There is a retry scheduled exactly while there is neither a connection nor
\* an attempt at one: the link is kept "nailed up".
THEOREM LinkNailedUp == Spec => []NailedUp
<1>1. Init => NailedUp
  BY DEF Init, NailedUp
<1> QED BY <1>1, NailedUpPreserved, PTL DEF Spec

LEMMA RingPreserved ==
  NailedUp /\ RingHasConnection /\ [Next]_vars => RingHasConnection'
<1> SUFFICES ASSUME NailedUp, RingHasConnection, [Next]_vars PROVE RingHasConnection'
  OBVIOUS
<1> USE DEF RingHasConnection
<1>1. CASE connect_client
  BY <1>1 DEF NailedUp, connect_client, ConnectRefused, ConnectFails, ConnectStarts, ringVars
<1>2. CASE ClientEstablished
  BY <1>2 DEF ClientEstablished
<1>3. CASE ClientConnectionError
  BY <1>3 DEF ClientConnectionError, DestroyRing
<1>4. CASE PeerGone
  BY <1>4 DEF PeerGone, ringVars
<1>5. CASE ClientClosed
  BY <1>5 DEF ClientClosed, DestroyRing
<1>6. CASE ws_write_cloud
  BY <1>6 DEF ws_write_cloud
<1>7. CASE ClientWriteable
  BY <1>7 DEF ClientWriteable, WriteableFindsNothing, WriteableSends, WriteableFails,
              Writeable
<1>8. CASE UNCHANGED vars
  BY <1>8 DEF vars, ringVars
<1> QED BY <1>1, <1>2, <1>3, <1>4, <1>5, <1>6, <1>7, <1>8 DEF Next

\* A ring always belongs to a connection, and an open connection has one: what
\* ws_write_cloud and CLIENT_WRITEABLE rely on.
THEOREM LinkRingHasConnection == Spec => []RingHasConnection
<1>1. Init => RingHasConnection
  BY DEF Init, RingHasConnection
<1> QED BY <1>1, LinkNailedUp, RingPreserved, PTL DEF Spec

LEMMA WakeupPreserved == NoLostWakeup /\ [Next]_vars => NoLostWakeup'
<1> SUFFICES ASSUME NoLostWakeup, [Next]_vars PROVE NoLostWakeup'
  OBVIOUS
<1> USE DEF NoLostWakeup
<1>1. CASE connect_client
  BY <1>1 DEF connect_client, ConnectRefused, ConnectFails, ConnectStarts, ringVars
<1>2. CASE ClientEstablished
  BY <1>2 DEF ClientEstablished
<1>3. CASE ClientConnectionError
  BY <1>3 DEF ClientConnectionError
<1>4. CASE PeerGone
  BY <1>4 DEF PeerGone
<1>5. CASE ClientClosed
  BY <1>5 DEF ClientClosed
<1>6. CASE ws_write_cloud
  BY <1>6 DEF ws_write_cloud, Insert
<1>7. CASE ClientWriteable
  BY <1>7 DEF ClientWriteable, WriteableFindsNothing, WriteableSends, WriteableFails,
              Writeable
<1>8. CASE UNCHANGED vars
  BY <1>8 DEF vars, ringVars
<1> QED BY <1>1, <1>2, <1>3, <1>4, <1>5, <1>6, <1>7, <1>8 DEF Next

\* A message queued on an open connection has a writable callback coming.
THEOREM LinkNoLostWakeup == Spec => []NoLostWakeup
<1>1. Init => NoLostWakeup
  BY DEF Init, NoLostWakeup
<1> QED BY <1>1, WakeupPreserved, PTL DEF Spec
-----------------------------------------------------------------------------
(***************************************************************************)
(* What a connection has written.                                          *)
(***************************************************************************)
\* Appending to the queue is appending to what was written and queued.
LEMMA ConcatAppend ==
  ASSUME NEW s \in Seq(Nat), NEW t \in Seq(Nat), NEW m \in Nat
  PROVE  s \o Append(t, m) = Append(s \o t, m)
<1>1. <<m>> \in Seq(Nat) /\ s \o t \in Seq(Nat)
  BY ConcatProperties
<1>2. Append(t, m) = t \o <<m>> /\ Append(s \o t, m) = (s \o t) \o <<m>>
  BY <1>1, AppendIsConcat
<1> QED BY <1>1, <1>2, ConcatAssociative

\* A sequence is its head and its tail.
LEMMA HeadAndTail ==
  ASSUME NEW t \in Seq(Nat), t # <<>>
  PROVE  <<Head(t)>> \o Tail(t) = t
<1> DEFINE u == <<Head(t)>> \o Tail(t)
<1>1. /\ Head(t) \in Nat /\ Tail(t) \in Seq(Nat) /\ Len(Tail(t)) = Len(t) - 1
      /\ \A i \in 1 .. Len(Tail(t)) : Tail(t)[i] = t[i + 1]
  BY HeadTailProperties
<1>2. Len(t) \in Nat \ {0} /\ Head(t) = t[1]
  BY EmptySeq
<1>3. <<Head(t)>> \in Seq(Nat) /\ Len(<<Head(t)>>) = 1 /\ <<Head(t)>>[1] = Head(t)
  BY <1>1
<1>4. /\ u \in Seq(Nat) /\ Len(u) = 1 + Len(Tail(t))
      /\ \A i \in 1 .. 1 + Len(Tail(t)) :
           u[i] = IF i <= 1 THEN <<Head(t)>>[i] ELSE Tail(t)[i - 1]
  BY <1>1, <1>3, ConcatProperties
<1>5. \A i \in 1 .. Len(u) : u[i] = t[i]
  <2> SUFFICES ASSUME NEW i \in 1 .. Len(u) PROVE u[i] = t[i]
    OBVIOUS
  <2>1. CASE i = 1
    BY <2>1, <1>2, <1>3, <1>4
  <2>2. CASE i # 1
    <3>1. i - 1 \in 1 .. Len(Tail(t)) /\ u[i] = Tail(t)[i - 1]
      BY <2>2, <1>1, <1>2, <1>4
    <3> QED BY <3>1, <1>1
  <2> QED BY <2>1, <2>2
<1>6. Len(u) = Len(t)
  BY <1>1, <1>2, <1>4
<1> HIDE DEF u
<1>7. u = t
  BY <1>4, <1>5, <1>6, SeqEqual
<1> QED BY <1>7 DEF u

\* Writing the head of the queue moves it from what is queued to what was
\* written.
LEMMA MoveHead ==
  ASSUME NEW s \in Seq(Nat), NEW t \in Seq(Nat), t # <<>>
  PROVE  Append(s, Head(t)) \o Tail(t) = s \o t
<1>1. Head(t) \in Nat /\ Tail(t) \in Seq(Nat) /\ <<Head(t)>> \in Seq(Nat)
  BY HeadTailProperties
<1>2. Append(s, Head(t)) = s \o <<Head(t)>>
  BY <1>1, AppendIsConcat
<1>3. (s \o <<Head(t)>>) \o Tail(t) = s \o (<<Head(t)>> \o Tail(t))
  BY <1>1, ConcatAssociative
<1>4. <<Head(t)>> \o Tail(t) = t
  BY HeadAndTail
<1> QED BY <1>2, <1>3, <1>4

\* The consume deferred by the last write of the previous connection is due
\* while nothing was written on this one; once something was, a consume that
\* is due is that of the head of the ring.
StreamInv ==
  has_ring =>
    /\ write_consume_pending /\ sent = <<>> => ring = accepted
    /\ write_consume_pending /\ sent # <<>> => ring # <<>>
    /\ \/ sent \o Unwritten = accepted
       \/ accepted # <<>> /\ sent \o Unwritten = Tail(accepted)

\* What is queued, before and after the deferred consume.
LEMMA UnwrittenType ==
  ASSUME TypeOK
  PROVE  Unwritten \in Seq(Nat)
  BY HeadTailProperties DEF TypeOK, Unwritten, HeadWritten

\* Outside the leftover consume, a writable callback finds what is queued.
LEMMA ConsumeIsUnwritten ==
  ASSUME ~(write_consume_pending /\ sent = <<>>)
  PROVE  DeferredConsume = Unwritten
  BY DEF DeferredConsume, Unwritten, HeadWritten

\* A new message joins the end of what is queued.
LEMMA InsertQueues ==
  ASSUME TypeOK, StreamInv, has_ring, Insert,
         UNCHANGED <<write_consume_pending, sent>>
  PROVE  Unwritten' = Append(Unwritten, offered + 1)
<1>1. offered + 1 \in Nat /\ ring \in Seq(Nat) /\ ring' = Append(ring, offered + 1)
  BY DEF TypeOK, Insert
<1>2. ring' # <<>>
  BY <1>1, AppendProperties
<1>3. CASE write_consume_pending /\ sent # <<>>
  <2>1. ring # <<>>
    BY <1>3 DEF StreamInv
  <2>2. Tail(ring') = Append(Tail(ring), offered + 1)
    BY <1>1, <2>1, HeadTailAppend
  <2> QED BY <1>2, <1>3, <2>1, <2>2 DEF Unwritten, HeadWritten
<1>4. CASE ~(write_consume_pending /\ sent # <<>>)
  BY <1>1, <1>4 DEF Unwritten, HeadWritten
<1> QED BY <1>3, <1>4

\* The body of StreamInv, once the deferred consume was done.
LEMMA ConsumedStream ==
  ASSUME TypeOK, StreamInv, has_ring
  PROVE  \/ sent \o DeferredConsume = accepted
         \/ accepted # <<>> /\ sent \o DeferredConsume = Tail(accepted)
<1>1. CASE write_consume_pending /\ sent = <<>>
  <2>1. ring = accepted /\ accepted \in Seq(Nat)
    BY <1>1 DEF StreamInv, TypeOK
  <2>2. CASE ring = <<>>
    BY <1>1, <2>1, <2>2, ConcatEmptySeq DEF DeferredConsume
  <2>3. CASE ring # <<>>
    <3>1. DeferredConsume = Tail(accepted) /\ Tail(accepted) \in Seq(Nat)
      BY <1>1, <2>1, <2>3, HeadTailProperties DEF DeferredConsume
    <3> QED BY <1>1, <2>1, <2>3, <3>1, ConcatEmptySeq
  <2> QED BY <2>2, <2>3
<1>2. CASE ~(write_consume_pending /\ sent = <<>>)
  BY <1>2, ConsumeIsUnwritten DEF StreamInv
<1> QED BY <1>1, <1>2

LEMMA StreamPreserved ==
  TypeOK /\ RingHasConnection /\ StreamInv /\ [Next]_vars => StreamInv'
<1> SUFFICES ASSUME TypeOK, RingHasConnection, StreamInv, [Next]_vars,
                    has_ring'
             PROVE  /\ write_consume_pending' /\ sent' = <<>> => ring' = accepted'
                    /\ write_consume_pending' /\ sent' # <<>> => ring' # <<>>
                    /\ \/ sent' \o Unwritten' = accepted'
                       \/ accepted' # <<>> /\ sent' \o Unwritten' = Tail(accepted')
  BY DEF StreamInv
<1>0. CASE UNCHANGED <<ringVars, historyVars>>
  BY <1>0 DEF ringVars, historyVars, StreamInv, Unwritten, HeadWritten
<1>1. CASE connect_client
  BY <1>0, <1>1 DEF connect_client, ConnectRefused, ConnectFails, ConnectStarts
<1>2. CASE ClientEstablished
  <2>1. ring' = <<>> /\ accepted' = <<>> /\ sent' = <<>>
    BY <1>2 DEF ClientEstablished
  <2>2. Unwritten' = <<>>
    BY <2>1 DEF Unwritten, HeadWritten
  <2>3. <<>> \in Seq(Nat)
    OBVIOUS
  <2>4. sent' \o Unwritten' = accepted'
    BY <2>1, <2>2, <2>3, ConcatEmptySeq
  <2> QED BY <2>1, <2>4
<1>3. CASE ClientConnectionError
  BY <1>3 DEF ClientConnectionError, DestroyRing
<1>4. CASE PeerGone
  BY <1>0, <1>4 DEF PeerGone
<1>5. CASE ClientClosed
  BY <1>5 DEF ClientClosed, DestroyRing
<1>6. CASE ws_write_cloud
  <2>1. UNCHANGED <<has_ring, write_consume_pending, sent>> /\ has_ring
    BY <1>6 DEF ws_write_cloud
  <2>2. CASE UNCHANGED <<ring, accepted>>
    BY <2>1, <2>2 DEF StreamInv, Unwritten, HeadWritten
  <2>3. CASE Insert
    <3> DEFINE m == offered + 1
    <3>1. /\ m \in Nat /\ ring \in Seq(Nat) /\ accepted \in Seq(Nat) /\ sent \in Seq(Nat)
          /\ ring' = Append(ring, m) /\ accepted' = Append(accepted, m)
      BY <2>3 DEF TypeOK, Insert
    <3>2. ring' # <<>> /\ accepted' # <<>>
      BY <3>1, AppendProperties
    <3>3. Unwritten' = Append(Unwritten, m) /\ Unwritten \in Seq(Nat)
      BY <2>1, <2>3, InsertQueues, UnwrittenType
    <3>4. sent' \o Unwritten' = Append(sent \o Unwritten, m)
      BY <2>1, <3>1, <3>3, ConcatAppend
    <3>5. write_consume_pending' /\ sent' = <<>> => ring' = accepted'
      BY <2>1, <3>1 DEF StreamInv
    <3>6. CASE sent \o Unwritten = accepted
      BY <3>1, <3>2, <3>4, <3>5, <3>6
    <3>7. CASE accepted # <<>> /\ sent \o Unwritten = Tail(accepted)
      <4>1. Tail(accepted') = Append(Tail(accepted), m)
        BY <3>1, <3>7, HeadTailAppend
      <4> QED BY <3>2, <3>4, <3>5, <3>7, <4>1
    <3> QED BY <2>1, <3>6, <3>7 DEF StreamInv
  <2> QED BY <1>6, <2>2, <2>3 DEF ws_write_cloud
<1>7. CASE ClientWriteable
  <2> DEFINE d == DeferredConsume
  <2>1. has_ring /\ ring' = d /\ accepted' = accepted
    BY <1>7 DEF ClientWriteable, WriteableFindsNothing, WriteableSends, WriteableFails,
                Writeable, RingHasConnection
  <2>2. \/ sent \o d = accepted
        \/ accepted # <<>> /\ sent \o d = Tail(accepted)
    BY <2>1, ConsumedStream
  <2>3. d \in Seq(Nat) /\ sent \in Seq(Nat)
    BY ConsumeType DEF TypeOK
  <2>4. CASE WriteableSends
    <3>1. d # <<>> /\ sent' = Append(sent, Head(d)) /\ write_consume_pending'
      BY <2>4 DEF WriteableSends
    <3>2. Head(d) \in Nat
      BY <2>3, <3>1, HeadTailProperties
    <3>3. sent' # <<>>
      <4>1. sent \in Seq(Nat)
        BY <2>3
      <4>2. Append(sent, Head(d)) # <<>>
        BY <3>2, <4>1, AppendProperties
      <4> QED BY <3>1, <4>2
    <3>4. Unwritten' = Tail(d)
      BY <2>1, <3>1, <3>3 DEF Unwritten, HeadWritten
    <3>5. sent' \o Unwritten' = sent \o d
      BY <2>3, <3>1, <3>4, MoveHead
    <3> QED BY <2>1, <2>2, <3>1, <3>3, <3>5
  <2>5. CASE WriteableFindsNothing \/ WriteableFails
    <3>1. sent' = sent /\ ~write_consume_pending'
      BY <2>5 DEF WriteableFindsNothing, WriteableFails
    <3>2. Unwritten' = d
      BY <2>1, <3>1 DEF Unwritten, HeadWritten
    <3> QED BY <2>1, <2>2, <3>1, <3>2
  <2> QED BY <1>7, <2>4, <2>5 DEF ClientWriteable
<1>8. CASE UNCHANGED vars
  BY <1>0, <1>8 DEF vars
<1> QED BY <1>1, <1>2, <1>3, <1>4, <1>5, <1>6, <1>7, <1>8 DEF Next

LEMMA StreamInvariant == Spec => []StreamInv
<1>1. Init => StreamInv
  BY DEF Init, StreamInv
<1> QED BY <1>1, LinkTypes, LinkRingHasConnection, StreamPreserved, PTL DEF Spec

\* Whatever the order of callbacks, a connection has written or still holds
\* exactly what it accepted, in order, save at most its first message.
THEOREM LinkConnectionStream == Spec => []ConnectionStream
<1>1. StreamInv => ConnectionStream
  BY DEF StreamInv, ConnectionStream
<1> QED BY <1>1, StreamInvariant, PTL
-----------------------------------------------------------------------------
(***************************************************************************)
(* The refinement of OrderedFeed.                                          *)
(***************************************************************************)
\* Losing the first n messages of the queue is a step of the feed or a stutter.
LEMMA DropIsFeedStep ==
  ASSUME TypeOK, UNCHANGED <<offered, last>>,
         NEW n \in 0 .. Len(Unwritten),
         Unwritten' = SubSeq(Unwritten, n + 1, Len(Unwritten))
  PROVE  [Feed!Next]_(Feed!vars)
<1>1. Unwritten \in Seq(Nat) /\ Len(Unwritten) \in Nat
  BY UnwrittenType, LenProperties
<1>2. CASE n = 0
  <2>1. Unwritten' = Unwritten
    BY <1>1, <1>2, SubSeqFull
  <2> QED BY <2>1 DEF Feed!vars
<1>3. CASE n # 0
  BY <1>1, <1>3 DEF Feed!Next, Feed!Discard, Feed!After
<1> QED BY <1>2, <1>3

\* So is losing the whole queue.
LEMMA DropAllIsFeedStep ==
  ASSUME TypeOK, UNCHANGED <<offered, last>>, Unwritten' = <<>>
  PROVE  [Feed!Next]_(Feed!vars)
<1> DEFINE n == Len(Unwritten)
<1>1. Unwritten \in Seq(Nat) /\ n \in Nat
  BY UnwrittenType, LenProperties
<1>2. SubSeq(Unwritten, n + 1, n) = <<>>
  BY <1>1, SubSeqEmpty
<1> QED BY <1>1, <1>2, DropIsFeedStep

\* What a writable callback finds is what is queued, less the message that a
\* consume left over from the last connection takes.
LEMMA ConsumeDropsAtMostOne ==
  ASSUME TypeOK, RingHasConnection, StreamInv, wsi = "open"
  PROVE  \E n \in 0 .. Len(Unwritten) :
           DeferredConsume = SubSeq(Unwritten, n + 1, Len(Unwritten))
<1>1. Unwritten \in Seq(Nat) /\ Len(Unwritten) \in Nat
  BY UnwrittenType, LenProperties
<1>2. CASE DeferredConsume = Unwritten
  BY <1>1, <1>2, SubSeqFull
<1>3. CASE DeferredConsume # Unwritten
  <2>1. write_consume_pending /\ sent = <<>>
    BY <1>3, ConsumeIsUnwritten
  <2>2. Unwritten = ring /\ ring # <<>> /\ DeferredConsume = Tail(ring)
    BY <1>3, <2>1 DEF DeferredConsume, Unwritten, HeadWritten
  <2>3. DeferredConsume = SubSeq(Unwritten, 2, Len(Unwritten)) /\ Len(Unwritten) # 0
    BY <1>1, <2>2, TailIsSubSeq, EmptySeq
  <2> QED BY <1>1, <2>3
<1> QED BY <1>2, <1>3

LEMMA StepRefines ==
  TypeOK /\ RingHasConnection /\ StreamInv /\ [Next]_vars => [Feed!Next]_(Feed!vars)
<1> SUFFICES ASSUME TypeOK, RingHasConnection, StreamInv, [Next]_vars
             PROVE  [Feed!Next]_(Feed!vars)
  OBVIOUS
<1>0. CASE UNCHANGED <<ringVars, historyVars>>
  BY <1>0 DEF ringVars, historyVars, Feed!vars, Unwritten, HeadWritten
<1>1. CASE connect_client
  BY <1>0, <1>1 DEF connect_client, ConnectRefused, ConnectFails, ConnectStarts
<1>2. CASE ClientEstablished
  <2>1. Unwritten' = <<>> /\ UNCHANGED <<offered, last>>
    BY <1>2 DEF ClientEstablished, Unwritten, HeadWritten
  <2> QED BY <2>1, DropAllIsFeedStep
<1>3. CASE ClientConnectionError
  <2>1. Unwritten' = <<>> /\ UNCHANGED <<offered, last>>
    BY <1>3 DEF ClientConnectionError, DestroyRing, Unwritten, HeadWritten
  <2> QED BY <2>1, DropAllIsFeedStep
<1>4. CASE PeerGone
  BY <1>0, <1>4 DEF PeerGone
<1>5. CASE ClientClosed
  <2>1. Unwritten' = <<>> /\ UNCHANGED <<offered, last>>
    BY <1>5 DEF ClientClosed, DestroyRing, Unwritten, HeadWritten
  <2> QED BY <2>1, DropAllIsFeedStep
<1>6. CASE ws_write_cloud
  <2>1. offered' = offered + 1 /\ UNCHANGED <<write_consume_pending, sent, last>>
    BY <1>6 DEF ws_write_cloud
  <2>2. CASE has_ring /\ Insert
    <3>1. Unwritten' = Append(Unwritten, offered + 1)
      BY <2>1, <2>2, InsertQueues
    <3> QED BY <2>1, <3>1 DEF Feed!Next, Feed!Offer
  <2>3. CASE UNCHANGED <<ring, accepted, writable>>
    <3>1. Unwritten' = Unwritten
      BY <2>1, <2>3 DEF Unwritten, HeadWritten
    <3> QED BY <2>1, <3>1 DEF Feed!Next, Feed!Offer
  <2> QED BY <1>6, <2>2, <2>3 DEF ws_write_cloud
<1>7. CASE ClientWriteable
  <2> DEFINE d == DeferredConsume
  <2>1. wsi = "open" /\ ring' = d /\ UNCHANGED offered
    BY <1>7 DEF ClientWriteable, WriteableFindsNothing, WriteableSends, WriteableFails,
                Writeable
  <2>2. PICK n \in 0 .. Len(Unwritten) : d = SubSeq(Unwritten, n + 1, Len(Unwritten))
    BY <2>1, ConsumeDropsAtMostOne
  <2>3. d \in Seq(Nat) /\ sent \in Seq(Nat) /\ Unwritten \in Seq(Nat) /\ Len(Unwritten) \in Nat
    BY ConsumeType, UnwrittenType, LenProperties DEF TypeOK
  <2>4. CASE WriteableSends
    <3>1. d # <<>> /\ sent' = Append(sent, Head(d)) /\ last' = Head(d) /\ write_consume_pending'
      BY <2>4 DEF WriteableSends
    <3>2. Head(d) \in Nat
      BY <2>3, <3>1, HeadTailProperties
    <3>3. sent' # <<>>
      <4>1. sent \in Seq(Nat)
        BY <2>3
      <4>2. Append(sent, Head(d)) # <<>>
        BY <3>2, <4>1, AppendProperties
      <4> QED BY <3>1, <4>2
    <3>4. Unwritten' = Tail(d)
      BY <2>1, <3>1, <3>3 DEF Unwritten, HeadWritten
    <3>5. n + 1 \in 1 .. Len(Unwritten)
      BY <2>2, <2>3, <3>1, SubSeqEmpty
    <3>6. Head(d) = Unwritten[n + 1]
          /\ Tail(d) = SubSeq(Unwritten, n + 2, Len(Unwritten))
      BY <2>2, <2>3, <3>5, HeadTailOfSubSeq
    <3>7. Feed!Deliver
      BY <2>1, <3>1, <3>4, <3>5, <3>6 DEF Feed!Deliver, Feed!After
    <3> QED BY <3>7 DEF Feed!Next
  <2>5. CASE WriteableFindsNothing \/ WriteableFails
    <3>1. sent' = sent /\ ~write_consume_pending' /\ last' = last
      BY <2>5 DEF WriteableFindsNothing, WriteableFails
    <3>2. Unwritten' = d
      BY <2>1, <3>1 DEF Unwritten, HeadWritten
    <3> QED BY <2>1, <2>2, <3>1, <3>2, DropIsFeedStep
  <2> QED BY <1>7, <2>4, <2>5 DEF ClientWriteable
<1>8. CASE UNCHANGED vars
  BY <1>0, <1>8 DEF vars
<1> QED BY <1>1, <1>2, <1>3, <1>4, <1>5, <1>6, <1>7, <1>8 DEF Next

\* The link to the cloud implements the ordered feed: over all connections,
\* no message is written twice or after a newer one.
THEOREM LinkImplementsFeed == Spec => FeedSpec
<1>1. Init => Feed!Init
  BY DEF Init, Feed!Init, Unwritten, HeadWritten
<1>2. TypeOK /\ RingHasConnection /\ StreamInv /\ [Next]_vars => [Feed!Next]_(Feed!vars)
  BY StepRefines
<1> QED BY <1>1, <1>2, LinkTypes, LinkRingHasConnection, StreamInvariant, PTL
        DEF Spec, FeedSpec, Feed!Spec

\* The theorems about the feed, with what is queued and not written for it.
FeedFacts == INSTANCE OrderedFeed_proofs WITH pending <- Unwritten

LEMMA FeedFactsSpec == FeedSpec => FeedFacts!Spec
<1>1. Feed!Init => FeedFacts!Init
  BY DEF Feed!Init, FeedFacts!Init
<1>2. [Feed!Next]_(Feed!vars) => [FeedFacts!Next]_(FeedFacts!vars)
  BY DEF Feed!Next, FeedFacts!Next, Feed!Offer, FeedFacts!Offer, Feed!Deliver,
         FeedFacts!Deliver, Feed!Discard, FeedFacts!Discard, Feed!After, FeedFacts!After,
         Feed!vars, FeedFacts!vars
<1> QED BY <1>1, <1>2, PTL DEF FeedSpec, Feed!Spec, FeedFacts!Spec

\* Over all connections: what is queued and not written is in the order offered
\* (ws_write_cloud), and newer than the last message written.
THEOREM LinkInOrder == Spec => []Feed!InOrder
<1>1. FeedFacts!InOrder => Feed!InOrder
  BY DEF Feed!InOrder, FeedFacts!InOrder
<1> QED BY <1>1, LinkImplementsFeed, FeedFactsSpec, FeedFacts!FeedInOrder, PTL

\* Over all connections: each message the writable callback writes is newer than
\* every one written before.
THEOREM LinkOnlyNewer == Spec => Feed!OnlyNewer
<1>1. [last' # last => last' > last]_(FeedFacts!vars)
        => [last' # last => last' > last]_(Feed!vars)
  BY DEF Feed!vars, FeedFacts!vars
<1> QED BY <1>1, LinkImplementsFeed, FeedFactsSpec, FeedFacts!FeedOnlyNewer, PTL
        DEF Feed!OnlyNewer, FeedFacts!OnlyNewer
-----------------------------------------------------------------------------
(***************************************************************************)
(* Bytes of a frame.                                                       *)
(***************************************************************************)
\* The n bytes after the first g.
LEMMA BytesType ==
  ASSUME NEW id \in Nat, NEW g \in Nat, NEW n \in Nat
  PROVE  /\ Bytes(id, g + 1, g + n) \in Seq(Nat \X Nat)
         /\ Len(Bytes(id, g + 1, g + n)) = n
         /\ \A i \in 1 .. n : Bytes(id, g + 1, g + n)[i] = <<id, g + i>>
<1> DEFINE s == Bytes(id, g + 1, g + n)
<1>1. g + n - (g + 1) + 1 = n /\ \A i \in 1 .. n : g + 1 + i - 1 = g + i /\ g + i \in Nat
  OBVIOUS
<1>2. s \in [1 .. n -> Nat \X Nat] /\ \A i \in 1 .. n : s[i] = <<id, g + i>>
  BY <1>1 DEF Bytes
<1> HIDE DEF s
<1>3. s \in Seq(Nat \X Nat)
  BY <1>2, SeqDef
<1>4. Len(s) \in Nat /\ 1 .. Len(s) = 1 .. n
  BY <1>2, <1>3, LenProperties
<1>5. Len(s) = n
  BY <1>4
<1> QED BY <1>2, <1>3, <1>5 DEF s

LEMMA FirstBytes ==
  ASSUME NEW id \in Nat, NEW n \in Nat
  PROVE  /\ Bytes(id, 1, n) \in Seq(Nat \X Nat)
         /\ Len(Bytes(id, 1, n)) = n
         /\ \A i \in 1 .. n : Bytes(id, 1, n)[i] = <<id, i>>
<1>1. 0 + 1 = 1 /\ 0 + n = n /\ \A i \in 1 .. n : 0 + i = i
  OBVIOUS
<1> DEFINE s == Bytes(id, 0 + 1, 0 + n)
<1>2. /\ s \in Seq(Nat \X Nat) /\ Len(s) = n
      /\ \A i \in 1 .. n : s[i] = <<id, 0 + i>>
  BY BytesType
<1>3. s = Bytes(id, 1, n)
  BY <1>1
<1> HIDE DEF s
<1> QED BY <1>1, <1>2, <1>3

\* The first g bytes and the k after them are the first g + k.
LEMMA BytesJoin ==
  ASSUME NEW id \in Nat, NEW g \in Nat, NEW k \in Nat
  PROVE  Bytes(id, 1, g) \o Bytes(id, g + 1, g + k) = Bytes(id, 1, g + k)
<1> DEFINE s == Bytes(id, 1, g)
           t == Bytes(id, g + 1, g + k)
           u == Bytes(id, 1, g + k)
<1>1. /\ s \in Seq(Nat \X Nat) /\ Len(s) = g /\ \A i \in 1 .. g : s[i] = <<id, i>>
      /\ t \in Seq(Nat \X Nat) /\ Len(t) = k /\ \A i \in 1 .. k : t[i] = <<id, g + i>>
      /\ u \in Seq(Nat \X Nat) /\ Len(u) = g + k /\ \A i \in 1 .. g + k : u[i] = <<id, i>>
  <2>1. /\ s \in Seq(Nat \X Nat) /\ Len(s) = g /\ \A i \in 1 .. g : s[i] = <<id, i>>
    BY FirstBytes
  <2>2. /\ t \in Seq(Nat \X Nat) /\ Len(t) = k /\ \A i \in 1 .. k : t[i] = <<id, g + i>>
    BY BytesType
  <2>3. /\ u \in Seq(Nat \X Nat) /\ Len(u) = g + k
        /\ \A i \in 1 .. g + k : u[i] = <<id, i>>
    <3> DEFINE n == g + k
    <3>1. n \in Nat
      OBVIOUS
    <3> HIDE DEF n
    <3>2. /\ Bytes(id, 1, n) \in Seq(Nat \X Nat) /\ Len(Bytes(id, 1, n)) = n
          /\ \A i \in 1 .. n : Bytes(id, 1, n)[i] = <<id, i>>
      BY <3>1, FirstBytes
    <3> QED BY <3>2 DEF n
  <2> HIDE DEF s, t, u
  <2> QED BY <2>1, <2>2, <2>3
<1> HIDE DEF s, t, u
<1>2. /\ s \o t \in Seq(Nat \X Nat) /\ Len(s \o t) = g + k
      /\ \A i \in 1 .. g + k : (s \o t)[i] = IF i <= g THEN s[i] ELSE t[i - g]
  BY <1>1, ConcatProperties
<1>3. ASSUME NEW i \in 1 .. g + k PROVE (s \o t)[i] = u[i]
  <2>1. CASE i <= g
    <3>1. i \in 1 .. g
      BY <2>1
    <3> QED BY <2>1, <3>1, <1>1, <1>2
  <2>2. CASE ~(i <= g)
    <3>1. i - g \in 1 .. k /\ g + (i - g) = i
      BY <2>2
    <3> QED BY <3>1, <2>2, <1>1, <1>2
  <2> QED BY <2>1, <2>2
<1>4. s \o t = u
  BY <1>1, <1>2, <1>3, SeqEqual
<1> QED BY <1>4 DEF s, t, u

-----------------------------------------------------------------------------
(***************************************************************************)
(* The buffer: a string inside it, and nothing but Nuls behind.            *)
(***************************************************************************)
Buffers == [Places -> Nat \X Nat]

Holds(b, n) == n \in 0 .. BufferSize - 1 /\ \A i \in Places : b[i] = Nul <=> i > n

Padded(b) == \E n \in Nat : Holds(b, n)

LEMMA StrlenIs ==
  ASSUME NEW b, NEW n, Holds(b, n)
  PROVE  Strlen(b) = n
<1> DEFINE EndsAt(m) == /\ \A i \in 1 .. m : b[i] # Nul
                        /\ m = BufferSize \/ b[m + 1] = Nul
<1>1. n \in 0 .. BufferSize - 1 /\ BufferSize \in Nat /\ \A i \in 1 .. BufferSize : b[i] = Nul <=> i > n
  BY InboundAssumption DEF Holds, Places
<1>2. n \in 0 .. BufferSize /\ EndsAt(n)
  <2>1. \A i \in 1 .. n : i \in 1 .. BufferSize /\ ~(i > n)
    BY <1>1
  <2>2. n + 1 \in 1 .. BufferSize /\ n + 1 > n
    BY <1>1
  <2> QED BY <1>1, <2>1, <2>2
<1>3. ASSUME NEW m \in 0 .. BufferSize, EndsAt(m) PROVE m = n
  <2>1. CASE m < n
    <3>1. m + 1 \in 1 .. BufferSize /\ ~(m + 1 > n) /\ m # BufferSize
      BY <1>1, <2>1
    <3> QED BY <1>1, <1>3, <3>1
  <2>2. CASE m > n
    <3>1. n + 1 \in 1 .. m /\ n + 1 \in 1 .. BufferSize /\ n + 1 > n
      BY <1>1, <2>2
    <3> QED BY <1>1, <1>3, <3>1
  <2> QED BY <1>1, <2>1, <2>2
<1>4. Strlen(b) = CHOOSE m \in 0 .. BufferSize : EndsAt(m)
  BY Zenon DEF Strlen
<1> HIDE DEF EndsAt
<1> QED BY <1>2, <1>3, <1>4

LEMMA PaddedHolds ==
  ASSUME NEW b, Padded(b)
  PROVE  Holds(b, Strlen(b))
<1>1. PICK n \in Nat : Holds(b, n)
  BY DEF Padded
<1> QED BY <1>1, StrlenIs

LEMMA StringIs ==
  ASSUME NEW b \in Buffers, NEW n, Holds(b, n)
  PROVE  /\ String(b) \in Seq(Nat \X Nat) /\ Len(String(b)) = n
         /\ \A i \in 1 .. n : String(b)[i] = b[i]
<1>1. Strlen(b) = n
  BY StrlenIs
<1>2. n \in Nat /\ \A i \in 1 .. n : i \in Places
  BY InboundAssumption DEF Holds, Places
<1>3. String(b) = [i \in 1 .. n |-> b[i]]
  BY <1>1 DEF String
<1>4. String(b) \in [1 .. n -> Nat \X Nat]
  BY <1>2, <1>3 DEF Buffers
<1>5. String(b) \in Seq(Nat \X Nat)
  BY <1>2, <1>4, SeqDef
<1>6. Len(String(b)) = n
  BY <1>2, <1>3, <1>5, LenProperties
<1> QED BY <1>3, <1>5, <1>6

\* Nothing is in a buffer that was cleared.
LEMMA ClearedHolds == Cleared \in Buffers /\ Holds(Cleared, 0) /\ String(Cleared) = <<>>
<1>1. Cleared \in Buffers
  BY DEF Cleared, Buffers, Nul
<1>2. Holds(Cleared, 0)
  BY InboundAssumption DEF Cleared, Holds, Places
<1> QED BY <1>1, <1>2, StringIs, EmptySeq

\* The Nul of an append is stored among Nuls or beyond the buffer, wherever the
\* string ends; those that were there end it.
LEMMA AppendedIs ==
  ASSUME receive_message \in Buffers, NEW n, Holds(receive_message, n),
         NEW piece \in Seq(Nat \X Nat), \A i \in 1 .. Len(piece) : piece[i] # Nul,
         n + Len(piece) < BufferSize
  PROVE  /\ Appended(piece) \in Buffers /\ Holds(Appended(piece), n + Len(piece))
         /\ String(Appended(piece)) = String(receive_message) \o piece
<1> DEFINE k == Len(piece)
           b == [i \in Places |-> IF i - n \in 1 .. k THEN piece[i - n] ELSE receive_message[i]]
           m == n + k
           c == [i \in Places |-> IF i = m + k + 1 THEN Nul ELSE b[i]]
<1>0. Strlen(receive_message) = n /\ Len(piece) \in Nat /\ Len(piece) = k
  BY StrlenIs, LenProperties
<1>1. n \in Nat /\ k \in Nat /\ BufferSize \in Nat /\ m \in 0 .. BufferSize - 1
  BY <1>0, InboundAssumption DEF Holds
<1>2. \A i \in 1 .. k : piece[i] \in Nat \X Nat
  BY ElementOfSeq
<1> HIDE DEF k
<1>3. b \in Buffers
  BY <1>2 DEF Buffers
<1>4. Holds(b, m)
  <2> SUFFICES ASSUME NEW i \in Places PROVE b[i] = Nul <=> i > m
    BY <1>1 DEF Holds
  <2>1. i \in Nat /\ i >= 1
    BY DEF Places
  <2>2. CASE i - n \in 1 .. k
    <3>1. b[i] = piece[i - n] /\ ~(i > m)
      BY <1>1, <2>1, <2>2
    <3>2. piece[i - n] # Nul
      BY <2>2 DEF k
    <3> QED BY <3>1, <3>2
  <2>3. CASE ~(i - n \in 1 .. k)
    <3>1. b[i] = receive_message[i]
      BY <2>3
    <3>2. receive_message[i] = Nul <=> i > n
      BY DEF Holds
    <3>3. i > n <=> i > m
      BY <1>1, <2>1, <2>3
    <3> QED BY <3>1, <3>2, <3>3
  <2> QED BY <2>2, <2>3
<1>5. \A i \in Places : c[i] = b[i]
  <2> SUFFICES ASSUME NEW i \in Places, i = m + k + 1 PROVE b[i] = Nul
    OBVIOUS
  <2>1. i > m
    BY <1>1
  <2> QED BY <1>4, <2>1 DEF Holds
<1>6. Appended(piece) = c
  <2>1. Strlen(b) = m
    BY <1>4, StrlenIs
  <2> QED BY <1>0, <2>1, Zenon DEF Appended, k
<1>7. c = b
  BY <1>5
<1> DEFINE old == String(receive_message)
           new == String(b)
<1>8. new = old \o piece
  <2>1. /\ old \in Seq(Nat \X Nat) /\ Len(old) = n
        /\ \A i \in 1 .. n : old[i] = receive_message[i]
    BY StringIs
  <2>2. /\ new \in Seq(Nat \X Nat) /\ Len(new) = m
        /\ \A i \in 1 .. m : new[i] = b[i]
    BY <1>3, <1>4, StringIs
  <2> HIDE DEF old, new, b
  <2>3. /\ old \o piece \in Seq(Nat \X Nat) /\ Len(old \o piece) = m
        /\ \A i \in 1 .. m : (old \o piece)[i] = IF i <= n THEN old[i] ELSE piece[i - n]
    <3>1. /\ old \o piece \in Seq(Nat \X Nat) /\ Len(old \o piece) = Len(old) + Len(piece)
          /\ \A i \in 1 .. Len(old) + Len(piece) :
               (old \o piece)[i] = IF i <= Len(old) THEN old[i] ELSE piece[i - Len(old)]
      BY <2>1, ConcatProperties
    <3>2. Len(old) = n /\ Len(piece) = k
      BY <1>0, <2>1
    <3> QED BY <3>1, <3>2
  <2>4. ASSUME NEW i \in 1 .. m PROVE new[i] = (old \o piece)[i]
    <3>1. i \in Places
      BY <1>1 DEF Places
    <3>2. CASE i <= n
      <4>1. i \in 1 .. n /\ ~(i - n \in 1 .. k)
        BY <1>1, <3>2
      <4> QED BY <2>1, <2>2, <2>3, <3>1, <3>2, <4>1 DEF b
    <3>3. CASE ~(i <= n)
      <4>1. i - n \in 1 .. k
        BY <1>1, <3>3
      <4> QED BY <2>2, <2>3, <3>1, <3>3, <4>1 DEF b
    <3> QED BY <3>2, <3>3
  <2> QED BY <2>2, <2>3, <2>4, SeqEqual
<1> HIDE DEF b, c
<1> QED BY <1>3, <1>4, <1>6, <1>7, <1>8 DEF k

\* A piece is collected or dropped; the string stays inside the buffer.
LEMMA CollectIs ==
  ASSUME receive_message \in Buffers, Padded(receive_message),
         NEW piece \in Seq(Nat \X Nat), \A i \in 1 .. Len(piece) : piece[i] # Nul
  PROVE  /\ Collect(piece) \in Buffers /\ Padded(Collect(piece))
         /\ Len(String(receive_message)) + Len(piece) < BufferSize =>
              String(Collect(piece)) = String(receive_message) \o piece
<1> DEFINE n == Strlen(receive_message)
           b == Appended(piece)
<1>1. Holds(receive_message, n) /\ Len(String(receive_message)) = n
  BY PaddedHolds, StringIs
<1>2. n \in Nat /\ Len(piece) \in Nat /\ BufferSize \in Nat
  BY <1>1, LenProperties, InboundAssumption DEF Holds
<1>3. Collect(piece) = IF n + Len(piece) + 1 > BufferSize THEN receive_message ELSE b
  BY Zenon DEF Collect
<1>4. n + Len(piece) < BufferSize =>
        b \in Buffers /\ Holds(b, n + Len(piece)) /\ String(b) = String(receive_message) \o piece
  BY <1>1, AppendedIs
<1>5. n + Len(piece) < BufferSize => Padded(b)
  BY <1>2, <1>4 DEF Padded
<1> HIDE DEF n, b
<1>6. CASE n + Len(piece) + 1 > BufferSize
  BY <1>1, <1>2, <1>3, <1>6
<1>7. CASE ~(n + Len(piece) + 1 > BufferSize)
  BY <1>1, <1>2, <1>3, <1>4, <1>5, <1>7
<1> QED BY <1>6, <1>7

\* What a padded buffer gives to process_inbound_message.
LEMMA PaddedString ==
  ASSUME NEW b \in Buffers, Padded(b)
  PROVE  /\ Strlen(b) < BufferSize
         /\ String(b) \in Seq(Nat \X Nat) /\ Len(String(b)) < BufferSize
<1>1. Holds(b, Strlen(b))
  BY PaddedHolds
<1>2. Strlen(b) < BufferSize
  BY <1>1, InboundAssumption DEF Holds
<1> QED BY <1>1, <1>2, StringIs

-----------------------------------------------------------------------------
(***************************************************************************)
(* One callback: the next k bytes of a frame.                              *)
(***************************************************************************)
Frames == [id : Nat, length : Nat, got : Nat]

\* What ClientReceive hands to Receive: the frame that begins or goes on.
LEMMA ReceivesOf ==
  ASSUME InboundTypeOK, ClientReceive
  PROVE  \E f \in Frames, k \in Nat \ {0} :
           /\ f.got + k <= f.length
           /\ Receive(f, k)
           /\ IF BetweenFrames THEN f.got = 0 ELSE f = frame
<1>0. frame \in Frames /\ frame.got <= frame.length
  BY DEF InboundTypeOK, Frames
<1>1. PICK k \in 1 .. RxSize :
        \/ /\ BetweenFrames
           /\ frame.id < MaxFrames
           /\ \E n \in k .. MaxLength :
                Receive([id |-> frame.id + 1, length |-> n, got |-> 0], k)
        \/ k <= frame.length - frame.got /\ Receive(frame, k)
  BY DEF ClientReceive
<1>2. k \in Nat \ {0}
  BY InboundAssumption
<1>3. CASE BetweenFrames /\ \E n \in k .. MaxLength :
                Receive([id |-> frame.id + 1, length |-> n, got |-> 0], k)
  <2>1. PICK n \in k .. MaxLength : Receive([id |-> frame.id + 1, length |-> n, got |-> 0], k)
    BY <1>3
  <2> DEFINE f == [id |-> frame.id + 1, length |-> n, got |-> 0]
  <2>2. f \in Frames /\ f.got = 0 /\ f.got + k <= f.length
    BY <1>0, <1>2, InboundAssumption DEF Frames
  <2>3. Receive(f, k)
    BY <2>1
  <2> HIDE DEF f
  <2> QED BY <1>2, <1>3, <2>2, <2>3
<1>4. CASE k <= frame.length - frame.got /\ Receive(frame, k)
  <2>1. frame.got + k <= frame.length /\ ~BetweenFrames
    BY <1>0, <1>2, <1>4 DEF Frames, BetweenFrames
  <2> QED BY <1>0, <1>2, <1>4, <2>1
<1> QED BY <1>1, <1>3, <1>4

\* The bytes of one callback, none of them a Nul.
LEMMA PieceIs ==
  ASSUME NEW f \in Frames, NEW k \in Nat
  PROVE  LET piece == Bytes(f.id, f.got + 1, f.got + k) IN
         /\ piece \in Seq(Nat \X Nat) /\ Len(piece) = k
         /\ \A i \in 1 .. Len(piece) : piece[i] # Nul
<1> DEFINE id == f.id
           g == f.got
           piece == Bytes(id, g + 1, g + k)
<1>1. id \in Nat /\ g \in Nat
  BY DEF Frames
<1> HIDE DEF id, g
<1>2. piece \in Seq(Nat \X Nat) /\ Len(piece) = k /\ \A i \in 1 .. k : piece[i] = <<id, g + i>>
  BY <1>1, BytesType
<1>3. \A i \in 1 .. k : <<id, g + i>> # Nul
  BY <1>1 DEF Nul
<1>4. \A i \in 1 .. k : piece[i] # Nul
  BY <1>2, <1>3
<1> HIDE DEF piece
<1>5. /\ piece \in Seq(Nat \X Nat) /\ Len(piece) = k
      /\ \A i \in 1 .. Len(piece) : piece[i] # Nul
  BY <1>2, <1>4
<1> QED BY <1>5 DEF piece, id, g

\* The types, and nothing but Nuls behind the string: inductive together.
InboundInv == InboundTypeOK /\ Padded(receive_message)

\* One callback keeps the types of the buffer, the frame and the histories.
LEMMA ReceiveType ==
  ASSUME InboundInv, NEW f \in Frames, NEW k \in Nat \ {0}, f.got + k <= f.length,
         Receive(f, k)
  PROVE  /\ receive_message' \in Buffers /\ Padded(receive_message')
         /\ handed' \in Seq(Nat \X Nat) /\ Len(handed') < BufferSize
         /\ frame' \in Frames /\ frame'.got <= frame'.length
         /\ completed' \in Nat
<1> DEFINE piece   == Bytes(f.id, f.got + 1, f.got + k)
           message == Collect(piece)
<1>1. message \in Buffers /\ Padded(message)
  <2>1. piece \in Seq(Nat \X Nat) /\ \A i \in 1 .. Len(piece) : piece[i] # Nul
    BY PieceIs
  <2>2. receive_message \in Buffers /\ Padded(receive_message)
    BY DEF InboundInv, InboundTypeOK, Buffers
  <2> HIDE DEF piece
  <2> QED BY <2>1, <2>2, CollectIs
<1>2. frame' \in Frames /\ frame'.got <= frame'.length
  BY DEF Receive, Frames
<1>3. Cleared \in Buffers /\ Padded(Cleared)
  BY ClearedHolds DEF Padded
<1>4. handed \in Seq(Nat \X Nat) /\ Len(handed) < BufferSize /\ completed \in Nat
  BY DEF InboundInv, InboundTypeOK
<1>5. CASE f.got + k = f.length
  <2>1. handed' = String(message) /\ receive_message' = Cleared /\ completed' = completed + 1
    BY <1>5 DEF Receive
  <2> HIDE DEF message
  <2> QED BY <1>1, <1>2, <1>3, <1>4, <2>1, PaddedString
<1>6. CASE f.got + k # f.length
  <2>1. receive_message' = message /\ UNCHANGED <<handed, completed>>
    BY <1>6 DEF Receive
  <2> HIDE DEF message
  <2> QED BY <1>1, <1>2, <1>4, <2>1
<1> QED BY <1>5, <1>6

LEMMA LinkSteps == [InboundNext]_allVars => [Next]_vars
  BY DEF InboundNext, allVars, ClientReceive, EstablishInbound, OtherLinkStep, Next

\* With the frames of the cloud the connection is what it is without them, so
\* that what is proved of CloudLink holds of the two together.
THEOREM InboundKeepsLink == InboundSpec => Spec
<1>1. InboundInit => Init
  BY DEF InboundInit
<1> QED BY <1>1, LinkSteps, PTL DEF InboundSpec, Spec

LEMMA InboundStarts == InboundInit => InboundInv
<1> SUFFICES ASSUME InboundInit PROVE InboundInv
  OBVIOUS
<1>1. TypeOK
  BY StartsTyped DEF InboundInit
<1>2. receive_message \in Buffers /\ Padded(receive_message)
  BY ClearedHolds DEF InboundInit, Padded
<1>3. Strlen(receive_message) < BufferSize
  BY <1>2, PaddedString
<1> QED BY <1>1, <1>2, <1>3, InboundAssumption
        DEF InboundInit, InboundInv, InboundTypeOK, Buffers

LEMMA InboundPreserved == InboundInv /\ [InboundNext]_allVars => InboundInv'
<1> SUFFICES ASSUME InboundInv, [InboundNext]_allVars PROVE InboundInv'
  OBVIOUS
<1>1. TypeOK'
  BY LinkSteps, TypePreserved DEF InboundInv, InboundTypeOK
<1>2. ASSUME receive_message' \in Buffers, Padded(receive_message'),
             handed' \in Seq(Nat \X Nat), Len(handed') < BufferSize,
             frame' \in Frames, frame'.got <= frame'.length, completed' \in Nat
      PROVE  InboundInv'
  <2>1. Strlen(receive_message') < BufferSize
    BY <1>2, PaddedString
  <2>2. Strlen(receive_message)' = Strlen(receive_message') /\ Padded(receive_message)' = Padded(receive_message')
    BY DEF Strlen, Padded, Holds
  <2> QED BY <1>1, <1>2, <2>1, <2>2 DEF InboundInv, InboundTypeOK, Buffers, Frames
<1>3. /\ receive_message \in Buffers /\ Padded(receive_message)
      /\ handed \in Seq(Nat \X Nat) /\ Len(handed) < BufferSize
      /\ frame \in Frames /\ frame.got <= frame.length /\ completed \in Nat
  BY DEF InboundInv, InboundTypeOK, Buffers, Frames
<1>4. CASE ClientReceive
  <2>1. PICK f \in Frames, k \in Nat \ {0} : f.got + k <= f.length /\ Receive(f, k)
    BY <1>4, ReceivesOf DEF InboundInv
  <2> QED BY <1>2, <2>1, ReceiveType
<1>5. CASE EstablishInbound
  <2>1. frame' = [frame EXCEPT !.length = 0, !.got = 0]
    BY <1>5 DEF EstablishInbound
  <2>2. frame' \in Frames /\ frame'.got = 0 /\ frame'.length = 0
    BY <1>3, <2>1 DEF Frames
  <2>3. completed' = 0 /\ UNCHANGED <<receive_message, handed>>
    BY <1>5 DEF EstablishInbound
  <2> QED BY <1>2, <1>3, <2>2, <2>3
<1>6. CASE UNCHANGED inboundVars
  BY <1>2, <1>3, <1>6 DEF inboundVars
<1> QED BY <1>4, <1>5, <1>6 DEF InboundNext, OtherLinkStep, allVars

\* Behind the string in receive_message are Nuls only, so that an append is
\* ended although its own Nul is stored elsewhere.
THEOREM InboundInvariant == InboundSpec => []InboundInv
  BY InboundStarts, InboundPreserved, PTL DEF InboundSpec

\* The types of the variables; the string always ends inside the buffer.
THEOREM InboundTypes == InboundSpec => []InboundTypeOK
<1>1. InboundInv => InboundTypeOK
  BY DEF InboundInv
<1> QED BY <1>1, InboundInvariant, PTL

-----------------------------------------------------------------------------
(***************************************************************************)
(* From the second frame of a connection on.                               *)
(***************************************************************************)
\* Once a frame ended on this connection the buffer is empty between frames,
\* and in a frame that fits it holds what came of it and nothing else.
Gathered ==
  completed >= 1 =>
    IF BetweenFrames THEN String(receive_message) = <<>>
    ELSE Fits => String(receive_message) = Bytes(frame.id, 1, frame.got)

LEMMA NoBytes == ASSUME NEW id \in Nat PROVE Bytes(id, 1, 0) = <<>>
<1>1. Bytes(id, 1, 0) \in Seq(Nat \X Nat) /\ Len(Bytes(id, 1, 0)) = 0
  BY FirstBytes
<1> QED BY <1>1, EmptySeq

LEMMA ReceiveGathers ==
  ASSUME InboundInv, NEW f \in Frames, NEW k \in Nat \ {0}, f.got + k <= f.length,
         Receive(f, k),
         completed >= 1 /\ f.length < BufferSize =>
           String(receive_message) = Bytes(f.id, 1, f.got)
  PROVE  Gathered' /\ OnlyFirstFrameTorn'
<1> DEFINE piece   == Bytes(f.id, f.got + 1, f.got + k)
           message == Collect(piece)
<1>0. /\ f.id \in Nat /\ f.length \in Nat /\ f.got \in Nat /\ BufferSize \in Nat
      /\ completed \in Nat /\ k \in Nat
  BY InboundAssumption DEF Frames, InboundInv, InboundTypeOK
<1>1. frame'.id = f.id /\ frame'.length = f.length /\ frame'.got = f.got + k
  BY DEF Receive, Frames
<1>2. ASSUME completed >= 1, f.length < BufferSize
      PROVE  String(message) = Bytes(f.id, 1, f.got + k)
  <2>1. String(receive_message) = Bytes(f.id, 1, f.got) /\ Len(Bytes(f.id, 1, f.got)) = f.got
    BY <1>0, <1>2, FirstBytes
  <2>2. /\ piece \in Seq(Nat \X Nat) /\ Len(piece) = k
        /\ \A i \in 1 .. Len(piece) : piece[i] # Nul
    BY <1>0, PieceIs
  <2>3. receive_message \in Buffers /\ Padded(receive_message)
    BY DEF InboundInv, InboundTypeOK, Buffers
  <2>4. Bytes(f.id, 1, f.got) \o piece = Bytes(f.id, 1, f.got + k)
    <3> DEFINE g == f.got
               id == f.id
    <3>1. id \in Nat /\ g \in Nat /\ k \in Nat
      BY <1>0
    <3> HIDE DEF g, id
    <3>2. Bytes(id, 1, g) \o Bytes(id, g + 1, g + k) = Bytes(id, 1, g + k)
      BY <3>1, BytesJoin
    <3> QED BY <3>2 DEF g, id
  <2> HIDE DEF piece
  <2>5. Len(String(receive_message)) + Len(piece) < BufferSize
    BY <1>0, <1>2, <2>1, <2>2
  <2> QED BY <2>1, <2>2, <2>3, <2>4, <2>5, CollectIs
<1>3. CASE f.got + k = f.length
  <2>1. handed' = String(message) /\ receive_message' = Cleared /\ completed' = completed + 1
    BY <1>3 DEF Receive
  <2>2. BetweenFrames'
    BY <1>1, <1>3 DEF BetweenFrames
  <2> HIDE DEF message
  <2>3. String(receive_message') = <<>>
    BY <2>1, ClearedHolds
  <2>4. Gathered'
    BY <2>2, <2>3 DEF Gathered, String, Strlen
  <2>5. OnlyFirstFrameTorn'
    BY <1>0, <1>1, <1>2, <1>3, <2>1 DEF OnlyFirstFrameTorn, Fits
  <2> QED BY <2>4, <2>5
<1>4. CASE f.got + k # f.length
  <2>1. receive_message' = message /\ completed' = completed
    BY <1>4 DEF Receive
  <2>2. ~BetweenFrames'
    BY <1>1, <1>4 DEF BetweenFrames
  <2> HIDE DEF message
  <2>3. completed >= 1 /\ f.length < BufferSize =>
          String(receive_message') = Bytes(f.id, 1, f.got + k)
    BY <1>2, <2>1
  <2>4. Gathered'
    BY <1>1, <2>1, <2>2, <2>3 DEF Gathered, Fits, String, Strlen
  <2> QED BY <2>2, <2>4 DEF OnlyFirstFrameTorn
<1> QED BY <1>3, <1>4

LEMMA GatheredPreserved ==
  InboundInv /\ Gathered /\ OnlyFirstFrameTorn /\ [InboundNext]_allVars
    => Gathered' /\ OnlyFirstFrameTorn'
<1> SUFFICES ASSUME InboundInv, Gathered, OnlyFirstFrameTorn, [InboundNext]_allVars
             PROVE  Gathered' /\ OnlyFirstFrameTorn'
  OBVIOUS
<1>1. CASE ClientReceive
  <2>1. PICK f \in Frames, k \in Nat \ {0} :
          /\ f.got + k <= f.length
          /\ Receive(f, k)
          /\ IF BetweenFrames THEN f.got = 0 ELSE f = frame
    BY <1>1, ReceivesOf DEF InboundInv
  <2>2. ASSUME completed >= 1, f.length < BufferSize
        PROVE  String(receive_message) = Bytes(f.id, 1, f.got)
    <3>1. CASE BetweenFrames
      BY <2>1, <2>2, <3>1, NoBytes DEF Gathered, Frames
    <3>2. CASE ~BetweenFrames
      BY <2>1, <2>2, <3>2 DEF Gathered, Fits
    <3> QED BY <3>1, <3>2
  <2> QED BY <2>1, <2>2, ReceiveGathers
<1>2. CASE EstablishInbound
  BY <1>2 DEF EstablishInbound, Gathered, OnlyFirstFrameTorn
<1>3. CASE UNCHANGED inboundVars
  <2>1. Gathered'
    BY <1>3 DEF inboundVars, Gathered, BetweenFrames, Fits, String, Strlen
  <2>2. OnlyFirstFrameTorn'
    BY <1>3 DEF inboundVars, OnlyFirstFrameTorn, BetweenFrames, Fits
  <2> QED BY <2>1, <2>2
<1> QED BY <1>1, <1>2, <1>3 DEF InboundNext, OtherLinkStep, allVars

\* Whatever the sizes of the buffer, the pieces and the frames: from the second
\* frame of a connection on, each that fits is handed over whole and alone.
THEOREM InboundOnlyFirstTorn == InboundSpec => []OnlyFirstFrameTorn
<1>1. InboundInit => Gathered /\ OnlyFirstFrameTorn
  BY DEF InboundInit, Gathered, OnlyFirstFrameTorn
<1> QED BY <1>1, InboundInvariant, GatheredPreserved, PTL DEF InboundSpec
=============================================================================
