------------------------------ MODULE CloudLink ------------------------------
(***************************************************************************)
(* The websocket from the boat to the cloud: struct my_conn and the client *)
(* half of callback_minimal in ws.c, connect_client, and ws_write_cloud.   *)
(*                                                                         *)
(* The program is one libuv loop, so each callback is one action.  What    *)
(* interleaves is the order of the callbacks: the retry timer, the outcome *)
(* of a connection attempt, the peer going away, the socket becoming       *)
(* writable, and the calls of ws_write_cloud by the readers of stdin and   *)
(* of the local clients.                                                   *)
(*                                                                         *)
(* A message is its number, in the order of the calls of ws_write_cloud.   *)
(***************************************************************************)
EXTENDS Integers, Sequences

CONSTANTS
  RingDepth,     \* RING_DEPTH: the slots of a ring, one of which stays free
  TableCount,    \* the entries of backoff_ms
  ConcealCount,  \* retry.conceal_count
  MaxMessages    \* bound: the calls of ws_write_cloud that are considered

ASSUME LinkAssumption ==
  /\ RingDepth \in Nat \ {0}
  /\ TableCount \in Nat \ {0}
  /\ ConcealCount \in Nat \ {0}
  /\ MaxMessages \in Nat

VARIABLES
  wsi,          \* the client connection as libwebsockets sees it
  sul,          \* TRUE while mco.sul is scheduled to run connect_client
  delay,        \* which entry of backoff_ms it was scheduled with; 0: at once
  retry_count,  \* mco.retry_count
  has_ring,     \* mco.ring # NULL
  ring,         \* its elements from mco.tail on, oldest first
  write_consume_pending, \* mco.write_consume_pending
  writable,     \* lws_callback_on_writable was asked for and not yet answered
  offered,      \* history: the calls of ws_write_cloud so far
  accepted,     \* history: the messages put in the ring of this connection
  sent,         \* history: the messages lws_write took on this connection
  last          \* history: the last message lws_write took on any connection

timerVars == <<sul, delay, retry_count>>
ringVars == <<has_ring, ring, write_consume_pending, writable>>
historyVars == <<offered, accepted, sent, last>>
vars == <<wsi, timerVars, ringVars, historyVars>>

\* lws_ring_create keeps one slot free to tell a full ring from an empty one.
Capacity == RingDepth - 1

Init ==
  /\ wsi = "none"
  /\ sul = TRUE /\ delay = 0 /\ retry_count = 0
  /\ has_ring = FALSE /\ ring = <<>>
  /\ write_consume_pending = FALSE
  /\ writable = FALSE
  /\ offered = 0 /\ accepted = <<>> /\ sent = <<>> /\ last = 0
-----------------------------------------------------------------------------
(***************************************************************************)
(* Retries.  lws_retry_sul_schedule counts the attempt, and schedules it   *)
(* only while the count is concealed.                                      *)
(***************************************************************************)
Conceals(count) == count + 1 <= ConcealCount

BackoffEntry(count) == IF count < TableCount THEN count + 1 ELSE TableCount

Schedule(count) ==
  /\ sul' = TRUE
  /\ delay' = BackoffEntry(count)
  /\ retry_count' = count + 1

\* Mutant: do_retry leaves it at that when the attempts are exhausted.
DoRetryGivesUp ==
  IF Conceals(retry_count) THEN Schedule(retry_count)
  ELSE sul' = FALSE /\ retry_count' = 0 /\ UNCHANGED delay

\* do_retry: out of concealed attempts, it starts over from a count of 0.
DoRetry == Schedule(IF Conceals(retry_count) THEN retry_count ELSE 0)

\* connect_client, when lws_client_connect_via_info returns NULL.
ConnectFails(count) ==
  /\ IF Conceals(count)
       THEN Schedule(count)
       ELSE sul' = FALSE /\ retry_count' = count + 1 /\ UNCHANGED delay
  /\ UNCHANGED <<wsi, ringVars, historyVars>>

\* Mutant: without the reset marked HACK the failures add up.
ConnectRefusedCounting == sul /\ ConnectFails(retry_count)

ConnectRefused == sul /\ ConnectFails(0)

ConnectStarts ==
  /\ sul
  /\ wsi' = "connecting"
  /\ sul' = FALSE
  /\ UNCHANGED <<delay, retry_count, ringVars, historyVars>>

\* The timer of mco.sul fires.
connect_client == ConnectRefused \/ ConnectStarts
-----------------------------------------------------------------------------
(***************************************************************************)
(* The life of a connection.                                               *)
(***************************************************************************)
\* Mutant: mco->ring is not set to NULL.
DestroyRingDangling ==
  UNCHANGED has_ring /\ ring' = <<>> /\ accepted' = <<>> /\ sent' = <<>>

\* lws_ring_destroy drops whatever was not yet consumed.
DestroyRing ==
  /\ has_ring' = FALSE
  /\ ring' = <<>>
  /\ accepted' = <<>>
  /\ sent' = <<>>

\* LWS_CALLBACK_CLIENT_ESTABLISHED; if lws_ring_create fails it returns 1 and
\* libwebsockets closes the connection.
ClientEstablished ==
  /\ wsi = "connecting"
  /\ \/ wsi' = "open" /\ has_ring' = TRUE
     \/ wsi' = "closing" /\ has_ring' = FALSE
  /\ ring' = <<>> /\ accepted' = <<>> /\ sent' = <<>>
  /\ UNCHANGED <<timerVars, write_consume_pending, writable, offered, last>>

\* LWS_CALLBACK_CLIENT_CONNECTION_ERROR
ClientConnectionError ==
  /\ wsi = "connecting"
  /\ wsi' = "none"
  /\ DestroyRing
  /\ DoRetry
  /\ UNCHANGED <<write_consume_pending, writable, offered, last>>

\* The peer, the network or the idle hangup ends the connection (external).
PeerGone ==
  /\ wsi = "open"
  /\ wsi' = "closing"
  /\ UNCHANGED <<timerVars, ringVars, historyVars>>

\* LWS_CALLBACK_CLIENT_CLOSED; libwebsockets drops the writable request with
\* the connection it was made on.
ClientClosed ==
  /\ wsi = "closing"
  /\ wsi' = "none"
  /\ writable' = FALSE
  /\ DestroyRing
  /\ DoRetry
  /\ UNCHANGED <<write_consume_pending, offered, last>>
-----------------------------------------------------------------------------
(***************************************************************************)
(* Messages.                                                               *)
(***************************************************************************)
\* Mutant: the message is queued and nobody is woken.
InsertSilently ==
  /\ ring' = Append(ring, offered + 1)
  /\ accepted' = Append(accepted, offered + 1)
  /\ UNCHANGED writable

Insert ==
  /\ ring' = Append(ring, offered + 1)
  /\ accepted' = Append(accepted, offered + 1)
  /\ writable' = TRUE

\* Mutant: the test for a full ring is off by one.
ws_write_cloud_overfills ==
  /\ offered < MaxMessages
  /\ offered' = offered + 1
  /\ \/ has_ring /\ Len(ring) <= Capacity /\ Insert
     \/ UNCHANGED <<ring, accepted, writable>>
  /\ UNCHANGED <<wsi, timerVars, has_ring, write_consume_pending, sent, last>>

\* ws_write_cloud: without a ring, with a full one, or when malloc returns
\* NULL the message is dropped.
ws_write_cloud ==
  /\ offered < MaxMessages
  /\ offered' = offered + 1
  /\ \/ has_ring /\ Len(ring) < Capacity /\ Insert
     \/ UNCHANGED <<ring, accepted, writable>>
  /\ UNCHANGED <<wsi, timerVars, has_ring, write_consume_pending, sent, last>>

\* Mutant: the flag is not looked at.
AlwaysConsume == IF ring # <<>> THEN Tail(ring) ELSE ring

\* The ring after the consume deferred by the previous write; consuming from
\* an empty ring does nothing.
DeferredConsume ==
  IF write_consume_pending /\ ring # <<>> THEN Tail(ring) ELSE ring

\* The part of CLIENT_WRITEABLE common to its three outcomes.
Writeable ==
  /\ wsi = "open"
  /\ writable
  /\ ring' = DeferredConsume
  /\ UNCHANGED <<timerVars, has_ring, offered, accepted>>

WriteableFindsNothing ==
  /\ Writeable
  /\ DeferredConsume = <<>>
  /\ write_consume_pending' = FALSE
  /\ writable' = FALSE
  /\ UNCHANGED <<wsi, sent, last>>

\* Mutants: the message is not marked for the deferred consume; no callback is
\* asked for after a write.
WriteableSendsAgain ==
  /\ Writeable
  /\ DeferredConsume # <<>>
  /\ sent' = Append(sent, Head(DeferredConsume))
  /\ last' = Head(DeferredConsume)
  /\ write_consume_pending' = FALSE
  /\ writable' = TRUE
  /\ UNCHANGED wsi

WriteableSendsOnce ==
  /\ Writeable
  /\ DeferredConsume # <<>>
  /\ sent' = Append(sent, Head(DeferredConsume))
  /\ last' = Head(DeferredConsume)
  /\ write_consume_pending' = TRUE
  /\ writable' = FALSE
  /\ UNCHANGED wsi

WriteableSends ==
  /\ Writeable
  /\ DeferredConsume # <<>>
  /\ sent' = Append(sent, Head(DeferredConsume))
  /\ last' = Head(DeferredConsume)
  /\ write_consume_pending' = TRUE
  /\ writable' = TRUE
  /\ UNCHANGED wsi

\* lws_write took less than the message: the callback returns -1, and
\* libwebsockets closes the connection.
WriteableFails ==
  /\ Writeable
  /\ DeferredConsume # <<>>
  /\ write_consume_pending' = FALSE
  /\ writable' = FALSE
  /\ wsi' = "closing"
  /\ UNCHANGED <<sent, last>>

\* LWS_CALLBACK_CLIENT_WRITEABLE
ClientWriteable == WriteableFindsNothing \/ WriteableSends \/ WriteableFails
-----------------------------------------------------------------------------
Next ==
  \/ connect_client
  \/ ClientEstablished
  \/ ClientConnectionError
  \/ PeerGone
  \/ ClientClosed
  \/ ws_write_cloud
  \/ ClientWriteable

Spec == Init /\ [][Next]_vars

\* The loop runs a timer that is due, answers an attempt that was started and
\* a connection that is closing, and reports a socket that is writable.  Of
\* libwebsockets it is assumed that it does not refuse for ever to start an
\* attempt: while it does, the timer fires and nothing else changes.
Fairness ==
  /\ WF_vars(ConnectStarts)
  /\ WF_vars(ClientEstablished \/ ClientConnectionError)
  /\ WF_vars(ClientClosed)
  /\ WF_vars(ClientWriteable)

FairSpec == Spec /\ Fairness
-----------------------------------------------------------------------------
\* The types of the variables; the ring never holds more than it has room for.
TypeOK ==
  /\ wsi \in {"none", "connecting", "open", "closing"}
  /\ sul \in BOOLEAN
  /\ delay \in 0 .. TableCount
  /\ retry_count \in 0 .. ConcealCount
  /\ has_ring \in BOOLEAN
  /\ ring \in Seq(Nat) /\ Len(ring) <= Capacity
  /\ write_consume_pending \in BOOLEAN
  /\ writable \in BOOLEAN
  /\ offered \in Nat /\ last \in Nat
  /\ accepted \in Seq(Nat) /\ sent \in Seq(Nat)

\* "Retry the connection to keep it nailed up": with no connection and no
\* attempt under way there is always a retry scheduled, and never one beside
\* a connection, which would leak its ring.
NailedUp == sul <=> wsi = "none"

\* ws_write_cloud hands mco.wsi to lws_callback_on_writable whenever there is
\* a ring, and CLIENT_WRITEABLE reads the ring whenever it is called.
RingHasConnection ==
  /\ has_ring => wsi \in {"open", "closing"}
  /\ wsi = "open" => has_ring

\* A message in the ring of an open connection has a writable callback coming:
\* it never waits for the next message to wake it.
NoLostWakeup == wsi = "open" /\ ring # <<>> => writable

\* The head of the ring has been written and waits for the deferred consume.
HeadWritten == write_consume_pending /\ ring # <<>> /\ sent # <<>>

Unwritten == IF HeadWritten THEN Tail(ring) ELSE ring

\* Whatever the order of callbacks, a connection has written or still holds
\* exactly what was accepted for it, in order, save at most the very first
\* message: the one a consume left over from the last connection takes.
ConnectionStream ==
  has_ring =>
    \/ sent \o Unwritten = accepted
    \/ accepted # <<>> /\ sent \o Unwritten = Tail(accepted)

\* What the cloud receives, over all connections, is an ordered feed.
Feed == INSTANCE OrderedFeed WITH pending <- Unwritten

FeedSpec == Feed!Spec

\* A message that was accepted is written or dropped; it does not linger.
QueuedMessagesLeave ==
  \A m \in 1 .. MaxMessages :
    (\E i \in 1 .. Len(Unwritten) : Unwritten[i] = m)
      ~> ~(\E i \in 1 .. Len(Unwritten) : Unwritten[i] = m)

\* Without a connection, another attempt is always made: no loss, failure or
\* refusal, in any number and order, leaves the timer unset.
Redials == wsi = "none" ~> wsi = "connecting"
-----------------------------------------------------------------------------
(***************************************************************************)
(* What a comment of ws.c says, and the code does not do.                  *)
(***************************************************************************)
\* ws.c:510: the fifo entry is consumed only when it has been written.
ConsumesOnlyWhatWasWritten ==
  [][has_ring /\ has_ring' /\ Len(ring') < Len(ring) => HeadWritten]_vars
=============================================================================
