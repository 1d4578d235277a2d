----------------------------- MODULE LocalServer -----------------------------
(***************************************************************************)
(* The websocket server for the displays on board: the server half of      *)
(* callback_minimal in ws.c, struct per_local_session_data__minimal, and   *)
(* ws_write_client, with the calls that broadcast: process_buffer and the  *)
(* reply to an inbound command.                                            *)
(*                                                                         *)
(* A display sees the values of quantities and the boat's configuration    *)
(* only through messages: a full state when any display connects, and then *)
(* differences.  A message is a function from the topics it mentions to    *)
(* what it says of them.                                                   *)
(*                                                                         *)
(* The parser's table is kept here as far as the messages show it: for     *)
(* each quantity the values of its sources in the order of their slots.    *)
(***************************************************************************)
EXTENDS Integers, Sequences, SequencesExt

CONSTANTS
  Clients,      \* the displays
  Quantities,   \* the quantities of struct nmea_state
  Values,       \* what a source says of a quantity
  Configs,      \* the contents of the configuration, the empty one excepted
  Unknown,      \* no value or configuration
  RingDepth,    \* RING_DEPTH
  MaxSources    \* MAXSOURCES: the slots of a quantity

\* A ring has room for a message: RING_DEPTH is 512.
ASSUME ServerAssumption ==
  /\ RingDepth \in Nat /\ RingDepth >= 2
  /\ MaxSources \in Nat \ {0}
  /\ Unknown \notin Values \cup Configs
  /\ "config" \notin Quantities

VARIABLES
  pss,       \* the session of each display
  pss_list,  \* vhd->pss_list: the displays of the list of sessions, in order
  table,     \* the values of each quantity by slot
  config     \* the contents of the configuration

vars == <<pss, pss_list, table, config>>

Topics == Quantities \cup {"config"}

Capacity == RingDepth - 1

\* A session: its connection, its ring, whether a writable callback was asked
\* for, and two histories: what the display was told last of each topic, and
\* the topics of which it missed the news.
NoSession ==
  [state |-> "none", client_ring |-> <<>>, writable |-> FALSE,
   view |-> [t \in Topics |-> Unknown], missed |-> {}]

NewSession == [NoSession EXCEPT !.state = "open"]

Init ==
  /\ pss = [c \in Clients |-> NoSession]
  /\ pss_list = <<>>
  /\ table = [q \in Quantities |-> <<>>]
  /\ config \in Configs \cup {Unknown}
-----------------------------------------------------------------------------
(***************************************************************************)
(* Broadcasts.                                                             *)
(***************************************************************************)
FirstOf(list, n) == {list[i] : i \in 1 .. n}

\* The display misses what m says.
Misses(session, m) == [session EXCEPT !.missed = @ \cup DOMAIN m]

\* Mutants: the test for a full ring is off by one; the newest goes first.
QueueOverfills(session, m) ==
  IF Len(session.client_ring) <= Capacity
    THEN [session EXCEPT !.client_ring = Append(@, m),
                         !.missed = @ \ DOMAIN m,
                         !.writable = TRUE]
    ELSE [Misses(session, m) EXCEPT !.writable = TRUE]

QueueInFront(session, m) ==
  IF Len(session.client_ring) < Capacity
    THEN [session EXCEPT !.client_ring = <<m>> \o @,
                         !.missed = @ \ DOMAIN m,
                         !.writable = TRUE]
    ELSE [Misses(session, m) EXCEPT !.writable = TRUE]

\* One turn of the loop of ws_write_client: with a full ring the message is
\* dropped, and the callback is asked for all the same.
Queue(session, m) ==
  IF Len(session.client_ring) < Capacity
    THEN [session EXCEPT !.client_ring = Append(@, m),
                         !.missed = @ \ DOMAIN m,
                         !.writable = TRUE]
    ELSE [Misses(session, m) EXCEPT !.writable = TRUE]

\* The sessions after ws_write_client(m) went through the first n of the list.
\* malloc returning NULL ends the loop early.
ws_write_client(sessions, list, n, m) ==
  [c \in Clients |->
     IF c \in FirstOf(list, n) THEN Queue(sessions[c], m)
     ELSE IF c \in FirstOf(list, Len(list)) THEN Misses(sessions[c], m)
     ELSE sessions[c]]

\* What get_nmea_state writes: of each quantity the first slot in use.
StateMessage ==
  [q \in {p \in Quantities : table[p] # <<>>} |-> Head(table[q])]

ConfigMessage(k) == [t \in {"config"} |-> k]

\* The broadcast of the full state.  With no quantity known it has only claims
\* and devices, and takes a place in the rings all the same; it is skipped when
\* there are none of these either, which is the case of n = 0.
SendState(sessions, list, n) == ws_write_client(sessions, list, n, StateMessage)

\* The broadcast of the configuration is skipped when there is none.
SendConfig(sessions, list, n, k) ==
  IF k = Unknown THEN sessions
  ELSE ws_write_client(sessions, list, n, ConfigMessage(k))
-----------------------------------------------------------------------------
(***************************************************************************)
(* The life of a session.                                                  *)
(***************************************************************************)
\* Mutant: the state is sent before the session is in the list.
EstablishedLate(c) ==
  /\ pss[c].state = "none"
  /\ pss_list' = <<c>> \o pss_list
  /\ \E n, k \in 0 .. Len(pss_list) :
       pss' = SendConfig(SendState([pss EXCEPT ![c] = NewSession], pss_list, n),
                         pss_list, k, config)
  /\ UNCHANGED <<table, config>>

\* LWS_CALLBACK_ESTABLISHED: the state and the configuration go to everyone.
\* (When lws_ring_create fails the session is closed at once: no change.)
Established(c) ==
  /\ pss[c].state = "none"
  /\ pss_list' = <<c>> \o pss_list
  /\ \E n, k \in 0 .. Len(pss_list) + 1 :
       pss' = SendConfig(SendState([pss EXCEPT ![c] = NewSession], pss_list', n),
                         pss_list', k, config)
  /\ UNCHANGED <<table, config>>

\* The display or its network ends the connection (external).
PeerGone(c) ==
  /\ pss[c].state = "open"
  /\ pss' = [pss EXCEPT ![c].state = "closing"]
  /\ UNCHANGED <<pss_list, table, config>>

\* Mutant: the session stays in the list.
ClosedListed(c) ==
  /\ pss[c].state = "closing"
  /\ pss' = [pss EXCEPT ![c] = NoSession]
  /\ UNCHANGED <<pss_list, table, config>>

\* LWS_CALLBACK_CLOSED: lws_ll_fwd_remove takes the session off the list, and
\* libwebsockets frees it.
Closed(c) ==
  /\ pss[c].state = "closing"
  /\ pss_list' = RemoveFirst(pss_list, c)
  /\ pss' = [pss EXCEPT ![c] = NoSession]
  /\ UNCHANGED <<table, config>>

Overlay(view, m) == [t \in Topics |-> IF t \in DOMAIN m THEN m[t] ELSE view[t]]

\* Mutant: after a write no callback is asked for.
WriteOnce(session) ==
  [session EXCEPT !.view = Overlay(@, Head(session.client_ring)),
                  !.client_ring = Tail(@),
                  !.writable = FALSE]

\* The message is written; another callback is asked for if more is queued.
Write(session) ==
  [session EXCEPT !.view = Overlay(@, Head(session.client_ring)),
                  !.client_ring = Tail(@),
                  !.writable = Len(session.client_ring) > 1]

\* lws_write took less than the message: it is consumed all the same, and the
\* callback returns -1, which closes the connection.
FailToWrite(session) ==
  [session EXCEPT !.client_ring = Tail(@), !.writable = FALSE, !.state = "closing"]

\* LWS_CALLBACK_SERVER_WRITEABLE
ServerWriteable(c) ==
  /\ pss[c].state = "open"
  /\ pss[c].writable
  /\ \E after \in IF pss[c].client_ring = <<>>
                   THEN {[pss[c] EXCEPT !.writable = FALSE]}
                   ELSE {Write(pss[c]), FailToWrite(pss[c])} :
       pss' = [pss EXCEPT ![c] = after]
  /\ UNCHANGED <<pss_list, table, config>>
-----------------------------------------------------------------------------
(***************************************************************************)
(* What is broadcast.                                                      *)
(***************************************************************************)
\* A source of q reports v: its slot changes, or it gets the next free one.
Reports(slots, i, v) ==
  IF i <= Len(slots) THEN [slots EXCEPT ![i] = v] ELSE Append(slots, v)

\* A line from the bus changes one slot of each of some quantities, and those
\* values are broadcast; a line that says something of a claim, a device or a
\* vessel only changes none and is broadcast too.
Change(changed, slot, value) ==
  /\ \A q \in changed :
       /\ slot[q] <= Len(table[q]) + 1
       /\ slot[q] <= Len(table[q]) => table[q][slot[q]] # value[q]
  /\ table' = [q \in Quantities |->
                 IF q \in changed THEN Reports(table[q], slot[q], value[q])
                 ELSE table[q]]
  /\ \E n \in 0 .. Len(pss_list) :
       pss' = ws_write_client(pss, pss_list, n, value)
  /\ UNCHANGED <<pss_list, config>>

process_buffer ==
  \E changed \in SUBSET Quantities :
  \E slot \in [changed -> 1 .. MaxSources], value \in [changed -> Values] :
    Change(changed, slot, value)

\* A configuration adopted with no broadcast: everyone misses it.
Unannounced(sessions, list, k, announced) ==
  IF k = announced THEN sessions
  ELSE ws_write_client(sessions, list, 0, ConfigMessage(k))

\* LWS_CALLBACK_RECEIVE with a "cmd": process_inbound_message performs it and
\* makes the reply, then adopts the message's "config" if there is one, and
\* only then is the reply broadcast.
ReceiveCommand ==
  \E c \in Clients : \E reply \in Configs \cup {config}, n \in 0 .. Len(pss_list) :
  \E k \in Configs \cup {reply} :
    /\ pss[c].state = "open"
    /\ config' = k
    /\ pss' = Unannounced(SendConfig(pss, pss_list, n, reply), pss_list, k, reply)
    /\ UNCHANGED <<pss_list, table>>

\* A message whose reply nobody gets: any from the cloud, and one with only a
\* "config" from a display.
ReceiveSilently ==
  \E k \in Configs :
    /\ config' = k
    /\ pss' = Unannounced(pss, pss_list, k, config)
    /\ UNCHANGED <<pss_list, table>>
-----------------------------------------------------------------------------
Next ==
  \/ \E c \in Clients :
       \/ Established(c)
       \/ PeerGone(c)
       \/ Closed(c)
       \/ ServerWriteable(c)
  \/ process_buffer
  \/ ReceiveCommand
  \/ ReceiveSilently

Spec == Init /\ [][Next]_vars

\* The loop reports every socket that is writable.
Fairness ==
  \A c \in Clients : WF_vars(ServerWriteable(c))

FairSpec == Spec /\ Fairness
-----------------------------------------------------------------------------
Messages == UNION {[S -> Values \cup Configs] : S \in SUBSET Topics}

Session ==
  [state : {"none", "open", "closing"}, client_ring : Seq(Messages), writable : BOOLEAN,
   view : [Topics -> Values \cup Configs \cup {Unknown}], missed : SUBSET Topics]

\* The types of the variables; no ring holds more than it has room for.
TypeOK ==
  /\ pss \in [Clients -> Session]
  /\ \A c \in Clients : Len(pss[c].client_ring) <= Capacity
  /\ pss_list \in Seq(Clients)
  /\ table \in [Quantities -> Seq(Values)]
  /\ \A q \in Quantities : Len(table[q]) <= MaxSources
  /\ config \in Configs \cup {Unknown}

\* "linked-list of live pss": the list a broadcast walks holds every session
\* that is not closed, and each once, whatever the order they come and go in.
ListIsLive ==
  /\ FirstOf(pss_list, Len(pss_list)) = {c \in Clients : pss[c].state # "none"}
  /\ \A i, j \in 1 .. Len(pss_list) : pss_list[i] = pss_list[j] => i = j

\* A writable callback is on its way exactly while something is queued: a
\* message never waits for the next one, and no callback finds nothing.
WokenIffQueued ==
  \A c \in Clients :
    pss[c].state = "open" => (pss[c].writable <=> pss[c].client_ring # <<>>)

\* What a display will have been told of t once its ring is written.
LastTold(session, t) ==
  LET ring == session.client_ring
      says == {i \in 1 .. Len(ring) : t \in DOMAIN ring[i]}
  IN IF says = {} THEN session.view[t]
     ELSE ring[CHOOSE i \in says : \A j \in says : j <= i][t]

\* What may be said of t now.
Current(t) ==
  IF t = "config" THEN {config}
  ELSE IF table[t] = <<>> THEN {Unknown}
  ELSE {table[t][i] : i \in 1 .. Len(table[t])}

\* A display that missed no news of a topic, whenever it connected and in
\* whatever order full states, differences and replies were queued, ends with
\* what a source of it says now, or the configuration in force.
Converges ==
  \A c \in Clients : \A t \in Topics :
    pss[c].state = "open" /\ t \notin pss[c].missed => LastTold(pss[c], t) \in Current(t)

\* A configuration that stays in force reaches every display that stays and
\* missed no news of it.
CatchesUp ==
  \A c \in Clients : \A k \in Configs :
    LET told == pss[c].view["config"] = k
        due == /\ pss[c].state = "open"
               /\ config = k
               /\ "config" \notin pss[c].missed
    IN due ~> told \/ ~due
=============================================================================
