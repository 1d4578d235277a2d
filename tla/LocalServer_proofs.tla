-------------------------- MODULE LocalServer_proofs --------------------------
(***************************************************************************)
(* Proofs about LocalServer: its types, the list of sessions, the writable *)
(* callbacks, and that what a display is told converges.                   *)
(***************************************************************************)
EXTENDS LocalServer, SequenceTheorems, WellFoundedInduction, TLAPS

-----------------------------------------------------------------------------
(***************************************************************************)
(* Lists.                                                                  *)
(***************************************************************************)
Once(list) == \A i, j \in 1 .. Len(list) : list[i] = list[j] => i = j

Members(list) == FirstOf(list, Len(list))

LEMMA MembersPart ==
  ASSUME NEW list \in Seq(Clients), NEW n \in 0 .. Len(list)
  PROVE  FirstOf(list, n) \subseteq Members(list)
  BY LenProperties DEF FirstOf, Members

\* A session put in front of a list it is not in.
LEMMA PutInFront ==
  ASSUME NEW list \in Seq(Clients), NEW c \in Clients, c \notin Members(list)
  PROVE  /\ <<c>> \o list \in Seq(Clients)
         /\ Len(<<c>> \o list) = Len(list) + 1
         /\ Members(<<c>> \o list) = {c} \cup Members(list)
         /\ Once(list) => Once(<<c>> \o list)
<1> DEFINE new == <<c>> \o list
<1>1. <<c>> \in Seq(Clients) /\ Len(<<c>>) = 1 /\ <<c>>[1] = c /\ Len(list) \in Nat
  BY LenProperties
<1>2. /\ new \in Seq(Clients) /\ Len(new) = Len(list) + 1
      /\ \A i \in 1 .. Len(list) + 1 : new[i] = IF i <= 1 THEN c ELSE list[i - 1]
  BY <1>1, ConcatProperties
<1> HIDE DEF new
<1>3. Members(new) \subseteq {c} \cup Members(list)
  <2> SUFFICES ASSUME NEW i \in 1 .. Len(new) PROVE new[i] \in {c} \cup Members(list)
    BY DEF Members, FirstOf
  <2>1. i > 1 => i - 1 \in 1 .. Len(list)
    BY <1>1, <1>2
  <2> QED BY <2>1, <1>1, <1>2 DEF Members, FirstOf
<1>4. {c} \cup Members(list) \subseteq Members(new)
  <2>1. c \in Members(new)
    BY <1>1, <1>2 DEF Members, FirstOf
  <2>2. ASSUME NEW i \in 1 .. Len(list) PROVE list[i] \in Members(new)
    <3>1. i + 1 \in 1 .. Len(new) /\ new[i + 1] = list[i]
      BY <1>1, <1>2
    <3> QED BY <3>1 DEF Members, FirstOf
  <2> QED BY <2>1, <2>2 DEF Members, FirstOf
<1>5. ASSUME Once(list) PROVE Once(new)
  <2> SUFFICES ASSUME NEW i \in 1 .. Len(new), NEW j \in 1 .. Len(new), new[i] = new[j]
               PROVE  i = j
    BY DEF Once
  <2>1. /\ i > 1 => i - 1 \in 1 .. Len(list) /\ new[i] = list[i - 1] /\ new[i] # c
        /\ j > 1 => j - 1 \in 1 .. Len(list) /\ new[j] = list[j - 1] /\ new[j] # c
    BY <1>1, <1>2 DEF Members, FirstOf
  <2>2. (i = 1 => new[i] = c) /\ (j = 1 => new[j] = c)
    BY <1>1, <1>2
  <2>3. i \in Nat /\ j \in Nat /\ i >= 1 /\ j >= 1
    BY <1>1, <1>2
  <2> QED BY <2>1, <2>2, <2>3, <1>5 DEF Once
<1> QED BY <1>2, <1>3, <1>4, <1>5 DEF new

\* A session taken off a list that has it once.
LEMMA TakenOff ==
  ASSUME NEW list \in Seq(Clients), NEW c \in Members(list), Once(list)
  PROVE  /\ RemoveFirst(list, c) \in Seq(Clients)
         /\ Members(RemoveFirst(list, c)) = Members(list) \ {c}
         /\ Once(RemoveFirst(list, c))
<1> DEFINE rest == RemoveFirst(list, c)
<1>0. PICK i \in 1 .. Len(list) : list[i] = c
  BY DEF Members, FirstOf
<1>1. Len(list) \in Nat /\ \A j \in 1 .. Len(list) : list[j] \in Clients
  BY LenProperties, ElementOfSeq
<1>2. {j \in 1 .. Len(list) : list[j] = c} = {i}
  BY <1>0 DEF Once
<1>3. Min({i}) = i
  BY <1>0, <1>1 DEF Min
<1>4. SelectInSeq(list, LAMBDA v : v = c) = i
  BY <1>2, <1>3 DEF SelectInSeq
<1>5. rest = SubSeq(list, 1, i - 1) \o SubSeq(list, i + 1, Len(list))
  BY <1>0, <1>4 DEF RemoveFirst, RemoveAt
<1> DEFINE front == SubSeq(list, 1, i - 1)
           back  == SubSeq(list, i + 1, Len(list))
<1>6. /\ front \in Seq(Clients) /\ Len(front) = i - 1
      /\ \A j \in 1 .. i - 1 : front[j] = list[j]
  <2>1. 1 \in Int /\ i - 1 \in Int /\ \A j \in 1 .. i - 1 : list[j] \in Clients
    BY <1>1
  <2>2. /\ front \in Seq(Clients)
        /\ Len(front) = IF 1 <= i - 1 THEN i - 1 - 1 + 1 ELSE 0
        /\ \A j \in 1 .. i - 1 - 1 + 1 : front[j] = list[1 + j - 1]
    BY <2>1, SubSeqProperties
  <2> HIDE DEF front
  <2> QED BY <2>2, <1>1
<1>7. /\ back \in Seq(Clients) /\ Len(back) = Len(list) - i
      /\ \A j \in 1 .. Len(list) - i : back[j] = list[i + j]
  <2>1. i + 1 \in Int /\ Len(list) \in Int /\ \A j \in i + 1 .. Len(list) : list[j] \in Clients
    BY <1>1
  <2>2. /\ back \in Seq(Clients)
        /\ Len(back) = IF i + 1 <= Len(list) THEN Len(list) - (i + 1) + 1 ELSE 0
        /\ \A j \in 1 .. Len(list) - (i + 1) + 1 : back[j] = list[i + 1 + j - 1]
    BY <2>1, SubSeqProperties
  <2> HIDE DEF back
  <2> QED BY <2>2, <1>1
<1> HIDE DEF front, back
<1>8. /\ rest \in Seq(Clients) /\ Len(rest) = Len(list) - 1
      /\ \A j \in 1 .. Len(list) - 1 : rest[j] = IF j < i THEN list[j] ELSE list[j + 1]
  <2>0. /\ front \o back \in Seq(Clients) /\ Len(front \o back) = Len(front) + Len(back)
        /\ \A j \in 1 .. Len(front) + Len(back) :
             (front \o back)[j] = IF j <= Len(front) THEN front[j] ELSE back[j - Len(front)]
    BY <1>6, <1>7, ConcatProperties
  <2>1. /\ front \o back \in Seq(Clients) /\ Len(front \o back) = Len(list) - 1
        /\ \A j \in 1 .. Len(list) - 1 :
             (front \o back)[j] = IF j <= i - 1 THEN front[j] ELSE back[j - (i - 1)]
    BY <2>0, <1>1, <1>6, <1>7
  <2>2. rest = front \o back
    BY <1>5 DEF front, back
  <2> HIDE DEF rest
  <2>3. ASSUME NEW j \in 1 .. Len(list) - 1
        PROVE  rest[j] = IF j < i THEN list[j] ELSE list[j + 1]
    <3>1. CASE j < i
      BY <3>1, <2>1, <2>2, <1>1, <1>6
    <3>2. CASE ~(j < i)
      <4>1. j - (i - 1) \in 1 .. Len(list) - i /\ i + (j - (i - 1)) = j + 1
        BY <3>2, <1>1
      <4> QED BY <4>1, <3>2, <2>1, <2>2, <1>1, <1>7
    <3> QED BY <3>1, <3>2
  <2> QED BY <2>1, <2>2, <2>3, <1>1
<1> HIDE DEF rest
\* The places of the old list, but for i, are those of the new one.
<1> DEFINE old(j) == IF j < i THEN j ELSE j + 1
<1>9. \A j \in 1 .. Len(rest) : old(j) \in 1 .. Len(list) \ {i} /\ rest[j] = list[old(j)]
  BY <1>1, <1>8
<1>10. \A k \in 1 .. Len(list) \ {i} : \E j \in 1 .. Len(rest) : old(j) = k
  <2> SUFFICES ASSUME NEW k \in 1 .. Len(list) \ {i}
               PROVE  \E j \in 1 .. Len(rest) : old(j) = k
    OBVIOUS
  <2>1. CASE k < i
    BY <2>1, <1>1, <1>8
  <2>2. CASE k > i
    <3>1. k - 1 \in 1 .. Len(rest) /\ old(k - 1) = k
      BY <2>2, <1>1, <1>8
    <3> QED BY <3>1
  <2> QED BY <2>1, <2>2
<1>11. \A j, k \in 1 .. Len(rest) : old(j) = old(k) => j = k
  BY <1>1, <1>8
<1>12. Members(rest) = Members(list) \ {c}
  <2>1. Members(rest) \subseteq Members(list) \ {c}
    <3> HIDE DEF old
    <3> SUFFICES ASSUME NEW j \in 1 .. Len(rest) PROVE rest[j] \in Members(list) \ {c}
      BY DEF Members, FirstOf
    <3>1. old(j) \in 1 .. Len(list) /\ old(j) # i /\ rest[j] = list[old(j)]
      BY <1>9
    <3>2. list[old(j)] # list[i]
      BY <1>0, <3>1 DEF Once
    <3>3. list[old(j)] \in Members(list)
      BY <3>1 DEF Members, FirstOf
    <3> QED BY <1>0, <3>1, <3>2, <3>3
  <2>2. Members(list) \ {c} \subseteq Members(rest)
    <3> HIDE DEF old
    <3> SUFFICES ASSUME NEW k \in 1 .. Len(list), list[k] # c PROVE list[k] \in Members(rest)
      BY DEF Members, FirstOf
    <3>1. k \in 1 .. Len(list) \ {i}
      BY <1>0
    <3>2. PICK j \in 1 .. Len(rest) : old(j) = k
      BY <1>10, <3>1
    <3>3. rest[j] = list[k]
      BY <1>9, <3>2
    <3> QED BY <3>3 DEF Members, FirstOf
  <2> QED BY <2>1, <2>2
<1>13. Once(rest)
  <2> HIDE DEF old
  <2> SUFFICES ASSUME NEW j \in 1 .. Len(rest), NEW k \in 1 .. Len(rest), rest[j] = rest[k]
               PROVE  j = k
    BY DEF Once
  <2>1. /\ old(j) \in 1 .. Len(list) /\ old(k) \in 1 .. Len(list)
        /\ list[old(j)] = list[old(k)]
    BY <1>9
  <2>2. old(j) = old(k)
    BY <2>1 DEF Once
  <2> QED BY <1>11, <2>2
<1> QED BY <1>8, <1>12, <1>13 DEF rest
-----------------------------------------------------------------------------
(***************************************************************************)
(* Messages.                                                               *)
(***************************************************************************)
LEMMA MessageDef ==
  ASSUME NEW m
  PROVE  m \in Messages <=> /\ m \in [DOMAIN m -> Values \cup Configs]
                            /\ DOMAIN m \subseteq Topics
<1>1. ASSUME m \in Messages
      PROVE  m \in [DOMAIN m -> Values \cup Configs] /\ DOMAIN m \subseteq Topics
  <2>1. PICK S \in SUBSET Topics : m \in [S -> Values \cup Configs]
    BY <1>1 DEF Messages
  <2> QED BY <2>1
<1>2. ASSUME m \in [DOMAIN m -> Values \cup Configs], DOMAIN m \subseteq Topics
      PROVE  m \in Messages
  BY <1>2 DEF Messages
<1> QED BY <1>1, <1>2

\* A message of m about some topics is a message.
LEMMA IsMessage ==
  ASSUME NEW S \in SUBSET Topics, NEW m \in [S -> Values \cup Configs]
  PROVE  m \in Messages /\ DOMAIN m = S
  BY DEF Messages

LEMMA StateIsMessage ==
  ASSUME table \in [Quantities -> Seq(Values)]
  PROVE  /\ StateMessage \in Messages
         /\ DOMAIN StateMessage = {q \in Quantities : table[q] # <<>>}
         /\ \A q \in DOMAIN StateMessage : StateMessage[q] = table[q][1]
<1> DEFINE S == {q \in Quantities : table[q] # <<>>}
<1>1. \A q \in S : Head(table[q]) \in Values
  BY HeadTailProperties
<1>2. S \in SUBSET Topics /\ StateMessage \in [S -> Values \cup Configs]
  BY <1>1 DEF StateMessage, Topics
<1>3. \A q \in S : StateMessage[q] = table[q][1]
  BY DEF StateMessage
<1>4. StateMessage \in Messages /\ DOMAIN StateMessage = S
  BY <1>2, IsMessage
<1> QED BY <1>3, <1>4

LEMMA ConfigIsMessage ==
  ASSUME NEW k \in Configs
  PROVE  /\ ConfigMessage(k) \in Messages
         /\ DOMAIN ConfigMessage(k) = {"config"}
         /\ ConfigMessage(k)["config"] = k
<1>1. {"config"} \in SUBSET Topics /\ ConfigMessage(k) \in [{"config"} -> Values \cup Configs]
  BY DEF ConfigMessage, Topics
<1> QED BY <1>1, IsMessage DEF ConfigMessage

LEMMA CapacityType == Capacity \in Nat \ {0}
  BY ServerAssumption DEF Capacity

-----------------------------------------------------------------------------
(***************************************************************************)
(* Broadcasts: what they keep of the sessions.                             *)
(***************************************************************************)
Sound(sessions) ==
  /\ sessions \in [Clients -> Session]
  /\ \A c \in Clients : Len(sessions[c].client_ring) <= Capacity

Woken(session) ==
  session.state = "open" => (session.writable <=> session.client_ring # <<>>)

LEMMA QueueKeeps ==
  ASSUME NEW s \in Session, Len(s.client_ring) <= Capacity, NEW m \in Messages
  PROVE  /\ Queue(s, m) \in Session /\ Len(Queue(s, m).client_ring) <= Capacity
         /\ Queue(s, m).state = s.state
         /\ Woken(Queue(s, m))
         /\ Misses(s, m) \in Session
         /\ Misses(s, m) = [s EXCEPT !.missed = @ \cup DOMAIN m]
<1>1. DOMAIN m \in SUBSET Topics
  BY MessageDef
<1>2. /\ s.client_ring \in Seq(Messages) /\ s.missed \in SUBSET Topics
      /\ Len(s.client_ring) \in Nat
  BY LenProperties DEF Session
<1>3. Misses(s, m) \in Session /\ Misses(s, m) = [s EXCEPT !.missed = @ \cup DOMAIN m]
  BY <1>1, <1>2 DEF Misses, Session
<1>4. CASE Len(s.client_ring) < Capacity
  <2>1. /\ Append(s.client_ring, m) \in Seq(Messages)
        /\ Append(s.client_ring, m) # <<>>
        /\ Len(Append(s.client_ring, m)) <= Capacity
    BY <1>2, <1>4, AppendProperties, CapacityType
  <2>2. Queue(s, m) = [s EXCEPT !.client_ring = Append(@, m), !.missed = @ \ DOMAIN m,
                                !.writable = TRUE]
    BY <1>4 DEF Queue
  <2> QED BY <1>2, <1>3, <2>1, <2>2 DEF Session, Woken
<1>5. CASE ~(Len(s.client_ring) < Capacity)
  <2>1. Queue(s, m) = [[s EXCEPT !.missed = @ \cup DOMAIN m] EXCEPT !.writable = TRUE]
    BY <1>3, <1>5 DEF Queue
  <2>2. s.client_ring # <<>>
    BY <1>2, <1>5, CapacityType, EmptySeq
  <2> QED BY <1>1, <1>2, <1>3, <2>1, <2>2 DEF Session, Woken
<1> QED BY <1>3, <1>4, <1>5

\* ws_write_client keeps types and states, and asks for the callbacks.
LEMMA BroadcastKeeps ==
  ASSUME NEW S, Sound(S), NEW list, NEW n, NEW m \in Messages
  PROVE  LET R == ws_write_client(S, list, n, m)
         IN  /\ Sound(R)
             /\ \A c \in Clients : R[c].state = S[c].state
             /\ \A c \in Clients : Woken(S[c]) => Woken(R[c])
<1> DEFINE R == ws_write_client(S, list, n, m)
<1>1. \A c \in Clients :
        R[c] = IF c \in FirstOf(list, n) THEN Queue(S[c], m)
               ELSE IF c \in FirstOf(list, Len(list)) THEN Misses(S[c], m) ELSE S[c]
  BY DEF ws_write_client
<1>2. R = [c \in Clients |-> R[c]]
  BY DEF ws_write_client
<1> HIDE DEF R
<1>3. ASSUME NEW c \in Clients
      PROVE  /\ R[c] \in Session /\ Len(R[c].client_ring) <= Capacity
             /\ R[c].state = S[c].state
             /\ Woken(S[c]) => Woken(R[c])
  <2>1. S[c] \in Session /\ Len(S[c].client_ring) <= Capacity
    BY DEF Sound
  <2>2. R[c] \in {Queue(S[c], m), Misses(S[c], m), S[c]}
    BY <1>1
  <2>3. CASE R[c] = Misses(S[c], m)
    BY <2>1, <2>3, QueueKeeps DEF Session, Woken
  <2> QED BY <2>1, <2>2, <2>3, QueueKeeps
<1>4. R \in [Clients -> Session]
  BY <1>2, <1>3
<1> QED BY <1>3, <1>4 DEF Sound, R

LEMMA SendStateKeeps ==
  ASSUME NEW S, Sound(S), table \in [Quantities -> Seq(Values)], NEW list, NEW n
  PROVE  LET R == SendState(S, list, n)
         IN  /\ Sound(R)
             /\ \A c \in Clients : R[c].state = S[c].state
             /\ \A c \in Clients : Woken(S[c]) => Woken(R[c])
<1>1. StateMessage \in Messages
  BY StateIsMessage
<1>2. SendState(S, list, n) = ws_write_client(S, list, n, StateMessage)
  BY DEF SendState
<1> QED BY <1>1, <1>2, BroadcastKeeps

LEMMA SendConfigKeeps ==
  ASSUME NEW S, Sound(S), NEW list, NEW n, NEW k \in Configs \cup {Unknown}
  PROVE  LET R == SendConfig(S, list, n, k)
         IN  /\ Sound(R)
             /\ \A c \in Clients : R[c].state = S[c].state
             /\ \A c \in Clients : Woken(S[c]) => Woken(R[c])
<1>1. CASE k = Unknown
  BY <1>1 DEF SendConfig
<1>2. CASE k # Unknown
  <2>1. /\ SendConfig(S, list, n, k) = ws_write_client(S, list, n, ConfigMessage(k))
        /\ ConfigMessage(k) \in Messages
    BY <1>2, ConfigIsMessage DEF SendConfig
  <2> QED BY <2>1, BroadcastKeeps
<1> QED BY <1>1, <1>2

LEMMA UnannouncedKeeps ==
  ASSUME NEW S, Sound(S), NEW list, NEW a \in Configs \cup {Unknown},
         NEW k \in Configs \cup {a}
  PROVE  LET R == Unannounced(S, list, k, a)
         IN  /\ Sound(R)
             /\ \A c \in Clients : R[c].state = S[c].state
             /\ \A c \in Clients : Woken(S[c]) => Woken(R[c])
<1>1. CASE k = a
  BY <1>1 DEF Unannounced
<1>2. CASE k # a
  <2>1. /\ Unannounced(S, list, k, a) = ws_write_client(S, list, 0, ConfigMessage(k))
        /\ ConfigMessage(k) \in Messages
    BY <1>2, ConfigIsMessage DEF Unannounced
  <2> QED BY <2>1, BroadcastKeeps
<1> QED BY <1>1, <1>2

\* A message written leaves its session woken if there is another one.
LEMMA WriteKeeps ==
  ASSUME NEW s \in Session, Len(s.client_ring) <= Capacity, s.client_ring # <<>>
  PROVE  /\ Write(s) \in Session /\ Len(Write(s).client_ring) <= Capacity
         /\ Write(s).state = s.state /\ Write(s).missed = s.missed
         /\ Write(s).client_ring = Tail(s.client_ring)
         /\ Write(s).view = Overlay(s.view, Head(s.client_ring))
         /\ Woken(Write(s))
         /\ FailToWrite(s) \in Session /\ Len(FailToWrite(s).client_ring) <= Capacity
         /\ FailToWrite(s).state = "closing"
<1>1. /\ s.client_ring \in Seq(Messages) /\ Len(s.client_ring) \in Nat
      /\ s.view \in [Topics -> Values \cup Configs \cup {Unknown}]
  BY LenProperties DEF Session
<1>2. /\ Head(s.client_ring) \in Messages /\ Tail(s.client_ring) \in Seq(Messages)
      /\ Len(Tail(s.client_ring)) = Len(s.client_ring) - 1
  BY <1>1, HeadTailProperties
<1>3. Overlay(s.view, Head(s.client_ring)) \in [Topics -> Values \cup Configs \cup {Unknown}]
  BY <1>1, <1>2, MessageDef DEF Overlay
<1>4. Tail(s.client_ring) # <<>> <=> Len(s.client_ring) > 1
  <2> DEFINE rest == Tail(s.client_ring)
             n    == Len(s.client_ring)
  <2>1. (rest # <<>> => Len(rest) \in Nat \ {0}) /\ (rest = <<>> => Len(rest) = 0)
    BY <1>2, EmptySeq
  <2>2. Len(rest) = n - 1 /\ n \in Nat
    BY <1>1, <1>2
  <2> HIDE DEF rest, n
  <2>3. rest # <<>> <=> n > 1
    BY <2>1, <2>2
  <2> QED BY <2>3 DEF rest, n
<1>5. Len(Tail(s.client_ring)) <= Capacity
  BY <1>1, <1>2, CapacityType
<1>6. (Len(s.client_ring) > 1) \in BOOLEAN
  OBVIOUS
<1>7. /\ Write(s) \in Session /\ Write(s).client_ring = Tail(s.client_ring)
      /\ Write(s).state = s.state /\ Write(s).missed = s.missed
      /\ Write(s).writable = (Len(s.client_ring) > 1)
      /\ Write(s).view = Overlay(s.view, Head(s.client_ring))
  BY <1>2, <1>3, <1>6 DEF Write, Session
<1>8. /\ FailToWrite(s) \in Session /\ FailToWrite(s).client_ring = Tail(s.client_ring)
      /\ FailToWrite(s).state = "closing"
  BY <1>2 DEF FailToWrite, Session
<1> QED BY <1>4, <1>5, <1>7, <1>8 DEF Woken

-----------------------------------------------------------------------------
(***************************************************************************)
(* What each step makes of the sessions: their types, their states, and    *)
(* that they are woken.                                                    *)
(***************************************************************************)
LEMMA NoSessionType ==
  /\ NoSession \in Session /\ Len(NoSession.client_ring) = 0 /\ NoSession.state = "none"
  /\ NewSession \in Session /\ Len(NewSession.client_ring) = 0 /\ NewSession.state = "open"
  /\ Woken(NoSession) /\ Woken(NewSession)
  /\ NewSession.client_ring = <<>> /\ NewSession.view = [t \in Topics |-> Unknown]
<1>1. <<>> \in Seq(Messages) /\ Len(<<>>) = 0
  BY EmptySeq
<1>2. NoSession \in Session
  BY <1>1 DEF NoSession, Session
<1> QED BY <1>1, <1>2 DEF NoSession, NewSession, Session, Woken

LEMMA EstablishedKeeps ==
  ASSUME TypeOK, NEW c \in Clients, Established(c)
  PROVE  /\ Sound(pss')
         /\ \A d \in Clients : pss'[d].state = IF d = c THEN "open" ELSE pss[d].state
         /\ (\A d \in Clients : Woken(pss[d])) => \A d \in Clients : Woken(pss'[d])
<1> DEFINE S == [pss EXCEPT ![c] = NewSession]
<1>1. /\ Sound(S) /\ S[c] = NewSession
      /\ \A d \in Clients : d # c => S[d] = pss[d]
      /\ table \in [Quantities -> Seq(Values)] /\ config \in Configs \cup {Unknown}
  <2>0. table \in [Quantities -> Seq(Values)] /\ config \in Configs \cup {Unknown}
    BY DEF TypeOK
  <2>1. Sound(pss) /\ Len(NewSession.client_ring) <= Capacity
    BY NoSessionType, CapacityType DEF TypeOK, Sound
  <2> QED BY <2>0, <2>1, NoSessionType DEF Sound
<1>2. PICK n, k \in 0 .. Len(pss_list) + 1 :
        pss' = SendConfig(SendState(S, pss_list', n), pss_list', k, config)
  BY DEF Established
<1> HIDE DEF S
<1> DEFINE T == SendState(S, pss_list', n)
<1>3. /\ Sound(T) /\ \A d \in Clients : T[d].state = S[d].state
      /\ \A d \in Clients : Woken(S[d]) => Woken(T[d])
  BY <1>1, SendStateKeeps
<1>5. pss' = SendConfig(T, pss_list', k, config)
  BY <1>2
<1> HIDE DEF T
<1>4. /\ Sound(pss') /\ \A d \in Clients : pss'[d].state = T[d].state
      /\ \A d \in Clients : Woken(T[d]) => Woken(pss'[d])
  BY <1>1, <1>3, <1>5, SendConfigKeeps
<1> QED BY <1>1, <1>3, <1>4, NoSessionType

LEMMA WriteableKeeps ==
  ASSUME TypeOK, NEW c \in Clients, ServerWriteable(c)
  PROVE  /\ Sound(pss')
         /\ \A d \in Clients : pss'[d].state = "none" <=> pss[d].state = "none"
         /\ (\A d \in Clients : Woken(pss[d])) => \A d \in Clients : Woken(pss'[d])
<1>1. Sound(pss) /\ pss[c] \in Session /\ pss[c].state = "open"
  BY DEF TypeOK, Sound, ServerWriteable
<1>2. PICK after \in IF pss[c].client_ring = <<>>
                       THEN {[pss[c] EXCEPT !.writable = FALSE]}
                       ELSE {Write(pss[c]), FailToWrite(pss[c])} :
        pss' = [pss EXCEPT ![c] = after]
  BY DEF ServerWriteable
<1>3. after \in Session /\ Len(after.client_ring) <= Capacity /\ after.state # "none" /\ Woken(after)
  <2>1. CASE pss[c].client_ring = <<>>
    <3> DEFINE s == pss[c]
    <3>1. after = [s EXCEPT !.writable = FALSE]
      BY <1>2, <2>1
    <3>2. s \in Session /\ s.state = "open" /\ s.client_ring = <<>> /\ Len(s.client_ring) <= Capacity
      BY <1>1, <2>1 DEF Sound
    <3> HIDE DEF s
    <3>3. /\ after \in Session /\ after.client_ring = <<>> /\ after.state = "open"
          /\ after.writable = FALSE
      BY <3>1, <3>2 DEF Session
    <3>4. Len(after.client_ring) <= Capacity
      BY <3>2, <3>3
    <3>5. Woken(after)
      BY <3>3 DEF Woken
    <3> QED BY <3>3, <3>4, <3>5
  <2>2. CASE pss[c].client_ring # <<>>
    <3>1. after \in {Write(pss[c]), FailToWrite(pss[c])}
      BY <1>2, <2>2
    <3> QED BY <1>1, <2>2, <3>1, WriteKeeps DEF Sound, Woken
  <2> QED BY <2>1, <2>2
<1>4. /\ Sound(pss') /\ pss'[c] = after
      /\ \A d \in Clients : d # c => pss'[d] = pss[d]
  BY <1>1, <1>2, <1>3 DEF Sound
<1> QED BY <1>1, <1>3, <1>4

LEMMA BufferKeeps ==
  ASSUME TypeOK, process_buffer
  PROVE  /\ Sound(pss')
         /\ \A d \in Clients : pss'[d].state = pss[d].state
         /\ (\A d \in Clients : Woken(pss[d])) => \A d \in Clients : Woken(pss'[d])
<1>0. PICK changed \in SUBSET Quantities :
        \E slot \in [changed -> 1 .. MaxSources], value \in [changed -> Values] :
          Change(changed, slot, value)
  BY DEF process_buffer
<1>p. PICK slot \in [changed -> 1 .. MaxSources], value \in [changed -> Values] :
        Change(changed, slot, value)
  BY <1>0
<1>1. PICK n \in 0 .. Len(pss_list) : pss' = ws_write_client(pss, pss_list, n, value)
  BY <1>p DEF Change
<1>2. value \in Messages
  <2>1. changed \in SUBSET Topics /\ value \in [changed -> Values \cup Configs]
    BY DEF Topics
  <2> QED BY <2>1, IsMessage
<1>3. Sound(pss)
  BY DEF TypeOK, Sound
<1> QED BY <1>1, <1>2, <1>3, BroadcastKeeps

LEMMA CommandKeeps ==
  ASSUME TypeOK, ReceiveCommand
  PROVE  /\ Sound(pss')
         /\ \A d \in Clients : pss'[d].state = pss[d].state
         /\ (\A d \in Clients : Woken(pss[d])) => \A d \in Clients : Woken(pss'[d])
         /\ config' \in Configs \cup {Unknown}
<1>0. PICK reply \in Configs \cup {config}, n \in 0 .. Len(pss_list) :
        \E k \in Configs \cup {reply} :
          /\ config' = k
          /\ pss' = Unannounced(SendConfig(pss, pss_list, n, reply), pss_list, k, reply)
  BY DEF ReceiveCommand
<1>1. PICK k \in Configs \cup {reply} :
        /\ config' = k
        /\ pss' = Unannounced(SendConfig(pss, pss_list, n, reply), pss_list, k, reply)
  BY <1>0
<1>2. reply \in Configs \cup {Unknown} /\ k \in Configs \cup {Unknown}
  BY ServerAssumption DEF TypeOK
<1> DEFINE T == SendConfig(pss, pss_list, n, reply)
<1>3. /\ Sound(T) /\ \A d \in Clients : T[d].state = pss[d].state
      /\ \A d \in Clients : Woken(pss[d]) => Woken(T[d])
  <2>1. Sound(pss)
    BY DEF TypeOK, Sound
  <2> QED BY <1>2, <2>1, SendConfigKeeps
<1>5. pss' = Unannounced(T, pss_list, k, reply)
  BY <1>1
<1> HIDE DEF T
<1>4. /\ Sound(pss') /\ \A d \in Clients : pss'[d].state = T[d].state
      /\ \A d \in Clients : Woken(T[d]) => Woken(pss'[d])
  BY <1>2, <1>3, <1>5, UnannouncedKeeps
<1> QED BY <1>1, <1>2, <1>3, <1>4

LEMMA SilentKeeps ==
  ASSUME TypeOK, ReceiveSilently
  PROVE  /\ Sound(pss')
         /\ \A d \in Clients : pss'[d].state = pss[d].state
         /\ (\A d \in Clients : Woken(pss[d])) => \A d \in Clients : Woken(pss'[d])
         /\ config' \in Configs
<1>1. PICK k \in Configs : config' = k /\ pss' = Unannounced(pss, pss_list, k, config)
  BY DEF ReceiveSilently
<1>2. config \in Configs \cup {Unknown} /\ Sound(pss)
  BY DEF TypeOK, Sound
<1>3. k \in Configs \cup {config}
  OBVIOUS
<1>4. /\ Sound(pss') /\ \A d \in Clients : pss'[d].state = pss[d].state
      /\ \A d \in Clients : Woken(pss[d]) => Woken(pss'[d])
  BY <1>1, <1>2, <1>3, UnannouncedKeeps
<1> QED BY <1>1, <1>4

LEMMA PeerGoneKeeps ==
  ASSUME TypeOK, NEW c \in Clients, PeerGone(c)
  PROVE  /\ Sound(pss')
         /\ \A d \in Clients : pss'[d].state = IF d = c THEN "closing" ELSE pss[d].state
         /\ (\A d \in Clients : Woken(pss[d])) => \A d \in Clients : Woken(pss'[d])
         /\ \A d \in Clients : d # c => pss'[d] = pss[d]
<1> DEFINE s == [pss[c] EXCEPT !.state = "closing"]
<1>1. Sound(pss) /\ pss[c] \in Session /\ Len(pss[c].client_ring) <= Capacity
  BY DEF TypeOK, Sound
<1>2. s \in Session /\ Len(s.client_ring) <= Capacity /\ s.state = "closing"
  BY <1>1 DEF Session
<1>3. pss' = [pss EXCEPT ![c] = s]
  BY DEF PeerGone
<1> HIDE DEF s
<1>4. Sound(pss') /\ pss'[c] = s /\ \A d \in Clients : d # c => pss'[d] = pss[d]
  BY <1>1, <1>2, <1>3 DEF Sound
<1> QED BY <1>2, <1>4 DEF Woken

LEMMA ClosedKeeps ==
  ASSUME TypeOK, NEW c \in Clients, Closed(c)
  PROVE  /\ Sound(pss')
         /\ \A d \in Clients : pss'[d].state = IF d = c THEN "none" ELSE pss[d].state
         /\ (\A d \in Clients : Woken(pss[d])) => \A d \in Clients : Woken(pss'[d])
         /\ \A d \in Clients : d # c => pss'[d] = pss[d]
<1>1. Sound(pss) /\ NoSession \in Session /\ Len(NoSession.client_ring) <= Capacity
  BY NoSessionType, CapacityType DEF TypeOK, Sound
<1>2. pss' = [pss EXCEPT ![c] = NoSession]
  BY DEF Closed
<1>3. Sound(pss') /\ pss'[c] = NoSession /\ \A d \in Clients : d # c => pss'[d] = pss[d]
  BY <1>1, <1>2 DEF Sound
<1> QED BY <1>3, NoSessionType

-----------------------------------------------------------------------------
(***************************************************************************)
(* Types, the list, the callbacks.                                         *)
(***************************************************************************)
\* A line from the bus keeps the table in its array.
LEMMA BufferTable ==
  ASSUME TypeOK, process_buffer
  PROVE  /\ table' \in [Quantities -> Seq(Values)]
         /\ \A q \in Quantities : Len(table'[q]) <= MaxSources
<1>0. PICK changed \in SUBSET Quantities :
        \E slot \in [changed -> 1 .. MaxSources], value \in [changed -> Values] :
          Change(changed, slot, value)
  BY DEF process_buffer
<1>p. PICK slot \in [changed -> 1 .. MaxSources], value \in [changed -> Values] :
        Change(changed, slot, value)
  BY <1>0
<1>1. /\ \A q \in changed : slot[q] <= Len(table[q]) + 1
      /\ table' = [q \in Quantities |->
                     IF q \in changed THEN Reports(table[q], slot[q], value[q])
                     ELSE table[q]]
  BY <1>p DEF Change
<1>2. \A q \in Quantities : table[q] \in Seq(Values) /\ Len(table[q]) <= MaxSources
  BY DEF TypeOK
<1>3. ASSUME NEW q \in changed
      PROVE  LET r == Reports(table[q], slot[q], value[q])
             IN  r \in Seq(Values) /\ Len(r) <= MaxSources
  <2>1. /\ table[q] \in Seq(Values) /\ Len(table[q]) <= MaxSources /\ Len(table[q]) \in Nat
        /\ slot[q] \in 1 .. MaxSources /\ value[q] \in Values /\ MaxSources \in Nat
    BY <1>2, ServerAssumption, LenProperties
  <2>2. CASE slot[q] <= Len(table[q])
    <3>1. slot[q] \in 1 .. Len(table[q])
      BY <2>1, <2>2
    <3>2. Reports(table[q], slot[q], value[q]) = [table[q] EXCEPT ![slot[q]] = value[q]]
      BY <2>2 DEF Reports
    <3> QED BY <2>1, <3>1, <3>2, ExceptSeq
  <2>3. CASE ~(slot[q] <= Len(table[q]))
    <3>1. Len(table[q]) + 1 <= MaxSources
      BY <2>1, <2>3, <1>1
    <3>2. Reports(table[q], slot[q], value[q]) = Append(table[q], value[q])
      BY <2>3 DEF Reports
    <3> QED BY <2>1, <3>1, <3>2, AppendProperties
  <2> QED BY <2>2, <2>3
<1> QED BY <1>1, <1>2, <1>3

\* Types, in every step.
LEMMA TypePreserved == TypeOK /\ ListIsLive /\ [Next]_vars => TypeOK'
<1> SUFFICES ASSUME TypeOK, ListIsLive, [Next]_vars PROVE TypeOK'
  OBVIOUS
<1>0. ASSUME Sound(pss'), pss_list' \in Seq(Clients), UNCHANGED table,
             config' \in Configs \cup {Unknown}
      PROVE  TypeOK'
  BY <1>0 DEF TypeOK, Sound
<1>k. config \in Configs \cup {Unknown} /\ pss_list \in Seq(Clients)
  BY DEF TypeOK
<1>1. ASSUME NEW c \in Clients, Established(c) PROVE TypeOK'
  <2>1. <<c>> \o pss_list \in Seq(Clients)
    BY <1>k, ConcatProperties
  <2> QED BY <1>0, <1>1, <1>k, <2>1, EstablishedKeeps DEF Established
<1>2. ASSUME NEW c \in Clients, PeerGone(c) PROVE TypeOK'
  BY <1>0, <1>2, <1>k, PeerGoneKeeps DEF PeerGone
<1>3. ASSUME NEW c \in Clients, Closed(c) PROVE TypeOK'
  <2>1. c \in Members(pss_list) /\ Once(pss_list)
    BY <1>3 DEF Closed, ListIsLive, Members, Once
  <2>2. RemoveFirst(pss_list, c) \in Seq(Clients)
    BY <1>k, <2>1, TakenOff
  <2> QED BY <1>0, <1>3, <1>k, <2>2, ClosedKeeps DEF Closed
<1>4. ASSUME NEW c \in Clients, ServerWriteable(c) PROVE TypeOK'
  BY <1>0, <1>4, <1>k, WriteableKeeps DEF ServerWriteable
<1>5. CASE process_buffer
  <2>1. UNCHANGED <<pss_list, config>>
    BY <1>5 DEF process_buffer, Change
  <2> QED BY <1>5, <1>k, <2>1, BufferKeeps, BufferTable DEF TypeOK, Sound
<1>6. CASE ReceiveCommand
  <2>1. UNCHANGED <<pss_list, table>>
    BY <1>6 DEF ReceiveCommand
  <2> QED BY <1>0, <1>6, <1>k, <2>1, CommandKeeps
<1>7. CASE ReceiveSilently
  <2>1. UNCHANGED <<pss_list, table>>
    BY <1>7 DEF ReceiveSilently
  <2> QED BY <1>0, <1>7, <1>k, <2>1, SilentKeeps
<1>8. CASE UNCHANGED vars
  BY <1>8 DEF vars, TypeOK
<1> QED BY <1>1, <1>2, <1>3, <1>4, <1>5, <1>6, <1>7, <1>8 DEF Next

\* The list in every step: a session enters it when it opens and leaves it
\* when it is closed, and nothing else changes who is "none".
LEMMA ListPreserved == TypeOK /\ ListIsLive /\ [Next]_vars => ListIsLive'
<1> SUFFICES ASSUME TypeOK, ListIsLive, [Next]_vars PROVE ListIsLive'
  OBVIOUS
<1>0. /\ Members(pss_list) = {d \in Clients : pss[d].state # "none"} /\ Once(pss_list)
      /\ pss_list \in Seq(Clients)
  BY DEF ListIsLive, Members, Once, TypeOK
<1>a. ASSUME Members(pss_list') = {d \in Clients : pss'[d].state # "none"}, Once(pss_list')
      PROVE  ListIsLive'
  BY <1>a DEF ListIsLive, Members, Once
<1>b. ASSUME UNCHANGED pss_list,
             \A d \in Clients : pss'[d].state = "none" <=> pss[d].state = "none"
      PROVE  ListIsLive'
  BY <1>0, <1>a, <1>b
<1>1. ASSUME NEW c \in Clients, Established(c) PROVE ListIsLive'
  <2>1. c \notin Members(pss_list) /\ pss_list' = <<c>> \o pss_list
    BY <1>0, <1>1 DEF Established
  <2>2. Members(pss_list') = {c} \cup Members(pss_list) /\ Once(pss_list')
    BY <1>0, <2>1, PutInFront
  <2> QED BY <1>0, <1>1, <1>a, <2>2, EstablishedKeeps
<1>2. ASSUME NEW c \in Clients, PeerGone(c) PROVE ListIsLive'
  <2>1. pss[c].state = "open" /\ UNCHANGED pss_list
    BY <1>2 DEF PeerGone
  <2> QED BY <1>2, <1>b, <2>1, PeerGoneKeeps
<1>3. ASSUME NEW c \in Clients, Closed(c) PROVE ListIsLive'
  <2>1. c \in Members(pss_list) /\ pss_list' = RemoveFirst(pss_list, c)
    BY <1>0, <1>3 DEF Closed
  <2>2. Members(pss_list') = Members(pss_list) \ {c} /\ Once(pss_list')
    BY <1>0, <2>1, TakenOff
  <2> QED BY <1>0, <1>3, <1>a, <2>2, ClosedKeeps
<1>4. ASSUME NEW c \in Clients, ServerWriteable(c) PROVE ListIsLive'
  BY <1>4, <1>b, WriteableKeeps DEF ServerWriteable
<1>5. CASE process_buffer
  <2>1. UNCHANGED pss_list
    BY <1>5 DEF process_buffer, Change
  <2> QED BY <1>5, <1>b, <2>1, BufferKeeps
<1>6. CASE ReceiveCommand
  <2>1. UNCHANGED pss_list
    BY <1>6 DEF ReceiveCommand
  <2> QED BY <1>6, <1>b, <2>1, CommandKeeps
<1>7. CASE ReceiveSilently
  <2>1. UNCHANGED pss_list
    BY <1>7 DEF ReceiveSilently
  <2> QED BY <1>7, <1>b, <2>1, SilentKeeps
<1>8. CASE UNCHANGED vars
  BY <1>8 DEF vars, ListIsLive
<1> QED BY <1>1, <1>2, <1>3, <1>4, <1>5, <1>6, <1>7, <1>8 DEF Next

LEMMA WokenPreserved == TypeOK /\ WokenIffQueued /\ [Next]_vars => WokenIffQueued'
<1> SUFFICES ASSUME TypeOK, WokenIffQueued, [Next]_vars PROVE WokenIffQueued'
  OBVIOUS
<1>0. \A d \in Clients : Woken(pss[d])
  BY DEF WokenIffQueued, Woken
<1>a. ASSUME \A d \in Clients : Woken(pss'[d]) PROVE WokenIffQueued'
  BY <1>a DEF WokenIffQueued, Woken
<1>1. ASSUME NEW c \in Clients, Established(c) PROVE WokenIffQueued'
  BY <1>0, <1>1, <1>a, EstablishedKeeps
<1>2. ASSUME NEW c \in Clients, PeerGone(c) PROVE WokenIffQueued'
  BY <1>0, <1>2, <1>a, PeerGoneKeeps
<1>3. ASSUME NEW c \in Clients, Closed(c) PROVE WokenIffQueued'
  BY <1>0, <1>3, <1>a, ClosedKeeps
<1>4. ASSUME NEW c \in Clients, ServerWriteable(c) PROVE WokenIffQueued'
  BY <1>0, <1>4, <1>a, WriteableKeeps
<1>5. CASE process_buffer
  BY <1>0, <1>5, <1>a, BufferKeeps
<1>6. CASE ReceiveCommand
  BY <1>0, <1>6, <1>a, CommandKeeps
<1>7. CASE ReceiveSilently
  BY <1>0, <1>7, <1>a, SilentKeeps
<1>8. CASE UNCHANGED vars
  BY <1>8 DEF vars, WokenIffQueued
<1> QED BY <1>1, <1>2, <1>3, <1>4, <1>5, <1>6, <1>7, <1>8 DEF Next

LEMMA StartsInOrder == Init => TypeOK /\ ListIsLive /\ WokenIffQueued
<1> SUFFICES ASSUME Init PROVE TypeOK /\ ListIsLive /\ WokenIffQueued
  OBVIOUS
<1>1. \A c \in Clients : pss[c] = NoSession
  BY DEF Init
<1>2. <<>> \in Seq(Clients) /\ <<>> \in Seq(Values) /\ Len(<<>>) = 0
  BY EmptySeq
<1>3. TypeOK
  BY <1>1, <1>2, NoSessionType, CapacityType, ServerAssumption DEF Init, TypeOK
<1>4. ListIsLive
  BY <1>1, <1>2, NoSessionType DEF Init, ListIsLive, FirstOf
<1>5. WokenIffQueued
  BY <1>1, NoSessionType DEF WokenIffQueued, Woken
<1> QED BY <1>3, <1>4, <1>5

\* The list of sessions holds every session that is not closed, and each once,
\* for any number of displays that come and go in any order; and the variables
\* have their types.
THEOREM ServerListIsLive == Spec => [](TypeOK /\ ListIsLive)
  BY StartsInOrder, TypePreserved, ListPreserved, PTL DEF Spec

\* The types of the variables; no ring holds more than it has room for.
THEOREM ServerTypes == Spec => []TypeOK
  BY ServerListIsLive, PTL

\* A writable callback is on its way exactly while something is queued.
THEOREM ServerWokenIffQueued == Spec => []WokenIffQueued
  BY StartsInOrder, ServerTypes, WokenPreserved, PTL DEF Spec

-----------------------------------------------------------------------------
(***************************************************************************)
(* What a session will have told its display: LastTold.                    *)
(***************************************************************************)
\* Of some places of a sequence there is a last one.
LEMMA LastPlace ==
  ASSUME NEW n \in Nat, NEW S \in SUBSET (1 .. n), S # {}
  PROVE  \E x \in S : \A y \in S : y <= x
<1> DEFINE R == {r \in Nat \X Nat : r[1] < r[2]}
           T == {n - x : x \in S}
<1>1. OpToRel(<, Nat) = R
  BY DEF OpToRel
<1>2. IsWellFoundedOn(R, Nat)
  BY <1>1, NatLessThanWellFounded
<1>3. \A x, y \in Nat : y < x => <<y, x>> \in R
  OBVIOUS
<1>0. \A x \in S : x \in Int /\ n - x \in Nat
  BY SMT
<1>4. T \subseteq Nat /\ T # {}
  <2>1. ASSUME NEW z \in T PROVE z \in Nat
    <3>1. PICK x \in S : z = n - x
      OBVIOUS
    <3> QED BY <1>0, <3>1
  <2> QED BY <2>1
<1> HIDE DEF R
<1>5. \E z \in T : \A y \in T : ~(<<y, z>> \in R)
  <2> HIDE DEF T
  <2> QED BY <1>2, <1>4, WFMin
<1>6. PICK x \in S : \A y \in T : ~(<<y, n - x>> \in R)
  BY <1>5
<1>7. ASSUME NEW y \in S PROVE y <= x
  <2>1. n - y \in Nat /\ n - x \in Nat /\ x \in Int /\ y \in Int
    BY <1>0
  <2>2. ~(n - y < n - x)
    BY <1>3, <1>6, <2>1
  <2> QED BY <2>1, <2>2
<1> QED BY <1>7

\* The places of a ring that say something of t.
Says(ring, t) == {i \in 1 .. Len(ring) : t \in DOMAIN ring[i]}

LEMMA LastToldIs ==
  ASSUME NEW s \in Session, NEW t,
         NEW i \in Says(s.client_ring, t), \A j \in Says(s.client_ring, t) : j <= i
  PROVE  LastTold(s, t) = s.client_ring[i][t]
<1> DEFINE says == Says(s.client_ring, t)
           k    == CHOOSE x \in says : \A j \in says : j <= x
<1>1. says # {} /\ says \subseteq Int
  BY LenProperties DEF Says, Session
<1>2. k \in says /\ \A j \in says : j <= k
  OBVIOUS
<1>3. k = i
  BY <1>1, <1>2
<1>4. LastTold(s, t) = s.client_ring[k][t]
  BY <1>1 DEF LastTold, Says
<1> QED BY <1>3, <1>4

LEMMA LastToldView ==
  ASSUME NEW s, NEW t, Says(s.client_ring, t) = {}
  PROVE  LastTold(s, t) = s.view[t]
  BY DEF LastTold, Says

\* A message queued is what the display will be told of its topics.
LEMMA LastToldAppend ==
  ASSUME NEW s \in Session, NEW r \in Session, NEW m \in Messages, NEW t,
         r.client_ring = Append(s.client_ring, m), r.view = s.view
  PROVE  LastTold(r, t) = IF t \in DOMAIN m THEN m[t] ELSE LastTold(s, t)
<1> DEFINE ring == s.client_ring
           n    == Len(ring)
           new  == r.client_ring
<1>1. ring \in Seq(Messages) /\ n \in Nat
  BY LenProperties DEF Session
<1>2. /\ Len(new) = n + 1 /\ new[n + 1] = m
      /\ \A i \in 1 .. n : new[i] = ring[i]
  BY <1>1, AppendProperties
<1>3. Says(new, t) = Says(ring, t) \cup (IF t \in DOMAIN m THEN {n + 1} ELSE {})
  <2> HIDE DEF ring, n, new
  <2> QED BY <1>1, <1>2 DEF Says, n
<1>4. Says(ring, t) \subseteq 1 .. n
  BY DEF Says
<1> HIDE DEF ring, n, new
<1>5. CASE t \in DOMAIN m
  <2>1. n + 1 \in Says(new, t) /\ \A j \in Says(new, t) : j <= n + 1
    BY <1>1, <1>3, <1>4, <1>5
  <2>2. LastTold(r, t) = new[n + 1][t]
    BY <2>1, LastToldIs DEF new
  <2> QED BY <1>2, <1>5, <2>2
<1>6. CASE t \notin DOMAIN m
  <2>1. Says(new, t) = Says(ring, t)
    BY <1>3, <1>6
  <2>2. CASE Says(ring, t) = {}
    BY <1>6, <2>1, <2>2, LastToldView DEF ring, new
  <2>3. CASE Says(ring, t) # {}
    <3>1. PICK i \in Says(ring, t) : \A j \in Says(ring, t) : j <= i
      BY <1>1, <1>4, <2>3, LastPlace
    <3>2. LastTold(s, t) = ring[i][t]
      BY <3>1, LastToldIs DEF ring
    <3>3. LastTold(r, t) = new[i][t]
      BY <2>1, <3>1, LastToldIs DEF new
    <3> QED BY <1>2, <1>4, <1>6, <3>1, <3>2, <3>3
  <2> QED BY <2>2, <2>3
<1> QED BY <1>5, <1>6

\* A message written says to the display what it said in the ring.
LEMMA LastToldWritten ==
  ASSUME NEW s \in Session, s.client_ring # <<>>, NEW r \in Session, NEW t \in Topics,
         r.client_ring = Tail(s.client_ring), r.view = Overlay(s.view, Head(s.client_ring))
  PROVE  LastTold(r, t) = LastTold(s, t)
<1> DEFINE ring == s.client_ring
           n    == Len(ring)
           new  == r.client_ring
<1>1. ring \in Seq(Messages) /\ n \in Nat \ {0} /\ Head(ring) = ring[1]
  BY EmptySeq DEF Session
<1>2. Len(new) = n - 1 /\ \A i \in 1 .. n - 1 : new[i] = ring[i + 1]
  <2>1. /\ Len(Tail(ring)) = Len(ring) - 1
        /\ \A i \in 1 .. Len(Tail(ring)) : Tail(ring)[i] = ring[i + 1]
    BY <1>1, HeadTailProperties
  <2> QED BY <2>1
<1>3. r.view[t] = IF t \in DOMAIN ring[1] THEN ring[1][t] ELSE s.view[t]
  BY <1>1 DEF Overlay
<1> HIDE DEF ring, n, new
<1>4. \A i \in 1 .. n - 1 : i \in Says(new, t) <=> i + 1 \in Says(ring, t)
  BY <1>1, <1>2 DEF Says, n
<1>5. Says(new, t) \subseteq 1 .. n - 1 /\ Says(ring, t) \subseteq 1 .. n
  BY <1>2 DEF Says, n
<1>6. CASE Says(new, t) = {}
  <2>1. LastTold(r, t) = r.view[t]
    BY <1>6, LastToldView DEF new
  <2>2. ASSUME NEW i \in Says(ring, t) PROVE i = 1
    <3>0. i \in Int /\ i - 1 + 1 = i
      BY <1>5
    <3>1. i - 1 \notin 1 .. n - 1
      BY <1>4, <1>6, <3>0
    <3> QED BY <1>1, <1>5, <3>0, <3>1
  <2>3. CASE 1 \in Says(ring, t)
    <3>1. LastTold(s, t) = ring[1][t]
      BY <2>2, <2>3, LastToldIs DEF ring
    <3>2. t \in DOMAIN ring[1]
      BY <2>3 DEF Says
    <3> QED BY <1>3, <2>1, <3>1, <3>2
  <2>4. CASE 1 \notin Says(ring, t)
    <3>1. Says(ring, t) = {}
      BY <2>2, <2>4
    <3>2. LastTold(s, t) = s.view[t]
      BY <3>1, LastToldView DEF ring
    <3>3. t \notin DOMAIN ring[1]
      BY <1>1, <2>4 DEF Says, n
    <3> QED BY <1>3, <2>1, <3>2, <3>3
  <2> QED BY <2>3, <2>4
<1>7. CASE Says(new, t) # {}
  <2>0. n - 1 \in Nat
    BY <1>1
  <2>1. PICK i \in Says(new, t) : \A j \in Says(new, t) : j <= i
    BY <1>5, <1>7, <2>0, LastPlace
  <2>2. i \in 1 .. n - 1 /\ i + 1 \in Says(ring, t)
    BY <1>4, <1>5
  <2>3. ASSUME NEW j \in Says(ring, t) PROVE j <= i + 1
    <3>1. j > 1 => j - 1 \in 1 .. n - 1 /\ j - 1 + 1 = j
      BY <1>1, <1>5
    <3>2. j > 1 => j - 1 <= i
      BY <1>4, <2>1, <3>1
    <3> QED BY <1>1, <1>5, <2>2, <3>2
  <2>4. LastTold(s, t) = ring[i + 1][t]
    BY <2>2, <2>3, LastToldIs DEF ring
  <2>5. LastTold(r, t) = new[i][t]
    BY <2>1, LastToldIs DEF new
  <2> QED BY <1>2, <2>2, <2>4, <2>5
<1> QED BY <1>6, <1>7

-----------------------------------------------------------------------------
(***************************************************************************)
(* Convergence.                                                            *)
(***************************************************************************)
\* Every display will have been told what now allows, or misses it.
Told(S, now) ==
  \A c \in Clients, t \in Topics :
    S[c].state = "open" /\ t \notin S[c].missed => LastTold(S[c], t) \in now[t]

\* What each topic is now.
Now == [t \in Topics |-> Current(t)]

\* The list has every open session.
Lists(list, S) == \A c \in Clients : S[c].state = "open" => c \in Members(list)

LEMMA LastToldSame ==
  ASSUME NEW s, NEW r, r.client_ring = s.client_ring, r.view = s.view, NEW t
  PROVE  LastTold(r, t) = LastTold(s, t)
  BY DEF LastTold

\* A message queued or missed: a topic that is not missed afterwards is as the
\* message says, or as it was.
LEMMA QueueTells ==
  ASSUME NEW s \in Session, Len(s.client_ring) <= Capacity, NEW m \in Messages,
         NEW r \in {Queue(s, m), Misses(s, m)}, NEW t \in Topics, t \notin r.missed
  PROVE  IF t \in DOMAIN m THEN LastTold(r, t) = m[t]
         ELSE LastTold(r, t) = LastTold(s, t) /\ t \notin s.missed
<1>1. r \in Session
  BY QueueKeeps
<1>2. Misses(s, m) = [s EXCEPT !.missed = @ \cup DOMAIN m]
  BY QueueKeeps
<1>3. CASE r = Misses(s, m)
  <2>1. r.client_ring = s.client_ring /\ r.view = s.view /\ r.missed = s.missed \cup DOMAIN m
    BY <1>2, <1>3 DEF Session
  <2> QED BY <2>1, LastToldSame
<1>4. CASE r = Queue(s, m) /\ Len(s.client_ring) < Capacity
  <2>1. /\ r.client_ring = Append(s.client_ring, m) /\ r.view = s.view
        /\ r.missed = s.missed \ DOMAIN m
    BY <1>4 DEF Queue, Session
  <2> QED BY <1>1, <2>1, LastToldAppend
<1>5. CASE r = Queue(s, m) /\ ~(Len(s.client_ring) < Capacity)
  <2>1. r = [[s EXCEPT !.missed = @ \cup DOMAIN m] EXCEPT !.writable = TRUE]
    BY <1>2, <1>5 DEF Queue
  <2>2. r.client_ring = s.client_ring /\ r.view = s.view /\ r.missed = s.missed \cup DOMAIN m
    BY <2>1 DEF Session
  <2> QED BY <2>2, LastToldSame
<1> QED BY <1>3, <1>4, <1>5

\* A broadcast, however far it gets in a list with every open session.
LEMMA BroadcastTells ==
  ASSUME NEW S, Sound(S), NEW list \in Seq(Clients), Lists(list, S),
         NEW n \in 0 .. Len(list), NEW m \in Messages,
         NEW old, NEW new, Told(S, old),
         \A t \in DOMAIN m : m[t] \in new[t],
         \A t \in Topics \ DOMAIN m : old[t] \subseteq new[t]
  PROVE  Told(ws_write_client(S, list, n, m), new)
<1> DEFINE R == ws_write_client(S, list, n, m)
<1> SUFFICES ASSUME NEW c \in Clients, NEW t \in Topics,
                    R[c].state = "open", t \notin R[c].missed
             PROVE  LastTold(R[c], t) \in new[t]
  BY DEF Told
<1>1. R[c] = IF c \in FirstOf(list, n) THEN Queue(S[c], m)
             ELSE IF c \in FirstOf(list, Len(list)) THEN Misses(S[c], m) ELSE S[c]
  BY DEF ws_write_client
<1>2. S[c] \in Session /\ Len(S[c].client_ring) <= Capacity /\ S[c].state = "open"
  BY BroadcastKeeps DEF Sound
<1>3. c \in FirstOf(list, Len(list))
  BY <1>2 DEF Lists, Members
<1>4. R[c] \in {Queue(S[c], m), Misses(S[c], m)}
  BY <1>1, <1>3
<1> HIDE DEF R
<1>5. IF t \in DOMAIN m THEN LastTold(R[c], t) = m[t]
      ELSE LastTold(R[c], t) = LastTold(S[c], t) /\ t \notin S[c].missed
  BY <1>2, <1>4, QueueTells
<1> QED BY <1>2, <1>5 DEF Told

\* A configuration sent, or not when there is none.
LEMMA SendConfigTells ==
  ASSUME NEW S, Sound(S), NEW list \in Seq(Clients), Lists(list, S),
         NEW n \in 0 .. Len(list), NEW k \in Configs \cup {Unknown},
         NEW old, NEW new, Told(S, old), k \in new["config"],
         k = Unknown => old["config"] \subseteq new["config"],
         \A q \in Quantities : old[q] \subseteq new[q]
  PROVE  Told(SendConfig(S, list, n, k), new)
<1>1. CASE k = Unknown
  <2>1. \A t \in Topics : old[t] \subseteq new[t]
    BY <1>1 DEF Topics
  <2> QED BY <1>1, <2>1 DEF SendConfig, Told
<1>2. CASE k # Unknown
  <2>1. /\ ConfigMessage(k) \in Messages /\ DOMAIN ConfigMessage(k) = {"config"}
        /\ ConfigMessage(k)["config"] = k
    BY <1>2, ConfigIsMessage
  <2>2. \A t \in Topics \ {"config"} : old[t] \subseteq new[t]
    BY DEF Topics
  <2>3. Told(ws_write_client(S, list, n, ConfigMessage(k)), new)
    BY <2>1, <2>2, BroadcastTells
  <2> QED BY <1>2, <2>3 DEF SendConfig
<1> QED BY <1>1, <1>2

LEMMA UnannouncedTells ==
  ASSUME NEW S, Sound(S), NEW list \in Seq(Clients), Lists(list, S),
         NEW a \in Configs \cup {Unknown}, NEW k \in Configs \cup {a},
         NEW old, NEW new, Told(S, old), k \in new["config"],
         k = a => old["config"] \subseteq new["config"],
         \A q \in Quantities : old[q] \subseteq new[q]
  PROVE  Told(Unannounced(S, list, k, a), new)
<1>1. CASE k = a
  <2>1. \A t \in Topics : old[t] \subseteq new[t]
    BY <1>1 DEF Topics
  <2> QED BY <1>1, <2>1 DEF Unannounced, Told
<1>2. CASE k # a
  <2>1. /\ ConfigMessage(k) \in Messages /\ DOMAIN ConfigMessage(k) = {"config"}
        /\ ConfigMessage(k)["config"] = k
    BY <1>2, ConfigIsMessage
  <2>2. \A t \in Topics \ {"config"} : old[t] \subseteq new[t]
    BY DEF Topics
  <2>3. 0 \in 0 .. Len(list)
    BY LenProperties
  <2>4. Told(ws_write_client(S, list, 0, ConfigMessage(k)), new)
    <3> DEFINE m == ConfigMessage(k)
    <3>1. m \in Messages /\ \A t \in DOMAIN m : m[t] \in new[t]
      BY <2>1
    <3>2. \A t \in Topics \ DOMAIN m : old[t] \subseteq new[t]
      BY <2>1, <2>2
    <3> HIDE DEF m
    <3>3. Told(ws_write_client(S, list, 0, m), new)
      BY <2>3, <3>1, <3>2, BroadcastTells
    <3> QED BY <3>3 DEF m
  <2> QED BY <1>2, <2>4 DEF Unannounced
<1> QED BY <1>1, <1>2

LEMMA ConvergesIsTold == Converges <=> Told(pss, Now)
  BY DEF Converges, Told, Now

\* A topic is told as it is now: the new state's, named.
LEMMA ToldConverges ==
  ASSUME NEW now, Told(pss', now), \A t \in Topics : now[t] \subseteq Current(t)'
  PROVE  Converges'
  BY DEF Converges, Told

LEMMA WriteableTells ==
  ASSUME TypeOK, NEW c \in Clients, ServerWriteable(c), NEW now, Told(pss, now)
  PROVE  Told(pss', now)
<1>1. pss \in [Clients -> Session] /\ pss[c] \in Session /\ Len(pss[c].client_ring) <= Capacity
      /\ pss[c].state = "open"
  BY DEF TypeOK, ServerWriteable
<1>2. PICK after \in IF pss[c].client_ring = <<>>
                       THEN {[pss[c] EXCEPT !.writable = FALSE]}
                       ELSE {Write(pss[c]), FailToWrite(pss[c])} :
        pss' = [pss EXCEPT ![c] = after]
  BY DEF ServerWriteable
<1>3. pss'[c] = after /\ \A d \in Clients : d # c => pss'[d] = pss[d]
  BY <1>1, <1>2
<1>4. ASSUME NEW t \in Topics, after.state = "open", t \notin after.missed
      PROVE  t \notin pss[c].missed /\ LastTold(after, t) = LastTold(pss[c], t)
  <2>1. CASE pss[c].client_ring = <<>>
    <3>1. /\ after.client_ring = pss[c].client_ring /\ after.view = pss[c].view
          /\ after.missed = pss[c].missed
      BY <1>1, <1>2, <2>1 DEF Session
    <3> QED BY <1>4, <3>1, LastToldSame
  <2>2. CASE pss[c].client_ring # <<>>
    <3>1. after = Write(pss[c])
      BY <1>1, <1>2, <1>4, <2>2, WriteKeeps
    <3>2. /\ after \in Session /\ after.missed = pss[c].missed
          /\ after.client_ring = Tail(pss[c].client_ring)
          /\ after.view = Overlay(pss[c].view, Head(pss[c].client_ring))
      BY <1>1, <2>2, <3>1, WriteKeeps
    <3> QED BY <1>1, <1>4, <2>2, <3>2, LastToldWritten
  <2> QED BY <2>1, <2>2
<1>5. \A t \in Topics :
        pss'[c].state = "open" /\ t \notin pss'[c].missed =>
          pss[c].state = "open" /\ t \notin pss[c].missed /\ LastTold(pss'[c], t) = LastTold(pss[c], t)
  BY <1>1, <1>3, <1>4
<1> QED BY <1>3, <1>5 DEF Told

\* What a source reports is one of the values its quantity has then.
LEMMA Reported ==
  ASSUME NEW slots \in Seq(Values), NEW i \in 1 .. Len(slots) + 1, NEW v \in Values
  PROVE  /\ Reports(slots, i, v) \in Seq(Values) /\ Reports(slots, i, v) # <<>>
         /\ i \in 1 .. Len(Reports(slots, i, v)) /\ Reports(slots, i, v)[i] = v
<1>0. Len(slots) \in Nat
  BY LenProperties
<1>1. CASE i <= Len(slots)
  <2>1. i \in 1 .. Len(slots)
    BY <1>0, <1>1
  <2>2. Reports(slots, i, v) = [slots EXCEPT ![i] = v]
    BY <1>1 DEF Reports
  <2>3. /\ Reports(slots, i, v) \in Seq(Values) /\ Len(Reports(slots, i, v)) = Len(slots)
        /\ Reports(slots, i, v)[i] = v
    BY <2>1, <2>2, ExceptSeq
  <2> QED BY <2>1, <2>3, <1>0, EmptySeq
<1>2. CASE ~(i <= Len(slots))
  <2>1. i = Len(slots) + 1
    BY <1>0, <1>2
  <2>2. Reports(slots, i, v) = Append(slots, v)
    BY <1>2 DEF Reports
  <2>3. /\ Reports(slots, i, v) \in Seq(Values) /\ Len(Reports(slots, i, v)) = i
        /\ Reports(slots, i, v)[i] = v
    BY <2>1, <2>2, <1>0, AppendProperties
  <2> QED BY <2>1, <2>3, <1>0, EmptySeq
<1> QED BY <1>1, <1>2

LEMMA BufferTells ==
  ASSUME TypeOK, ListIsLive, Converges, process_buffer
  PROVE  Converges'
<1>0. PICK changed \in SUBSET Quantities :
        \E slot \in [changed -> 1 .. MaxSources], value \in [changed -> Values] :
          Change(changed, slot, value)
  BY DEF process_buffer
<1>p. PICK slot \in [changed -> 1 .. MaxSources], value \in [changed -> Values] :
        Change(changed, slot, value)
  BY <1>0
<1>1. PICK n \in 0 .. Len(pss_list) : pss' = ws_write_client(pss, pss_list, n, value)
  BY <1>p DEF Change
<1>2. /\ \A q \in changed : slot[q] <= Len(table[q]) + 1
      /\ table' = [q \in Quantities |->
                     IF q \in changed THEN Reports(table[q], slot[q], value[q])
                     ELSE table[q]]
      /\ config' = config
  BY <1>p DEF Change
<1>3. value \in Messages /\ DOMAIN value = changed
  <2>1. changed \in SUBSET Topics /\ value \in [changed -> Values \cup Configs]
    BY DEF Topics
  <2> QED BY <2>1, IsMessage
<1>4. Sound(pss) /\ pss_list \in Seq(Clients) /\ Lists(pss_list, pss)
  BY DEF TypeOK, Sound, ListIsLive, Lists, Members
<1> DEFINE new == [t \in Topics |-> Current(t)']
<1>5. ASSUME NEW q \in changed PROVE value[q] \in new[q]
  <2>1. /\ q \in Quantities /\ q # "config" /\ q \in Topics
        /\ table[q] \in Seq(Values) /\ value[q] \in Values
        /\ slot[q] \in 1 .. Len(table[q]) + 1
    <3>1. q \in Quantities /\ q # "config" /\ table[q] \in Seq(Values) /\ Len(table[q]) \in Nat
      BY ServerAssumption, LenProperties DEF TypeOK
    <3>2. slot[q] \in 1 .. MaxSources /\ MaxSources \in Nat /\ slot[q] <= Len(table[q]) + 1
      BY <1>2, ServerAssumption
    <3>3. slot[q] \in 1 .. Len(table[q]) + 1
      BY <3>1, <3>2
    <3> QED BY <3>1, <3>3 DEF Topics
  <2>2. table'[q] = Reports(table[q], slot[q], value[q])
    BY <1>2, <2>1
  <2> DEFINE r == Reports(table[q], slot[q], value[q])
  <2>5. r # <<>> /\ slot[q] \in 1 .. Len(r) /\ r[slot[q]] = value[q]
    <3> DEFINE t == table[q]
               i == slot[q]
               v == value[q]
    <3>1. t \in Seq(Values) /\ i \in 1 .. Len(t) + 1 /\ v \in Values /\ r = Reports(t, i, v)
      BY <2>1
    <3> HIDE DEF t, i, v, r
    <3>2. r # <<>> /\ i \in 1 .. Len(r) /\ r[i] = v
      BY <3>1, Reported
    <3> QED BY <3>2 DEF i, v
  <2>6. table'[q] = r
    BY <2>2
  <2> HIDE DEF r
  <2>3. table'[q] # <<>> /\ slot[q] \in 1 .. Len(table'[q]) /\ table'[q][slot[q]] = value[q]
    BY <2>5, <2>6
  <2>4. Current(q)' = {table'[q][i] : i \in 1 .. Len(table'[q])}
    BY <2>1, <2>3 DEF Current
  <2> QED BY <2>1, <2>3, <2>4
<1>6. ASSUME NEW t \in Topics \ changed PROVE Now[t] \subseteq new[t]
  <2>1. CASE t = "config"
    BY <1>2, <2>1 DEF Now, Current
  <2>2. CASE t # "config"
    <3>1. t \in Quantities /\ table'[t] = table[t]
      BY <1>2, <2>2 DEF Topics
    <3>2. Current(t)' = Current(t)
      BY <2>2, <3>1 DEF Current
    <3> QED BY <3>2 DEF Now
  <2> QED BY <2>1, <2>2
<1> HIDE DEF new
<1>7. Told(pss', new)
  BY <1>1, <1>3, <1>4, <1>5, <1>6, BroadcastTells, ConvergesIsTold
<1> QED BY <1>7, ToldConverges DEF new

\* The full state: a topic that is not the configuration is told as it is now.
LEMMA SendStateTells ==
  ASSUME table \in [Quantities -> Seq(Values)],
         NEW S, Sound(S), NEW list \in Seq(Clients), Lists(list, S),
         NEW n \in 0 .. Len(list),
         NEW old, NEW new, Told(S, old), old["config"] \subseteq new["config"],
         \A q \in Quantities : old[q] \subseteq Current(q) \cup {Unknown} /\ Current(q) \subseteq new[q],
         \A q \in Quantities : table[q] = <<>> => Unknown \in new[q]
  PROVE  Told(SendState(S, list, n), new)
<1>1. /\ StateMessage \in Messages
      /\ DOMAIN StateMessage = {q \in Quantities : table[q] # <<>>}
      /\ \A q \in DOMAIN StateMessage : StateMessage[q] = table[q][1]
  BY StateIsMessage
<1>2. ASSUME NEW q \in DOMAIN StateMessage PROVE StateMessage[q] \in new[q]
  <2>1. q \in Quantities /\ table[q] # <<>> /\ table[q] \in Seq(Values) /\ q # "config"
    BY <1>1, ServerAssumption
  <2>2. 1 \in 1 .. Len(table[q])
    <3>1. Len(table[q]) \in Nat /\ Len(table[q]) # 0
      BY <2>1, EmptySeq, LenProperties
    <3> QED BY <3>1
  <2>3. table[q][1] \in Current(q)
    BY <2>1, <2>2 DEF Current
  <2> QED BY <1>1, <2>1, <2>3
<1>3. ASSUME NEW t \in Topics \ DOMAIN StateMessage PROVE old[t] \subseteq new[t]
  <2>1. CASE t = "config"
    BY <2>1
  <2>2. CASE t # "config"
    <3>1. t \in Quantities /\ table[t] = <<>>
      BY <1>1, <2>2 DEF Topics
    <3>2. Current(t) = {Unknown}
      BY <2>2, <3>1 DEF Current
    <3> QED BY <3>1, <3>2
  <2> QED BY <2>1, <2>2
<1>4. SendState(S, list, n) = ws_write_client(S, list, n, StateMessage)
  BY DEF SendState
<1>5. /\ \A t \in DOMAIN StateMessage : StateMessage[t] \in new[t]
      /\ \A t \in Topics \ DOMAIN StateMessage : old[t] \subseteq new[t]
  BY <1>2, <1>3
<1>6. Told(ws_write_client(S, list, n, StateMessage), new)
  BY <1>1, <1>5, BroadcastTells
<1> QED BY <1>4, <1>6

\* A display that connects is told the full state and the configuration, with
\* everyone else, or misses them; until then nothing was said to it.
LEMMA EstablishedTells ==
  ASSUME TypeOK, ListIsLive, Converges, NEW c \in Clients, Established(c)
  PROVE  Converges'
<1> DEFINE S    == [pss EXCEPT ![c] = NewSession]
           list == <<c>> \o pss_list
           old  == [t \in Topics |-> Current(t) \cup {Unknown}]
           mid  == [t \in Topics |-> IF t = "config" THEN {config, Unknown} ELSE Current(t)]
           new  == Now
<1>0. /\ table \in [Quantities -> Seq(Values)] /\ config \in Configs \cup {Unknown}
      /\ pss_list \in Seq(Clients) /\ Members(pss_list) = {d \in Clients : pss[d].state # "none"}
      /\ pss[c].state = "none" /\ pss_list' = list
      /\ UNCHANGED <<table, config>>
  BY DEF TypeOK, ListIsLive, Members, Established
<1>1. /\ Sound(S) /\ S[c] = NewSession
      /\ \A d \in Clients : d # c => S[d] = pss[d]
  <2>1. Sound(pss) /\ Len(NewSession.client_ring) <= Capacity
    BY NoSessionType, CapacityType DEF TypeOK, Sound
  <2> QED BY <2>1, NoSessionType DEF Sound
<1>2. PICK n, k \in 0 .. Len(pss_list) + 1 :
        pss' = SendConfig(SendState(S, list, n), list, k, config)
  BY DEF Established
<1>3. /\ list \in Seq(Clients) /\ Len(list) = Len(pss_list) + 1
      /\ Members(list) = {c} \cup Members(pss_list)
  BY <1>0, PutInFront
<1> HIDE DEF list
<1>4. Lists(list, S)
  BY <1>0, <1>1, <1>3 DEF Lists
<1>5. Told(S, old)
  <2> SUFFICES ASSUME NEW d \in Clients, NEW t \in Topics,
                      S[d].state = "open", t \notin S[d].missed
               PROVE  LastTold(S[d], t) \in Current(t) \cup {Unknown}
    BY DEF Told
  <2>1. CASE d = c
    <3>1. Len(NewSession.client_ring) = 0 /\ NewSession.view[t] = Unknown
      BY NoSessionType
    <3>2. Says(NewSession.client_ring, t) = {}
      BY <3>1 DEF Says
    <3> QED BY <1>1, <2>1, <3>1, <3>2, LastToldView
  <2>2. CASE d # c
    BY <1>1, <2>2 DEF Converges
  <2> QED BY <2>1, <2>2
<1> DEFINE T == SendState(S, list, n)
<1>6. Sound(T) /\ \A d \in Clients : T[d].state = S[d].state
  <2> HIDE DEF S
  <2> QED BY <1>0, <1>1, SendStateKeeps
<1>7. Told(T, mid)
  <2>1. \A q \in Quantities : q \in Topics /\ q # "config"
    BY ServerAssumption DEF Topics
  <2>2. old["config"] \subseteq mid["config"]
    BY DEF Topics, Current
  <2>3. \A q \in Quantities : old[q] \subseteq Current(q) \cup {Unknown} /\ Current(q) \subseteq mid[q]
    BY <2>1
  <2>4. \A q \in Quantities : table[q] = <<>> => Unknown \in mid[q]
    BY <2>1 DEF Current
  <2> HIDE DEF old, mid, S
  <2> QED BY <1>0, <1>1, <1>2, <1>3, <1>4, <1>5, <2>2, <2>3, <2>4, SendStateTells
<1>8. pss' = SendConfig(T, list, k, config)
  BY <1>2
<1>9. Lists(list, T)
  BY <1>4, <1>6 DEF Lists
<1>10. /\ config \in new["config"] /\ (config = Unknown => mid["config"] \subseteq new["config"])
       /\ \A q \in Quantities : mid[q] \subseteq new[q]
  BY ServerAssumption DEF Topics, Current, Now
<1>11. k \in 0 .. Len(list)
  BY <1>3
<1> HIDE DEF T, mid, old, S, new
<1>12. Told(pss', new)
  BY <1>0, <1>3, <1>6, <1>7, <1>8, <1>9, <1>10, <1>11, SendConfigTells
<1>13. \A t \in Topics : new[t] \subseteq Current(t)'
  BY <1>0 DEF new, Now, Current
<1> QED BY <1>12, <1>13, ToldConverges

\* With the table as it was, what is said of a quantity is as it was.
LEMMA SameTable ==
  ASSUME UNCHANGED table, NEW t \in Topics, t # "config"
  PROVE  Current(t)' = Current(t)
  BY DEF Current

\* A reply goes out, and a configuration adopted after it is missed.
LEMMA CommandTells ==
  ASSUME TypeOK, ListIsLive, Converges, ReceiveCommand
  PROVE  Converges'
<1>0. PICK reply \in Configs \cup {config}, n \in 0 .. Len(pss_list) :
        \E k \in Configs \cup {reply} :
          /\ config' = k
          /\ pss' = Unannounced(SendConfig(pss, pss_list, n, reply), pss_list, k, reply)
  BY DEF ReceiveCommand
<1>1. PICK k \in Configs \cup {reply} :
        /\ config' = k
        /\ pss' = Unannounced(SendConfig(pss, pss_list, n, reply), pss_list, k, reply)
  BY <1>0
<1>2. reply \in Configs \cup {Unknown} /\ UNCHANGED table
  BY ServerAssumption DEF TypeOK, ReceiveCommand
<1>3. Sound(pss) /\ pss_list \in Seq(Clients) /\ Lists(pss_list, pss) /\ Told(pss, Now)
  BY ConvergesIsTold DEF TypeOK, Sound, ListIsLive, Lists, Members
<1> DEFINE T   == SendConfig(pss, pss_list, n, reply)
           mid == [t \in Topics |-> IF t = "config" THEN {reply} ELSE Current(t)]
           new == [t \in Topics |-> IF t = "config" THEN {k} ELSE Current(t)]
<1>4. Sound(T) /\ \A d \in Clients : T[d].state = pss[d].state
  BY <1>2, <1>3, SendConfigKeeps
<1>5. /\ reply \in mid["config"] /\ k \in new["config"]
      /\ reply = Unknown => Now["config"] \subseteq mid["config"]
      /\ k = reply => mid["config"] \subseteq new["config"]
      /\ \A q \in Quantities : Now[q] \subseteq mid[q] /\ mid[q] \subseteq new[q]
  BY <1>0, ServerAssumption DEF Now, Current, Topics
<1> HIDE DEF mid, new
<1>6. Told(T, mid)
  BY <1>0, <1>2, <1>3, <1>5, SendConfigTells
<1>7. pss' = Unannounced(T, pss_list, k, reply)
  BY <1>1
<1> HIDE DEF T
<1>8. Lists(pss_list, T)
  BY <1>3, <1>4 DEF Lists
<1>9. Told(pss', new)
  BY <1>1, <1>2, <1>3, <1>4, <1>5, <1>6, <1>7, <1>8, UnannouncedTells
<1>10. \A t \in Topics : new[t] \subseteq Current(t)'
  <2> SUFFICES ASSUME NEW t \in Topics PROVE new[t] \subseteq Current(t)'
    OBVIOUS
  <2>1. CASE t = "config"
    BY <1>1, <2>1 DEF new, Current
  <2>2. CASE t # "config"
    BY <1>2, <2>2, SameTable DEF new
  <2> QED BY <2>1, <2>2
<1> QED BY <1>9, <1>10, ToldConverges

\* A configuration nobody is told of is missed.
LEMMA SilentTells ==
  ASSUME TypeOK, ListIsLive, Converges, ReceiveSilently
  PROVE  Converges'
<1>1. PICK k \in Configs : config' = k /\ pss' = Unannounced(pss, pss_list, k, config)
  BY DEF ReceiveSilently
<1>2. config \in Configs \cup {Unknown} /\ k \in Configs \cup {config} /\ UNCHANGED table
  BY DEF TypeOK, ReceiveSilently
<1>3. Sound(pss) /\ pss_list \in Seq(Clients) /\ Lists(pss_list, pss) /\ Told(pss, Now)
  BY ConvergesIsTold DEF TypeOK, Sound, ListIsLive, Lists, Members
<1> DEFINE new == [t \in Topics |-> IF t = "config" THEN {k} ELSE Current(t)]
<1>4. /\ k \in new["config"]
      /\ k = config => Now["config"] \subseteq new["config"]
      /\ \A q \in Quantities : Now[q] \subseteq new[q]
  BY ServerAssumption DEF Now, Current, Topics
<1> HIDE DEF new
<1>5. Told(pss', new)
  BY <1>1, <1>2, <1>3, <1>4, UnannouncedTells
<1>6. \A t \in Topics : new[t] \subseteq Current(t)'
  <2> SUFFICES ASSUME NEW t \in Topics PROVE new[t] \subseteq Current(t)'
    OBVIOUS
  <2>1. CASE t = "config"
    BY <1>1, <2>1 DEF new, Current
  <2>2. CASE t # "config"
    BY <1>2, <2>2, SameTable DEF new
  <2> QED BY <2>1, <2>2
<1> QED BY <1>5, <1>6, ToldConverges

\* A session that is not open is told nothing more, and the others are as
\* they were.
LEMMA LeavingTells ==
  ASSUME Converges, NEW c \in Clients, pss'[c].state # "open",
         \A d \in Clients : d # c => pss'[d] = pss[d], UNCHANGED <<table, config>>
  PROVE  Converges'
<1>1. \A t \in Topics : Current(t)' = Current(t)
  BY DEF Current
<1>2. Told(pss', Now)
  BY ConvergesIsTold DEF Told
<1> QED BY <1>1, <1>2, ToldConverges DEF Now

LEMMA ConvergesPreserved == TypeOK /\ ListIsLive /\ Converges /\ [Next]_vars => Converges'
<1> SUFFICES ASSUME TypeOK, ListIsLive, Converges, [Next]_vars PROVE Converges'
  OBVIOUS
<1>1. ASSUME NEW c \in Clients, Established(c) PROVE Converges'
  BY <1>1, EstablishedTells
<1>2. ASSUME NEW c \in Clients, PeerGone(c) PROVE Converges'
  <2>1. /\ \A d \in Clients : pss'[d].state = IF d = c THEN "closing" ELSE pss[d].state
        /\ \A d \in Clients : d # c => pss'[d] = pss[d]
    BY <1>2, PeerGoneKeeps
  <2>2. pss'[c].state # "open"
    BY <2>1
  <2>3. UNCHANGED <<table, config>>
    BY <1>2 DEF PeerGone
  <2> QED BY <2>1, <2>2, <2>3, LeavingTells
<1>3. ASSUME NEW c \in Clients, Closed(c) PROVE Converges'
  <2>1. /\ \A d \in Clients : pss'[d].state = IF d = c THEN "none" ELSE pss[d].state
        /\ \A d \in Clients : d # c => pss'[d] = pss[d]
    BY <1>3, ClosedKeeps
  <2>2. pss'[c].state # "open"
    BY <2>1
  <2>3. UNCHANGED <<table, config>>
    BY <1>3 DEF Closed
  <2> QED BY <2>1, <2>2, <2>3, LeavingTells
<1>4. ASSUME NEW c \in Clients, ServerWriteable(c) PROVE Converges'
  <2>1. Told(pss', Now)
    BY <1>4, ConvergesIsTold, WriteableTells
  <2>2. \A t \in Topics : Current(t)' = Current(t)
    BY <1>4 DEF ServerWriteable, Current
  <2> QED BY <2>1, <2>2, ToldConverges DEF Now
<1>5. CASE process_buffer
  BY <1>5, BufferTells
<1>6. CASE ReceiveCommand
  BY <1>6, CommandTells
<1>7. CASE ReceiveSilently
  BY <1>7, SilentTells
<1>8. CASE UNCHANGED vars
  <2>1. Told(pss', Now)
    BY <1>8, ConvergesIsTold DEF vars
  <2>2. \A t \in Topics : Current(t)' = Current(t)
    BY <1>8 DEF vars, Current
  <2> QED BY <2>1, <2>2, ToldConverges DEF Now
<1> QED BY <1>1, <1>2, <1>3, <1>4, <1>5, <1>6, <1>7, <1>8 DEF Next

LEMMA StartsConverged == Init => Converges
  BY NoSessionType DEF Init, Converges

\* A display that missed no news of a topic ends with what a source of it says
\* now, or the configuration in force: for any number of displays, quantities
\* and sources and any depth of the rings.
THEOREM ServerConverges == Spec => []Converges
  BY StartsConverged, ServerListIsLive, ConvergesPreserved, PTL DEF Spec
=============================================================================
