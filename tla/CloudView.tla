------------------------------ MODULE CloudView ------------------------------
(***************************************************************************)
(* What the cloud knows of the boat: the parser of NmeaParser with the     *)
(* link to the cloud behind it.  Each line that changes something is       *)
(* reported as its difference (build_diff), and process_buffer hands it to *)
(* ws_write_cloud; nothing is ever sent again, and a new connection starts *)
(* with nothing.                                                           *)
(*                                                                         *)
(* The link is the abstract OrderedFeed, which CloudLink implements: it    *)
(* may refuse or lose any difference, and delivers the others in order.    *)
(* Messages that displays send to the cloud pass through the same ring;    *)
(* all they do here is make it full, which OrderedFeed allows at any time. *)
(*                                                                         *)
(* A topic is what a difference can speak of: a source of a quantity, the  *)
(* address of a name, the model of a name.                                 *)
(***************************************************************************)
EXTENDS NmeaParser

CONSTANTS
  MaxMessages, \* bound: the differences that are considered
  MaxPending   \* bound: those pending at a time

ASSUME ViewAssumption == MaxMessages \in Nat /\ MaxPending \in Nat

VARIABLES
  offered, pending, last, \* the feed to the cloud
  news,  \* the differences pending
  view,  \* what the cloud was last told on each topic
  lost   \* the topics on which the latest news was lost on the way

feed_vars == <<offered, pending, last>>
view_vars == <<feed_vars, news, view, lost>>
all_vars == <<vars, view_vars>>

Feed == INSTANCE OrderedFeed

Nothing == [t \in {} |-> Zero]

ViewInit ==
  /\ Init
  /\ Feed!Init
  /\ news = <<>> /\ view = Nothing /\ lost = {}
-----------------------------------------------------------------------------
\* Mutant: slots with source 0 are left out, as diff_claim_values does.
diff_values_used(old, new) ==
  {x \in SourceSlots : new[x].src # 0 /\ \A o \in SourceSlots : old[o] # new[x]}

\* The slots reported: those that equal no slot of the old array.
diff_values(old, new) == {x \in SourceSlots : \A o \in SourceSlots : old[o] # new[x]}

\* Mutant: a claim is known when its name is.
diff_claim_values_by_name(old, new) ==
  {x \in Slots : new[x].src # 0
     /\ \A o \in Slots : old[o].unique_number # new[x].unique_number}

\* The claims reported: those at an address that equal no old claim.
diff_claim_values(old, new) ==
  {x \in Slots : new[x].src # 0 /\ \A o \in Slots : old[o] # new[x]}

\* The devices reported: those with a name that no old device has.
diff_device_values(old, new) ==
  {x \in 1 .. Len(new) : new[x].unique_number # Blank
     /\ \A o \in 1 .. Len(old) : old[o].unique_number # new[x].unique_number}

\* The sources reported of an array, each with its value; a source given twice
\* counts with the last.
ToldOf(old, new) ==
  LET X == diff_values(old, new)
  IN [s \in {new[x].src : x \in X} |->
        new[CHOOSE x \in X : new[x].src = s /\ \A y \in X : new[y].src = s => y <= x].value]

\* The message of a step of the parser: its values, addresses and models.
ValueNews ==
  LET told == [q \in {r \in Quantities : state'[r] # state[r]} |-> ToldOf(state[q], state'[q])]
  IN [t \in UNION {{q} \X DOMAIN told[q] : q \in DOMAIN told} |-> told[t[1]][t[2]]]

ClaimNews ==
  LET claimed == {claims'[x] : x \in diff_claim_values(claims, claims')}
  IN [t \in {<<"claims", c.unique_number>> : c \in claimed} |->
        (CHOOSE c \in claimed : c.unique_number = t[2]).src]

DeviceNews ==
  LET products == {devices'[x] : x \in diff_device_values(devices, devices')}
  IN [t \in {<<"devices", d.unique_number>> : d \in products} |->
        (CHOOSE d \in products : d.unique_number = t[2]).model]

build_diff == Over(ValueNews, Over(ClaimNews, DeviceNews))

\* The topics of the first n messages pending that no later one speaks of.
OnlyIn(n) ==
  (UNION {DOMAIN news[i] : i \in 1 .. n}) \ UNION {DOMAIN news[i] : i \in n + 1 .. Len(news)}

\* parse_nmea makes a message, and returns 1, when the line left a difference.
hasdiff(diff) == DOMAIN diff # {}

\* process_buffer with one line: a difference is offered to the feed.
process_buffer ==
  /\ BusLine \/ \E l \in Lines : ValueLine(l)
  /\ LET diff == build_diff IN
     IF ~hasdiff(diff) THEN UNCHANGED view_vars
     ELSE /\ offered < MaxMessages
          /\ Feed!Offer
          /\ Len(pending') <= MaxPending
          /\ IF Len(pending') > Len(pending)
               THEN news' = Append(news, diff) /\ lost' = lost \ DOMAIN diff
               ELSE UNCHANGED news /\ lost' = lost \cup DOMAIN diff
          /\ UNCHANGED view

\* A difference reaches the cloud; any before it are lost.
Deliver ==
  /\ Feed!Deliver
  /\ LET n == Len(pending) - Len(pending') IN
     /\ news' = SubSeq(news, n + 1, Len(news))
     /\ view' = Over(news[n], view)
     /\ lost' = lost \cup (OnlyIn(n - 1) \ DOMAIN news[n])
  /\ UNCHANGED vars

\* The link loses differences that it had accepted.
Discard ==
  /\ Feed!Discard
  /\ LET n == Len(pending) - Len(pending') IN
     news' = SubSeq(news, n + 1, Len(news)) /\ lost' = lost \cup OnlyIn(n)
  /\ UNCHANGED <<vars, view>>

\* The last news on a topic that is pending or arrived.
Latest(t) ==
  LET S == {i \in 1 .. Len(news) : t \in DOMAIN news[i]}
  IN IF S # {} THEN news[CHOOSE i \in S : \A j \in S : j <= i][t]
     ELSE IF t \in DOMAIN view THEN view[t] ELSE Absent

\* The process is started again: the ring is gone with the old one.  What the
\* new one reads from claim.state, the last save perhaps of a claim that was
\* never sent, or an old file, is not sent either.
RestartAll ==
  /\ Restart
  /\ pending' = <<>> /\ news' = <<>> /\ UNCHANGED <<offered, last, view>>
  /\ lost' = lost \cup OnlyIn(Len(news))
       \cup {<<"claims", claims'[x].unique_number>> :
               x \in {y \in Slots : claims'[y].src # 0
                        /\ claims'[y].src # Latest(<<"claims", claims'[y].unique_number>>)}}
       \cup {<<"devices", devices'[x].unique_number>> :
               x \in {y \in 1 .. Len(devices') :
                        devices'[y].model # Latest(<<"devices", devices'[y].unique_number>>)}}

ViewNext ==
  \/ process_buffer
  \/ set_nmea_sources /\ UNCHANGED view_vars
  \/ Deliver
  \/ Discard
  \/ RestartAll

ViewSpec == ViewInit /\ [][ViewNext]_all_vars
-----------------------------------------------------------------------------
\* Types.
ViewTypeOK ==
  /\ ParserTypeOK
  /\ Feed!TypeOK
  /\ Len(news) = Len(pending)

\* No source has two slots and the cloud knows, or will, the value in each,
\* unless the latest news of that source was lost: the differences, each
\* against the state before its line, add up to the state, over restarts and
\* losses, although a slot is reported only when it equals no slot of the old
\* array.  Where more sources than slots come, the values that fall out of the
\* array harm the next quantity and no other, not even their own.
CloudKnowsSlots ==
  \A q \in Quantities \ overrun, x \in SourceSlots :
    LET slot == state[q][x] IN
      slot.src # 0 => /\ <<q, slot.src>> \in lost \/ Latest(<<q, slot.src>>) = slot.value
                      /\ \A y \in SourceSlots : state[q][y].src = slot.src => y = x

\* The same of the computed true wind, which is stored as a free slot is: the
\* cloud knows it unless it is zero.  (A true wind that becomes zero equals
\* the unused slots of the old array and is not reported.)
CloudKnowsTrueWind ==
  \A q \in (TrueWinds \cap Quantities) \ overrun :
    LET v == state[q][1].value IN
      v # Zero => <<q, 0>> \in lost \/ Latest(<<q, 0>>) = v

\* The cloud knows, or will, the address of each device in the table of claims
\* and the model of each in the table of devices, unless the latest news of it
\* was lost: entries are freed unannounced, used again by other names and
\* recovered from a file, and what is in a table is never told again.
CloudKnowsBus ==
  /\ \A x \in Live : LET t == <<"claims", claims[x].unique_number>> IN
       t \in lost \/ Latest(t) = claims[x].src
  /\ \A x \in 1 .. Len(devices) : LET t == <<"devices", devices[x].unique_number>> IN
       t[2] # Blank => t \in lost \/ Latest(t) = devices[x].model
=============================================================================
