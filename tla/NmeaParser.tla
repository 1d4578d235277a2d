------------------------------ MODULE NmeaParser ------------------------------
(***************************************************************************)
(* The values of the boat: struct nmea_state and struct nmea_sources of    *)
(* nmea_parser.c, over the tables of NmeaClaims.  parse_nmea takes a line  *)
(* of JSON from the bus, stores the values it carries in the slot of its   *)
(* source, and reports the slots that changed; process_inbound_message     *)
(* chooses the devices that some quantities are taken from.                *)
(*                                                                         *)
(* Lines that do not parse, that lack "fields" or a heading's Reference,   *)
(* or whose pgn is none of these change nothing.  PGN 126992 may set the   *)
(* system clock and the AIS pgns keep a list of their own: left out.       *)
(* CloudView says what becomes of the differences.                         *)
(***************************************************************************)
EXTENDS NmeaClaims, SequencesExt

CONSTANTS
  Lines,      \* the lines with values that the bus carries
  Values,     \* the values of fields
  Zero,       \* 0, among them: what memset leaves, and a null is read as
  Null,       \* a field that is null
  Absent,     \* a field that is not in the line
  MaxSources  \* MAXSOURCES: the slots of a quantity

VARIABLES
  state,        \* state: for each quantity, its slots
  sources,      \* sources: the names chosen; Blank: any
  sources_file, \* nmea.sources
  overrun       \* history: the quantities that a value past another's array fell in

value_vars == <<state, sources, sources_file, overrun>>
vars == <<claim_vars, value_vars>>

\* The arrays of struct nmea_state, in their order.
Layout == <<"heading", "variation", "trueheading", "sog", "cog", "aws", "awa", "tws",
            "twa", "twd", "lng", "lat", "speed", "depth", "pitch", "roll", "rot">>

\* The quantities of a kind of line, in the order they are stored.
Carries == [heading |-> <<"heading">>, trueheading |-> <<"trueheading">>,
            variation |-> <<"variation">>, position |-> <<"lng", "lat">>,
            cogsog |-> <<"cog", "sog">>, depth |-> <<"depth">>,
            attitude |-> <<"pitch", "roll">>, speed |-> <<"speed">>,
            wind |-> <<"awa", "aws">>, rate |-> <<"rot">>]

Kinds == {l.kind : l \in Lines}

\* The true wind, which is computed, and what it is computed from.
TrueWinds == {"tws", "twa", "twd"}
WindNeeds == {"sog", "cog", "heading"}

\* The quantity behind q, which a value past its array falls in; none behind
\* the last.
Behind(q) == {Layout[i] : i \in {j \in 2 .. Len(Layout) : Layout[j - 1] = q}}

\* The quantities that the kinds on the bus store or need, each with the one
\* behind it.
Quantities ==
  LET used == (UNION {ToSet(Carries[k]) : k \in Kinds})
                \cup (IF "wind" \in Kinds THEN TrueWinds \cup WindNeeds ELSE {})
  IN used \cup UNION {Behind(q) : q \in used}

\* The kinds whose device can be chosen, and under which member of sources;
\* the members that the kinds on the bus have a use for.
FilterOf == [heading |-> "heading", trueheading |-> "heading",
             position |-> "position", attitude |-> "attitude"]
Filters == {FilterOf[k] : k \in Kinds \cap DOMAIN FilterOf}

ASSUME ParserAssumption ==
  /\ \A l \in Lines :
       /\ l.kind \in DOMAIN Carries /\ l.src \in Addresses
       /\ l.fields \in [ToSet(Carries[l.kind]) -> Values \cup {Null, Absent}]
  /\ Zero \in Values /\ Null \notin Values /\ Absent \notin Values /\ Null # Absent
  /\ MaxSources \in Nat \ {0}

SourceSlots == 1 .. MaxSources
Sources == Addresses \cup {0}
Slot == [src : Sources, value : Values]
EmptyState == [q \in Quantities |-> [x \in SourceSlots |-> [src |-> 0, value |-> Zero]]]
AnyDevice == [f \in Filters |-> Blank]

\* What new says, and of the rest what old does.
Over(new, old) ==
  [t \in DOMAIN new \cup DOMAIN old |-> IF t \in DOMAIN new THEN new[t] ELSE old[t]]

StartValues(chosen) ==
  /\ state' = EmptyState /\ sources' = chosen /\ sources_file' = chosen
  /\ overrun' = {}

Init ==
  /\ ClaimsInit
  /\ state = EmptyState /\ sources = AnyDevice /\ sources_file = AnyDevice
  /\ overrun = {}
-----------------------------------------------------------------------------
\* Where insert_or_replace stops: the source's slot, or the first free one.
Room(slots, s) == {x \in SourceSlots : slots[x].src \in {0, s}}

\* Mutant: the slot of the source is not looked for.
insert_first_free(st, q, s, v) ==
  LET free == {x \in SourceSlots : st[q][x].src = 0}
  IN IF free = {} THEN st ELSE [st EXCEPT ![q][First(free)] = [src |-> s, value |-> v]]

\* With all slots in use by others the value is stored past the array: in the
\* first slot of the next one, or, for the last one, outside the state.
insert_or_replace(st, q, s, v) ==
  LET room == Room(st[q], s)
      slot == [src |-> s, value |-> v]
  IN IF room # {} THEN [st EXCEPT ![q][First(room)] = slot]
     ELSE [p \in DOMAIN st |->
             IF p \in Behind(q) THEN [st[p] EXCEPT ![1] = slot] ELSE st[p]]

\* Where a value of s for q falls that has no room.
Past(st, q, s) == IF Room(st[q], s) = {} THEN Behind(q) ELSE {}

\* Mutant: a null is stored as it is.
update_nmea_value_null(st, q, s, field) ==
  IF field = Absent THEN st ELSE insert_or_replace(st, q, s, field)

\* A field of a line: a null is stored as 0, an absent one is not stored.
update_nmea_value(st, q, s, field) ==
  IF field = Absent THEN st
  ELSE insert_or_replace(st, q, s, IF field = Null THEN Zero ELSE field)

\* The state after the fields of a line, one or two.
Stored(kind, s, fields) ==
  LET store(st, q) == update_nmea_value(st, q, s, fields[q])
      first        == store(state, Carries[kind][1])
  IN IF Len(Carries[kind]) = 1 THEN first ELSE store(first, Carries[kind][2])

\* get_state_value with source 0: some source has sent the quantity.
Known(q) == \E x \in SourceSlots : state[q][x].src # 0

\* A field that is absent is not null, and read as 0.
is_field_value_null(fields, q) == fields[q] = Null

\* True wind is computed from a wind line whose angle is not null, with the
\* state before it.
Computes(kind, fields) ==
  kind = "wind" /\ ~is_field_value_null(fields, "awa") /\ \A q \in WindNeeds : Known(q)

\* get_true, of truewind.h: the values stored under source 0.
TrueWind(st) ==
  {insert_or_replace(insert_or_replace(insert_or_replace(st,
      "tws", 0, tws), "twa", 0, twa), "twd", 0, twd) : tws, twa, twd \in Values}

\* The line is from the device chosen, if one is.
Accepted(kind, s) ==
  kind \in DOMAIN FilterOf => LET n == sources[FilterOf[kind]] IN
    n = Blank \/ get_unique_number(s) = n

\* parse_nmea on a line with values.
ValueLine(l) ==
  /\ Accepted(l.kind, l.src)
  /\ LET stored == Stored(l.kind, l.src, l.fields)
         given  == {q \in DOMAIN l.fields : l.fields[q] # Absent}
         fallen == UNION {Past(state, q, l.src) : q \in given}
     IN IF Computes(l.kind, l.fields)
          THEN /\ state' \in TrueWind(stored)
               /\ overrun' = overrun \cup fallen \cup UNION {Past(stored, q, 0) : q \in TrueWinds}
          ELSE state' = stored /\ overrun' = overrun \cup fallen
  /\ UNCHANGED <<claim_vars, sources, sources_file>>

\* The other lines of parse_nmea.
BusLine ==
  \/ \E s \in Addresses, n \in Names : ClaimLine(s, n) /\ UNCHANGED value_vars
  \/ \E s \in Addresses, m \in Models : DeviceLine(s, m) /\ UNCHANGED value_vars

\* process_inbound_message with "sources": the members it has are chosen,
\* and all are saved, in one piece; the file is empty if the disk is full.
set_nmea_sources ==
  \E F \in SUBSET Filters : \E s \in [F -> Names \cup {Blank}] :
    /\ sources' = Over(s, sources) /\ sources_file' \in {sources', AnyDevice}
    /\ UNCHANGED <<claim_vars, state, overrun>>

\* The process ends and is started again.  A crash in the save of
\* nmea.sources leaves it empty.
Restart == CrashClaims /\ \E f \in {sources_file, AnyDevice} : StartValues(f)

Next ==
  \/ \E l \in Lines : ValueLine(l)
  \/ BusLine
  \/ set_nmea_sources
  \/ Restart

Spec == Init /\ [][Next]_vars
-----------------------------------------------------------------------------
\* Types.
ParserTypeOK ==
  /\ state \in [Quantities -> [SourceSlots -> Slot]]
  /\ sources \in [Filters -> Names \cup {Blank}]
  /\ sources_file \in [Filters -> Names \cup {Blank}]
  /\ overrun \subseteq Quantities

\* What is stored of a source under a quantity.
ValuesOf(q, s) == {state[q][x].value : x \in {y \in SourceSlots : state[q][y].src = s}}

\* Once a device is chosen, nothing is stored of another address than the one
\* it is known to hold, but for a value that fell out of another's array: the
\* filter follows the device as it moves on the bus and as its old entries are
\* used again.
OnlyChosenDevice ==
  [][\A kind \in Kinds \cap DOMAIN FilterOf, s \in Addresses \ {0} :
       LET n == sources[FilterOf[kind]] IN
       n \in Names /\ heard[n] \notin {s, Unheard} =>
         \A q \in ToSet(Carries[kind]) \ overrun' :
           ValuesOf(q, s)' \in {ValuesOf(q, s), {}}]_vars
=============================================================================
