------------------------------- MODULE AisList -------------------------------
(***************************************************************************)
(* The other vessels: the list of ais.c, which parse_nmea updates with     *)
(* every AIS line and shows whole to a display that connects.  A display   *)
(* that was there got the fields of each line as they were.                *)
(*                                                                         *)
(* "heading" stands for all the numbers that are always shown.             *)
(***************************************************************************)
EXTENDS Integers, Sequences, FiniteSets

CONSTANTS
  Vessels, \* the User IDs (MMSI)
  Values,  \* the values of fields
  Zero,    \* 0 or the empty string: what memset leaves
  Null,    \* what is neither a number nor a string
  Absent   \* for heard: never sent

\* A User ID is a 32-bit number.
ASSUME AisAssumption ==
  /\ IsFiniteSet(Vessels)
  /\ Zero \in Values /\ Null \notin Values /\ Absent \notin Values

Fields == {"name", "heading", "beam", "length"}

VARIABLES
  list, \* list: the vessels in the order they were added
  heard \* history: the last value of each field sent since the start

vars == <<list, heard>>

Boat == [mmsi : Vessels, data : [Fields -> Values]]
NothingHeard == [m \in Vessels |-> [f \in Fields |-> Absent]]

Init == list = <<>> /\ heard = NothingHeard
-----------------------------------------------------------------------------
\* Mutant: what is not a value clears the field.
update_ais_value_clears(data, fields) ==
  [f \in Fields |-> IF f \notin DOMAIN fields THEN data[f]
                    ELSE IF fields[f] = Null THEN Zero ELSE fields[f]]

\* The calls of update_ais_value: what is absent or no value leaves the field.
update_ais_value(data, fields) ==
  [f \in Fields |-> IF f \in DOMAIN fields /\ fields[f] # Null THEN fields[f] ELSE data[f]]

\* Mutant: the last vessel of the list is not compared.
KnownBefore(m) == {i \in 1 .. Len(list) - 1 : list[i].mmsi = m}

Entries(m) == {i \in 1 .. Len(list) : list[i].mmsi = m}

\* The first entry of the vessel is updated, or a new one is added.
add_or_update_ais(m, fields) ==
  IF Entries(m) # {}
    THEN LET i == CHOOSE j \in Entries(m) : \A k \in Entries(m) : j <= k
         IN [list EXCEPT ![i].data = update_ais_value(@, fields)]
  ELSE Append(list, [mmsi |-> m,
                     data |-> update_ais_value([f \in Fields |-> Zero], fields)])

\* parse_nmea, PGN 129038, 129039 and 129794.
AisLine(m, fields) ==
  /\ list' = add_or_update_ais(m, fields)
  /\ heard' = [heard EXCEPT ![m] =
       [f \in Fields |-> IF f \in DOMAIN fields /\ fields[f] # Null
                           THEN fields[f] ELSE heard[m][f]]]

\* The process ends, perhaps at an AIS line without a User ID, which makes it
\* exit, and is started again.
Restart == list' = <<>> /\ heard' = NothingHeard

Next ==
  \/ \E m \in Vessels, F \in SUBSET Fields :
       \E fields \in [F -> Values \cup {Null}] : AisLine(m, fields)
  \/ Restart

Spec == Init /\ [][Next]_vars
-----------------------------------------------------------------------------
\* The fields of a boat that get_ais_state shows.
Shown(data) ==
  {f \in Fields : \/ f = "heading"
                  \/ f = "name" /\ data["name"] # Zero
                  \/ f \in {"beam", "length"} /\ Zero \notin {data["beam"], data["length"]}}

\* get_ais_state: the shown fields under each User ID; an object with a key
\* twice would show a display either.
get_ais_state ==
  {[mmsi |-> list[i].mmsi,
    shown |-> [f \in Shown(list[i].data) |-> list[i].data[f]]] : i \in 1 .. Len(list)}

\* Types; the list has an entry for each vessel at most.
ListTypeOK == list \in Seq(Boat) /\ Len(list) <= Cardinality(Vessels)

\* What a display that connects late is shown of a vessel is what one that
\* heard every line knows, however static and position reports alternate:
\* no vessel twice, no field stale or cleared by a report without it, and
\* nothing made up but the zero of a number never sent.
LateDisplayAgrees ==
  \A s \in get_ais_state :
    /\ \A t \in get_ais_state : t.mmsi = s.mmsi => t = s
    /\ \A f \in DOMAIN s.shown :
         \/ s.shown[f] = heard[s.mmsi][f]
         \/ f = "heading" /\ s.shown[f] = Zero /\ heard[s.mmsi][f] = Absent
    /\ \A f \in Fields \ DOMAIN s.shown :
         \/ heard[s.mmsi][f] \in {Zero, Absent}
         \/ \E g \in {"beam", "length"} : f \in {"beam", "length"}
                                          /\ heard[s.mmsi][g] \in {Zero, Absent}
=============================================================================
