------------------------------ MODULE ConfigMap ------------------------------
(***************************************************************************)
(* What the configuration of the boat promises: a map from keys to values  *)
(* that the messages to the boat change, and a saved copy of it that a     *)
(* restart reads.  A message may command a change, announce a state, or    *)
(* both; only what was commanded is saved.  A save may fail or be cut      *)
(* short: then the copy is an older map, or has lost keys or values; it    *)
(* never holds a value that its key was not given.                         *)
(*                                                                         *)
(* ConfigStore, under InboundMessage, implements this specification.       *)
(***************************************************************************)
CONSTANTS
  Keys,
  Values,  \* with the empty string, Blank, which is also a cleared value
  Blank,
  Absent   \* what the map says of a key it does not hold

VARIABLES
  current, \* the configuration in force
  saved    \* the copy a restart will read

vars == <<current, saved>>

Map == [Keys -> Values \cup {Absent}]

Init ==
  /\ current = [k \in Keys |-> Absent]
  /\ saved = current

\* What a command makes of the map.  A key is cleared by making its value
\* empty; one never set stays absent.
Commanded ==
  {[current EXCEPT ![k] = v] : k \in Keys, v \in Values} \cup
  {[current EXCEPT ![k] = IF @ = Absent THEN Absent ELSE Blank] : k \in Keys}

\* n is the map m after an announced state, which gives some keys a value or
\* clears them.
Adopts(n, m) == n \in Map /\ \A k \in Keys : n[k] \in Values \cup {m[k]}

\* s is what saving m may leave.
Copy(s, m) ==
  \/ s \in {saved, m}
  \/ s \in Map /\ \A k \in Keys : s[k] \in {m[k], Absent, Blank}

Message ==
  \/ Adopts(current', current) /\ UNCHANGED saved
  \/ \E m \in Commanded : Adopts(current', m) /\ Copy(saved', m)

Restart ==
  /\ current' = saved
  /\ UNCHANGED saved

Next == Message \/ Restart

Spec == Init /\ [][Next]_vars
=============================================================================
