----------------------------- MODULE MCCloudView -----------------------------
(* Instances of CloudView for TLC. *)
EXTENDS CloudView
Unknown == -1
\* The lines of a kind from the addresses S with any of the fields V.
LinesOf(kind, S, V) ==
  {[kind |-> kind, src |-> s, fields |-> f] : s \in S, f \in [ToSet(Carries[kind]) -> V]}
\* Speeds from four addresses, 0 among them; from 1 also what true wind is computed from.
SpeedAndWind ==
  LinesOf("speed", {1, 2}, Values) \cup LinesOf("speed", {3}, {Zero})
    \cup LinesOf("speed", {0}, Values \ {Zero})
    \cup LinesOf("heading", {1}, {Null}) \cup LinesOf("cogsog", {1}, {Zero})
    \cup {l \in LinesOf("wind", {1}, {Zero, Null}) : l.fields["aws"] = Zero}
NoLines == {}
\* No definition tells one name from another.
Symmetry == Permutations(Names)
=============================================================================
