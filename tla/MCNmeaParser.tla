----------------------------- MODULE MCNmeaParser -----------------------------
(* Instances of NmeaParser for TLC. *)
EXTENDS NmeaParser
Unknown == -1
\* The lines of a kind from the addresses S with any of the fields V.
LinesOf(kind, S, V) ==
  {[kind |-> kind, src |-> s, fields |-> f] : s \in S, f \in [ToSet(Carries[kind]) -> V]}
Headings == LinesOf("heading", Addresses, {Zero, Absent})
\* No definition tells one name from another.
Symmetry == Permutations(Names)
=============================================================================
