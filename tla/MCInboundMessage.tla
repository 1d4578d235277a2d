--------------------------- MODULE MCInboundMessage ---------------------------
(* Instances of InboundMessage for TLC. *)
EXTENDS InboundMessage
\* No definition tells one key from another, in either table.
Symmetry == Permutations(Keys) \cup Permutations(CalibKeys)
=============================================================================
