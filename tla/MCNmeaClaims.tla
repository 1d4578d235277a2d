----------------------------- MODULE MCNmeaClaims -----------------------------
(* Instances of NmeaClaims for TLC. *)
EXTENDS NmeaClaims, TLC
Unknown == -1
\* No definition tells one name from another.
Symmetry == Permutations(Names)
=============================================================================
