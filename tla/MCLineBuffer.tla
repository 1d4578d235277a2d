----------------------------- MODULE MCLineBuffer -----------------------------
(* Instances of LineBuffer for TLC. *)
EXTENDS LineBuffer
=============================================================================
