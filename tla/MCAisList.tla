------------------------------ MODULE MCAisList ------------------------------
(* Instances of AisList for TLC. *)
EXTENDS AisList
=============================================================================
