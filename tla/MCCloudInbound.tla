--------------------------- MODULE MCCloudInbound ---------------------------
(* Instances of CloudInbound for TLC. *)
EXTENDS CloudInbound
=============================================================================
