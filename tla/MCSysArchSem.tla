----------------------------- MODULE MCSysArchSem -----------------------------
(* Instances of SysArchSem for TLC. *)
EXTENDS SysArchSem

CONSTANTS w1, w2
=============================================================================
