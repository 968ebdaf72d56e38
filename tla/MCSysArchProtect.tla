--------------------------- MODULE MCSysArchProtect ---------------------------
(* Instances of SysArchProtect for TLC. *)
EXTENDS SysArchProtect

CONSTANTS t1, t2, t3, i1, i2
=============================================================================
