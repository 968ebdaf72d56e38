------------------------------ MODULE MCDynTick ------------------------------
(* Instances of DynTick for TLC: an 8-bit timer and OS_TICK.  2^8, like
   2^32, is 6 modulo 10, so tick-to-count conversions wrap the same way. *)
EXTENDS DynTick

AllDelays == 0..2^Bits - 1

=============================================================================
