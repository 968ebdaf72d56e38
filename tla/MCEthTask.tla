------------------------------ MODULE MCEthTask ------------------------------
(* Instances of EthTask for TLC. *)
EXTENDS EthTask

CONSTANTS c1, c2, b1, b2
=============================================================================
