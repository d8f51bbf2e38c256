------------------------------- MODULE MCAvmd -------------------------------
(* Instances of Avmd for TLC.                                               *)
EXTENDS Avmd, TLC
=============================================================================
