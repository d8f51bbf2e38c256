------------------------------- MODULE MCAmd -------------------------------
(* Instances of Amd for TLC.                                                *)
EXTENDS Amd, TLC
=============================================================================
