---------------------------- MODULE MCDialogflow ----------------------------
(* Instances of Dialogflow for TLC.                                         *)
EXTENDS Dialogflow, TLC
=============================================================================
