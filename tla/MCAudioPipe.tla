----------------------------- MODULE MCAudioPipe -----------------------------
(* Instances of AudioPipe for TLC.                                          *)
EXTENDS AudioPipe, TLC

PipeThreadSymmetry == Permutations(Pipes) \union Permutations(Threads)
=============================================================================
