----------------------------- MODULE MCAudioFork -----------------------------
(* Instances of AudioFork for TLC.                                          *)
EXTENDS AudioFork, TLC

ForkCallerSymmetry == Permutations(Pipes) \union Permutations(Callers)

\* No property of the runs that use it names a caller, nor is one temporal
\* beyond the steps of [][Next]_vars.
CallerSymmetry == Permutations(Callers)

\* Bound: the hangup ends the run; what it races with is in AudioFork_session.
WhileUp == \A s \in Sessions : up[s]
=============================================================================
