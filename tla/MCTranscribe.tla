---------------------------- MODULE MCTranscribe ----------------------------
(* Instances of Transcribe for TLC.                                         *)
EXTENDS Transcribe, TLC

\* Two commands run at once, or a stream was started while they did.
Beside == raced # {} \/ \A c \in Callers : at[c] # "idle"

(***************************************************************************)
(* Bound: commands run beside each other only while the session is up and  *)
(* between frames, on streams that were opened at once and that recognise  *)
(* more than one utterance.                                                *)
(***************************************************************************)
SmallRaces ==
  Beside => /\ up
            /\ at[Media] \notin FrameSteps
            /\ \A s \in Streams : ~vad[s] /\ ~single[s]
=============================================================================
