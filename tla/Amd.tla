-------------------------------- MODULE Amd --------------------------------
(***************************************************************************)
(* mod_amd on one channel (mod_amd.c): the frame analysis that decides     *)
(* whether a person or a machine answered, the callback that publishes the *)
(* verdict, and the applications voice_start and waitforresult.            *)
(*                                                                         *)
(* Time is in milliseconds and stands still during a frame.  The level of  *)
(* a frame is noise or silence (hangover and hangunder are 0 in the code,  *)
(* so no frame is passed over).  ah->total_time adds up the bytes of the   *)
(* frames and is compared, in thousands, with total_analysis_time: it is   *)
(* counted in frames.  amd_status follows from amd_result and is left out. *)
(*                                                                         *)
(* voice_start stores its bug under "_amd_" before the bug exists, a NULL: *)
(* so nothing keeps a second start away, and voice_stop finds nothing.     *)
(*                                                                         *)
(* FreeSWITCH is external: it delivers frames, if any, answers and hangs   *)
(* up.                                                                     *)
(***************************************************************************)
EXTENDS Naturals, Sequences, FiniteSets

CONSTANTS
  Helpers,            \* the detections that voice_start begins
  Gaps,               \* the times between two frames
  Epoch,              \* the time at the start, since 1970
  TotalAnalysisTime,  \* in frames
  SilentInitial,
  SilentAfterIntro,
  SilentMaxSession,
  NoiseMaxIntro,
  NoiseMinLength,
  NoiseInterSilence,
  NoiseMaxCount,
  WaitForAnswer,      \* the channel variable amd_wait_for_answer
  None                \* NULL

Results == {"too-long", "max-count", "max-intro", "silent-initial", "silent-after-intro"}

ASSUME SettingsAssumption ==
  {TotalAnalysisTime, SilentInitial, SilentAfterIntro, SilentMaxSession,
   NoiseMaxIntro, NoiseMinLength, NoiseInterSilence, NoiseMaxCount} \subseteq Nat

ASSUME ClockAssumption == Gaps \subseteq Nat \ {0} /\ Epoch \in Nat \ {0}

ASSUME NoneAssumption == None \notin Helpers \union Results /\ WaitForAnswer \in BOOLEAN

VARIABLES
  now,        \* switch_micro_time_now, in ms
  up,         \* the channel is not hung up
  answered,   \* CF_ANSWERED
  helper,     \* the amd_helper of each detection
  started,    \* the detections that were begun
  installed,  \* those whose bug is on the session
  handle,     \* the channel's private "_amd_handle_"
  variable,   \* the channel variable amd_result
  at,         \* where the applications are
  heard       \* history: the frames each detection has analysed

channel == <<up, answered, handle, variable>>
bugs == <<started, installed>>
vars == <<now, channel, helper, bugs, at, heard>>

\* What amd_function and the callback have made of it.
Steps == {"listening", "over", "reported", "complete"}

Helper ==
  [step : Steps,
   amd_result : Results \union {None},
   noise : BOOLEAN,                 \* ah->state
   state_silent_initial : BOOLEAN,
   state_intro : BOOLEAN,
   talking_min : BOOLEAN,
   total_time : Nat,
   total_noise_count : Nat,
   end_session : Nat,
   last_noisy : Nat,
   last_silent : Nat,
   first_noisy : Nat,
   first_silent : Nat,
   intro_silent : Nat]

TypeOK ==
  /\ now \in Nat
  /\ up \in BOOLEAN
  /\ answered \in BOOLEAN
  /\ helper \in [Helpers -> Helper]
  /\ started \subseteq Helpers
  /\ installed \subseteq started
  /\ handle \in started \union {None}
  /\ variable \in Results \union {None}
  /\ at \in {"idle", "waiting"}
  /\ heard \in [Helpers -> Seq([time : Nat, noisy : BOOLEAN])]

\* What voice_start_function puts into a helper.
NewHelper ==
  [step |-> "listening", amd_result |-> None, noise |-> FALSE, state_silent_initial |-> TRUE,
   state_intro |-> FALSE, talking_min |-> FALSE, total_time |-> 0,
   total_noise_count |-> 0, end_session |-> 0, last_noisy |-> 0, last_silent |-> 0, first_noisy |-> 0,
   first_silent |-> 0, intro_silent |-> 0]

Init ==
  /\ now = Epoch
  /\ up = TRUE
  /\ answered \in BOOLEAN
  /\ helper = [h \in Helpers |-> NewHelper]
  /\ started = {}
  /\ installed = {}
  /\ handle = None
  /\ variable = None
  /\ at = "idle"
  /\ heard = [h \in Helpers |-> <<>>]

-----------------------------------------------------------------------------
(* amd_function: what a frame at time t makes of the helper h.             *)

Verdict(h, result) == [h EXCEPT !.amd_result = result, !.step = "over"]

\* Mutant: end_session stays what it was.
Lingers_Still(h, result, t) ==
  IF h.end_session >= SilentMaxSession THEN Verdict(h, result)
  ELSE [h EXCEPT !.amd_result = result]

\* A result that waits until end_session has added up to silent_max_session.
Lingers(h, result, t) ==
  IF h.end_session >= SilentMaxSession THEN Verdict(h, result)
  ELSE [h EXCEPT !.amd_result = result,
                 !.end_session = @ + (t - h.last_noisy)]

TooLong(h, t) ==
  IF h.total_time < TotalAnalysisTime THEN h ELSE Lingers(h, "too-long", t)

StartsTalking(h, t) ==
  IF h.noise THEN h ELSE [h EXCEPT !.noise = TRUE, !.first_noisy = t]

\* The talk is long enough: it is counted, once, and ends the initial silence.
Talk(h, t) ==
  LET gap == IF t - h.last_silent >= NoiseInterSilence THEN 1 ELSE 0
      counted == [h EXCEPT !.talking_min = FALSE,
                           !.total_noise_count = @ + gap,
                           !.state_intro = @ \/ h.state_silent_initial,
                           !.state_silent_initial = FALSE]
  IN  IF ~h.talking_min THEN h
      ELSE IF counted.total_noise_count >= NoiseMaxCount
           THEN Verdict(counted, "max-count")
           ELSE counted

Intro(h, t) ==
  LET spoken == [h EXCEPT !.intro_silent = t]
  IN  IF ~h.state_intro \/ h.step = "over" THEN h
      ELSE IF t - h.last_silent >= NoiseMaxIntro THEN Verdict(spoken, "max-count")
      ELSE IF t - h.last_noisy >= NoiseMaxIntro THEN Lingers(spoken, "max-intro", t)
      ELSE spoken

Noise(h, t) ==
  LET talking == StartsTalking(h, t)
  IN  IF t - talking.first_noisy < NoiseMinLength THEN talking
      ELSE Intro(Talk(talking, t), t)

StopsTalking(h, t) ==
  IF h.noise THEN [h EXCEPT !.noise = FALSE, !.first_silent = t] ELSE h

StaysSilent(h, t) ==
  IF h.first_silent # 0 /\ h.state_silent_initial /\ t - h.first_silent >= SilentInitial
  THEN Lingers(h, "silent-initial", t)
  ELSE h

\* Mutant: the silence is taken from the last noise of any length.
AfterIntro_Noise(h, t) ==
  IF h.step # "over" /\ h.state_intro /\ t - h.last_noisy >= SilentAfterIntro - 1
  THEN Verdict([h EXCEPT !.state_intro = FALSE], "silent-after-intro")
  ELSE h

AfterIntro(h, t) ==
  IF h.step # "over" /\ h.state_intro /\ t - h.intro_silent >= SilentAfterIntro
  THEN Verdict([h EXCEPT !.state_intro = FALSE], "silent-after-intro")
  ELSE h

Silence(h, t) == AfterIntro(StaysSilent(StopsTalking(h, t), t), t)

Passed(h, t) ==
  IF h.noise THEN [h EXCEPT !.last_noisy = t]
  ELSE [h EXCEPT !.last_silent = t, !.talking_min = TRUE,
                 !.first_silent = IF @ = 0 THEN t ELSE @]

Analysed(h, noisy, t) ==
  LET timed == TooLong([h EXCEPT !.total_time = @ + 1], t)
      listened == IF timed.step = "over" THEN timed
                  ELSE IF noisy THEN Noise(timed, t) ELSE Silence(timed, t)
  IN  IF listened.step = "over" THEN listened ELSE Passed(listened, t)

-----------------------------------------------------------------------------
(* amd_callback.                                                           *)

Listens(h) ==
  /\ h \in installed
  /\ helper[h].step = "listening"
  /\ WaitForAnswer => answered

Deciding == {h \in installed : helper[h].step \in {"over", "reported"}}

\* The next frame, for every bug of the channel.
Frame(noisy, gap) ==
  /\ up
  /\ Deciding = {}
  /\ \E h \in Helpers : Listens(h)
  /\ now' = now + gap
  /\ helper' = [h \in Helpers |->
       IF Listens(h) THEN Analysed(helper[h], noisy, now') ELSE helper[h]]
  /\ heard' = [h \in Helpers |->
       IF Listens(h) THEN Append(heard[h], [time |-> now', noisy |-> noisy])
       ELSE heard[h]]
  /\ UNCHANGED <<channel, bugs, at>>

\* The variable and the event; then ah->complete, and the bug is taken off.
Report(h) ==
  /\ h \in installed
  /\ helper[h].step = "over"
  /\ variable' = helper[h].amd_result
  /\ helper' = [helper EXCEPT ![h].step = "reported"]
  /\ UNCHANGED <<now, up, answered, handle, bugs, at, heard>>

\* Mutant: the detection is not marked complete.
Completed_Not(h) == helper

Completed(h) == [helper EXCEPT ![h].step = "complete"]

Complete(h) ==
  /\ h \in installed
  /\ helper[h].step = "reported"
  /\ helper' = Completed(h)
  /\ installed' = installed \ {h}
  /\ UNCHANGED <<now, channel, started, at, heard>>

-----------------------------------------------------------------------------
(* The applications, one after the other on the session's thread.          *)

\* Mutant: a helper that was used before is taken again.
Taken_Again(h) == started

Taken(h) == started \union {h}

\* If the bug cannot be added the channel is hung up.
VoiceStart(h) ==
  /\ at = "idle"
  /\ up
  /\ h \notin started
  /\ started' = Taken(h)
  /\ handle' = h
  /\ \/ installed' = installed \union {h} /\ UNCHANGED up
     \/ up' = FALSE /\ UNCHANGED installed
  /\ UNCHANGED <<now, answered, variable, helper, at, heard>>

\* It answers the channel, and returns at once if no detection was begun.
WaitForResult ==
  /\ at = "idle"
  /\ up
  /\ handle # None
  /\ answered' = TRUE
  /\ at' = "waiting"
  /\ UNCHANGED <<now, up, handle, variable, helper, bugs, heard>>

HasResult == helper[handle].step = "complete" /\ variable # None

\* The loop ends with a result or with the hangup; it looks every 10 ms.
WaitEnds ==
  /\ at = "waiting"
  /\ HasResult \/ ~up
  /\ at' = "idle"
  /\ UNCHANGED <<now, channel, helper, bugs, heard>>

Answer ==
  /\ up
  /\ ~answered
  /\ answered' = TRUE
  /\ UNCHANGED <<now, up, handle, variable, helper, bugs, at, heard>>

Hangup ==
  /\ up
  /\ up' = FALSE
  /\ UNCHANGED <<now, answered, handle, variable, helper, bugs, at, heard>>

Next ==
  \/ \E noisy \in BOOLEAN, gap \in Gaps : Frame(noisy, gap)
  \/ \E h \in Helpers : VoiceStart(h) \/ Report(h) \/ Complete(h)
  \/ WaitForResult
  \/ WaitEnds
  \/ Answer
  \/ Hangup

Spec == Init /\ [][Next]_vars

\* The callback and the loop go on; frames need not come.
Fairness ==
  /\ \A h \in Helpers : WF_vars(Report(h)) /\ WF_vars(Complete(h))
  /\ WF_vars(WaitEnds)

FairSpec == Spec /\ Fairness

-----------------------------------------------------------------------------
(* Properties.                                                             *)

(***************************************************************************)
(* The analysis ends, whatever the callee says: the results that wait for  *)
(* silent_max_session add at least a millisecond per frame, because the    *)
(* frame's own time is not yet in last_noisy when it is looked at.         *)
(***************************************************************************)
AnalysisIsBounded ==
  \A h \in Helpers : Len(heard[h]) <= TotalAnalysisTime + SilentMaxSession

\* The frame with which the noise or the silence of frame i began.
RunStart(f, i) ==
  CHOOSE j \in 1..i :
    /\ \A k \in j..i : f[k].noisy = f[i].noisy
    /\ j > 1 => f[j - 1].noisy # f[i].noisy

RunTime(f, i) == f[i].time - f[RunStart(f, i)].time

\* Frame i is of a talk, one that came after a silence.
IsTalk(f, i) ==
  /\ f[i].noisy
  /\ RunTime(f, i) >= NoiseMinLength
  /\ RunStart(f, i) > 1

SinceSilence(f, i) == f[i].time - f[RunStart(f, i) - 1].time

\* The talks that count, each with the frame in which it becomes one.
Talks(f) ==
  {i \in 1..Len(f) : /\ IsTalk(f, i)
                     /\ ~IsTalk(f, i - 1)
                     /\ SinceSilence(f, i) >= NoiseInterSilence}

\* What the frames must have been for a result.
Justifies(f, result) ==
  LET n == Len(f)
  IN  CASE result = "too-long" -> n >= TotalAnalysisTime
        [] result = "max-count" ->
             /\ IsTalk(f, n)
             /\ \/ Cardinality(Talks(f)) >= NoiseMaxCount
                \/ SinceSilence(f, n) >= NoiseMaxIntro
        [] result = "silent-initial" ->
             /\ ~f[n].noisy
             /\ RunTime(f, n) >= SilentInitial
             /\ \A i \in 1..n : ~IsTalk(f, i)
        [] result = "silent-after-intro" ->
             /\ ~f[n].noisy
             /\ \E i \in 1..n : IsTalk(f, i)
             /\ \A i \in 1..n : IsTalk(f, i) => f[n].time - f[i].time >= SilentAfterIntro
        [] OTHER -> FALSE

(***************************************************************************)
(* Someone picked up the phone and did not say anything for silent_initial,*)
(* or said hello and then nothing for silent_after_intro: a person.  Talks *)
(* too often or too long after a silence: a machine.  The result that is   *)
(* published is the one its frames justify, and it is never max-intro.  A  *)
(* talk from the first frame on is no talk for the code, and so not here.  *)
(***************************************************************************)
ResultIsJustified ==
  \A h \in Helpers : helper[h].step # "listening" =>
    Justifies(heard[h], helper[h].amd_result)

(***************************************************************************)
(* waitforresult returns when its detection has decided and when the       *)
(* channel hangs up, also if the channel has two detections.               *)
(***************************************************************************)
WaitReturns ==
  at = "waiting" /\ (helper[handle].step = "over" \/ ~up) ~> at = "idle"
=============================================================================
