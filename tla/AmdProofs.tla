----------------------------- MODULE AmdProofs -----------------------------
(***************************************************************************)
(* Proofs about Amd, for any number of detections on the channel, any      *)
(* settings and any times between the frames.                              *)
(***************************************************************************)
EXTENDS Amd, FiniteSetTheorems, TLAPS

-----------------------------------------------------------------------------
(* What the parts of amd_function do to a helper.                          *)

\* Everything but step, amd_result and end_session.
SameTrack(g, k) ==
  /\ k.noise = g.noise
  /\ (k.state_silent_initial <=> g.state_silent_initial)
  /\ (k.state_intro <=> g.state_intro)
  /\ (k.talking_min <=> g.talking_min)
  /\ k.total_time = g.total_time
  /\ k.total_noise_count = g.total_noise_count
  /\ k.last_noisy = g.last_noisy
  /\ k.last_silent = g.last_silent
  /\ k.first_noisy = g.first_noisy
  /\ k.first_silent = g.first_silent
  /\ k.intro_silent = g.intro_silent

\* A time that was long enough is so later on.
LEMMA LongerYet ==
  ASSUME NEW b \in Nat, NEW e \in Nat, NEW later \in Nat, NEW m \in Nat,
         e - b >= m, e < later
  PROVE  later - b >= m
  OBVIOUS

\* The constants are numbers.
LEMMA Settings ==
  /\ TotalAnalysisTime \in Nat /\ SilentInitial \in Nat /\ SilentAfterIntro \in Nat
  /\ SilentMaxSession \in Nat /\ NoiseMaxIntro \in Nat /\ NoiseMinLength \in Nat
  /\ NoiseInterSilence \in Nat /\ NoiseMaxCount \in Nat
  /\ Epoch \in Nat \ {0} /\ \A gap \in Gaps : gap \in Nat \ {0}
  /\ None \notin Results /\ None \notin Helpers
  BY SettingsAssumption, ClockAssumption, NoneAssumption

\* A verdict sets the result and the step.
LEMMA VerdictFields ==
  ASSUME NEW g \in Helper, NEW r \in Results
  PROVE  /\ Verdict(g, r) \in Helper
         /\ SameTrack(g, Verdict(g, r))
         /\ Verdict(g, r).end_session = g.end_session
         /\ Verdict(g, r).step = "over"
         /\ Verdict(g, r).amd_result = r
  BY DEF Verdict, Helper, Steps, SameTrack

\* A result that waits: a verdict, or end_session has grown.
LEMMA LingersFields ==
  ASSUME NEW g \in Helper, NEW r \in Results, NEW t \in Nat, g.last_noisy <= t,
         NEW k, k = Lingers(g, r, t)
  PROVE  /\ k \in Helper
         /\ SameTrack(g, k)
         /\ IF g.end_session >= SilentMaxSession
            THEN k.step = "over" /\ k.amd_result = r /\ k.end_session = g.end_session
            ELSE k.step = g.step /\ k.end_session = g.end_session + (t - g.last_noisy)
<1>1. CASE g.end_session >= SilentMaxSession
  <2>1. k = Verdict(g, r)
    BY <1>1 DEF Lingers
  <2> QED BY <1>1, <2>1, VerdictFields
<1>2. CASE ~(g.end_session >= SilentMaxSession)
  <2>1. k = [g EXCEPT !.amd_result = r, !.end_session = @ + (t - g.last_noisy)]
    BY <1>2 DEF Lingers
  <2>2. g.end_session \in Nat /\ g.last_noisy \in Nat
    BY DEF Helper
  <2>3. g.end_session + (t - g.last_noisy) \in Nat
    BY <2>2
  <2> QED BY <1>2, <2>1, <2>2, <2>3 DEF Helper, SameTrack
<1> QED BY <1>1, <1>2

\* The frame is counted; the analysis may have lasted too long.
LEMMA TooLongFields ==
  ASSUME NEW g \in Helper, NEW t \in Nat, g.last_noisy <= t, g.step = "listening",
         NEW k, k = TooLong([g EXCEPT !.total_time = @ + 1], t)
  PROVE  /\ k \in Helper
         /\ SameTrack([g EXCEPT !.total_time = @ + 1], k)
         /\ k.step \in {"listening", "over"}
         /\ k.step = "over" => /\ g.total_time + 1 >= TotalAnalysisTime
                               /\ k.amd_result = "too-long"
         /\ k.step = "listening" =>
              /\ k.end_session >= g.end_session
              /\ g.total_time + 1 >= TotalAnalysisTime =>
                   /\ g.end_session < SilentMaxSession
                   /\ k.end_session = g.end_session + (t - g.last_noisy)
<1> DEFINE c == [g EXCEPT !.total_time = @ + 1]
<1>1. g.total_time \in Nat /\ g.end_session \in Nat /\ g.last_noisy \in Nat
  BY DEF Helper
<1>2. /\ c \in Helper /\ c.total_time = g.total_time + 1 /\ c.step = "listening"
      /\ c.end_session = g.end_session /\ c.last_noisy = g.last_noisy
  BY <1>1 DEF Helper
<1> HIDE DEF c
<1>3. k = TooLong(c, t)
  BY DEF c
<1>4. CASE g.total_time + 1 < TotalAnalysisTime
  <2>1. k = c
    BY <1>2, <1>3, <1>4 DEF TooLong
  <2>2. SameTrack([g EXCEPT !.total_time = @ + 1], k)
    BY <2>1 DEF c, SameTrack
  <2>3. ~(g.total_time + 1 >= TotalAnalysisTime)
    BY <1>1, <1>4, Settings
  <2> QED BY <1>1, <1>2, <2>1, <2>2, <2>3
<1>5. CASE ~(g.total_time + 1 < TotalAnalysisTime)
  <2>1. k = Lingers(c, "too-long", t)
    BY <1>2, <1>3, <1>5 DEF TooLong
  <2>2. /\ k \in Helper
        /\ SameTrack(c, k)
        /\ IF c.end_session >= SilentMaxSession
           THEN k.step = "over" /\ k.amd_result = "too-long" /\ k.end_session = c.end_session
           ELSE k.step = c.step /\ k.end_session = c.end_session + (t - c.last_noisy)
    BY <1>2, <2>1, LingersFields DEF Results
  <2>3. g.total_time + 1 >= TotalAnalysisTime
    BY <1>1, <1>5, Settings
  <2>4. SameTrack([g EXCEPT !.total_time = @ + 1], k)
    BY <2>2 DEF c
  <2> QED BY <1>1, <1>2, <2>2, <2>3, <2>4, Settings
<1> QED BY <1>4, <1>5

-----------------------------------------------------------------------------
(* A noisy frame.                                                          *)

\* When the noise of this frame began.
Since(g, t) == IF g.noise THEN g.first_noisy ELSE t

\* The noise begins, or goes on.
LEMMA StartsTalkingFields ==
  ASSUME NEW g \in Helper, NEW t \in Nat, NEW k, k = StartsTalking(g, t)
  PROVE  /\ k \in Helper
         /\ k.noise /\ k.first_noisy = Since(g, t)
         /\ k.step = g.step /\ k.end_session = g.end_session
         /\ k.total_time = g.total_time /\ k.total_noise_count = g.total_noise_count
         /\ (k.state_intro <=> g.state_intro) /\ (k.state_silent_initial <=> g.state_silent_initial)
         /\ (k.talking_min <=> g.talking_min) /\ k.intro_silent = g.intro_silent
         /\ k.last_noisy = g.last_noisy /\ k.last_silent = g.last_silent
         /\ k.first_silent = g.first_silent
<1>1. CASE g.noise
  BY <1>1 DEF StartsTalking, Since, Helper
<1>2. CASE ~g.noise
  BY <1>2 DEF StartsTalking, Since, Helper
<1> QED BY <1>1, <1>2

\* A noise that is long enough is counted, if it has not been.
Counts(g, t) == g.talking_min /\ t - g.last_silent >= NoiseInterSilence

LEMMA TalkFields ==
  ASSUME NEW g \in Helper, NEW t \in Nat, g.step = "listening", NEW k, k = Talk(g, t)
  PROVE  /\ k \in Helper
         /\ k.noise = g.noise /\ k.first_noisy = g.first_noisy
         /\ k.end_session = g.end_session /\ k.total_time = g.total_time
         /\ k.last_noisy = g.last_noisy /\ k.last_silent = g.last_silent
         /\ k.first_silent = g.first_silent /\ k.intro_silent = g.intro_silent
         /\ ~k.talking_min
         /\ k.total_noise_count = g.total_noise_count + (IF Counts(g, t) THEN 1 ELSE 0)
         /\ g.talking_min => /\ ~k.state_silent_initial
                             /\ (k.state_intro <=> (g.state_intro \/ g.state_silent_initial))
         /\ ~g.talking_min => /\ (k.state_silent_initial <=> g.state_silent_initial)
                              /\ (k.state_intro <=> g.state_intro)
         /\ k.step \in {"listening", "over"}
         /\ k.step = "over" => /\ k.amd_result = "max-count"
                               /\ g.talking_min
                               /\ k.total_noise_count >= NoiseMaxCount
<1>1. CASE ~g.talking_min
  <2>1. k = g
    BY <1>1 DEF Talk
  <2>2. ~Counts(g, t) /\ g.talking_min = FALSE
    BY <1>1 DEF Counts, Helper
  <2> QED BY <1>1, <2>1, <2>2 DEF Helper
<1>2. CASE g.talking_min
  <2> DEFINE gap == IF t - g.last_silent >= NoiseInterSilence THEN 1 ELSE 0
             c == [g EXCEPT !.talking_min = FALSE,
                            !.total_noise_count = @ + gap,
                            !.state_intro = @ \/ g.state_silent_initial,
                            !.state_silent_initial = FALSE]
  <2>1. gap = (IF Counts(g, t) THEN 1 ELSE 0) /\ gap \in Nat
    BY <1>2 DEF Counts
  <2>2. k = IF c.total_noise_count >= NoiseMaxCount THEN Verdict(c, "max-count") ELSE c
    BY <1>2 DEF Talk
  <2> HIDE DEF gap
  <2>3. /\ g.total_noise_count + gap \in Nat
        /\ (g.state_intro \/ g.state_silent_initial) \in BOOLEAN
    BY <2>1 DEF Helper
  <2>4. /\ c \in Helper
        /\ c.noise = g.noise /\ c.first_noisy = g.first_noisy
        /\ c.end_session = g.end_session /\ c.total_time = g.total_time
        /\ c.last_noisy = g.last_noisy /\ c.last_silent = g.last_silent
        /\ c.first_silent = g.first_silent /\ c.intro_silent = g.intro_silent
        /\ ~c.talking_min /\ c.step = "listening"
        /\ c.total_noise_count = g.total_noise_count + gap
        /\ ~c.state_silent_initial
        /\ (c.state_intro <=> (g.state_intro \/ g.state_silent_initial))
    BY <2>3 DEF Helper
  <2> HIDE DEF c
  <2>5. CASE c.total_noise_count >= NoiseMaxCount
    <3>1. k = Verdict(c, "max-count")
      BY <2>2, <2>5
    <3> QED BY <1>2, <2>1, <2>4, <2>5, <3>1, VerdictFields DEF SameTrack, Results
  <2>6. CASE ~(c.total_noise_count >= NoiseMaxCount)
    <3>1. k = c
      BY <2>2, <2>6
    <3> QED BY <1>2, <2>1, <2>4, <3>1
  <2> QED BY <2>5, <2>6
<1> QED BY <1>1, <1>2

\* What the introduction adds: the time of this talk, and perhaps a verdict.
LEMMA IntroFields ==
  ASSUME NEW g \in Helper, NEW t \in Nat, g.last_noisy <= t, g.step \in {"listening", "over"},
         NEW k, k = Intro(g, t)
  PROVE  /\ k \in Helper
         /\ k.noise = g.noise /\ k.first_noisy = g.first_noisy
         /\ k.total_time = g.total_time /\ k.total_noise_count = g.total_noise_count
         /\ k.last_noisy = g.last_noisy /\ k.last_silent = g.last_silent
         /\ k.first_silent = g.first_silent /\ (k.talking_min <=> g.talking_min)
         /\ (k.state_silent_initial <=> g.state_silent_initial)
         /\ (k.state_intro <=> g.state_intro)
         /\ k.end_session >= g.end_session
         /\ k.intro_silent = IF g.state_intro /\ g.step = "listening" THEN t ELSE g.intro_silent
         /\ k.step \in {"listening", "over"}
         /\ g.step = "over" => k = g
         /\ g.step = "listening" /\ k.step = "over" =>
              \/ /\ k.amd_result = "max-count"
                 /\ g.state_intro /\ t - g.last_silent >= NoiseMaxIntro
              \/ /\ k.amd_result = "max-intro"
                 /\ g.state_intro
                 /\ ~(t - g.last_silent >= NoiseMaxIntro)
                 /\ t - g.last_noisy >= NoiseMaxIntro
<1> DEFINE s == [g EXCEPT !.intro_silent = t]
<1>1. /\ s \in Helper
      /\ s.noise = g.noise /\ s.first_noisy = g.first_noisy
      /\ s.total_time = g.total_time /\ s.total_noise_count = g.total_noise_count
      /\ s.last_noisy = g.last_noisy /\ s.last_silent = g.last_silent
      /\ s.first_silent = g.first_silent /\ (s.talking_min <=> g.talking_min)
      /\ (s.state_silent_initial <=> g.state_silent_initial)
      /\ (s.state_intro <=> g.state_intro) /\ s.step = g.step
      /\ s.end_session = g.end_session /\ s.intro_silent = t
  BY DEF Helper
<1>2. k = IF ~g.state_intro \/ g.step = "over" THEN g
          ELSE IF t - g.last_silent >= NoiseMaxIntro THEN Verdict(s, "max-count")
          ELSE IF t - g.last_noisy >= NoiseMaxIntro THEN Lingers(s, "max-intro", t)
          ELSE s
  BY DEF Intro
<1>3. g.end_session \in Nat /\ g.last_noisy \in Nat /\ g.state_intro \in BOOLEAN
  BY DEF Helper
<1> HIDE DEF s
<1>4. CASE ~g.state_intro \/ g.step = "over"
  <2>1. k = g
    BY <1>2, <1>4
  <2> QED BY <1>3, <1>4, <2>1
<1>5. CASE ~(~g.state_intro \/ g.step = "over") /\ t - g.last_silent >= NoiseMaxIntro
  <2>1. k = Verdict(s, "max-count")
    BY <1>2, <1>5
  <2> QED BY <1>1, <1>3, <1>5, <2>1, VerdictFields DEF SameTrack, Results
<1>6. CASE /\ ~(~g.state_intro \/ g.step = "over") /\ ~(t - g.last_silent >= NoiseMaxIntro)
           /\ t - g.last_noisy >= NoiseMaxIntro
  <2>1. k = Lingers(s, "max-intro", t)
    BY <1>2, <1>6
  <2>2. /\ k \in Helper /\ SameTrack(s, k)
        /\ IF s.end_session >= SilentMaxSession
           THEN k.step = "over" /\ k.amd_result = "max-intro" /\ k.end_session = s.end_session
           ELSE k.step = s.step /\ k.end_session = s.end_session + (t - s.last_noisy)
    BY <1>1, <2>1, LingersFields DEF Results
  <2> QED BY <1>1, <1>3, <1>6, <2>2 DEF SameTrack
<1>7. CASE /\ ~(~g.state_intro \/ g.step = "over") /\ ~(t - g.last_silent >= NoiseMaxIntro)
           /\ ~(t - g.last_noisy >= NoiseMaxIntro)
  <2>1. k = s
    BY <1>2, <1>7
  <2> QED BY <1>1, <1>3, <1>7, <2>1
<1> QED BY <1>4, <1>5, <1>6, <1>7

(***************************************************************************)
(* A noisy frame: a noise shorter than noise_min_length leaves everything  *)
(* but its beginning as it was.                                            *)
(***************************************************************************)
LEMMA NoiseFields ==
  ASSUME NEW g \in Helper, NEW t \in Nat, g.last_noisy <= t, g.step = "listening",
         NEW k, k = Noise(g, t)
  PROVE  /\ k \in Helper
         /\ k.noise /\ k.first_noisy = Since(g, t) /\ k.total_time = g.total_time
         /\ k.last_noisy = g.last_noisy /\ k.last_silent = g.last_silent
         /\ k.first_silent = g.first_silent
         /\ k.end_session >= g.end_session
         /\ k.step \in {"listening", "over"}
         /\ t - Since(g, t) < NoiseMinLength =>
              /\ k.step = "listening"
              /\ (k.talking_min <=> g.talking_min)
              /\ k.total_noise_count = g.total_noise_count
              /\ (k.state_silent_initial <=> g.state_silent_initial)
              /\ (k.state_intro <=> g.state_intro) /\ k.intro_silent = g.intro_silent
         /\ ~(t - Since(g, t) < NoiseMinLength) =>
              /\ ~k.talking_min
              /\ k.total_noise_count = g.total_noise_count + (IF Counts(g, t) THEN 1 ELSE 0)
              /\ (k.state_intro <=> (g.state_intro \/ (g.talking_min /\ g.state_silent_initial)))
              /\ (k.state_silent_initial <=> (~g.talking_min /\ g.state_silent_initial))
              /\ k.step = "listening" =>
                   k.intro_silent = IF k.state_intro THEN t ELSE g.intro_silent
              /\ k.step = "over" =>
                   \/ /\ k.amd_result = "max-count"
                      /\ g.talking_min /\ k.total_noise_count >= NoiseMaxCount
                   \/ /\ k.amd_result = "max-count"
                      /\ k.state_intro /\ t - g.last_silent >= NoiseMaxIntro
                   \/ /\ k.amd_result = "max-intro"
                      /\ k.state_intro
                      /\ ~(t - g.last_silent >= NoiseMaxIntro)
                      /\ t - g.last_noisy >= NoiseMaxIntro
<1> DEFINE a == StartsTalking(g, t)
           b == Talk(a, t)
<1>1. /\ a \in Helper
      /\ a.noise /\ a.first_noisy = Since(g, t)
      /\ a.step = g.step /\ a.end_session = g.end_session
      /\ a.total_time = g.total_time /\ a.total_noise_count = g.total_noise_count
      /\ (a.state_intro <=> g.state_intro) /\ (a.state_silent_initial <=> g.state_silent_initial)
      /\ (a.talking_min <=> g.talking_min) /\ a.intro_silent = g.intro_silent
      /\ a.last_noisy = g.last_noisy /\ a.last_silent = g.last_silent
      /\ a.first_silent = g.first_silent
  BY StartsTalkingFields
<1>2. k = IF t - a.first_noisy < NoiseMinLength THEN a ELSE Intro(b, t)
  BY DEF Noise
<1>3. g.end_session \in Nat /\ g.talking_min \in BOOLEAN /\ g.state_intro \in BOOLEAN
      /\ g.state_silent_initial \in BOOLEAN
  BY DEF Helper
<1> HIDE DEF a
<1>4. CASE t - Since(g, t) < NoiseMinLength
  <2>1. k = a
    BY <1>1, <1>2, <1>4
  <2> QED BY <1>1, <1>3, <1>4, <2>1
<1>5. CASE ~(t - Since(g, t) < NoiseMinLength)
  <2>1. k = Intro(b, t)
    BY <1>1, <1>2, <1>5
  <2>2. Counts(a, t) = Counts(g, t)
    BY <1>1 DEF Counts
  <2>3. /\ b \in Helper
        /\ b.noise /\ b.first_noisy = Since(g, t)
        /\ b.end_session = g.end_session /\ b.total_time = g.total_time
        /\ b.last_noisy = g.last_noisy /\ b.last_silent = g.last_silent
        /\ b.first_silent = g.first_silent /\ b.intro_silent = g.intro_silent
        /\ ~b.talking_min
        /\ b.total_noise_count = g.total_noise_count + (IF Counts(g, t) THEN 1 ELSE 0)
        /\ (b.state_silent_initial <=> (~g.talking_min /\ g.state_silent_initial))
        /\ (b.state_intro <=> (g.state_intro \/ (g.talking_min /\ g.state_silent_initial)))
        /\ b.step \in {"listening", "over"}
        /\ b.step = "over" => /\ b.amd_result = "max-count"
                              /\ g.talking_min
                              /\ b.total_noise_count >= NoiseMaxCount
    <3>1. CASE g.talking_min
      BY <1>1, <1>3, <2>2, <3>1, TalkFields
    <3>2. CASE ~g.talking_min
      BY <1>1, <1>3, <2>2, <3>2, TalkFields
    <3> QED BY <3>1, <3>2
  <2> HIDE DEF b
  <2>4. /\ k \in Helper
        /\ (k.noise <=> b.noise) /\ k.first_noisy = b.first_noisy
        /\ k.total_time = b.total_time /\ k.total_noise_count = b.total_noise_count
        /\ k.last_noisy = b.last_noisy /\ k.last_silent = b.last_silent
        /\ k.first_silent = b.first_silent /\ (k.talking_min <=> b.talking_min)
        /\ (k.state_silent_initial <=> b.state_silent_initial)
        /\ (k.state_intro <=> b.state_intro)
        /\ k.end_session >= b.end_session
        /\ k.intro_silent = IF b.state_intro /\ b.step = "listening" THEN t ELSE b.intro_silent
        /\ k.step \in {"listening", "over"}
        /\ b.step = "over" => k = b
        /\ b.step = "listening" /\ k.step = "over" =>
              \/ /\ k.amd_result = "max-count"
                 /\ b.state_intro /\ t - b.last_silent >= NoiseMaxIntro
              \/ /\ k.amd_result = "max-intro"
                 /\ b.state_intro
                 /\ ~(t - b.last_silent >= NoiseMaxIntro)
                 /\ t - b.last_noisy >= NoiseMaxIntro
    BY <2>1, <2>3, IntroFields
  <2>5. k.step = "listening" => b.step = "listening"
    BY <2>3, <2>4
  <2> QED BY <1>5, <2>3, <2>4, <2>5
<1> QED BY <1>4, <1>5

-----------------------------------------------------------------------------
(* A silent frame, and the end of both.                                    *)

\* When the silence of this frame began: 0 before the first has passed.
SilentSince(g, t) == IF g.noise THEN t ELSE g.first_silent

LEMMA SilenceFields ==
  ASSUME NEW g \in Helper, NEW t \in Nat, g.last_noisy <= t, g.step = "listening",
         NEW k, k = Silence(g, t)
  PROVE  /\ k \in Helper
         /\ ~k.noise /\ k.first_silent = SilentSince(g, t)
         /\ k.total_time = g.total_time /\ k.total_noise_count = g.total_noise_count
         /\ k.last_noisy = g.last_noisy /\ k.last_silent = g.last_silent
         /\ k.intro_silent = g.intro_silent
         /\ (k.state_silent_initial <=> g.state_silent_initial)
         /\ k.end_session >= g.end_session
         /\ k.step \in {"listening", "over"}
         /\ k.step = "listening" => (k.state_intro <=> g.state_intro)
         /\ k.step = "over" =>
              \/ /\ k.amd_result = "silent-initial"
                 /\ SilentSince(g, t) # 0 /\ g.state_silent_initial
                 /\ t - SilentSince(g, t) >= SilentInitial
              \/ /\ k.amd_result = "silent-after-intro"
                 /\ g.state_intro /\ t - g.intro_silent >= SilentAfterIntro
<1> DEFINE a == StopsTalking(g, t)
           b == StaysSilent(a, t)
<1>1. /\ a \in Helper
      /\ ~a.noise /\ a.first_silent = SilentSince(g, t)
      /\ a.total_time = g.total_time /\ a.total_noise_count = g.total_noise_count
      /\ a.last_noisy = g.last_noisy /\ a.last_silent = g.last_silent
      /\ a.intro_silent = g.intro_silent
      /\ (a.state_silent_initial <=> g.state_silent_initial)
      /\ (a.state_intro <=> g.state_intro)
      /\ a.end_session = g.end_session /\ a.step = "listening"
  <2>1. CASE g.noise
    BY <2>1 DEF StopsTalking, SilentSince, Helper
  <2>2. CASE ~g.noise
    BY <2>2 DEF StopsTalking, SilentSince, Helper
  <2> QED BY <2>1, <2>2
<1>2. k = AfterIntro(b, t)
  BY DEF Silence
<1>3. b = IF a.first_silent # 0 /\ a.state_silent_initial /\ t - a.first_silent >= SilentInitial
          THEN Lingers(a, "silent-initial", t) ELSE a
  BY DEF StaysSilent
<1> HIDE DEF a
<1>4. g.end_session \in Nat /\ g.last_noisy \in Nat
  BY DEF Helper
<1>5. /\ b \in Helper
      /\ ~b.noise /\ b.first_silent = SilentSince(g, t)
      /\ b.total_time = g.total_time /\ b.total_noise_count = g.total_noise_count
      /\ b.last_noisy = g.last_noisy /\ b.last_silent = g.last_silent
      /\ b.intro_silent = g.intro_silent
      /\ (b.state_silent_initial <=> g.state_silent_initial)
      /\ (b.state_intro <=> g.state_intro)
      /\ b.end_session >= g.end_session
      /\ b.step \in {"listening", "over"}
      /\ b.step = "over" => /\ b.amd_result = "silent-initial"
                            /\ SilentSince(g, t) # 0 /\ g.state_silent_initial
                            /\ t - SilentSince(g, t) >= SilentInitial
  <2>1. CASE a.first_silent # 0 /\ a.state_silent_initial /\ t - a.first_silent >= SilentInitial
    <3>1. b = Lingers(a, "silent-initial", t)
      BY <1>3, <2>1
    <3>2. /\ b \in Helper /\ SameTrack(a, b)
          /\ IF a.end_session >= SilentMaxSession
             THEN /\ b.step = "over" /\ b.amd_result = "silent-initial"
                  /\ b.end_session = a.end_session
             ELSE b.step = a.step /\ b.end_session = a.end_session + (t - a.last_noisy)
      BY <1>1, <3>1, LingersFields DEF Results
    <3> QED BY <1>1, <1>4, <2>1, <3>2 DEF SameTrack
  <2>2. CASE ~(/\ a.first_silent # 0 /\ a.state_silent_initial
               /\ t - a.first_silent >= SilentInitial)
    <3>1. b = a
      BY <1>3, <2>2
    <3> QED BY <1>1, <1>4, <3>1
  <2> QED BY <2>1, <2>2
<1> HIDE DEF b
<1>6. CASE b.step # "over" /\ b.state_intro /\ t - b.intro_silent >= SilentAfterIntro
  <2> DEFINE c == [b EXCEPT !.state_intro = FALSE]
  <2>1. k = Verdict(c, "silent-after-intro")
    BY <1>2, <1>6 DEF AfterIntro
  <2>2. /\ c \in Helper
        /\ ~c.noise /\ c.first_silent = b.first_silent
        /\ c.total_time = b.total_time /\ c.total_noise_count = b.total_noise_count
        /\ c.last_noisy = b.last_noisy /\ c.last_silent = b.last_silent
        /\ c.intro_silent = b.intro_silent
        /\ (c.state_silent_initial <=> b.state_silent_initial)
        /\ c.end_session = b.end_session
    BY <1>5 DEF Helper
  <2> HIDE DEF c
  <2>3. /\ k \in Helper /\ SameTrack(c, k) /\ k.end_session = c.end_session
        /\ k.step = "over" /\ k.amd_result = "silent-after-intro"
    BY <2>1, <2>2, VerdictFields DEF Results
  <2> QED BY <1>5, <1>6, <2>2, <2>3 DEF SameTrack
<1>7. CASE ~(b.step # "over" /\ b.state_intro /\ t - b.intro_silent >= SilentAfterIntro)
  <2>1. k = b
    BY <1>2, <1>7 DEF AfterIntro
  <2> QED BY <1>5, <2>1
<1> QED BY <1>6, <1>7

\* The frame leaves its time.
LEMMA PassedFields ==
  ASSUME NEW g \in Helper, NEW t \in Nat, NEW k, k = Passed(g, t)
  PROVE  /\ k \in Helper
         /\ (k.noise <=> g.noise) /\ k.first_noisy = g.first_noisy
         /\ k.total_time = g.total_time /\ k.total_noise_count = g.total_noise_count
         /\ (k.state_silent_initial <=> g.state_silent_initial)
         /\ (k.state_intro <=> g.state_intro) /\ k.intro_silent = g.intro_silent
         /\ k.end_session = g.end_session /\ k.step = g.step
         /\ g.noise => /\ k.last_noisy = t /\ k.last_silent = g.last_silent
                       /\ (k.talking_min <=> g.talking_min)
                       /\ k.first_silent = g.first_silent
         /\ ~g.noise => /\ k.last_noisy = g.last_noisy /\ k.last_silent = t
                        /\ k.talking_min
                        /\ k.first_silent = IF g.first_silent = 0 THEN t ELSE g.first_silent
<1>1. CASE g.noise
  BY <1>1 DEF Passed, Helper
<1>2. CASE ~g.noise
  <2>1. CASE g.first_silent = 0
    BY <1>2, <2>1 DEF Passed, Helper
  <2>2. CASE g.first_silent # 0
    BY <1>2, <2>2 DEF Passed, Helper
  <2> QED BY <2>1, <2>2
<1> QED BY <1>1, <1>2

-----------------------------------------------------------------------------
(* A whole frame.                                                          *)

(***************************************************************************)
(* Whatever the frame is, the helper stays a helper, and the budget of     *)
(* silent_max_session is spent as soon as the analysis has lasted too long.*)
(***************************************************************************)
LEMMA AnalysedFields ==
  ASSUME NEW g \in Helper, NEW t \in Nat, g.last_noisy <= t, g.step = "listening",
         NEW noisy \in BOOLEAN, NEW k, k = Analysed(g, noisy, t)
  PROVE  /\ k \in Helper
         /\ k.step \in {"listening", "over"}
         /\ k.last_noisy <= t
         /\ k.total_time = g.total_time + 1
         /\ k.step = "listening" =>
              /\ k.end_session >= g.end_session
              /\ g.total_time + 1 >= TotalAnalysisTime =>
                   /\ g.end_session < SilentMaxSession
                   /\ k.end_session >= g.end_session + (t - g.last_noisy)
<1> DEFINE a == TooLong([g EXCEPT !.total_time = @ + 1], t)
           b == IF a.step = "over" THEN a ELSE IF noisy THEN Noise(a, t) ELSE Silence(a, t)
<1>1. k = IF b.step = "over" THEN b ELSE Passed(b, t)
  BY DEF Analysed
<1>2. /\ a \in Helper
      /\ a.total_time = g.total_time + 1 /\ a.last_noisy = g.last_noisy
      /\ a.step \in {"listening", "over"}
      /\ a.step = "listening" =>
              /\ a.end_session >= g.end_session
              /\ g.total_time + 1 >= TotalAnalysisTime =>
                   /\ g.end_session < SilentMaxSession
                   /\ a.end_session = g.end_session + (t - g.last_noisy)
  <2>1. [g EXCEPT !.total_time = @ + 1].total_time = g.total_time + 1
    BY DEF Helper
  <2>2. [g EXCEPT !.total_time = @ + 1].last_noisy = g.last_noisy
    BY DEF Helper
  <2> QED BY <2>1, <2>2, TooLongFields DEF SameTrack
<1>3. b = IF a.step = "over" THEN a ELSE IF noisy THEN Noise(a, t) ELSE Silence(a, t)
  OBVIOUS
<1> HIDE DEF a, b
<1>4. /\ b \in Helper
      /\ b.step \in {"listening", "over"}
      /\ b.total_time = a.total_time /\ b.last_noisy = a.last_noisy
      /\ b.step = "listening" => a.step = "listening" /\ b.end_session >= a.end_session
  <2>1. CASE a.step = "over"
    BY <1>2, <1>3, <2>1
  <2>2. CASE a.step # "over" /\ noisy
    <3>1. b = Noise(a, t) /\ a.step = "listening" /\ a.last_noisy <= t
      BY <1>2, <1>3, <2>2
    <3> QED BY <1>2, <3>1, NoiseFields
  <2>3. CASE a.step # "over" /\ ~noisy
    <3>1. b = Silence(a, t) /\ a.step = "listening" /\ a.last_noisy <= t
      BY <1>2, <1>3, <2>3
    <3> QED BY <1>2, <3>1, SilenceFields
  <2> QED BY <2>1, <2>2, <2>3
<1>5. /\ k \in Helper /\ k.step = b.step /\ k.total_time = b.total_time
      /\ k.end_session = b.end_session /\ k.last_noisy \in {b.last_noisy, t}
  <2>1. CASE b.step = "over"
    BY <1>1, <1>4, <2>1
  <2>2. CASE b.step # "over"
    BY <1>1, <1>4, <2>2, PassedFields
  <2> QED BY <2>1, <2>2
<1>6. g.end_session \in Nat /\ g.last_noisy \in Nat /\ a.end_session \in Nat /\ b.end_session \in Nat
  BY <1>2, <1>4 DEF Helper
<1> QED BY <1>2, <1>4, <1>5, <1>6

\* The callback only moves the step.
LEMMA StepFields ==
  ASSUME NEW g \in Helper, NEW s \in Steps, NEW k, k = [g EXCEPT !.step = s]
  PROVE  k \in Helper /\ k.step = s /\ k.amd_result = g.amd_result /\ k.last_noisy = g.last_noisy
  BY DEF Helper

\* The frame that h hears between two times, and what a helper may become else.
Hears(h) ==
  \E noisy \in BOOLEAN :
    /\ now' \in Nat /\ now < now'
    /\ helper[h].step = "listening"
    /\ helper'[h] = Analysed(helper[h], noisy, now')
    /\ heard'[h] = Append(heard[h], [time |-> now', noisy |-> noisy])

Decides(h) ==
  /\ heard'[h] = heard[h]
  /\ helper[h].step # "listening"
  /\ \E s \in Steps \ {"listening"} : helper'[h] = [helper[h] EXCEPT !.step = s]

Rests(h) == heard'[h] = heard[h] /\ helper'[h] = helper[h]

(***************************************************************************)
(* A step is a frame, a step of the callback after the verdict, or nothing *)
(* to a detection.                                                         *)
(***************************************************************************)
LEMMA StepCases ==
  ASSUME TypeOK, [Next]_vars
  PROVE  /\ now' \in Nat /\ now <= now'
         /\ helper' = [h \in Helpers |-> helper'[h]]
         /\ heard' = [h \in Helpers |-> heard'[h]]
         /\ \A h \in Helpers : Hears(h) \/ Decides(h) \/ Rests(h)
<1>1. /\ now \in Nat
      /\ helper = [h \in Helpers |-> helper[h]]
      /\ heard = [h \in Helpers |-> heard[h]]
  BY DEF TypeOK
<1>2. CASE \E noisy \in BOOLEAN, gap \in Gaps : Frame(noisy, gap)
  <2>1. PICK noisy \in BOOLEAN, gap \in Gaps : Frame(noisy, gap)
    BY <1>2
  <2>2. now' \in Nat /\ now < now'
    BY <1>1, <2>1, Settings DEF Frame
  <2>3. ASSUME NEW h \in Helpers PROVE Hears(h) \/ Rests(h)
    <3>1. CASE Listens(h)
      BY <2>1, <2>2, <3>1 DEF Frame, Hears, Listens
    <3>2. CASE ~Listens(h)
      BY <2>1, <3>2 DEF Frame, Rests
    <3> QED BY <3>1, <3>2
  <2>4. helper' = [h \in Helpers |-> helper'[h]] /\ heard' = [h \in Helpers |-> heard'[h]]
    BY <2>1 DEF Frame
  <2> QED BY <1>1, <2>2, <2>3, <2>4
<1>3. CASE \E x \in Helpers : Report(x) \/ Complete(x)
  <2>1. PICK x \in Helpers : Report(x) \/ Complete(x)
    BY <1>3
  <2>2. now' = now /\ heard' = heard
    BY <2>1 DEF Report, Complete
  <2>3. PICK s \in Steps \ {"listening"} :
          helper[x].step # "listening" /\ helper' = [helper EXCEPT ![x].step = s]
    BY <2>1 DEF Report, Complete, Completed, Steps
  <2>4. ASSUME NEW h \in Helpers PROVE Decides(h) \/ Rests(h)
    <3>1. CASE h = x
      BY <1>1, <2>2, <2>3, <3>1 DEF Decides
    <3>2. CASE h # x
      BY <1>1, <2>2, <2>3, <3>2 DEF Rests
    <3> QED BY <3>1, <3>2
  <2>5. helper' = [h \in Helpers |-> helper'[h]]
    BY <1>1, <2>3
  <2> QED BY <1>1, <2>2, <2>4, <2>5
<1>4. CASE UNCHANGED <<now, helper, heard>>
  BY <1>1, <1>4 DEF Rests
<1> QED
  BY <1>2, <1>3, <1>4
     DEF Next, vars, VoiceStart, WaitForResult, WaitEnds, Answer, Hangup

-----------------------------------------------------------------------------
(* Types.                                                                  *)

\* The last noise is not in the future: the time that end_session adds is one.
TypeInv == TypeOK /\ \A h \in Helpers : helper[h].last_noisy <= now

LEMMA NewHelperFields == NewHelper \in Helper
  BY DEF NewHelper, Helper, Steps

LEMMA TypeInvInit == Init => TypeInv
<1> SUFFICES ASSUME Init PROVE TypeInv
  OBVIOUS
<1>1. helper \in [Helpers -> Helper]
  BY NewHelperFields DEF Init
<1>2. heard \in [Helpers -> Seq([time : Nat, noisy : BOOLEAN])]
  BY DEF Init
<1>3. \A h \in Helpers : helper[h].last_noisy <= now
  BY Settings DEF Init, NewHelper
<1> QED BY <1>1, <1>2, <1>3, Settings DEF Init, TypeInv, TypeOK

LEMMA TypeInvKept == TypeInv /\ [Next]_vars => TypeInv'
<1> SUFFICES ASSUME TypeInv, [Next]_vars PROVE TypeInv'
  OBVIOUS
<1>1. TypeOK /\ now \in Nat /\ \A h \in Helpers : helper[h].last_noisy <= now
  BY DEF TypeInv, TypeOK
<1>2. /\ now' \in Nat /\ now <= now'
      /\ helper' = [h \in Helpers |-> helper'[h]]
      /\ heard' = [h \in Helpers |-> heard'[h]]
      /\ \A h \in Helpers : Hears(h) \/ Decides(h) \/ Rests(h)
  BY <1>1, StepCases
<1>3. ASSUME NEW h \in Helpers
      PROVE  /\ helper'[h] \in Helper /\ helper'[h].last_noisy <= now'
             /\ heard'[h] \in Seq([time : Nat, noisy : BOOLEAN])
  <2>1. /\ helper[h] \in Helper /\ helper[h].last_noisy <= now /\ helper[h].last_noisy \in Nat
        /\ heard[h] \in Seq([time : Nat, noisy : BOOLEAN])
    BY <1>1 DEF TypeOK, Helper
  <2>2. CASE Hears(h)
    <3>1. PICK noisy \in BOOLEAN :
            /\ now' \in Nat /\ now < now'
            /\ helper[h].step = "listening"
            /\ helper'[h] = Analysed(helper[h], noisy, now')
            /\ heard'[h] = Append(heard[h], [time |-> now', noisy |-> noisy])
      BY <2>2 DEF Hears
    <3>2. helper[h].last_noisy <= now'
      BY <1>1, <2>1, <3>1
    <3>3. helper'[h] \in Helper /\ helper'[h].last_noisy <= now'
      BY <2>1, <3>1, <3>2, AnalysedFields
    <3>4. heard'[h] \in Seq([time : Nat, noisy : BOOLEAN])
      BY <2>1, <3>1
    <3> QED BY <3>3, <3>4
  <2>3. CASE Decides(h)
    <3>1. PICK s \in Steps : helper'[h] = [helper[h] EXCEPT !.step = s]
      BY <2>3 DEF Decides
    <3>2. helper'[h] \in Helper /\ helper'[h].last_noisy = helper[h].last_noisy
      BY <2>1, <3>1, StepFields
    <3> QED BY <1>1, <1>2, <2>1, <2>3, <3>2 DEF Decides
  <2>4. CASE Rests(h)
    BY <1>1, <1>2, <2>1, <2>4 DEF Rests
  <2> QED BY <1>2, <2>2, <2>3, <2>4
<1>4. /\ helper' \in [Helpers -> Helper]
      /\ heard' \in [Helpers -> Seq([time : Nat, noisy : BOOLEAN])]
  BY <1>2, <1>3
<1>5. /\ up' \in BOOLEAN /\ answered' \in BOOLEAN /\ at' \in {"idle", "waiting"}
      /\ started' \subseteq Helpers /\ installed' \subseteq started'
      /\ handle' \in started' \union {None}
  BY <1>1
     DEF TypeOK, Next, vars, channel, bugs, Frame, Report, Complete, VoiceStart, Taken,
         WaitForResult, WaitEnds, Answer, Hangup
<1>6. variable' \in Results \union {None}
  <2>1. CASE \E h \in Helpers : Report(h)
    <3>1. PICK h \in Helpers : variable' = helper[h].amd_result
      BY <2>1 DEF Report
    <3>2. helper[h] \in Helper
      BY <1>1 DEF TypeOK
    <3> QED BY <3>1, <3>2 DEF Helper
  <2>2. CASE ~\E h \in Helpers : Report(h)
    <3>1. variable' = variable
      BY <2>2
         DEF Next, vars, channel, Frame, Complete, VoiceStart, WaitForResult, WaitEnds,
             Answer, Hangup
    <3> QED BY <1>1, <3>1 DEF TypeOK
  <2> QED BY <2>1, <2>2
<1> QED BY <1>2, <1>3, <1>4, <1>5, <1>6 DEF TypeInv, TypeOK

(***************************************************************************)
(* A helper is always well formed: in particular end_session never goes    *)
(* below zero, because the last noise is not in the future.                *)
(***************************************************************************)
THEOREM TypeCorrect == Spec => []TypeOK
<1>1. Spec => []TypeInv
  BY TypeInvInit, TypeInvKept, PTL DEF Spec
<1>2. TypeInv => TypeOK
  BY DEF TypeInv
<1> QED BY <1>1, <1>2, PTL

-----------------------------------------------------------------------------
(* How long the analysis lasts.                                            *)

\* While it listens: a frame is to come, and each one that was too many counted.
Budget(g, f) ==
  /\ g.total_time = Len(f)
  /\ Len(f) < TotalAnalysisTime + SilentMaxSession
  /\ Len(f) >= TotalAnalysisTime => g.end_session > Len(f) - TotalAnalysisTime

BudgetInv ==
  /\ TypeInv
  /\ AnalysisIsBounded
  /\ \A h \in Helpers : helper[h].step = "listening" => Budget(helper[h], heard[h])

\* Another frame that was too many.
LEMMA OneMore ==
  ASSUME NEW spent \in Nat, NEW more \in Nat, NEW n \in Nat, NEW t \in Nat, NEW m \in Nat,
         spent < m, more > spent, spent > n - t
  PROVE  n + 1 < t + m /\ more > (n + 1) - t
  OBVIOUS

LEMMA BudgetInit == ASSUME TotalAnalysisTime # 0 PROVE Init => BudgetInv
<1> SUFFICES ASSUME Init PROVE BudgetInv
  OBVIOUS
<1>1. TypeInv
  BY TypeInvInit
<1>2. ASSUME NEW h \in Helpers PROVE helper[h].total_time = 0 /\ Len(heard[h]) = 0
  BY DEF Init, NewHelper
<1> QED BY <1>1, <1>2, Settings DEF BudgetInv, AnalysisIsBounded, Budget

LEMMA BudgetKept == BudgetInv /\ [Next]_vars => BudgetInv'
<1> SUFFICES ASSUME BudgetInv, [Next]_vars PROVE BudgetInv'
  OBVIOUS
<1>1. TypeInv /\ TypeOK /\ TypeInv' /\ now \in Nat
  BY TypeInvKept DEF BudgetInv, TypeInv, TypeOK
<1>2. \A h \in Helpers : Hears(h) \/ Decides(h) \/ Rests(h)
  BY <1>1, StepCases
<1>3. ASSUME NEW h \in Helpers
      PROVE  /\ Len(heard'[h]) <= TotalAnalysisTime + SilentMaxSession
             /\ helper'[h].step = "listening" => Budget(helper'[h], heard'[h])
  <2>1. /\ helper[h] \in Helper /\ helper[h].last_noisy <= now
        /\ heard[h] \in Seq([time : Nat, noisy : BOOLEAN])
        /\ Len(heard[h]) \in Nat
        /\ Len(heard[h]) <= TotalAnalysisTime + SilentMaxSession
        /\ helper[h].step = "listening" => Budget(helper[h], heard[h])
    BY <1>1 DEF BudgetInv, TypeInv, TypeOK, AnalysisIsBounded
  <2>2. /\ helper[h].end_session \in Nat /\ helper[h].last_noisy \in Nat
        /\ helper[h].total_time \in Nat
    BY <2>1 DEF Helper
  <2>3. CASE Hears(h)
    <3>1. PICK noisy \in BOOLEAN :
            /\ now' \in Nat /\ now < now'
            /\ helper[h].step = "listening"
            /\ helper'[h] = Analysed(helper[h], noisy, now')
            /\ heard'[h] = Append(heard[h], [time |-> now', noisy |-> noisy])
      BY <2>3 DEF Hears
    <3>2. helper[h].last_noisy < now'
      BY <1>1, <2>1, <2>2, <3>1
    <3>3. /\ helper'[h] \in Helper
          /\ helper'[h].total_time = helper[h].total_time + 1
          /\ helper'[h].step = "listening" =>
               /\ helper'[h].end_session >= helper[h].end_session
               /\ helper[h].total_time + 1 >= TotalAnalysisTime =>
                    /\ helper[h].end_session < SilentMaxSession
                    /\ helper'[h].end_session
                         >= helper[h].end_session + (now' - helper[h].last_noisy)
      BY <2>1, <2>2, <3>1, <3>2, AnalysedFields
    <3>4. Len(heard'[h]) = Len(heard[h]) + 1
      BY <2>1, <3>1
    <3>5. Budget(helper[h], heard[h])
      BY <2>1, <3>1
    <3>6. helper'[h].end_session \in Nat
      BY <3>3 DEF Helper
    <3>7. /\ helper'[h].step = "listening"
          /\ Len(heard'[h]) >= TotalAnalysisTime
          => /\ Len(heard'[h]) < TotalAnalysisTime + SilentMaxSession
             /\ helper'[h].end_session > Len(heard'[h]) - TotalAnalysisTime
      <4> SUFFICES ASSUME helper'[h].step = "listening", Len(heard'[h]) >= TotalAnalysisTime
                   PROVE  /\ Len(heard'[h]) < TotalAnalysisTime + SilentMaxSession
                          /\ helper'[h].end_session > Len(heard'[h]) - TotalAnalysisTime
        OBVIOUS
      <4>1. /\ helper[h].end_session < SilentMaxSession
            /\ helper'[h].end_session > helper[h].end_session
        <5>1. helper[h].total_time + 1 >= TotalAnalysisTime
          BY <3>4, <3>5 DEF Budget
        <5>2. now' - helper[h].last_noisy > 0
          BY <2>2, <3>1, <3>2
        <5>3. now' - helper[h].last_noisy \in Nat
          BY <2>2, <3>1, <5>2
        <5> QED BY <2>2, <3>3, <3>6, <5>1, <5>2, <5>3
      <4>2. CASE Len(heard[h]) >= TotalAnalysisTime
        <5>1. helper[h].end_session > Len(heard[h]) - TotalAnalysisTime
          BY <3>5, <4>2 DEF Budget
        <5>2. /\ helper[h].end_session \in Nat /\ helper'[h].end_session \in Nat
              /\ Len(heard[h]) \in Nat /\ TotalAnalysisTime \in Nat /\ SilentMaxSession \in Nat
          BY <2>1, <2>2, <3>6, Settings
        <5>3. /\ Len(heard[h]) + 1 < TotalAnalysisTime + SilentMaxSession
              /\ helper'[h].end_session > (Len(heard[h]) + 1) - TotalAnalysisTime
          BY <4>1, <5>1, <5>2, OneMore
        <5> QED BY <3>4, <5>3
      <4>3. CASE Len(heard[h]) < TotalAnalysisTime
        <5>1. Len(heard[h]) + 1 = TotalAnalysisTime
          BY <2>1, <3>4, <4>3, Settings
        <5>2. Len(heard'[h]) = TotalAnalysisTime /\ SilentMaxSession > 0
          BY <2>2, <3>4, <4>1, <5>1, Settings
        <5> QED BY <2>2, <3>6, <4>1, <5>2, Settings
      <4> QED BY <2>1, <4>2, <4>3, Settings
    <3> QED BY <2>1, <2>2, <3>3, <3>4, <3>5, <3>7, Settings DEF Budget
  <2>4. CASE Decides(h)
    <3>1. PICK s \in Steps \ {"listening"} : helper'[h] = [helper[h] EXCEPT !.step = s]
      BY <2>4 DEF Decides
    <3>2. helper'[h].step # "listening"
      BY <2>1, <3>1, StepFields
    <3> QED BY <2>1, <2>4, <3>2 DEF Decides
  <2>5. CASE Rests(h)
    BY <2>1, <2>5 DEF Rests
  <2> QED BY <1>2, <2>3, <2>4, <2>5
<1> QED BY <1>1, <1>3 DEF BudgetInv, AnalysisIsBounded

(***************************************************************************)
(* The analysis ends after total_analysis_time frames and at most one more *)
(* for each millisecond of silent_max_session, if it may last at all:  with *)
(* both zero the first frame is one too many.                              *)
(***************************************************************************)
THEOREM AnalysisAlwaysBounded ==
  ASSUME TotalAnalysisTime # 0
  PROVE  Spec => []AnalysisIsBounded
<1>1. Init => BudgetInv
  BY BudgetInit
<1>2. BudgetInv => AnalysisIsBounded
  BY DEF BudgetInv
<1> QED BY <1>1, <1>2, BudgetKept, PTL DEF Spec

-----------------------------------------------------------------------------
(* What a frame adds to the history: its runs and its talks.               *)

Frames == [time : Nat, noisy : BOOLEAN]

\* j is the frame with which the noise or the silence of frame i began.
Begins(f, i, j) ==
  /\ j \in 1..i
  /\ \A k \in j..i : f[k].noisy = f[i].noisy
  /\ j > 1 => f[j - 1].noisy # f[i].noisy

HasRuns(f) == \A i \in 1..Len(f) : \E j \in 1..i : Begins(f, i, j)

Increases(f) == \A i \in 1..Len(f) : \A j \in 1..(i - 1) : f[j].time < f[i].time

\* There is one such frame: RunStart is it.
LEMMA RunStartBegins ==
  ASSUME NEW f, NEW i \in Nat, NEW j, Begins(f, i, j)
  PROVE  RunStart(f, i) = j /\ j \in 1..i
<1>1. j \in 1..i /\ Begins(f, i, RunStart(f, i))
  BY DEF Begins, RunStart
<1>2. ASSUME NEW a, NEW b, Begins(f, i, a), Begins(f, i, b), a < b PROVE FALSE
  <2>1. a \in 1..i /\ b \in 1..i /\ b > 1 /\ b - 1 \in a..i
    BY <1>2 DEF Begins
  <2> QED BY <1>2, <2>1 DEF Begins
<1>3. RunStart(f, i) \in 1..i
  BY <1>1 DEF Begins
<1>4. ~(RunStart(f, i) < j) /\ ~(j < RunStart(f, i))
  BY <1>1, <1>2
<1> QED BY <1>1, <1>3, <1>4

\* So every frame has a RunStart that begins its run.
LEMMA RunStarts ==
  ASSUME NEW f, HasRuns(f), Len(f) \in Nat, NEW i \in 1..Len(f)
  PROVE  Begins(f, i, RunStart(f, i)) /\ RunStart(f, i) \in 1..i
<1>1. PICK j \in 1..i : Begins(f, i, j)
  BY DEF HasRuns
<1> QED BY <1>1, RunStartBegins

\* The runs of the frames so far are not changed by another frame.
LEMMA RunsStay ==
  ASSUME NEW f \in Seq(Frames), HasRuns(f), NEW x \in Frames, NEW i \in 1..Len(f)
  PROVE  /\ RunStart(Append(f, x), i) = RunStart(f, i)
         /\ Begins(Append(f, x), i, RunStart(f, i))
<1>1. Begins(f, i, RunStart(f, i)) /\ RunStart(f, i) \in 1..i /\ Len(f) \in Nat
  BY RunStarts
<1>2. \A k \in 1..i : Append(f, x)[k] = f[k]
  OBVIOUS
<1>3. Begins(Append(f, x), i, RunStart(f, i))
  <2> DEFINE r == RunStart(f, i)
  <2>1. r \in 1..i /\ r \in Nat /\ i \in Nat
    BY <1>1
  <2>2. \A k \in r..i : Append(f, x)[k].noisy = Append(f, x)[i].noisy
    BY <1>1, <1>2, <2>1 DEF Begins
  <2>3. r > 1 => Append(f, x)[r - 1].noisy # Append(f, x)[i].noisy
    <3> SUFFICES ASSUME r > 1 PROVE Append(f, x)[r - 1].noisy # Append(f, x)[i].noisy
      OBVIOUS
    <3>1. r - 1 \in 1..i
      BY <2>1
    <3> QED BY <1>1, <1>2, <2>1, <3>1 DEF Begins
  <2> QED BY <2>1, <2>2, <2>3 DEF Begins
<1> QED BY <1>1, <1>3, RunStartBegins

\* The frame goes on with the last run, or begins one.
RunOfNext(f, x) ==
  IF f # <<>> /\ f[Len(f)].noisy = x.noisy THEN RunStart(f, Len(f)) ELSE Len(f) + 1

LEMMA RunGrows ==
  ASSUME NEW f \in Seq(Frames), HasRuns(f), NEW x \in Frames
  PROVE  /\ RunStart(Append(f, x), Len(f) + 1) = RunOfNext(f, x)
         /\ Begins(Append(f, x), Len(f) + 1, RunOfNext(f, x))
<1> DEFINE n == Len(f)
           e == Append(f, x)
           r == RunOfNext(f, x)
<1>1. n \in Nat /\ e[n + 1] = x /\ \A k \in 1..n : e[k] = f[k]
  OBVIOUS
<1>2. Begins(e, n + 1, r)
  <2>1. CASE f # <<>> /\ f[n].noisy = x.noisy
    <3>1. n \in 1..n /\ r = RunStart(f, n)
      BY <2>1 DEF RunOfNext
    <3>2. Begins(f, n, r) /\ r \in 1..n
      BY <1>1, <3>1, RunStarts
    <3>3. r \in 1..(n + 1)
      BY <1>1, <3>2
    <3>4. ASSUME NEW k \in r..(n + 1) PROVE e[k].noisy = e[n + 1].noisy
      <4>1. CASE k = n + 1
        BY <4>1
      <4>2. CASE k # n + 1
        <5>1. k \in r..n /\ k \in 1..n
          BY <1>1, <3>2, <4>2
        <5> QED BY <1>1, <2>1, <3>2, <5>1 DEF Begins
      <4> QED BY <4>1, <4>2
    <3>5. r > 1 => e[r - 1].noisy # e[n + 1].noisy
      <4> SUFFICES ASSUME r > 1 PROVE e[r - 1].noisy # e[n + 1].noisy
        OBVIOUS
      <4>1. r - 1 \in 1..n
        BY <1>1, <3>2
      <4> QED BY <1>1, <2>1, <3>2, <4>1 DEF Begins
    <3> QED BY <3>3, <3>4, <3>5 DEF Begins
  <2>2. CASE ~(f # <<>> /\ f[n].noisy = x.noisy)
    <3>1. r = n + 1
      BY <2>2 DEF RunOfNext
    <3>2. r \in 1..(n + 1) /\ \A k \in r..(n + 1) : k = n + 1
      BY <1>1, <3>1
    <3>3. r > 1 => e[r - 1].noisy # e[n + 1].noisy
      <4> SUFFICES ASSUME r > 1 PROVE e[r - 1].noisy # e[n + 1].noisy
        OBVIOUS
      <4>1. n \in 1..n /\ f # <<>> /\ r - 1 = n
        BY <1>1, <3>1
      <4> QED BY <1>1, <2>2, <4>1
    <3> QED BY <3>2, <3>3 DEF Begins
  <2> QED BY <2>1, <2>2
<1>3. n + 1 \in Nat
  BY <1>1
<1> QED BY <1>2, <1>3, RunStartBegins

LEMMA HistoryGrows ==
  ASSUME NEW f \in Seq(Frames), HasRuns(f), NEW x \in Frames
  PROVE  HasRuns(Append(f, x))
<1> SUFFICES ASSUME NEW i \in 1..Len(Append(f, x))
             PROVE  \E j \in 1..i : Begins(Append(f, x), i, j)
  BY DEF HasRuns
<1>1. Len(f) \in Nat /\ Len(Append(f, x)) = Len(f) + 1
  OBVIOUS
<1>2. CASE i \in 1..Len(f)
  <2>1. Begins(Append(f, x), i, RunStart(f, i))
    BY <1>2, RunsStay
  <2> QED BY <2>1 DEF Begins
<1>3. CASE i = Len(f) + 1
  <2>1. Begins(Append(f, x), i, RunOfNext(f, x))
    BY <1>3, RunGrows
  <2> QED BY <2>1 DEF Begins
<1> QED BY <1>1, <1>2, <1>3

\* The talks so far stay what they were.
LEMMA TalksStay ==
  ASSUME NEW f \in Seq(Frames), HasRuns(f), NEW x \in Frames, NEW i \in 1..Len(f)
  PROVE  /\ Append(f, x)[i] = f[i]
         /\ IsTalk(Append(f, x), i) <=> IsTalk(f, i)
         /\ IsTalk(f, i) => SinceSilence(Append(f, x), i) = SinceSilence(f, i)
<1> DEFINE e == Append(f, x)
<1>1. /\ Len(f) \in Nat /\ i \in Nat
      /\ \A k \in 1..i : e[k] = f[k]
  OBVIOUS
<1>2. RunStart(e, i) = RunStart(f, i) /\ RunStart(f, i) \in 1..i
  BY <1>1, RunsStay, RunStarts
<1>3. e[i] = f[i] /\ e[RunStart(e, i)] = f[RunStart(f, i)]
  BY <1>1, <1>2
<1> HIDE DEF e
<1>4. IsTalk(e, i) <=> IsTalk(f, i)
  BY <1>2, <1>3 DEF IsTalk, RunTime
<1>5. IsTalk(f, i) => SinceSilence(e, i) = SinceSilence(f, i)
  <2> SUFFICES ASSUME RunStart(f, i) > 1 PROVE SinceSilence(e, i) = SinceSilence(f, i)
    BY DEF IsTalk
  <2>1. RunStart(f, i) - 1 \in 1..i
    BY <1>1, <1>2
  <2> QED BY <1>1, <1>2, <1>3, <2>1 DEF SinceSilence
<1> QED BY <1>3, <1>4, <1>5 DEF e

\* No frame before the first is a talk, nor the first.
LEMMA FirstIsNoTalk ==
  ASSUME NEW f, HasRuns(f), Len(f) \in Nat, 1 <= Len(f)
  PROVE  ~IsTalk(f, 1)
<1>1. RunStart(f, 1) \in 1..1
  BY RunStarts
<1> QED BY <1>1 DEF IsTalk

\* The talks are counted one by one.
LEMMA TalksGrow ==
  ASSUME NEW f \in Seq(Frames), HasRuns(f), NEW x \in Frames
  PROVE  Cardinality(Talks(Append(f, x))) =
           Cardinality(Talks(f)) + (IF Len(f) + 1 \in Talks(Append(f, x)) THEN 1 ELSE 0)
<1> DEFINE n == Len(f)
           e == Append(f, x)
<1>1. n \in Nat /\ Len(e) = n + 1 /\ 1..Len(e) = (1..n) \union {n + 1}
  OBVIOUS
<1>2. IsFiniteSet(Talks(f)) /\ Cardinality(Talks(f)) \in Nat
  <2>1. IsFiniteSet(1..n)
    BY <1>1, FS_Interval
  <2>2. Talks(f) \in SUBSET (1..n)
    BY DEF Talks
  <2> QED BY <2>1, <2>2, FS_Subset, FS_CardinalityType
<1>3. ASSUME NEW i \in 1..n PROVE i \in Talks(e) <=> i \in Talks(f)
  <2>1. /\ IsTalk(e, i) <=> IsTalk(f, i)
        /\ IsTalk(f, i) => SinceSilence(e, i) = SinceSilence(f, i)
    BY TalksStay
  <2>2. CASE i = 1
    <3>1. ~IsTalk(f, i)
      BY <1>1, <2>2, FirstIsNoTalk
    <3> QED BY <2>1, <3>1 DEF Talks
  <2>3. CASE i # 1
    <3>1. i - 1 \in 1..n
      BY <1>1, <2>3
    <3>2. IsTalk(e, i - 1) <=> IsTalk(f, i - 1)
      BY <3>1, TalksStay
    <3>3. i \in 1..Len(e)
      BY <1>1
    <3> HIDE DEF e, n
    <3> QED BY <2>1, <3>2, <3>3 DEF Talks, n
  <2> QED BY <2>2, <2>3
<1>4. Talks(e) \subseteq 1..Len(e) /\ Talks(f) \subseteq 1..n
  BY DEF Talks
<1> HIDE DEF e
<1>5. CASE n + 1 \in Talks(e)
  <2>1. Talks(e) = Talks(f) \union {n + 1}
    BY <1>1, <1>3, <1>4, <1>5
  <2>2. n + 1 \notin Talks(f)
    BY <1>1, <1>4
  <2> QED BY <1>2, <1>5, <2>1, <2>2, FS_AddElement DEF e
<1>6. CASE n + 1 \notin Talks(e)
  <2>1. Talks(e) = Talks(f)
    BY <1>1, <1>3, <1>4, <1>6
  <2> QED BY <1>2, <1>6, <2>1 DEF e
<1> QED BY <1>5, <1>6

-----------------------------------------------------------------------------
(* What a helper that listens knows of the frames it has heard.            *)

HeardTalk(f) == \E i \in 1..Len(f) : IsTalk(f, i)

\* Before the first frame.
Clean(g) == ~g.noise /\ ~g.talking_min /\ g.last_silent = 0 /\ g.first_silent = 0

\* After a noisy frame: talking_min waits for the noise to become a talk.
InNoise(g, f) ==
  LET n == Len(f)
      s == RunStart(f, n)
  IN  /\ g.noise
      /\ g.first_noisy = f[s].time
      /\ g.last_noisy = f[n].time
      /\ s = 1 => g.last_silent = 0
      /\ s > 1 => g.last_silent = f[s - 1].time
      /\ g.talking_min <=> (s > 1 /\ ~IsTalk(f, n))

\* After a silent frame.
InSilence(g, f) ==
  /\ ~g.noise
  /\ g.talking_min
  /\ g.first_silent = f[RunStart(f, Len(f))].time
  /\ g.last_silent = f[Len(f)].time

Knows(g, f) ==
  /\ g.total_noise_count = Cardinality(Talks(f))
  /\ g.state_intro <=> HeardTalk(f)
  /\ g.state_silent_initial <=> ~HeardTalk(f)
  /\ \A i \in 1..Len(f) : IsTalk(f, i) => f[i].time <= g.intro_silent
  /\ f = <<>> => Clean(g)
  /\ f # <<>> /\ f[Len(f)].noisy => InNoise(g, f)
  /\ f # <<>> /\ ~f[Len(f)].noisy => InSilence(g, f)

\* The frames so far, before time t.
Before(f, t) ==
  /\ f \in Seq(Frames) /\ HasRuns(f) /\ Increases(f)
  /\ \A i \in 1..Len(f) : 0 < f[i].time /\ f[i].time < t

\* What is known of the frames does not depend on the result.
LEMMA KnowsSame ==
  ASSUME NEW g, NEW k, NEW f, Knows(g, f),
         (k.noise <=> g.noise) /\ (k.talking_min <=> g.talking_min),
         (k.state_intro <=> g.state_intro) /\ (k.state_silent_initial <=> g.state_silent_initial),
         k.total_noise_count = g.total_noise_count /\ k.intro_silent = g.intro_silent,
         k.last_noisy = g.last_noisy /\ k.last_silent = g.last_silent,
         k.first_noisy = g.first_noisy /\ k.first_silent = g.first_silent
  PROVE  Knows(k, f)
  BY DEF Knows, Clean, InNoise, InSilence

\* The talks with another frame.
LEMMA HeardTalkGrows ==
  ASSUME NEW f \in Seq(Frames), HasRuns(f), NEW x \in Frames
  PROVE  /\ HeardTalk(Append(f, x)) <=> (HeardTalk(f) \/ IsTalk(Append(f, x), Len(f) + 1))
         /\ \A i \in 1..Len(Append(f, x)) : IsTalk(Append(f, x), i) =>
              i = Len(f) + 1 \/ (i \in 1..Len(f) /\ IsTalk(f, i) /\ Append(f, x)[i] = f[i])
<1> DEFINE n == Len(f)
           e == Append(f, x)
<1>1. n \in Nat /\ Len(e) = n + 1 /\ 1..Len(e) = (1..n) \union {n + 1}
  OBVIOUS
<1>2. \A i \in 1..n : (IsTalk(e, i) <=> IsTalk(f, i)) /\ e[i] = f[i]
  BY TalksStay
<1> HIDE DEF e
<1> QED BY <1>1, <1>2 DEF HeardTalk, e

\* At time t the helper g, which knows f, hears a noise: e is then the history.
HearsNoise(f, t, g, n, e, s) ==
  /\ t \in Nat /\ Before(f, t) /\ g \in Helper /\ Knows(g, f)
  /\ n = Len(f)
  /\ e = Append(f, [time |-> t, noisy |-> TRUE])
  /\ s = RunStart(e, n + 1)

(***************************************************************************)
(* What the helper knows before a noisy frame is what the frame needs: the *)
(* beginning of its run, the silence before it, and whether it is the      *)
(* first frame of a talk.                                                  *)
(***************************************************************************)
LEMMA NoiseIsKnown ==
  ASSUME NEW f, NEW t, NEW g, NEW n, NEW e, NEW s, HearsNoise(f, t, g, n, e, s)
  PROVE  /\ s \in 1..(n + 1)
         /\ e[s].time = Since(g, t)
         /\ s = 1 => g.last_silent = 0 /\ ~HeardTalk(f)
         /\ s > 1 => g.last_silent = e[s - 1].time
         /\ g.talking_min <=> (s > 1 /\ ~IsTalk(f, n))
         /\ s > 1 /\ IsTalk(f, n) => t - Since(g, t) >= NoiseMinLength
         /\ 0 < s /\ s <= n => s = RunStart(f, n) /\ g.last_noisy = f[n].time
<1> DEFINE x == [time |-> t, noisy |-> TRUE]
<1>0. /\ t \in Nat /\ Before(f, t) /\ g \in Helper /\ Knows(g, f)
      /\ n = Len(f) /\ e = Append(f, x) /\ s = RunStart(e, n + 1)
  BY DEF HearsNoise
<1>1. /\ f \in Seq(Frames) /\ HasRuns(f) /\ n \in Nat /\ x \in Frames
      /\ \A i \in 1..n : /\ 0 < f[i].time /\ f[i].time < t /\ e[i] = f[i]
                         /\ f[i] \in Frames /\ f[i].time \in Nat
      /\ e[n + 1] = x
      /\ f # <<>> <=> n > 0
  <2>1. f \in Seq(Frames) /\ n \in Nat /\ \A i \in 1..n : f[i] \in Frames
    BY <1>0 DEF Before
  <2>2. x \in Frames
    BY <1>0 DEF Frames
  <2>3. e[n + 1] = x /\ \A i \in 1..n : e[i] = f[i]
    BY <1>0, <2>1, <2>2
  <2>4. \A i \in 1..n : f[i].time \in Nat
    BY <2>1 DEF Frames
  <2>5. f # <<>> <=> n > 0
    BY <1>0, <2>1
  <2> QED BY <1>0, <2>1, <2>2, <2>3, <2>4, <2>5 DEF Before
<1>2. s = RunOfNext(f, x) /\ Begins(e, n + 1, s) /\ s \in 1..(n + 1)
  <2>1. /\ RunStart(Append(f, x), Len(f) + 1) = RunOfNext(f, x)
        /\ Begins(Append(f, x), Len(f) + 1, RunOfNext(f, x))
    BY <1>1, RunGrows
  <2>2. s = RunOfNext(f, x) /\ Begins(e, n + 1, s)
    BY <1>0, <2>1
  <2> QED BY <2>2 DEF Begins
<1>3. CASE f = <<>>
  <2>1. n = 0 /\ s = 1
    BY <1>1, <1>2, <1>3
  <2> HIDE <1>2
  <2>2. ~HeardTalk(f)
    BY <1>0, <2>1 DEF HeardTalk
  <2>3. Clean(g) /\ Since(g, t) = t
    BY <1>0, <1>3 DEF Knows, Clean, Since
  <2> QED BY <1>1, <2>1, <2>2, <2>3 DEF Clean
<1>4. CASE f # <<>> /\ ~f[n].noisy
  <2>1. n \in 1..n /\ s = n + 1 /\ s > 1
    <3>1. n \in 1..n /\ n > 0
      BY <1>1, <1>4
    <3>2. f[n].noisy # x.noisy
      BY <1>4
    <3> QED BY <1>0, <1>1, <1>2, <3>1, <3>2 DEF RunOfNext
  <2>2. ~IsTalk(f, n)
    BY <1>4 DEF IsTalk
  <2>3. InSilence(g, f)
    BY <1>0, <1>4 DEF Knows
  <2> QED BY <1>0, <1>1, <2>1, <2>2, <2>3 DEF InSilence, Since
<1>5. CASE f # <<>> /\ f[n].noisy
  <2>1. n \in 1..n
    BY <1>1, <1>5
  <2>2. s = RunStart(f, n) /\ Begins(f, n, s) /\ s \in 1..n
    <3>1. f[n].noisy = x.noisy
      BY <1>1, <1>5, <2>1 DEF Frames
    <3> QED BY <1>0, <1>1, <1>2, <1>5, <2>1, <3>1, RunStarts DEF RunOfNext
  <2>3. InNoise(g, f)
    BY <1>0, <1>5 DEF Knows
  <2>4. Since(g, t) = f[s].time /\ e[s].time = f[s].time
    BY <1>0, <1>1, <2>2, <2>3 DEF InNoise, Since
  <2>5. s > 1 => g.last_silent = e[s - 1].time
    <3>1. s > 1 => s - 1 \in 1..n
      BY <2>1, <2>2
    <3> QED BY <1>0, <1>1, <2>2, <2>3, <3>1 DEF InNoise
  <2>6. ASSUME s = 1 PROVE g.last_silent = 0 /\ ~HeardTalk(f)
    <3>1. g.last_silent = 0
      BY <1>0, <2>2, <2>3, <2>6 DEF InNoise
    <3>2. ASSUME NEW i \in 1..n, IsTalk(f, i) PROVE FALSE
      <4>1. /\ Begins(f, i, RunStart(f, i)) /\ RunStart(f, i) \in 1..i
            /\ RunStart(f, i) > 1 /\ f[i].noisy
        BY <1>0, <1>1, <3>2, RunStarts DEF IsTalk
      <4>2. RunStart(f, i) - 1 \in 1..n /\ f[RunStart(f, i) - 1].noisy # f[i].noisy
        <5>1. RunStart(f, i) - 1 \in 1..n
          BY <1>1, <4>1
        <5> QED BY <4>1, <5>1 DEF Begins
      <4>3. \A j \in 1..n : f[j].noisy = f[n].noisy
        BY <2>2, <2>6 DEF Begins
      <4> QED BY <4>2, <4>3
    <3> QED BY <1>0, <3>1, <3>2 DEF HeardTalk
  <2>7. ASSUME IsTalk(f, n) PROVE t - Since(g, t) >= NoiseMinLength
    <3>1. f[n].time - f[s].time >= NoiseMinLength
      BY <2>2, <2>7 DEF IsTalk, RunTime
    <3>2. f[n].time < t /\ f[n].time \in Nat /\ f[s].time \in Nat
      BY <1>1, <2>1, <2>2 DEF Frames
    <3>3. NoiseMinLength \in Nat /\ t \in Nat
      BY <1>0, Settings
    <3>4. t - f[s].time >= NoiseMinLength
      BY <3>1, <3>2, <3>3, LongerYet
    <3> QED BY <2>4, <3>4
  <2>8. g.talking_min <=> (s > 1 /\ ~IsTalk(f, n))
    BY <1>0, <2>2, <2>3 DEF InNoise
  <2>9. g.last_noisy = f[n].time
    BY <1>0, <2>3 DEF InNoise
  <2> QED BY <1>2, <2>2, <2>4, <2>5, <2>6, <2>7, <2>8, <2>9
<1> QED BY <1>3, <1>4, <1>5

\* A noise that is long enough, at time t.
IsLong(g, t) == ~(t - Since(g, t) < NoiseMinLength)

\* So the frame is a talk, or the first of one, just when the helper takes it for one.
LEMMA TalkIsKnown ==
  ASSUME NEW f, NEW t, NEW g, NEW n, NEW e, NEW s, HearsNoise(f, t, g, n, e, s)
  PROVE  /\ IsTalk(e, n + 1) <=> (s > 1 /\ IsLong(g, t))
         /\ s > 1 => SinceSilence(e, n + 1) = t - g.last_silent
         /\ n + 1 \in Talks(e) <=> (IsLong(g, t) /\ Counts(g, t))
<1> DEFINE x == [time |-> t, noisy |-> TRUE]
<1>0. /\ t \in Nat /\ Before(f, t) /\ g \in Helper
      /\ n = Len(f) /\ e = Append(f, x) /\ s = RunStart(e, n + 1)
  BY DEF HearsNoise
<1>1. /\ f \in Seq(Frames) /\ HasRuns(f) /\ n \in Nat /\ x \in Frames
      /\ e[n + 1] = x /\ e[n + 1].noisy /\ e[n + 1].time = t
      /\ Len(e) = n + 1
  <2>1. f \in Seq(Frames) /\ HasRuns(f) /\ n \in Nat /\ x \in Frames
    BY <1>0 DEF Before, Frames
  <2> QED BY <1>0, <2>1
<1>2. /\ s \in 1..(n + 1)
      /\ e[s].time = Since(g, t)
      /\ s > 1 => g.last_silent = e[s - 1].time
      /\ g.talking_min <=> (s > 1 /\ ~IsTalk(f, n))
  BY NoiseIsKnown
<1>3. Since(g, t) \in Nat
  BY <1>0 DEF Since, Helper
<1>4. IsLong(g, t) <=> t - Since(g, t) >= NoiseMinLength
  BY <1>0, <1>3, Settings DEF IsLong
<1>5. IsTalk(e, n + 1) <=> (s > 1 /\ IsLong(g, t))
  <2>1. RunTime(e, n + 1) = t - Since(g, t)
    BY <1>0, <1>1, <1>2 DEF RunTime
  <2> QED BY <1>0, <1>1, <1>4, <2>1 DEF IsTalk
<1>6. s > 1 => SinceSilence(e, n + 1) = t - g.last_silent
  BY <1>0, <1>1, <1>2 DEF SinceSilence
<1>7. n + 1 \in Talks(e) <=> (IsLong(g, t) /\ Counts(g, t))
  <2>1. n + 1 \in 1..Len(e) /\ (n + 1) - 1 = n
    BY <1>1
  <2>2. s > 1 => (IsTalk(e, n) <=> IsTalk(f, n))
    <3> SUFFICES ASSUME s > 1 PROVE IsTalk(e, n) <=> IsTalk(f, n)
      OBVIOUS
    <3>1. n \in 1..Len(f)
      BY <1>0, <1>1, <1>2
    <3> QED BY <1>0, <1>1, <3>1, TalksStay
  <2>3. n + 1 \in Talks(e) <=> /\ IsTalk(e, n + 1)
                               /\ ~IsTalk(e, n)
                               /\ SinceSilence(e, n + 1) >= NoiseInterSilence
    BY <2>1 DEF Talks
  <2> QED BY <1>2, <1>5, <1>6, <2>2, <2>3 DEF Counts
<1> QED BY <1>5, <1>6, <1>7

(***************************************************************************)
(* A noisy frame: the helper still knows its frames, or has a verdict that *)
(* they justify.  A noise of no length at all would let max-intro pass.    *)
(***************************************************************************)
LEMMA NoiseLearns ==
  ASSUME NoiseMinLength # 0,
         NEW f, NEW t, NEW g, NEW n, NEW e, NEW s, HearsNoise(f, t, g, n, e, s),
         g.step = "listening", g.last_noisy <= t, NEW k, k = Noise(g, t)
  PROVE  /\ k.step = "listening" => Knows(Passed(k, t), e)
         /\ k.step = "over" => Justifies(e, k.amd_result)
<1> DEFINE x == [time |-> t, noisy |-> TRUE]
           p == Passed(k, t)
<1>0. /\ t \in Nat /\ Before(f, t) /\ g \in Helper /\ Knows(g, f)
      /\ n = Len(f) /\ e = Append(f, x) /\ s = RunStart(e, n + 1)
  BY DEF HearsNoise
<1>1. /\ f \in Seq(Frames) /\ HasRuns(f) /\ n \in Nat /\ x \in Frames
      /\ e \in Seq(Frames) /\ Len(e) = n + 1 /\ e # <<>>
      /\ e[n + 1] = x /\ e[n + 1].noisy /\ e[n + 1].time = t
      /\ \A i \in 1..n : e[i] = f[i] /\ f[i].time < t /\ f[i].time \in Nat
  <2>1. f \in Seq(Frames) /\ HasRuns(f) /\ n \in Nat /\ x \in Frames
    BY <1>0 DEF Before, Frames
  <2>2. e \in Seq(Frames) /\ Len(e) = n + 1 /\ e[n + 1] = x /\ \A i \in 1..n : e[i] = f[i]
    BY <1>0, <2>1
  <2>3. \A i \in 1..n : f[i] \in Frames
    BY <1>0, <2>1
  <2>4. \A i \in 1..n : f[i].time < t /\ f[i].time \in Nat
    BY <1>0, <2>3 DEF Before, Frames
  <2>5. e # <<>>
    BY <2>1, <2>2
  <2> QED BY <2>1, <2>2, <2>4, <2>5
<1>2. /\ s \in 1..(n + 1)
      /\ e[s].time = Since(g, t)
      /\ s = 1 => g.last_silent = 0 /\ ~HeardTalk(f)
      /\ s > 1 => g.last_silent = e[s - 1].time
      /\ g.talking_min <=> (s > 1 /\ ~IsTalk(f, n))
      /\ s > 1 /\ IsTalk(f, n) => t - Since(g, t) >= NoiseMinLength
      /\ 0 < s /\ s <= n => s = RunStart(f, n) /\ g.last_noisy = f[n].time
  BY NoiseIsKnown
<1>3. /\ IsTalk(e, n + 1) <=> (s > 1 /\ IsLong(g, t))
      /\ s > 1 => SinceSilence(e, n + 1) = t - g.last_silent
      /\ n + 1 \in Talks(e) <=> (IsLong(g, t) /\ Counts(g, t))
  BY TalkIsKnown
<1>4. /\ g.total_noise_count = Cardinality(Talks(f))
      /\ g.state_intro <=> HeardTalk(f)
      /\ g.state_silent_initial <=> ~HeardTalk(f)
      /\ \A i \in 1..n : IsTalk(f, i) => f[i].time <= g.intro_silent
  BY <1>0 DEF Knows
<1>5. /\ HeardTalk(e) <=> (HeardTalk(f) \/ IsTalk(e, n + 1))
      /\ \A i \in 1..Len(e) : IsTalk(e, i) =>
            i = n + 1 \/ (i \in 1..n /\ IsTalk(f, i) /\ e[i] = f[i])
  BY <1>0, <1>1, HeardTalkGrows
<1>6. Cardinality(Talks(e)) =
        Cardinality(Talks(f)) + (IF n + 1 \in Talks(e) THEN 1 ELSE 0)
  BY <1>0, <1>1, TalksGrow
<1>7. Since(g, t) \in Nat /\ (IsLong(g, t) <=> t - Since(g, t) >= NoiseMinLength)
  BY <1>0, Settings DEF Since, IsLong, Helper
<1>8. HeardTalk(f) => s > 1
  BY <1>1, <1>2
<1>9. /\ k \in Helper
      /\ k.noise /\ k.first_noisy = Since(g, t)
      /\ k.last_silent = g.last_silent
      /\ k.step \in {"listening", "over"}
      /\ ~IsLong(g, t) =>
           /\ k.step = "listening"
           /\ k.talking_min <=> g.talking_min
           /\ k.total_noise_count = g.total_noise_count
           /\ k.state_silent_initial <=> g.state_silent_initial
           /\ k.state_intro <=> g.state_intro
           /\ k.intro_silent = g.intro_silent
      /\ IsLong(g, t) =>
           /\ ~k.talking_min
           /\ k.total_noise_count = g.total_noise_count + (IF Counts(g, t) THEN 1 ELSE 0)
           /\ k.state_intro <=> (g.state_intro \/ (g.talking_min /\ g.state_silent_initial))
           /\ k.state_silent_initial <=> (~g.talking_min /\ g.state_silent_initial)
           /\ k.step = "listening" =>
                k.intro_silent = IF k.state_intro THEN t ELSE g.intro_silent
           /\ k.step = "over" =>
                \/ /\ k.amd_result = "max-count"
                   /\ g.talking_min /\ k.total_noise_count >= NoiseMaxCount
                \/ /\ k.amd_result = "max-count"
                   /\ k.state_intro /\ t - g.last_silent >= NoiseMaxIntro
                \/ /\ k.amd_result = "max-intro"
                   /\ k.state_intro
                   /\ ~(t - g.last_silent >= NoiseMaxIntro)
                   /\ t - g.last_noisy >= NoiseMaxIntro
  BY <1>0, NoiseFields DEF IsLong
<1>10. k.total_noise_count = Cardinality(Talks(e))
  <2>1. CASE IsLong(g, t)
    BY <1>3, <1>4, <1>6, <1>9, <2>1
  <2>2. CASE ~IsLong(g, t)
    <3>1. Cardinality(Talks(f)) = Cardinality(Talks(e))
      <4>1. Cardinality(Talks(f)) \in Nat
        BY <1>0, <1>4 DEF Helper
      <4> QED BY <1>3, <1>6, <2>2, <4>1
    <3> QED BY <1>4, <1>9, <2>2, <3>1
  <2> QED BY <2>1, <2>2
<1>11. (k.state_intro <=> HeardTalk(e)) /\ (k.state_silent_initial <=> ~HeardTalk(e))
  <2>1. CASE IsLong(g, t)
    <3>1. IsTalk(f, n) /\ s > 1 => HeardTalk(f)
      <4>1. s > 1 => n \in 1..n
        BY <1>1, <1>2
      <4> QED BY <1>0, <4>1 DEF HeardTalk
    <3>2. s > 1 => HeardTalk(e)
      BY <1>3, <1>5, <2>1
    <3>3. ~(s > 1) => ~HeardTalk(e) /\ ~g.talking_min
      BY <1>2, <1>3, <1>5, <1>8
    <3> QED BY <1>2, <1>4, <1>8, <1>9, <2>1, <3>1, <3>2, <3>3
  <2>2. CASE ~IsLong(g, t)
    BY <1>3, <1>4, <1>5, <1>9, <2>2
  <2> QED BY <2>1, <2>2
<1>12. k.step = "listening" =>
         \A i \in 1..Len(e) : IsTalk(e, i) => e[i].time <= k.intro_silent
  <2> SUFFICES ASSUME k.step = "listening", NEW i \in 1..Len(e), IsTalk(e, i)
               PROVE  e[i].time <= k.intro_silent
    OBVIOUS
  <2>1. HeardTalk(e) /\ k.state_intro
    BY <1>11 DEF HeardTalk
  <2>2. e[i].time <= t
    BY <1>0, <1>1
  <2>3. CASE IsLong(g, t)
    BY <1>9, <2>1, <2>2, <2>3
  <2>4. CASE ~IsLong(g, t)
    <3>1. i \in 1..n /\ IsTalk(f, i) /\ e[i] = f[i]
      BY <1>3, <1>5, <2>4
    <3> QED BY <1>4, <1>9, <2>4, <3>1
  <2> QED BY <2>3, <2>4
<1>13. k.talking_min <=> (s > 1 /\ ~IsTalk(e, n + 1))
  BY <1>2, <1>3, <1>7, <1>9
<1>14. /\ p.noise /\ p.first_noisy = k.first_noisy /\ p.last_noisy = t
       /\ p.last_silent = k.last_silent /\ (p.talking_min <=> k.talking_min)
       /\ p.total_noise_count = k.total_noise_count
       /\ (p.state_silent_initial <=> k.state_silent_initial)
       /\ (p.state_intro <=> k.state_intro) /\ p.intro_silent = k.intro_silent
  <2>1. k \in Helper /\ k.noise /\ t \in Nat
    BY <1>0, <1>9
  <2> QED BY <2>1, PassedFields
<1>15. ASSUME k.step = "listening" PROVE Knows(p, e)
  <2>1. InNoise(p, e)
    BY <1>0, <1>1, <1>2, <1>9, <1>13, <1>14 DEF InNoise
  <2> HIDE DEF p
  <2> QED BY <1>1, <1>10, <1>11, <1>12, <1>14, <1>15, <2>1 DEF Knows
<1>16. ASSUME k.step = "over" PROVE Justifies(e, k.amd_result)
  <2>1. IsLong(g, t)
    BY <1>9, <1>16
  <2>2. s > 1 => IsTalk(e, n + 1)
    BY <1>3, <2>1
  <2>3. CASE /\ k.amd_result = "max-count"
             /\ g.talking_min /\ k.total_noise_count >= NoiseMaxCount
    <3>1. IsTalk(e, Len(e)) /\ Cardinality(Talks(e)) >= NoiseMaxCount
      BY <1>1, <1>2, <1>10, <2>2, <2>3
    <3> QED BY <2>3, <3>1 DEF Justifies
  <2>4. CASE /\ k.amd_result = "max-count"
             /\ k.state_intro /\ t - g.last_silent >= NoiseMaxIntro
    <3>1. s > 1
      BY <1>3, <1>5, <1>8, <1>11, <2>4
    <3>2. IsTalk(e, Len(e)) /\ SinceSilence(e, Len(e)) >= NoiseMaxIntro
      BY <1>1, <1>3, <2>2, <2>4, <3>1
    <3> QED BY <2>4, <3>2 DEF Justifies
  <2>5. CASE /\ k.state_intro
             /\ ~(t - g.last_silent >= NoiseMaxIntro)
             /\ t - g.last_noisy >= NoiseMaxIntro
    <3>1. s > 1
      BY <1>3, <1>5, <1>8, <1>11, <2>5
    <3>2. s <= n
      <4>1. CASE s = n + 1
        <5>1. t - Since(g, t) = 0
          BY <1>0, <1>1, <1>2, <4>1
        <5> QED BY <1>7, <2>1, <5>1, Settings
      <4> QED BY <1>1, <1>2, <4>1
    <3>3. g.last_noisy = f[n].time /\ g.last_silent = f[s - 1].time
      BY <1>1, <1>2, <3>1, <3>2
    <3>4. n \in 1..n /\ s - 1 \in 1..(n - 1)
      BY <1>1, <1>2, <3>1, <3>2
    <3>5. f[s - 1].time < f[n].time /\ f[s - 1].time \in Nat /\ f[n].time \in Nat
      BY <1>0, <1>1, <3>4 DEF Before, Increases
    <3> QED BY <1>0, <2>5, <3>3, <3>5, Settings
  <2> QED BY <1>9, <1>16, <2>1, <2>3, <2>4, <2>5
<1> QED BY <1>15, <1>16

\* At time t the helper g, which knows f, hears a silence: e is then the history.
HearsSilence(f, t, g, n, e) ==
  /\ t \in Nat /\ Before(f, t) /\ g \in Helper /\ Knows(g, f)
  /\ n = Len(f)
  /\ e = Append(f, [time |-> t, noisy |-> FALSE])

\* The beginning of its run; before the first frame the helper has none.
LEMMA SilenceIsKnown ==
  ASSUME NEW f, NEW t, NEW g, NEW n, NEW e, HearsSilence(f, t, g, n, e)
  PROVE  /\ f # <<>> => /\ SilentSince(g, t) = e[RunStart(e, n + 1)].time
                        /\ SilentSince(g, t) # 0
         /\ f = <<>> => SilentSince(g, t) = 0 /\ RunStart(e, n + 1) = n + 1
<1> DEFINE x == [time |-> t, noisy |-> FALSE]
<1>0. /\ t \in Nat /\ Before(f, t) /\ g \in Helper /\ Knows(g, f)
      /\ n = Len(f) /\ e = Append(f, x)
  BY DEF HearsSilence
<1>1. /\ f \in Seq(Frames) /\ HasRuns(f) /\ n \in Nat /\ x \in Frames
      /\ \A i \in 1..n : e[i] = f[i] /\ 0 < f[i].time /\ f[i].time < t
      /\ e[n + 1] = x /\ e[n + 1].time = t
  <2>1. f \in Seq(Frames) /\ HasRuns(f) /\ n \in Nat /\ x \in Frames
    BY <1>0 DEF Before, Frames
  <2>2. e[n + 1] = x /\ \A i \in 1..n : e[i] = f[i]
    BY <1>0, <2>1
  <2> QED BY <1>0, <2>1, <2>2 DEF Before
<1>2. RunStart(e, n + 1) = RunOfNext(f, x)
  <2>1. RunStart(Append(f, x), Len(f) + 1) = RunOfNext(f, x)
    BY <1>1, RunGrows
  <2> QED BY <1>0, <2>1
<1>3. CASE f = <<>>
  <2>1. Clean(g)
    BY <1>0, <1>3 DEF Knows
  <2> QED BY <1>0, <1>2, <1>3, <2>1 DEF Clean, SilentSince, RunOfNext
<1>4. CASE f # <<>> /\ ~f[n].noisy
  <2>1. n \in 1..n
    BY <1>0, <1>1, <1>4
  <2>2. f[n].noisy = x.noisy
    <3>1. f[n] \in Frames
      BY <1>1, <1>0, <2>1
    <3> QED BY <1>4, <3>1 DEF Frames
  <2>3. RunOfNext(f, x) = RunStart(f, n) /\ RunStart(f, n) \in 1..n
    BY <1>0, <1>1, <1>4, <2>1, <2>2, RunStarts DEF RunOfNext
  <2>4. InSilence(g, f)
    BY <1>0, <1>4 DEF Knows
  <2> QED BY <1>0, <1>1, <1>2, <1>4, <2>3, <2>4 DEF InSilence, SilentSince
<1>5. CASE f # <<>> /\ f[n].noisy
  <2>1. RunOfNext(f, x) = n + 1
    BY <1>0, <1>5 DEF RunOfNext
  <2>2. InNoise(g, f)
    BY <1>0, <1>5 DEF Knows
  <2>3. n \in 1..n
    BY <1>0, <1>1, <1>5
  <2>4. t # 0
    <3>1. f[n] \in Frames /\ 0 < f[n].time /\ f[n].time < t
      BY <1>0, <1>1, <2>3
    <3> QED BY <1>0, <3>1 DEF Frames
  <2> QED BY <1>1, <1>2, <1>5, <2>1, <2>2, <2>4 DEF InNoise, SilentSince
<1> QED BY <1>3, <1>4, <1>5

\* A silent frame: the helper still knows its frames, or has a verdict they justify.
LEMMA SilenceLearns ==
  ASSUME NEW f, NEW t, NEW g, NEW n, NEW e, HearsSilence(f, t, g, n, e),
         g.step = "listening", g.last_noisy <= t, NEW k, k = Silence(g, t)
  PROVE  /\ k.step = "listening" => Knows(Passed(k, t), e)
         /\ k.step = "over" => Justifies(e, k.amd_result)
<1> DEFINE x == [time |-> t, noisy |-> FALSE]
           p == Passed(k, t)
<1>0. /\ t \in Nat /\ Before(f, t) /\ g \in Helper /\ Knows(g, f)
      /\ n = Len(f) /\ e = Append(f, x)
  BY DEF HearsSilence
<1>1. /\ f \in Seq(Frames) /\ HasRuns(f) /\ n \in Nat /\ x \in Frames
      /\ e \in Seq(Frames) /\ Len(e) = n + 1 /\ e # <<>>
      /\ e[n + 1] = x /\ ~e[n + 1].noisy /\ e[n + 1].time = t
  <2>1. f \in Seq(Frames) /\ HasRuns(f) /\ n \in Nat /\ x \in Frames
    BY <1>0 DEF Before, Frames
  <2>2. e \in Seq(Frames) /\ Len(e) = n + 1 /\ e[n + 1] = x
    BY <1>0, <2>1
  <2> QED BY <2>1, <2>2
<1>2. /\ f # <<>> => /\ SilentSince(g, t) = e[RunStart(e, n + 1)].time
                     /\ SilentSince(g, t) # 0
      /\ f = <<>> => SilentSince(g, t) = 0 /\ RunStart(e, n + 1) = n + 1
  BY SilenceIsKnown
<1>3. /\ g.total_noise_count = Cardinality(Talks(f))
      /\ g.state_intro <=> HeardTalk(f)
      /\ g.state_silent_initial <=> ~HeardTalk(f)
      /\ \A i \in 1..n : IsTalk(f, i) => f[i].time <= g.intro_silent
  BY <1>0 DEF Knows
<1>4. ~IsTalk(e, n + 1) /\ n + 1 \notin Talks(e)
  BY <1>1 DEF IsTalk, Talks
<1>5. /\ HeardTalk(e) <=> HeardTalk(f)
      /\ \A i \in 1..Len(e) : IsTalk(e, i) => i \in 1..n /\ IsTalk(f, i) /\ e[i] = f[i]
  <2>1. /\ HeardTalk(e) <=> (HeardTalk(f) \/ IsTalk(e, n + 1))
        /\ \A i \in 1..Len(e) : IsTalk(e, i) =>
              i = n + 1 \/ (i \in 1..n /\ IsTalk(f, i) /\ e[i] = f[i])
    BY <1>0, <1>1, HeardTalkGrows
  <2> QED BY <1>4, <2>1
<1>6. Cardinality(Talks(e)) = Cardinality(Talks(f))
  <2>1. Cardinality(Talks(e)) =
          Cardinality(Talks(f)) + (IF n + 1 \in Talks(e) THEN 1 ELSE 0)
    BY <1>0, <1>1, TalksGrow
  <2>2. Cardinality(Talks(f)) \in Nat
    BY <1>0, <1>3 DEF Helper
  <2> QED BY <1>4, <2>1, <2>2
<1>7. /\ k \in Helper
      /\ ~k.noise /\ k.first_silent = SilentSince(g, t)
      /\ k.total_noise_count = g.total_noise_count
      /\ k.intro_silent = g.intro_silent
      /\ (k.state_silent_initial <=> g.state_silent_initial)
      /\ k.step \in {"listening", "over"}
      /\ k.step = "listening" => (k.state_intro <=> g.state_intro)
      /\ k.step = "over" =>
           \/ /\ k.amd_result = "silent-initial"
              /\ SilentSince(g, t) # 0 /\ g.state_silent_initial
              /\ t - SilentSince(g, t) >= SilentInitial
           \/ /\ k.amd_result = "silent-after-intro"
              /\ g.state_intro /\ t - g.intro_silent >= SilentAfterIntro
  BY <1>0, SilenceFields
<1>8. /\ ~p.noise /\ p.talking_min /\ p.last_silent = t
      /\ p.first_silent = IF k.first_silent = 0 THEN t ELSE k.first_silent
      /\ p.total_noise_count = k.total_noise_count
      /\ (p.state_silent_initial <=> k.state_silent_initial)
      /\ (p.state_intro <=> k.state_intro) /\ p.intro_silent = k.intro_silent
  <2>1. k \in Helper /\ ~k.noise /\ t \in Nat
    BY <1>0, <1>7
  <2> QED BY <2>1, PassedFields
<1>9. ASSUME k.step = "listening" PROVE Knows(p, e)
  <2>1. p.first_silent = e[RunStart(e, n + 1)].time
    BY <1>1, <1>2, <1>7, <1>8
  <2>2. InSilence(p, e)
    BY <1>1, <1>8, <2>1 DEF InSilence
  <2>3. \A i \in 1..Len(e) : IsTalk(e, i) => e[i].time <= p.intro_silent
    BY <1>3, <1>5, <1>7, <1>8
  <2> HIDE DEF p
  <2> QED BY <1>1, <1>3, <1>5, <1>6, <1>7, <1>8, <1>9, <2>2, <2>3 DEF Knows
<1>10. ASSUME k.step = "over" PROVE Justifies(e, k.amd_result)
  <2>1. CASE /\ k.amd_result = "silent-initial"
             /\ SilentSince(g, t) # 0 /\ g.state_silent_initial
             /\ t - SilentSince(g, t) >= SilentInitial
    <3>1. RunTime(e, Len(e)) >= SilentInitial
      BY <1>1, <1>2, <2>1 DEF RunTime
    <3>2. \A i \in 1..Len(e) : ~IsTalk(e, i)
      BY <1>3, <1>5, <2>1 DEF HeardTalk
    <3> QED BY <1>1, <2>1, <3>1, <3>2 DEF Justifies
  <2>2. CASE /\ k.amd_result = "silent-after-intro"
             /\ g.state_intro /\ t - g.intro_silent >= SilentAfterIntro
    <3>1. \E i \in 1..Len(e) : IsTalk(e, i)
      BY <1>3, <1>5, <2>2 DEF HeardTalk
    <3>2. ASSUME NEW i \in 1..Len(e), IsTalk(e, i)
          PROVE  e[Len(e)].time - e[i].time >= SilentAfterIntro
      <4>1. i \in 1..n /\ e[i] = f[i] /\ f[i].time <= g.intro_silent
        BY <1>3, <1>5, <3>2
      <4>2. f[i].time \in Nat
        <5>1. f[i] \in Frames
          BY <1>0, <1>1, <4>1
        <5> QED BY <5>1 DEF Frames
      <4>3. g.intro_silent \in Nat
        BY <1>0 DEF Helper
      <4>4. t - f[i].time >= SilentAfterIntro
        BY <1>0, <2>2, <4>1, <4>2, <4>3, Settings
      <4> QED BY <1>1, <4>1, <4>4
    <3> QED BY <1>1, <2>2, <3>1, <3>2 DEF Justifies
  <2> QED BY <1>7, <1>10, <2>1, <2>2
<1> QED BY <1>9, <1>10

-----------------------------------------------------------------------------
(* The result is justified.                                                *)

KnowsInv ==
  /\ TypeInv
  /\ \A h \in Helpers :
       /\ Before(heard[h], now + 1)
       /\ helper[h].step = "listening" =>
            Knows(helper[h], heard[h]) /\ helper[h].total_time = Len(heard[h])
  /\ ResultIsJustified

\* A whole frame, of either kind.
LEMMA FrameLearns ==
  ASSUME NoiseMinLength # 0,
         NEW f, NEW t \in Nat, Before(f, t), NEW g \in Helper, Knows(g, f),
         g.step = "listening", g.last_noisy <= t, g.total_time = Len(f),
         NEW noisy \in BOOLEAN, NEW k, k = Analysed(g, noisy, t),
         NEW e, e = Append(f, [time |-> t, noisy |-> noisy])
  PROVE  /\ k.step = "listening" => Knows(k, e)
         /\ k.step # "listening" => Justifies(e, k.amd_result)
<1> DEFINE c == [g EXCEPT !.total_time = @ + 1]
           a == TooLong(c, t)
           b == IF a.step = "over" THEN a ELSE IF noisy THEN Noise(a, t) ELSE Silence(a, t)
<1>1. k = IF b.step = "over" THEN b ELSE Passed(b, t)
  BY DEF Analysed
<1>2. /\ a \in Helper /\ SameTrack(c, a)
      /\ a.step \in {"listening", "over"}
      /\ a.step = "over" => /\ g.total_time + 1 >= TotalAnalysisTime
                            /\ a.amd_result = "too-long"
  BY TooLongFields
<1>3. Knows(a, f)
  <2>1. /\ c.noise = g.noise /\ c.talking_min = g.talking_min
        /\ c.state_intro = g.state_intro /\ c.state_silent_initial = g.state_silent_initial
        /\ c.total_noise_count = g.total_noise_count /\ c.intro_silent = g.intro_silent
        /\ c.last_noisy = g.last_noisy /\ c.last_silent = g.last_silent
        /\ c.first_noisy = g.first_noisy /\ c.first_silent = g.first_silent
    BY DEF Helper
  <2> HIDE DEF c, a
  <2> QED BY <1>2, <2>1, KnowsSame DEF SameTrack
<1>4. a.last_noisy = g.last_noisy
  BY <1>2 DEF SameTrack, Helper
<1>5. b = IF a.step = "over" THEN a ELSE IF noisy THEN Noise(a, t) ELSE Silence(a, t)
  OBVIOUS
<1> HIDE DEF a, b, c
<1>6. CASE a.step = "over"
  <2>1. k = a
    BY <1>1, <1>5, <1>6
  <2>2. Len(e) >= TotalAnalysisTime
    <3>1. f \in Seq(Frames)
      BY DEF Before
    <3>2. Len(e) = Len(f) + 1
      BY <3>1
    <3> QED BY <1>2, <1>6, <3>2
  <2> QED BY <1>2, <1>6, <2>1, <2>2 DEF Justifies
<1>7. CASE a.step = "listening" /\ noisy
  <2>1. b = Noise(a, t) /\ e = Append(f, [time |-> t, noisy |-> TRUE])
    BY <1>5, <1>7
  <2>2. HearsNoise(f, t, a, Len(f), e, RunStart(e, Len(f) + 1))
    BY <1>2, <1>3, <2>1 DEF HearsNoise
  <2>3. /\ b.step = "listening" => Knows(Passed(b, t), e)
        /\ b.step = "over" => Justifies(e, b.amd_result)
    BY <1>4, <1>7, <2>1, <2>2, NoiseLearns
  <2>4. b \in Helper /\ b.step \in {"listening", "over"}
    BY <1>2, <1>4, <1>7, <2>1, NoiseFields
  <2>5. CASE b.step = "over"
    BY <1>1, <2>3, <2>5
  <2>6. CASE b.step = "listening"
    <3>1. k = Passed(b, t)
      BY <1>1, <2>6
    <3>2. Passed(b, t).step = b.step
      BY <2>4, PassedFields
    <3> QED BY <2>3, <2>6, <3>1, <3>2
  <2> QED BY <2>4, <2>5, <2>6
<1>8. CASE a.step = "listening" /\ ~noisy
  <2>1. b = Silence(a, t) /\ e = Append(f, [time |-> t, noisy |-> FALSE])
    BY <1>5, <1>8
  <2>2. HearsSilence(f, t, a, Len(f), e)
    BY <1>2, <1>3, <2>1 DEF HearsSilence
  <2>3. /\ b.step = "listening" => Knows(Passed(b, t), e)
        /\ b.step = "over" => Justifies(e, b.amd_result)
    BY <1>4, <1>8, <2>1, <2>2, SilenceLearns
  <2>4. b \in Helper /\ b.step \in {"listening", "over"}
    BY <1>2, <1>4, <1>8, <2>1, SilenceFields
  <2>5. CASE b.step = "over"
    BY <1>1, <2>3, <2>5
  <2>6. CASE b.step = "listening"
    <3>1. k = Passed(b, t)
      BY <1>1, <2>6
    <3>2. Passed(b, t).step = b.step
      BY <2>4, PassedFields
    <3> QED BY <2>3, <2>6, <3>1, <3>2
  <2> QED BY <2>4, <2>5, <2>6
<1> QED BY <1>2, <1>6, <1>7, <1>8

\* Another frame, and the time after it.
LEMMA BeforeGrows ==
  ASSUME NEW f, NEW now0 \in Nat, NEW t \in Nat, now0 < t, Before(f, now0 + 1),
         NEW noisy \in BOOLEAN
  PROVE  Before(f, t) /\ Before(Append(f, [time |-> t, noisy |-> noisy]), t + 1)
<1> DEFINE x == [time |-> t, noisy |-> noisy]
           e == Append(f, x)
<1>1. /\ f \in Seq(Frames) /\ HasRuns(f) /\ Increases(f) /\ Len(f) \in Nat
      /\ \A i \in 1..Len(f) : 0 < f[i].time /\ f[i].time < now0 + 1
  BY DEF Before
<1>2. \A i \in 1..Len(f) : f[i].time \in Nat
  <2>1. \A i \in 1..Len(f) : f[i] \in Frames
    BY <1>1
  <2> QED BY <2>1 DEF Frames
<1>3. \A i \in 1..Len(f) : f[i].time < t
  BY <1>1, <1>2
<1>4. x \in Frames /\ x.time = t
  BY DEF Frames
<1>5. /\ e \in Seq(Frames) /\ Len(e) = Len(f) + 1 /\ e[Len(f) + 1] = x
      /\ \A i \in 1..Len(f) : e[i] = f[i]
  BY <1>1, <1>4
<1>6. HasRuns(e)
  BY <1>1, <1>4, HistoryGrows
<1> HIDE DEF x, e
<1>7. Increases(e)
  <2> SUFFICES ASSUME NEW i \in 1..Len(e), NEW j \in 1..(i - 1) PROVE e[j].time < e[i].time
    BY DEF Increases
  <2>1. j \in 1..Len(f) /\ e[j] = f[j]
    BY <1>1, <1>5
  <2>2. CASE i = Len(f) + 1
    BY <1>3, <1>4, <1>5, <2>1, <2>2
  <2>3. CASE i # Len(f) + 1
    <3>1. i \in 1..Len(f) /\ e[i] = f[i]
      BY <1>1, <1>5, <2>3
    <3> QED BY <1>1, <2>1, <3>1 DEF Increases
  <2> QED BY <2>2, <2>3
<1>8. \A i \in 1..Len(e) : 0 < e[i].time /\ e[i].time < t + 1
  <2> SUFFICES ASSUME NEW i \in 1..Len(e) PROVE 0 < e[i].time /\ e[i].time < t + 1
    OBVIOUS
  <2>1. CASE i = Len(f) + 1
    BY <1>4, <1>5, <2>1
  <2>2. CASE i # Len(f) + 1
    <3>1. i \in 1..Len(f) /\ e[i] = f[i]
      BY <1>1, <1>5, <2>2
    <3> QED BY <1>1, <1>2, <1>3, <3>1
  <2> QED BY <2>1, <2>2
<1> QED BY <1>1, <1>3, <1>5, <1>6, <1>7, <1>8 DEF Before, e, x

LEMMA LaterIsBefore ==
  ASSUME NEW f, NEW now0 \in Nat, NEW now1 \in Nat, now0 <= now1, Before(f, now0 + 1)
  PROVE  Before(f, now1 + 1)
<1>1. f \in Seq(Frames) /\ \A i \in 1..Len(f) : f[i] \in Frames
  BY DEF Before
<1>2. \A i \in 1..Len(f) : f[i].time \in Nat
  BY <1>1 DEF Frames
<1> QED BY <1>1, <1>2 DEF Before

LEMMA KnowsInit == Init => KnowsInv
<1> SUFFICES ASSUME Init PROVE KnowsInv
  OBVIOUS
<1>1. TypeInv
  BY TypeInvInit
<1>2. ASSUME NEW h \in Helpers
      PROVE  /\ Before(heard[h], now + 1)
             /\ Knows(helper[h], heard[h]) /\ helper[h].total_time = Len(heard[h])
             /\ helper[h].step = "listening"
  <2>1. heard[h] = <<>> /\ helper[h] = NewHelper
    BY DEF Init
  <2>2. Before(heard[h], now + 1)
    BY <2>1 DEF Before, HasRuns, Increases
  <2>3. Talks(heard[h]) = {} /\ ~HeardTalk(heard[h])
    BY <2>1 DEF Talks, HeardTalk
  <2>4. Cardinality({}) = 0
    BY FS_EmptySet
  <2>5. Clean(NewHelper) /\ NewHelper.total_noise_count = 0 /\ NewHelper.total_time = 0
    BY DEF Clean, NewHelper
  <2>6. NewHelper.state_silent_initial /\ ~NewHelper.state_intro /\ NewHelper.step = "listening"
    BY DEF NewHelper
  <2>7. Len(heard[h]) = 0 /\ \A i \in 1..Len(heard[h]) : FALSE
    BY <2>1
  <2>8. Knows(NewHelper, heard[h])
    BY <2>1, <2>3, <2>4, <2>5, <2>6, <2>7 DEF Knows
  <2> QED BY <2>1, <2>2, <2>5, <2>6, <2>7, <2>8
<1> QED BY <1>1, <1>2 DEF KnowsInv, ResultIsJustified

LEMMA KnowsKept == ASSUME NoiseMinLength # 0 PROVE KnowsInv /\ [Next]_vars => KnowsInv'
<1> SUFFICES ASSUME KnowsInv, [Next]_vars PROVE KnowsInv'
  OBVIOUS
<1>1. TypeInv /\ TypeOK /\ TypeInv' /\ now \in Nat
  BY TypeInvKept DEF KnowsInv, TypeInv, TypeOK
<1>2. now' \in Nat /\ now <= now' /\ \A h \in Helpers : Hears(h) \/ Decides(h) \/ Rests(h)
  BY <1>1, StepCases
<1>3. ASSUME NEW h \in Helpers
      PROVE  /\ Before(heard'[h], now' + 1)
             /\ helper'[h].step = "listening" =>
                  Knows(helper'[h], heard'[h]) /\ helper'[h].total_time = Len(heard'[h])
             /\ helper'[h].step # "listening" => Justifies(heard'[h], helper'[h].amd_result)
  <2>1. /\ helper[h] \in Helper /\ helper[h].last_noisy <= now /\ helper[h].last_noisy \in Nat
        /\ Before(heard[h], now + 1)
        /\ helper[h].step = "listening" =>
             Knows(helper[h], heard[h]) /\ helper[h].total_time = Len(heard[h])
        /\ helper[h].step # "listening" => Justifies(heard[h], helper[h].amd_result)
    BY <1>1 DEF KnowsInv, TypeInv, TypeOK, ResultIsJustified, Helper
  <2>2. CASE Hears(h)
    <3>1. PICK noisy \in BOOLEAN :
            /\ now' \in Nat /\ now < now'
            /\ helper[h].step = "listening"
            /\ helper'[h] = Analysed(helper[h], noisy, now')
            /\ heard'[h] = Append(heard[h], [time |-> now', noisy |-> noisy])
      BY <2>2 DEF Hears
    <3>2. Before(heard[h], now') /\ Before(heard'[h], now' + 1)
      BY <1>1, <2>1, <3>1, BeforeGrows
    <3>3. helper[h].last_noisy <= now'
      BY <1>1, <2>1, <3>1
    <3>4. /\ helper'[h].step = "listening" => Knows(helper'[h], heard'[h])
          /\ helper'[h].step # "listening" => Justifies(heard'[h], helper'[h].amd_result)
      BY <2>1, <3>1, <3>2, <3>3, FrameLearns
    <3>5. helper'[h].total_time = Len(heard'[h])
      <4>1. helper'[h].total_time = helper[h].total_time + 1
        BY <2>1, <3>1, <3>3, AnalysedFields
      <4>2. heard[h] \in Seq(Frames)
        BY <2>1 DEF Before
      <4> QED BY <2>1, <3>1, <4>1, <4>2
    <3> QED BY <3>2, <3>4, <3>5
  <2>3. Before(heard[h], now' + 1)
    BY <1>1, <1>2, <2>1, LaterIsBefore
  <2>4. CASE Decides(h)
    <3>1. PICK s \in Steps \ {"listening"} : helper'[h] = [helper[h] EXCEPT !.step = s]
      BY <2>4 DEF Decides
    <3>2. helper'[h].step # "listening" /\ helper'[h].amd_result = helper[h].amd_result
      BY <2>1, <3>1, StepFields
    <3> QED BY <2>1, <2>3, <2>4, <3>2 DEF Decides
  <2>5. CASE Rests(h)
    BY <2>1, <2>3, <2>5 DEF Rests
  <2> QED BY <1>2, <2>2, <2>4, <2>5
<1> QED BY <1>1, <1>3 DEF KnowsInv, ResultIsJustified

(***************************************************************************)
(* The result that is published is the one the frames justify, and never   *)
(* max-intro, for all settings in which a noise of no length is no talk.   *)
(* The helper keeps a dozen fields for it: each one is a fact about all    *)
(* the frames so far (Knows), which every frame keeps.                     *)
(***************************************************************************)
THEOREM ResultAlwaysJustified ==
  ASSUME NoiseMinLength # 0
  PROVE  Spec => []ResultIsJustified
<1>1. Init => KnowsInv
  BY KnowsInit
<1>2. KnowsInv /\ [Next]_vars => KnowsInv'
  BY KnowsKept
<1>3. KnowsInv => ResultIsJustified
  BY DEF KnowsInv
<1> QED BY <1>1, <1>2, <1>3, PTL DEF Spec
=============================================================================
