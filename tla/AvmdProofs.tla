----------------------------- MODULE AvmdProofs -----------------------------
(***************************************************************************)
(* Proofs about Avmd, for any number of sessions, detectors and callers:   *)
(* IInv is inductive, no thread is left behind, the callback and the       *)
(* detectors implement FrameRounds, and the sessions are counted right.     *)
(* One lemma per action, and in it one step per part of the invariant.     *)
(***************************************************************************)
EXTENDS Avmd, FiniteSetTheorems, TLAPS

\* The two threads of the session and the callers differ; None is nobody.
LEMMA NamesFacts ==
  /\ App \in Actors /\ Media \in Actors /\ App # Media
  /\ None \notin Actors /\ None \notin Sessions
  /\ \A c \in Callers : c \in Actors /\ c # App /\ c # Media
  /\ \A a \in Actors : a \in Callers \/ a = App \/ a = Media
  /\ \A s \in ApiSessions : s \in Sessions
  /\ \A s \in AppSessions : s \in Sessions
  BY NamesAssumption DEF Actors, Sessions

\* The detectors of a session are among all; one of the API command has none.
LEMMA SizeFacts ==
  /\ \A s \in Sessions : /\ Size(s) \in Nat
                         /\ DetectorsOf(s) = 1..Size(s)
                         /\ DetectorsOf(s) \subseteq All
  /\ \A s \in ApiSessions : DetectorsOf(s) = {}
  /\ \A d \in All : d \in Nat \ {0}
<1>1. \A s \in Sessions : Size(s) \in {0, DetectorsN + LaggedN}
  BY DEF Size
<1>2. \A s \in ApiSessions : Size(s) = 0
  BY NamesAssumption DEF Size
<1> QED BY <1>1, <1>2, DetectorsAssumption DEF DetectorsOf, All

LEMMA RemainderInRange ==
  ASSUME NEW m \in Nat, NEW n \in Nat \ {0}
  PROVE  m % n \in 0..(n - 1)
  OBVIOUS

\* What the invariant consists of, for the lemmas to cite.
LEMMA Parts ==
  IInv => /\ TypeOK /\ WhereAgrees /\ MutexAgrees /\ LifeAgrees
          /\ ThreadsAgree /\ LoopsAgree /\ RoundsAgree /\ FrameOfOpenSession
  BY DEF IInv

(***************************************************************************)
(* Who opens or closes a session is alone with it.                         *)
(***************************************************************************)
LEMMA BusyAlone ==
  ASSUME IInv, NEW a \in Actors, NEW b \in Actors, NEW s \in Sessions, Busy(a, s), Busy(b, s)
  PROVE  a = b
  BY DEF IInv, LifeAgrees

\* Somebody who is not idle works on a session.
LEMMA Working ==
  ASSUME IInv, NEW a \in Actors, at[a] # "idle"
  PROVE  cur[a] \in Sessions
  BY DEF IInv, WhereAgrees, TypeOK

(***************************************************************************)
(* The detectors of a session whose bug is on the channel all run, and     *)
(* none is told to exit: who tells them has removed the bug before.        *)
(***************************************************************************)
LEMMA AttachedRuns ==
  ASSUME IInv, NEW s \in Sessions, life[s] = "attached", NEW d \in DetectorsOf(s)
  PROVE  thread[s][d] \notin {"none", "ended"} /\ d \notin exit[s]
<1>1. ThreadsOf(s)
  BY Parts DEF ThreadsAgree
<1>2. \A a \in Actors : ~Joins(a, s, d)
  BY Parts DEF Joins, LifeAgrees, LifeFits, Busy, CloseSteps, WhereAgrees, TypeOK
<1> QED BY <1>1, <1>2 DEF ThreadsOf, Launched

\* Nobody opens or closes a session whose bug is on the channel.
LEMMA AttachedIsOpen ==
  ASSUME IInv, NEW s \in Sessions, life[s] = "attached", NEW a \in Actors
  PROVE  ~Busy(a, s)
  BY Parts DEF LifeAgrees, LifeFits, Busy, CloseSteps, WhereAgrees, TypeOK

(***************************************************************************)
(* The parts about a session that a step does not touch.                   *)
(***************************************************************************)
Untouched(t) ==
  /\ life'[t] = life[t] /\ destroyed'[t] = destroyed[t]
  /\ exit'[t] = exit[t] /\ done'[t] = done[t]
  /\ \A e \in All : thread'[t][e] = thread[t][e]
  /\ \A a \in Actors : cur'[a] = t <=> cur[a] = t
  /\ \A a \in Actors : cur[a] = t =>
       at'[a] = at[a] /\ idx'[a] = idx[a] /\ after'[a] = after[a]

LEMMA UntouchedKeeps ==
  ASSUME IInv, NEW t \in Sessions, Untouched(t)
  PROVE  /\ ThreadsOf(t)'
         /\ \A b \in Actors : cur'[b] = t => LoopOf(b, t)'
         /\ RoundOf(t)'
<1>1. /\ ThreadsOf(t) /\ RoundOf(t)
      /\ \A b \in Actors : cur[b] = t => LoopOf(b, t)
  BY Parts DEF ThreadsAgree, RoundsAgree, LoopsAgree
<1>2. \A a \in Actors : Busy(a, t)' <=> Busy(a, t)
  BY DEF Untouched, Busy
<1>3. \A a \in Actors, d \in All : Joins(a, t, d)' <=> Joins(a, t, d)
  BY DEF Untouched, Joins
<1>4. ThreadsOf(t)'
  BY <1>1, <1>2, <1>3, SizeFacts DEF Untouched, ThreadsOf, NoThread, Launched
<1>5. ASSUME NEW b \in Actors, cur'[b] = t PROVE LoopOf(b, t)'
  BY <1>1, <1>5, SizeFacts DEF Untouched, LoopOf, NoThread, Launched, InProgress
<1>6. RoundOf(t)'
  BY <1>1, NamesFacts, SizeFacts DEF Untouched, RoundOf, InRound, InProgress
<1> QED BY <1>4, <1>5, <1>6

(***************************************************************************)
(* A step that moves no thread, and leaves who opens, closes and joins.    *)
(***************************************************************************)
SameHands(a, t) ==
  /\ Busy(a, t)' <=> Busy(a, t)
  /\ \A d \in All : Joins(a, t, d)' <=> Joins(a, t, d)

LEMMA ThreadsStay ==
  ASSUME IInv, UNCHANGED <<life, destroyed, exit, thread>>,
         \A a \in Actors, t \in Sessions : SameHands(a, t)
  PROVE  ThreadsAgree'
<1> SUFFICES ASSUME NEW t \in Sessions PROVE ThreadsOf(t)'
  BY DEF ThreadsAgree
<1>1. ThreadsOf(t)
  BY Parts DEF ThreadsAgree
<1> QED BY <1>1, SizeFacts DEF ThreadsOf, NoThread, Launched, SameHands

\* A step that moves no detector and no frame.
LEMMA RoundsStay ==
  ASSUME IInv, UNCHANGED <<life, done, exit, thread>>,
         at'[Media] = at[Media], cur'[Media] = cur[Media]
  PROVE  RoundsAgree'
  BY Parts DEF RoundsAgree, RoundOf, InProgress, InRound, DetectorsOf, Size

(***************************************************************************)
(* One thread moves, and no other.                                         *)
(***************************************************************************)
LEMMA ThreadMoves ==
  ASSUME TypeOK, NEW s \in Sessions, NEW d \in All, NEW x \in ThreadSteps,
         thread' = [thread EXCEPT ![s][d] = x]
  PROVE  /\ thread' \in [Sessions -> [All -> ThreadSteps]]
         /\ \A t \in Sessions, e \in All :
              thread'[t][e] = IF t = s /\ e = d THEN x ELSE thread[t][e]
<1>1. thread[s] \in [All -> ThreadSteps]
  BY DEF TypeOK
<1>2. thread' = [thread EXCEPT ![s] = [thread[s] EXCEPT ![d] = x]]
  OBVIOUS
<1>3. [thread[s] EXCEPT ![d] = x] \in [All -> ThreadSteps]
  BY <1>1
<1> QED BY <1>1, <1>2, <1>3 DEF TypeOK

LEMMA SignalMoves ==
  ASSUME TypeOK, NEW s \in Sessions, NEW d \in All, thread' = Signalled(s, d)
  PROVE  /\ thread' \in [Sessions -> [All -> ThreadSteps]]
         /\ \A t \in Sessions, e \in All :
              thread'[t][e] = IF t = s /\ e = d
                              THEN (IF thread[s][d] = "asleep" THEN "ready" ELSE thread[s][d])
                              ELSE thread[t][e]
<1>1. CASE thread[s][d] = "asleep"
  <2>1. thread' = [thread EXCEPT ![s][d] = "ready"] /\ "ready" \in ThreadSteps
    BY <1>1 DEF Signalled, ThreadSteps
  <2>2. thread[s] \in [All -> ThreadSteps]
    BY DEF TypeOK
  <2>3. thread' = [thread EXCEPT ![s] = [thread[s] EXCEPT ![d] = "ready"]]
    BY <2>1
  <2>4. [thread[s] EXCEPT ![d] = "ready"] \in [All -> ThreadSteps]
    BY <2>1, <2>2
  <2> QED BY <1>1, <2>2, <2>3, <2>4 DEF TypeOK
<1>2. CASE thread[s][d] # "asleep"
  <2>1. thread' = thread
    BY <1>2 DEF Signalled, TypeOK
  <2> QED BY <1>2, <2>1 DEF TypeOK
<1> QED BY <1>1, <1>2

-----------------------------------------------------------------------------
(* A start.                                                                *)

\* The application allocates a session; nobody knows it yet.
LEMMA StartAppKeeps ==
  ASSUME IInv, NEW s \in Sessions, StartApp(s)
  PROVE  IInv'
<1>1. /\ UNCHANGED <<up, bug, globals, session_n, holder, destroyed, beep,
                     frame_n, pos, asleep, done, exit, verdict, lag, thread,
                     dpos, after, idx>>
      /\ at[App] = "idle" /\ life[s] = "free"
      /\ life' = [life EXCEPT ![s] = "made"]
      /\ at' = [at EXCEPT ![App] = "making"]
      /\ cur' = [cur EXCEPT ![App] = s]
  BY Parts, Working, NamesFacts
  DEF StartApp, LifeIs, GotoOn, channel, module, session, detectors, where
<1>2. TypeOK'
  BY Parts, <1>1, NamesFacts, SizeFacts
  DEF TypeOK, ThreadSteps, StartSteps, StopSteps, CloseSteps, FrameSteps
<1>3. WhereAgrees'
  BY Parts, <1>1, NamesFacts
  DEF WhereAgrees, TypeOK, AppSteps, StartSteps, StopSteps, CloseSteps,
         FrameSteps, Busy, OpenSteps
<1>4. MutexAgrees'
  <2> SUFFICES ASSUME NEW b \in Actors, NEW t \in Sessions
               PROVE  Holds(b, t)' <=> holder'[t] = b
    BY DEF MutexAgrees
  <2>1. Holds(b, t) <=> holder[t] = b
    BY Parts DEF MutexAgrees
  <2> QED BY <2>1, Parts, <1>1, NamesFacts
      DEF Holds, WhereAgrees, TypeOK
<1>5. LifeAgrees'
  BY Parts, <1>1, NamesFacts
  DEF LifeAgrees, LifeFits, Busy, WhereAgrees, TypeOK, OpenSteps, CloseSteps,
         AppSteps
<1>6. ThreadsAgree'
  <2> SUFFICES ASSUME NEW t \in Sessions PROVE ThreadsOf(t)'
    BY DEF ThreadsAgree
  <2>1. ThreadsOf(t) /\ \A b \in Actors : cur[b] = t => LoopOf(b, t)
    BY Parts DEF ThreadsAgree, LoopsAgree
  <2> QED BY <2>1, Parts, <1>1, NamesFacts, SizeFacts
      DEF ThreadsOf, LoopOf, NoThread, Launched, Joins, LifeAgrees, LifeFits, Busy,
             OpenSteps, CloseSteps, TypeOK
<1>7. LoopsAgree'
  <2> SUFFICES ASSUME NEW b \in Actors, NEW t \in Sessions, cur'[b] = t
               PROVE  LoopOf(b, t)'
    BY DEF LoopsAgree
  <2>1. ThreadsOf(t) /\ (cur[b] = t => LoopOf(b, t))
    BY Parts DEF LoopsAgree, ThreadsAgree
  <2> QED BY <2>1, Parts, <1>1, NamesFacts, SizeFacts
      DEF LoopOf, ThreadsOf, InProgress, NoThread, Launched, TypeOK
<1>8. RoundsAgree'
  <2> SUFFICES ASSUME NEW t \in Sessions PROVE RoundOf(t)'
    BY DEF RoundsAgree
  <2>1. RoundOf(t) /\ \A b \in Actors : cur[b] = t => LoopOf(b, t)
    BY Parts DEF RoundsAgree, LoopsAgree
  <2> QED BY <2>1, Parts, <1>1, NamesFacts, SizeFacts
      DEF RoundOf, LoopOf, InProgress, InRound, LifeAgrees, LifeFits, Busy, OpenSteps,
             CloseSteps, TypeOK
<1>9. FrameOfOpenSession'
  BY Parts, <1>1, NamesFacts
  DEF FrameOfOpenSession, LifeAgrees, LifeFits, Busy, OpenSteps, CloseSteps,
         FrameSteps, WhereAgrees, TypeOK
<1> QED BY <1>2, <1>3, <1>4, <1>5, <1>6, <1>7, <1>8, <1>9 DEF IInv

\* A start that is refused has launched no thread.
LEMMA StartRefusedKeeps ==
  ASSUME IInv, StartRefused
  PROVE  IInv'
<1>1. /\ UNCHANGED <<up, bug, globals, session_n, holder, destroyed, beep,
                     frame_n, pos, asleep, done, exit, verdict, lag, thread,
                     dpos>>
      /\ at[App] \in {"making", "starting"} /\ cur[App] \in Sessions /\ NoThread(cur[App])
      /\ life' = [life EXCEPT ![cur[App]] = "failed"]
      /\ at' = [at EXCEPT ![App] = "idle"]
      /\ cur' = [cur EXCEPT ![App] = None]
      /\ after' = [after EXCEPT ![App] = "idle"]
      /\ idx' = [idx EXCEPT ![App] = 0]
  BY Parts, Working, NamesFacts
  DEF StartRefused, LifeIs, Leave, LoopsAgree, LoopOf, channel, module, session, detectors, where
<1>2. TypeOK'
  BY Parts, <1>1, NamesFacts, SizeFacts
  DEF TypeOK, ThreadSteps, StartSteps, StopSteps, CloseSteps, FrameSteps
<1>3. WhereAgrees'
  BY Parts, <1>1, NamesFacts
  DEF WhereAgrees, TypeOK, AppSteps, StartSteps, StopSteps, CloseSteps,
         FrameSteps, Busy, OpenSteps
<1>4. MutexAgrees'
  <2> SUFFICES ASSUME NEW b \in Actors, NEW t \in Sessions
               PROVE  Holds(b, t)' <=> holder'[t] = b
    BY DEF MutexAgrees
  <2>1. Holds(b, t) <=> holder[t] = b
    BY Parts DEF MutexAgrees
  <2> QED BY <2>1, Parts, <1>1, NamesFacts
      DEF Holds, WhereAgrees, TypeOK
<1>5. LifeAgrees'
  BY Parts, <1>1, NamesFacts
  DEF LifeAgrees, LifeFits, Busy, WhereAgrees, TypeOK, OpenSteps, CloseSteps,
         AppSteps
<1>6. ThreadsAgree'
  <2> SUFFICES ASSUME NEW t \in Sessions PROVE ThreadsOf(t)'
    BY DEF ThreadsAgree
  <2>1. ThreadsOf(t) /\ \A b \in Actors : cur[b] = t => LoopOf(b, t)
    BY Parts DEF ThreadsAgree, LoopsAgree
  <2> QED BY <2>1, Parts, <1>1, NamesFacts, SizeFacts
      DEF ThreadsOf, LoopOf, NoThread, Launched, Joins, LifeAgrees, LifeFits, Busy,
             OpenSteps, CloseSteps, TypeOK
<1>7. LoopsAgree'
  <2> SUFFICES ASSUME NEW b \in Actors, NEW t \in Sessions, cur'[b] = t
               PROVE  LoopOf(b, t)'
    BY DEF LoopsAgree
  <2>1. ThreadsOf(t) /\ (cur[b] = t => LoopOf(b, t))
    BY Parts DEF LoopsAgree, ThreadsAgree
  <2> QED BY <2>1, Parts, <1>1, NamesFacts, SizeFacts
      DEF LoopOf, ThreadsOf, InProgress, NoThread, Launched, TypeOK
<1>8. RoundsAgree'
  <2> SUFFICES ASSUME NEW t \in Sessions PROVE RoundOf(t)'
    BY DEF RoundsAgree
  <2>1. RoundOf(t) /\ \A b \in Actors : cur[b] = t => LoopOf(b, t)
    BY Parts DEF RoundsAgree, LoopsAgree
  <2> QED BY <2>1, Parts, <1>1, NamesFacts, SizeFacts
      DEF RoundOf, LoopOf, InProgress, InRound, LifeAgrees, LifeFits, Busy, OpenSteps,
             CloseSteps, TypeOK
<1>9. FrameOfOpenSession'
  BY Parts, <1>1, NamesFacts
  DEF FrameOfOpenSession, LifeAgrees, LifeFits, Busy, OpenSteps, CloseSteps,
         FrameSteps, WhereAgrees, TypeOK
<1> QED BY <1>2, <1>3, <1>4, <1>5, <1>6, <1>7, <1>8, <1>9 DEF IInv

\* Every detector of the new session is done.
LEMMA InitSessionKeeps ==
  ASSUME IInv, InitSession
  PROVE  IInv'
<1>1. /\ UNCHANGED <<up, bug, globals, session_n, life, holder, destroyed,
                     beep, frame_n, pos, asleep, verdict, lag, thread, dpos,
                     cur, after, idx>>
      /\ at[App] = "making" /\ cur[App] \in Sessions /\ NoThread(cur[App])
      /\ done' = [done EXCEPT ![cur[App]] = All]
      /\ exit' = [exit EXCEPT ![cur[App]] = All]
      /\ at' = [at EXCEPT ![App] = "starting"]
  BY Parts, Working, NamesFacts
  DEF InitSession, Goto, LoopsAgree, LoopOf, channel, module, session, detectors, where
<1>2. TypeOK'
  BY Parts, <1>1, NamesFacts, SizeFacts
  DEF TypeOK, ThreadSteps, StartSteps, StopSteps, CloseSteps, FrameSteps
<1>3. WhereAgrees'
  BY Parts, <1>1, NamesFacts
  DEF WhereAgrees, TypeOK, AppSteps, StartSteps, StopSteps, CloseSteps,
         FrameSteps, Busy, OpenSteps
<1>4. MutexAgrees'
  <2> SUFFICES ASSUME NEW b \in Actors, NEW t \in Sessions
               PROVE  Holds(b, t)' <=> holder'[t] = b
    BY DEF MutexAgrees
  <2>1. Holds(b, t) <=> holder[t] = b
    BY Parts DEF MutexAgrees
  <2> QED BY <2>1, Parts, <1>1, NamesFacts
      DEF Holds, WhereAgrees, TypeOK
<1>5. LifeAgrees'
  BY Parts, <1>1, NamesFacts
  DEF LifeAgrees, LifeFits, Busy, WhereAgrees, TypeOK, OpenSteps, CloseSteps,
         AppSteps
<1>6. ThreadsAgree'
  <2> SUFFICES ASSUME NEW t \in Sessions PROVE ThreadsOf(t)'
    BY DEF ThreadsAgree
  <2>1. ThreadsOf(t) /\ \A b \in Actors : cur[b] = t => LoopOf(b, t)
    BY Parts DEF ThreadsAgree, LoopsAgree
  <2> QED BY SMTT(20), <2>1, Parts, <1>1, NamesFacts, SizeFacts
      DEF ThreadsOf, LoopOf, NoThread, Launched, Joins, LifeAgrees, LifeFits, Busy,
             OpenSteps, CloseSteps, TypeOK
<1>7. LoopsAgree'
  <2> SUFFICES ASSUME NEW b \in Actors, NEW t \in Sessions, cur'[b] = t
               PROVE  LoopOf(b, t)'
    BY DEF LoopsAgree
  <2>1. ThreadsOf(t) /\ (cur[b] = t => LoopOf(b, t))
    BY Parts DEF LoopsAgree, ThreadsAgree
  <2> QED BY <2>1, Parts, <1>1, NamesFacts, SizeFacts
      DEF LoopOf, ThreadsOf, InProgress, NoThread, Launched, TypeOK
<1>8. RoundsAgree'
  <2> SUFFICES ASSUME NEW t \in Sessions PROVE RoundOf(t)'
    BY DEF RoundsAgree
  <2>1. RoundOf(t) /\ \A b \in Actors : cur[b] = t => LoopOf(b, t)
    BY Parts DEF RoundsAgree, LoopsAgree
  <2> QED BY <2>1, Parts, <1>1, NamesFacts, SizeFacts
      DEF RoundOf, LoopOf, InProgress, InRound, LifeAgrees, LifeFits, Busy, OpenSteps,
             CloseSteps, TypeOK
<1>9. FrameOfOpenSession'
  BY Parts, <1>1, NamesFacts
  DEF FrameOfOpenSession, LifeAgrees, LifeFits, Busy, OpenSteps, CloseSteps,
         FrameSteps, WhereAgrees, TypeOK
<1> QED BY <1>2, <1>3, <1>4, <1>5, <1>6, <1>7, <1>8, <1>9 DEF IInv

\* LaunchThreads, when that many threads can be created.
LaunchesSome(created) ==
  /\ at[App] = "starting"
  /\ Locks(App, cur[App])
  /\ exit' = [exit EXCEPT ![cur[App]] = {d \in All : d > created + 1}]
  /\ lag' = [lag EXCEPT ![cur[App]] =
       [d \in All |-> IF DetectorsN < d /\ d <= created + 1
                      THEN d - DetectorsN ELSE 0]]
  /\ thread' = [thread EXCEPT ![cur[App]] =
       [d \in All |-> IF d <= created THEN "starting" ELSE "none"]]
  /\ UNCHANGED <<channel, module, life, destroyed, beep, frame_n, pos,
                 asleep, done, verdict, dpos, cur>>

\* All the threads are launched, and none of them is told to exit.
LEMMA LaunchesAllKeeps ==
  ASSUME IInv, LaunchesSome(Size(cur[App])), Goto(App, "adding")
  PROVE  IInv'
<1>1. /\ UNCHANGED <<up, bug, globals, session_n, life, destroyed, beep,
                     frame_n, pos, asleep, done, verdict, dpos, cur, after,
                     idx>>
      /\ at[App] = "starting" /\ cur[App] \in Sessions /\ holder[cur[App]] = None
      /\ holder' = [holder EXCEPT ![cur[App]] = App]
      /\ lag' \in [Sessions -> [All -> Nat]]
      /\ thread' \in [Sessions -> [All -> ThreadSteps]]
      /\ \A t \in Sessions \ {cur[App]} : thread'[t] = thread[t]
      /\ exit' = [exit EXCEPT ![cur[App]] = {d \in All : d > Size(cur[App]) + 1}]
      /\ \A d \in All : thread'[cur[App]][d] = IF d <= Size(cur[App]) THEN "starting" ELSE "none"
      /\ at' = [at EXCEPT ![App] = "adding"]
  <2>1. at[App] = "starting" /\ cur[App] \in Sessions
    BY Working, NamesFacts DEF LaunchesSome
  <2>2. [d \in All |-> IF DetectorsN < d /\ d <= Size(cur[App]) + 1
                       THEN d - DetectorsN ELSE 0] \in [All -> Nat]
    BY SizeFacts, DetectorsAssumption
  <2>3. lag' \in [Sessions -> [All -> Nat]]
    BY <2>1, <2>2, Parts DEF LaunchesSome, TypeOK
  <2>4. thread' = [thread EXCEPT ![cur[App]] =
                [d \in All |-> IF d <= Size(cur[App]) THEN "starting" ELSE "none"]]
    BY DEF LaunchesSome
  <2>5. thread' \in [Sessions -> [All -> ThreadSteps]]
    BY <2>1, <2>4, Parts DEF TypeOK, ThreadSteps
  <2> QED BY <2>1, <2>3, <2>4, <2>5, Parts
      DEF LaunchesSome, Locks, Goto, TypeOK, channel, module, session, detectors, where
<1>2. TypeOK'
  BY Parts, <1>1, NamesFacts, SizeFacts
  DEF TypeOK, ThreadSteps, StartSteps, StopSteps, CloseSteps, FrameSteps
<1>3. WhereAgrees'
  BY Parts, <1>1, NamesFacts
  DEF WhereAgrees, TypeOK, AppSteps, StartSteps, StopSteps, CloseSteps,
         FrameSteps, Busy, OpenSteps
<1>4. MutexAgrees'
  <2> SUFFICES ASSUME NEW b \in Actors, NEW t \in Sessions
               PROVE  Holds(b, t)' <=> holder'[t] = b
    BY DEF MutexAgrees
  <2>1. Holds(b, t) <=> holder[t] = b
    BY Parts DEF MutexAgrees
  <2> QED BY <2>1, Parts, <1>1, NamesFacts
      DEF Holds, WhereAgrees, TypeOK
<1>5. LifeAgrees'
  BY Parts, <1>1, NamesFacts
  DEF LifeAgrees, LifeFits, Busy, WhereAgrees, TypeOK, OpenSteps, CloseSteps,
         AppSteps
<1>6. ASSUME NEW t \in Sessions, t # cur[App] PROVE Untouched(t)
  BY <1>1, <1>6, Parts, NamesFacts, SizeFacts DEF Untouched, TypeOK
<1>7. /\ ThreadsOf(cur[App]) /\ RoundOf(cur[App]) /\ life[cur[App]] = "made"
      /\ \A b \in Actors : cur[b] = cur[App] => LoopOf(b, cur[App])
      /\ \A b \in Actors : Busy(b, cur[App]) => b = App
  BY <1>1, Parts, NamesFacts, AttachedIsOpen
  DEF ThreadsAgree, RoundsAgree, LoopsAgree, LifeAgrees, LifeFits, Busy, OpenSteps,
      CloseSteps, WhereAgrees, TypeOK
<1>8. ThreadsOf(cur[App])'
  <2>1. Busy(App, cur[App])'
    BY <1>1, NamesFacts, Parts DEF Busy, OpenSteps, CloseSteps, TypeOK
  <2>2. \A d \in All : /\ thread'[cur[App]][d] \in {"none", "starting"}
                      /\ thread'[cur[App]][d] # "none" => d \notin exit'[cur[App]]
    BY <1>1, SizeFacts, Parts, DetectorsAssumption DEF TypeOK
  <2>3. \A d \in All \ DetectorsOf(cur[App]) : thread'[cur[App]][d] = "none"
    BY <1>1, SizeFacts
  <2>4. ~destroyed[cur[App]]
    BY <1>7 DEF ThreadsOf
  <2> QED BY <1>1, <1>7, <2>1, <2>2, <2>3, <2>4, SizeFacts, NamesFacts
      DEF ThreadsOf, NoThread, Launched
<1>9. ASSUME NEW b \in Actors, cur'[b] = cur[App] PROVE LoopOf(b, cur[App])'
  <2>1. CASE b = App
    BY <1>1, <1>7, <2>1, NamesFacts, SizeFacts, Parts
    DEF LoopOf, NoThread, Launched, InProgress, TypeOK
  <2>2. CASE b # App
    BY <1>1, <1>7, <1>9, <2>2, NamesFacts, Parts
    DEF LoopOf, Busy, OpenSteps, CloseSteps, TypeOK
  <2> QED BY <2>1, <2>2
<1>10. RoundOf(cur[App])'
  <2>1. ~InProgress(cur[App])
    BY <1>1, <1>7, NamesFacts DEF LoopOf
  <2> QED BY <1>1, <1>7, <2>1, SizeFacts DEF RoundOf, InProgress
<1>11. ThreadsAgree' /\ LoopsAgree' /\ RoundsAgree'
  BY <1>1, <1>6, <1>8, <1>9, <1>10, UntouchedKeeps DEF ThreadsAgree, LoopsAgree, RoundsAgree
<1>12. FrameOfOpenSession'
  BY Parts, <1>1, NamesFacts
  DEF FrameOfOpenSession, LifeAgrees, LifeFits, Busy, OpenSteps, CloseSteps,
         FrameSteps, WhereAgrees, TypeOK
<1> QED BY <1>2, <1>3, <1>4, <1>5, <1>11, <1>12 DEF IInv

\* The threads are launched up to the first that cannot be created.
LEMMA LaunchesFewerKeeps ==
  ASSUME IInv, NEW created \in 0..Size(cur[App]), LaunchesSome(created),
         created # Size(cur[App]),
         at' = [at EXCEPT ![App] = "telling"],
         after' = [after EXCEPT ![App] = "unlock"],
         idx' = [idx EXCEPT ![App] = 1]
  PROVE  IInv'
<1>1. /\ UNCHANGED <<up, bug, globals, session_n, life, destroyed, beep,
                     frame_n, pos, asleep, done, verdict, dpos, cur>>
      /\ at[App] = "starting" /\ cur[App] \in Sessions /\ holder[cur[App]] = None
      /\ holder' = [holder EXCEPT ![cur[App]] = App]
      /\ lag' \in [Sessions -> [All -> Nat]]
      /\ thread' \in [Sessions -> [All -> ThreadSteps]]
      /\ \A t \in Sessions \ {cur[App]} : thread'[t] = thread[t]
      /\ exit' = [exit EXCEPT ![cur[App]] = {d \in All : d > created + 1}]
      /\ \A d \in All : thread'[cur[App]][d] = IF d <= created THEN "starting" ELSE "none"
      /\ at' = [at EXCEPT ![App] = "telling"]
      /\ after' = [after EXCEPT ![App] = "unlock"]
      /\ idx' = [idx EXCEPT ![App] = 1]
  <2>1. at[App] = "starting" /\ cur[App] \in Sessions
    BY Working, NamesFacts DEF LaunchesSome
  <2>2. [d \in All |-> IF DetectorsN < d /\ d <= created + 1
                       THEN d - DetectorsN ELSE 0] \in [All -> Nat]
    BY SizeFacts, DetectorsAssumption
  <2>3. lag' \in [Sessions -> [All -> Nat]]
    BY <2>1, <2>2, Parts DEF LaunchesSome, TypeOK
  <2>4. thread' = [thread EXCEPT ![cur[App]] =
                [d \in All |-> IF d <= created THEN "starting" ELSE "none"]]
    BY DEF LaunchesSome
  <2>5. thread' \in [Sessions -> [All -> ThreadSteps]]
    BY <2>1, <2>4, Parts DEF TypeOK, ThreadSteps
  <2> QED BY <2>1, <2>3, <2>4, <2>5, Parts
      DEF LaunchesSome, Locks, Goto, TypeOK, channel, module, session, detectors, where
<1>2. TypeOK'
  BY Parts, <1>1, NamesFacts, SizeFacts
  DEF TypeOK, ThreadSteps, StartSteps, StopSteps, CloseSteps, FrameSteps
<1>3. WhereAgrees'
  BY Parts, <1>1, NamesFacts
  DEF WhereAgrees, TypeOK, AppSteps, StartSteps, StopSteps, CloseSteps,
         FrameSteps, Busy, OpenSteps
<1>4. MutexAgrees'
  <2> SUFFICES ASSUME NEW b \in Actors, NEW t \in Sessions
               PROVE  Holds(b, t)' <=> holder'[t] = b
    BY DEF MutexAgrees
  <2>1. Holds(b, t) <=> holder[t] = b
    BY Parts DEF MutexAgrees
  <2> QED BY <2>1, Parts, <1>1, NamesFacts
      DEF Holds, WhereAgrees, TypeOK
<1>5. LifeAgrees'
  BY Parts, <1>1, NamesFacts
  DEF LifeAgrees, LifeFits, Busy, WhereAgrees, TypeOK, OpenSteps, CloseSteps,
         AppSteps
<1>6. ASSUME NEW t \in Sessions, t # cur[App] PROVE Untouched(t)
  BY <1>1, <1>6, Parts, NamesFacts, SizeFacts DEF Untouched, TypeOK
<1>7. /\ ThreadsOf(cur[App]) /\ RoundOf(cur[App]) /\ life[cur[App]] = "made"
      /\ \A b \in Actors : cur[b] = cur[App] => LoopOf(b, cur[App])
      /\ \A b \in Actors : Busy(b, cur[App]) => b = App
  BY <1>1, Parts, NamesFacts, AttachedIsOpen
  DEF ThreadsAgree, RoundsAgree, LoopsAgree, LifeAgrees, LifeFits, Busy, OpenSteps,
      CloseSteps, WhereAgrees, TypeOK
<1>8. ThreadsOf(cur[App])'
  <2>1. Busy(App, cur[App])'
    BY <1>1, NamesFacts, Parts DEF Busy, OpenSteps, CloseSteps, TypeOK
  <2>2. \A d \in All : /\ thread'[cur[App]][d] \in {"none", "starting"}
                      /\ thread'[cur[App]][d] # "none" => d \notin exit'[cur[App]]
    BY <1>1, SizeFacts, Parts, DetectorsAssumption DEF TypeOK
  <2>3. \A d \in All \ DetectorsOf(cur[App]) : thread'[cur[App]][d] = "none"
    BY <1>1, SizeFacts
  <2>4. ~destroyed[cur[App]]
    BY <1>7 DEF ThreadsOf
  <2> QED BY <1>1, <1>7, <2>1, <2>2, <2>3, <2>4, SizeFacts, NamesFacts
      DEF ThreadsOf, NoThread, Launched
<1>9. ASSUME NEW b \in Actors, cur'[b] = cur[App] PROVE LoopOf(b, cur[App])'
  <2>1. CASE b = App
    BY <1>1, <1>7, <2>1, NamesFacts, SizeFacts, Parts
    DEF LoopOf, NoThread, Launched, InProgress, TypeOK
  <2>2. CASE b # App
    BY <1>1, <1>7, <1>9, <2>2, NamesFacts, Parts
    DEF LoopOf, Busy, OpenSteps, CloseSteps, TypeOK
  <2> QED BY <2>1, <2>2
<1>10. RoundOf(cur[App])'
  <2>1. ~InProgress(cur[App])
    BY <1>1, <1>7, NamesFacts DEF LoopOf
  <2> QED BY <1>1, <1>7, <2>1, SizeFacts DEF RoundOf, InProgress
<1>11. ThreadsAgree' /\ LoopsAgree' /\ RoundsAgree'
  BY <1>1, <1>6, <1>8, <1>9, <1>10, UntouchedKeeps DEF ThreadsAgree, LoopsAgree, RoundsAgree
<1>12. FrameOfOpenSession'
  BY Parts, <1>1, NamesFacts
  DEF FrameOfOpenSession, LifeAgrees, LifeFits, Busy, OpenSteps, CloseSteps,
         FrameSteps, WhereAgrees, TypeOK
<1> QED BY <1>2, <1>3, <1>4, <1>5, <1>11, <1>12 DEF IInv

\* The bug is put on the session; all its threads run and are done.
LEMMA AddBugAppKeeps ==
  ASSUME IInv, AddBug(App)
  PROVE  IInv'
<1>1. /\ UNCHANGED <<up, bug, globals, session_n, holder, destroyed, beep,
                     frame_n, pos, asleep, done, exit, verdict, lag, thread,
                     dpos, cur, after, idx>>
      /\ at[App] = "adding" /\ at[Media] = "idle" /\ cur[App] \in Sessions /\ Busy(App, cur[App])
      /\ life' = [life EXCEPT ![cur[App]] = "attached"]
      /\ at' = [at EXCEPT ![App] = "counting"]
  BY Parts, Working, NamesFacts
  DEF AddBug, LifeIs, Goto, Busy, OpenSteps, channel, module, session, detectors, where
<1>2. TypeOK'
  BY Parts, <1>1, NamesFacts, SizeFacts
  DEF TypeOK, ThreadSteps, StartSteps, StopSteps, CloseSteps, FrameSteps
<1>3. WhereAgrees'
  BY Parts, <1>1, NamesFacts
  DEF WhereAgrees, TypeOK, AppSteps, StartSteps, StopSteps, CloseSteps,
         FrameSteps, Busy, OpenSteps
<1>4. MutexAgrees'
  <2> SUFFICES ASSUME NEW b \in Actors, NEW t \in Sessions
               PROVE  Holds(b, t)' <=> holder'[t] = b
    BY DEF MutexAgrees
  <2>1. Holds(b, t) <=> holder[t] = b
    BY Parts DEF MutexAgrees
  <2> QED BY <2>1, Parts, <1>1, NamesFacts
      DEF Holds, WhereAgrees, TypeOK
<1>5. LifeAgrees'
  BY Parts, <1>1, NamesFacts
  DEF LifeAgrees, LifeFits, Busy, WhereAgrees, TypeOK, OpenSteps, CloseSteps,
         AppSteps
<1>6. ThreadsAgree'
  <2> SUFFICES ASSUME NEW t \in Sessions PROVE ThreadsOf(t)'
    BY DEF ThreadsAgree
  <2>1. ThreadsOf(t) /\ \A b \in Actors : cur[b] = t => LoopOf(b, t)
    BY Parts DEF ThreadsAgree, LoopsAgree
  <2> QED BY <2>1, Parts, <1>1, NamesFacts, SizeFacts
      DEF ThreadsOf, LoopOf, NoThread, Launched, Joins, LifeAgrees, LifeFits, Busy,
             OpenSteps, CloseSteps, TypeOK
<1>7. LoopsAgree'
  <2> SUFFICES ASSUME NEW b \in Actors, NEW t \in Sessions, cur'[b] = t
               PROVE  LoopOf(b, t)'
    BY DEF LoopsAgree
  <2>1. ThreadsOf(t) /\ (cur[b] = t => LoopOf(b, t))
    BY Parts DEF LoopsAgree, ThreadsAgree
  <2> QED BY <2>1, Parts, <1>1, NamesFacts, SizeFacts
      DEF LoopOf, ThreadsOf, InProgress, NoThread, Launched, TypeOK
<1>8. RoundsAgree'
  <2> SUFFICES ASSUME NEW t \in Sessions PROVE RoundOf(t)'
    BY DEF RoundsAgree
  <2>1. RoundOf(t) /\ \A b \in Actors : cur[b] = t => LoopOf(b, t)
    BY Parts DEF RoundsAgree, LoopsAgree
  <2> QED BY <2>1, Parts, <1>1, NamesFacts, SizeFacts
      DEF RoundOf, LoopOf, InProgress, InRound, LifeAgrees, LifeFits, Busy, OpenSteps,
             CloseSteps, TypeOK
<1>9. FrameOfOpenSession'
  BY Parts, <1>1, NamesFacts
  DEF FrameOfOpenSession, LifeAgrees, LifeFits, Busy, OpenSteps, CloseSteps,
         FrameSteps, WhereAgrees, TypeOK
<1> QED BY <1>2, <1>3, <1>4, <1>5, <1>6, <1>7, <1>8, <1>9 DEF IInv

\* The same by the API command, whose session has no detectors.
LEMMA AddBugApiKeeps ==
  ASSUME IInv, NEW c \in Callers, AddBug(c)
  PROVE  IInv'
<1>1. /\ UNCHANGED <<up, bug, globals, session_n, holder, destroyed, beep,
                     frame_n, pos, asleep, done, exit, verdict, lag, thread,
                     dpos, cur, after, idx>>
      /\ at[c] = "adding" /\ at[Media] = "idle" /\ cur[c] \in Sessions /\ Busy(c, cur[c])
      /\ life' = [life EXCEPT ![cur[c]] = "attached"]
      /\ at' = [at EXCEPT ![c] = "publish"]
  BY Parts, Working, NamesFacts
  DEF AddBug, LifeIs, Goto, Busy, OpenSteps, channel, module, session, detectors, where
<1>2. TypeOK'
  BY Parts, <1>1, NamesFacts, SizeFacts
  DEF TypeOK, ThreadSteps, StartSteps, StopSteps, CloseSteps, FrameSteps
<1>3. WhereAgrees'
  BY Parts, <1>1, NamesFacts
  DEF WhereAgrees, TypeOK, AppSteps, StartSteps, StopSteps, CloseSteps,
         FrameSteps, Busy, OpenSteps
<1>4. MutexAgrees'
  <2> SUFFICES ASSUME NEW b \in Actors, NEW t \in Sessions
               PROVE  Holds(b, t)' <=> holder'[t] = b
    BY DEF MutexAgrees
  <2>1. Holds(b, t) <=> holder[t] = b
    BY Parts DEF MutexAgrees
  <2> QED BY <2>1, Parts, <1>1, NamesFacts
      DEF Holds, WhereAgrees, TypeOK
<1>5. LifeAgrees'
  BY Parts, <1>1, NamesFacts
  DEF LifeAgrees, LifeFits, Busy, WhereAgrees, TypeOK, OpenSteps, CloseSteps,
         AppSteps
<1>6. ThreadsAgree'
  <2> SUFFICES ASSUME NEW t \in Sessions PROVE ThreadsOf(t)'
    BY DEF ThreadsAgree
  <2>1. ThreadsOf(t) /\ \A b \in Actors : cur[b] = t => LoopOf(b, t)
    BY Parts DEF ThreadsAgree, LoopsAgree
  <2> QED BY <2>1, Parts, <1>1, NamesFacts, SizeFacts
      DEF ThreadsOf, LoopOf, NoThread, Launched, Joins, LifeAgrees, LifeFits, Busy,
             OpenSteps, CloseSteps, TypeOK
<1>7. LoopsAgree'
  <2> SUFFICES ASSUME NEW b \in Actors, NEW t \in Sessions, cur'[b] = t
               PROVE  LoopOf(b, t)'
    BY DEF LoopsAgree
  <2>1. ThreadsOf(t) /\ (cur[b] = t => LoopOf(b, t))
    BY Parts DEF LoopsAgree, ThreadsAgree
  <2> QED BY <2>1, Parts, <1>1, NamesFacts, SizeFacts
      DEF LoopOf, ThreadsOf, InProgress, NoThread, Launched, TypeOK
<1>8. RoundsAgree'
  <2> SUFFICES ASSUME NEW t \in Sessions PROVE RoundOf(t)'
    BY DEF RoundsAgree
  <2>1. RoundOf(t) /\ \A b \in Actors : cur[b] = t => LoopOf(b, t)
    BY Parts DEF RoundsAgree, LoopsAgree
  <2> QED BY <2>1, Parts, <1>1, NamesFacts, SizeFacts
      DEF RoundOf, LoopOf, InProgress, InRound, LifeAgrees, LifeFits, Busy, OpenSteps,
             CloseSteps, TypeOK
<1>9. FrameOfOpenSession'
  BY Parts, <1>1, NamesFacts
  DEF FrameOfOpenSession, LifeAgrees, LifeFits, Busy, OpenSteps, CloseSteps,
         FrameSteps, WhereAgrees, TypeOK
<1> QED BY <1>2, <1>3, <1>4, <1>5, <1>6, <1>7, <1>8, <1>9 DEF IInv

\* The bug is refused: the application closes the session it opened.
LEMMA AddBugFailsAppKeeps ==
  ASSUME IInv, AddBugFails(App)
  PROVE  IInv'
<1>1. /\ UNCHANGED <<up, bug, session_n, destroyed, beep, frame_n, pos,
                     asleep, done, exit, verdict, lag, thread, dpos, cur,
                     idx>>
      /\ at[App] = "adding" /\ cur[App] \in Sessions /\ Busy(App, cur[App])
      /\ life' = [life EXCEPT ![cur[App]] = "failed"]
      /\ globals' \in Actors \union {None}
      /\ holder' = [holder EXCEPT ![cur[App]] = None]
      /\ at' = [at EXCEPT ![App] = "closing"]
      /\ after' = [after EXCEPT ![App] = "idle"]
  BY Parts, Working, NamesFacts
  DEF AddBugFails, EndsStart, EndsCommand, Unlocks, Close, Leave, LifeIs, Busy,
      OpenSteps, TypeOK, channel, module, session, detectors, where
<1>2. TypeOK'
  BY Parts, <1>1, NamesFacts, SizeFacts
  DEF TypeOK, ThreadSteps, StartSteps, StopSteps, CloseSteps, FrameSteps
<1>3. WhereAgrees'
  BY Parts, <1>1, NamesFacts
  DEF WhereAgrees, TypeOK, AppSteps, StartSteps, StopSteps, CloseSteps,
         FrameSteps, Busy, OpenSteps
<1>4. MutexAgrees'
  <2> SUFFICES ASSUME NEW b \in Actors, NEW t \in Sessions
               PROVE  Holds(b, t)' <=> holder'[t] = b
    BY DEF MutexAgrees
  <2>1. (Holds(b, t) <=> holder[t] = b) /\ (Holds(App, t) <=> holder[t] = App)
    BY Parts, NamesFacts DEF MutexAgrees
  <2> QED BY <2>1, Parts, <1>1, NamesFacts
      DEF Holds, WhereAgrees, TypeOK
<1>5. LifeAgrees'
  BY Parts, <1>1, NamesFacts
  DEF LifeAgrees, LifeFits, Busy, WhereAgrees, TypeOK, OpenSteps, CloseSteps,
         AppSteps
<1>6. ThreadsAgree'
  <2> SUFFICES ASSUME NEW t \in Sessions PROVE ThreadsOf(t)'
    BY DEF ThreadsAgree
  <2>1. ThreadsOf(t) /\ \A b \in Actors : cur[b] = t => LoopOf(b, t)
    BY Parts DEF ThreadsAgree, LoopsAgree
  <2> QED BY <2>1, Parts, <1>1, NamesFacts, SizeFacts
      DEF ThreadsOf, LoopOf, NoThread, Launched, Joins, LifeAgrees, LifeFits, Busy,
             OpenSteps, CloseSteps, TypeOK
<1>7. LoopsAgree'
  <2> SUFFICES ASSUME NEW b \in Actors, NEW t \in Sessions, cur'[b] = t
               PROVE  LoopOf(b, t)'
    BY DEF LoopsAgree
  <2>1. ThreadsOf(t) /\ (cur[b] = t => LoopOf(b, t))
    BY Parts DEF LoopsAgree, ThreadsAgree
  <2> QED BY <2>1, Parts, <1>1, NamesFacts, SizeFacts
      DEF LoopOf, ThreadsOf, InProgress, NoThread, Launched, TypeOK
<1>8. RoundsAgree'
  <2> SUFFICES ASSUME NEW t \in Sessions PROVE RoundOf(t)'
    BY DEF RoundsAgree
  <2>1. RoundOf(t) /\ \A b \in Actors : cur[b] = t => LoopOf(b, t)
    BY Parts DEF RoundsAgree, LoopsAgree
  <2> QED BY <2>1, Parts, <1>1, NamesFacts, SizeFacts
      DEF RoundOf, LoopOf, InProgress, InRound, LifeAgrees, LifeFits, Busy, OpenSteps,
             CloseSteps, TypeOK
<1>9. FrameOfOpenSession'
  BY Parts, <1>1, NamesFacts
  DEF FrameOfOpenSession, LifeAgrees, LifeFits, Busy, OpenSteps, CloseSteps,
         FrameSteps, WhereAgrees, TypeOK
<1> QED BY <1>2, <1>3, <1>4, <1>5, <1>6, <1>7, <1>8, <1>9 DEF IInv

\* The bug is refused: the API command ends.
LEMMA AddBugFailsApiKeeps ==
  ASSUME IInv, NEW c \in Callers, AddBugFails(c)
  PROVE  IInv'
<1>1. /\ UNCHANGED <<up, bug, session_n, holder, destroyed, beep, frame_n,
                     pos, asleep, done, exit, verdict, lag, thread, dpos>>
      /\ at[c] = "adding" /\ cur[c] \in ApiSessions /\ Busy(c, cur[c])
      /\ life' = [life EXCEPT ![cur[c]] = "failed"]
      /\ globals' \in Actors \union {None}
      /\ at' = [at EXCEPT ![c] = "idle"]
      /\ cur' = [cur EXCEPT ![c] = None]
      /\ after' = [after EXCEPT ![c] = "idle"]
      /\ idx' = [idx EXCEPT ![c] = 0]
  BY Parts, Working, NamesFacts
  DEF WhereAgrees, AddBugFails, EndsStart, EndsCommand, Unlocks, Close, Leave, LifeIs, Busy,
      OpenSteps, TypeOK, channel, module, session, detectors, where
<1>2. TypeOK'
  BY Parts, <1>1, NamesFacts, SizeFacts
  DEF TypeOK, ThreadSteps, StartSteps, StopSteps, CloseSteps, FrameSteps
<1>3. WhereAgrees'
  BY Parts, <1>1, NamesFacts
  DEF WhereAgrees, TypeOK, AppSteps, StartSteps, StopSteps, CloseSteps,
         FrameSteps, Busy, OpenSteps
<1>4. MutexAgrees'
  <2> SUFFICES ASSUME NEW b \in Actors, NEW t \in Sessions
               PROVE  Holds(b, t)' <=> holder'[t] = b
    BY DEF MutexAgrees
  <2>1. Holds(b, t) <=> holder[t] = b
    BY Parts DEF MutexAgrees
  <2> QED BY <2>1, Parts, <1>1, NamesFacts
      DEF Holds, WhereAgrees, TypeOK
<1>5. LifeAgrees'
  BY Parts, <1>1, NamesFacts
  DEF LifeAgrees, LifeFits, Busy, WhereAgrees, TypeOK, OpenSteps, CloseSteps,
         AppSteps
<1>6. ThreadsAgree'
  <2> SUFFICES ASSUME NEW t \in Sessions PROVE ThreadsOf(t)'
    BY DEF ThreadsAgree
  <2>1. ThreadsOf(t) /\ \A b \in Actors : cur[b] = t => LoopOf(b, t)
    BY Parts DEF ThreadsAgree, LoopsAgree
  <2> QED BY <2>1, Parts, <1>1, NamesFacts, SizeFacts
      DEF ThreadsOf, LoopOf, NoThread, Launched, Joins, LifeAgrees, LifeFits, Busy,
             OpenSteps, CloseSteps, TypeOK
<1>7. LoopsAgree'
  <2> SUFFICES ASSUME NEW b \in Actors, NEW t \in Sessions, cur'[b] = t
               PROVE  LoopOf(b, t)'
    BY DEF LoopsAgree
  <2>1. ThreadsOf(t) /\ (cur[b] = t => LoopOf(b, t))
    BY Parts DEF LoopsAgree, ThreadsAgree
  <2> QED BY <2>1, Parts, <1>1, NamesFacts, SizeFacts
      DEF LoopOf, ThreadsOf, InProgress, NoThread, Launched, TypeOK
<1>8. RoundsAgree'
  <2> SUFFICES ASSUME NEW t \in Sessions PROVE RoundOf(t)'
    BY DEF RoundsAgree
  <2>1. RoundOf(t) /\ \A b \in Actors : cur[b] = t => LoopOf(b, t)
    BY Parts DEF RoundsAgree, LoopsAgree
  <2> QED BY <2>1, Parts, <1>1, NamesFacts, SizeFacts
      DEF RoundOf, LoopOf, InProgress, InRound, LifeAgrees, LifeFits, Busy, OpenSteps,
             CloseSteps, TypeOK
<1>9. FrameOfOpenSession'
  BY Parts, <1>1, NamesFacts
  DEF FrameOfOpenSession, LifeAgrees, LifeFits, Busy, OpenSteps, CloseSteps,
         FrameSteps, WhereAgrees, TypeOK
<1> QED BY <1>2, <1>3, <1>4, <1>5, <1>6, <1>7, <1>8, <1>9 DEF IInv

\* The session is counted in.
LEMMA CountSessionKeeps ==
  ASSUME IInv, CountSession
  PROVE  IInv'
<1>1. /\ UNCHANGED <<up, bug, globals, life, holder, destroyed, beep, frame_n,
                     pos, asleep, done, exit, verdict, lag, thread, dpos, cur,
                     after, idx>>
      /\ at[App] = "counting" /\ cur[App] \in Sessions
      /\ session_n' = session_n + 1
      /\ at' = [at EXCEPT ![App] = "publish"]
  BY Parts, Working, NamesFacts
  DEF CountSession, Goto, channel, module, session, detectors, where
<1>2. TypeOK'
  BY Parts, <1>1, NamesFacts, SizeFacts
  DEF TypeOK, ThreadSteps, StartSteps, StopSteps, CloseSteps, FrameSteps
<1>3. WhereAgrees'
  BY Parts, <1>1, NamesFacts
  DEF WhereAgrees, TypeOK, AppSteps, StartSteps, StopSteps, CloseSteps,
         FrameSteps, Busy, OpenSteps
<1>4. MutexAgrees'
  <2> SUFFICES ASSUME NEW b \in Actors, NEW t \in Sessions
               PROVE  Holds(b, t)' <=> holder'[t] = b
    BY DEF MutexAgrees
  <2>1. Holds(b, t) <=> holder[t] = b
    BY Parts DEF MutexAgrees
  <2> QED BY <2>1, Parts, <1>1, NamesFacts
      DEF Holds, WhereAgrees, TypeOK
<1>5. LifeAgrees'
  BY Parts, <1>1, NamesFacts
  DEF LifeAgrees, LifeFits, Busy, WhereAgrees, TypeOK, OpenSteps, CloseSteps,
         AppSteps
<1>6. ThreadsAgree'
  <2>1. \A b \in Actors, t \in Sessions : SameHands(b, t)
    BY <1>1, Parts DEF SameHands, Busy, Joins, OpenSteps, CloseSteps, TypeOK
  <2> QED BY <1>1, <2>1, ThreadsStay
<1>7. LoopsAgree'
  <2> SUFFICES ASSUME NEW b \in Actors, NEW t \in Sessions, cur'[b] = t
               PROVE  LoopOf(b, t)'
    BY DEF LoopsAgree
  <2>1. ThreadsOf(t) /\ (cur[b] = t => LoopOf(b, t))
    BY Parts DEF LoopsAgree, ThreadsAgree
  <2> QED BY <2>1, Parts, <1>1, NamesFacts, SizeFacts
      DEF LoopOf, ThreadsOf, InProgress, NoThread, Launched, TypeOK
<1>8. RoundsAgree'
  <2>1. at'[Media] = at[Media] /\ cur'[Media] = cur[Media]
    BY <1>1, Parts, NamesFacts DEF WhereAgrees, FrameSteps, TypeOK
  <2> QED BY <1>1, <2>1, RoundsStay
<1>9. FrameOfOpenSession'
  BY Parts, <1>1, NamesFacts
  DEF FrameOfOpenSession, LifeAgrees, LifeFits, Busy, OpenSteps, CloseSteps,
         FrameSteps, WhereAgrees, TypeOK
<1> QED BY <1>2, <1>3, <1>4, <1>5, <1>6, <1>7, <1>8, <1>9 DEF IInv

\* The channel names the bug.
LEMMA PublishBugAppKeeps ==
  ASSUME IInv, PublishBug(App)
  PROVE  IInv'
<1>1. /\ UNCHANGED <<up, session_n, life, destroyed, beep, frame_n, pos,
                     asleep, done, exit, verdict, lag, thread, dpos>>
      /\ at[App] = "publish" /\ cur[App] \in Sessions
      /\ bug' = cur[App]
      /\ globals' \in Actors \union {None}
      /\ holder' = [holder EXCEPT ![cur[App]] = None]
      /\ at' = [at EXCEPT ![App] = "idle"]
      /\ cur' = [cur EXCEPT ![App] = None]
      /\ after' = [after EXCEPT ![App] = "idle"]
      /\ idx' = [idx EXCEPT ![App] = 0]
  BY Parts, Working, NamesFacts
  DEF PublishBug, EndsStart, EndsCommand, Unlocks, Leave, TypeOK, channel, module, session, detectors, where
<1>2. TypeOK'
  BY Parts, <1>1, NamesFacts, SizeFacts
  DEF TypeOK, ThreadSteps, StartSteps, StopSteps, CloseSteps, FrameSteps
<1>3. WhereAgrees'
  BY Parts, <1>1, NamesFacts
  DEF WhereAgrees, TypeOK, AppSteps, StartSteps, StopSteps, CloseSteps,
         FrameSteps, Busy, OpenSteps
<1>4. MutexAgrees'
  <2> SUFFICES ASSUME NEW b \in Actors, NEW t \in Sessions
               PROVE  Holds(b, t)' <=> holder'[t] = b
    BY DEF MutexAgrees
  <2>1. (Holds(b, t) <=> holder[t] = b) /\ (Holds(App, t) <=> holder[t] = App)
    BY Parts, NamesFacts DEF MutexAgrees
  <2> QED BY <2>1, Parts, <1>1, NamesFacts
      DEF Holds, WhereAgrees, TypeOK
<1>5. LifeAgrees'
  <2>1. ASSUME NEW b \in Actors, NEW t \in Sessions, Busy(b, t)'
        PROVE  LifeFits(b, t)' /\ \A e \in Actors : Busy(e, t)' => b = e
    <3>1. \A e \in Actors, u \in Sessions : Busy(e, u)' => e # App /\ Busy(e, u)
      BY <1>1, Parts, NamesFacts DEF Busy, OpenSteps, CloseSteps, TypeOK
    <3>2. LifeFits(b, t) /\ \A e \in Actors : Busy(e, t) => b = e
      BY <2>1, <3>1, Parts DEF LifeAgrees
    <3> QED BY <1>1, <2>1, <3>1, <3>2 DEF LifeFits
  <2>2. ASSUME NEW b \in Actors, at'[b] \in {"counting", "publish"}
        PROVE  life[cur'[b]] \in {"attached", "removed"}
    BY <1>1, <2>2, Parts, NamesFacts DEF LifeAgrees, TypeOK
  <2>3. life[cur[App]] \in {"attached", "removed"}
    BY <1>1, Parts, NamesFacts DEF LifeAgrees
  <2> QED BY <1>1, <2>1, <2>2, <2>3 DEF LifeAgrees
<1>6. ThreadsAgree'
  <2>1. \A b \in Actors, t \in Sessions : SameHands(b, t)
    BY <1>1, Parts DEF SameHands, Busy, Joins, OpenSteps, CloseSteps, TypeOK
  <2> QED BY <1>1, <2>1, ThreadsStay
<1>7. LoopsAgree'
  <2> SUFFICES ASSUME NEW b \in Actors, NEW t \in Sessions, cur'[b] = t
               PROVE  LoopOf(b, t)'
    BY DEF LoopsAgree
  <2>1. ThreadsOf(t) /\ (cur[b] = t => LoopOf(b, t))
    BY Parts DEF LoopsAgree, ThreadsAgree
  <2> QED BY <2>1, Parts, <1>1, NamesFacts, SizeFacts
      DEF LoopOf, ThreadsOf, InProgress, NoThread, Launched, TypeOK
<1>8. RoundsAgree'
  <2>1. at'[Media] = at[Media] /\ cur'[Media] = cur[Media]
    BY <1>1, Parts, NamesFacts DEF WhereAgrees, FrameSteps, TypeOK
  <2> QED BY <1>1, <2>1, RoundsStay
<1>9. FrameOfOpenSession'
  BY Parts, <1>1, NamesFacts
  DEF FrameOfOpenSession, LifeAgrees, LifeFits, Busy, OpenSteps, CloseSteps,
         FrameSteps, WhereAgrees, TypeOK
<1> QED BY <1>2, <1>3, <1>4, <1>5, <1>6, <1>7, <1>8, <1>9 DEF IInv

\* The same by the API command, which holds no mutex of the session.
LEMMA PublishBugApiKeeps ==
  ASSUME IInv, NEW c \in Callers, PublishBug(c)
  PROVE  IInv'
<1>1. /\ UNCHANGED <<up, session_n, life, holder, destroyed, beep, frame_n,
                     pos, asleep, done, exit, verdict, lag, thread, dpos>>
      /\ at[c] = "publish" /\ cur[c] \in Sessions
      /\ bug' = cur[c]
      /\ globals' \in Actors \union {None}
      /\ at' = [at EXCEPT ![c] = "idle"]
      /\ cur' = [cur EXCEPT ![c] = None]
      /\ after' = [after EXCEPT ![c] = "idle"]
      /\ idx' = [idx EXCEPT ![c] = 0]
  BY Parts, Working, NamesFacts
  DEF PublishBug, EndsStart, EndsCommand, Unlocks, Leave, TypeOK, channel, module, session, detectors, where
<1>2. TypeOK'
  BY Parts, <1>1, NamesFacts, SizeFacts
  DEF TypeOK, ThreadSteps, StartSteps, StopSteps, CloseSteps, FrameSteps
<1>3. WhereAgrees'
  BY Parts, <1>1, NamesFacts
  DEF WhereAgrees, TypeOK, AppSteps, StartSteps, StopSteps, CloseSteps,
         FrameSteps, Busy, OpenSteps
<1>4. MutexAgrees'
  <2> SUFFICES ASSUME NEW b \in Actors, NEW t \in Sessions
               PROVE  Holds(b, t)' <=> holder'[t] = b
    BY DEF MutexAgrees
  <2>1. Holds(b, t) <=> holder[t] = b
    BY Parts DEF MutexAgrees
  <2> QED BY <2>1, Parts, <1>1, NamesFacts
      DEF Holds, WhereAgrees, TypeOK
<1>5. LifeAgrees'
  <2>1. ASSUME NEW b \in Actors, NEW t \in Sessions, Busy(b, t)'
        PROVE  LifeFits(b, t)' /\ \A e \in Actors : Busy(e, t)' => b = e
    <3>1. \A e \in Actors, u \in Sessions : Busy(e, u)' => e # c /\ Busy(e, u)
      BY <1>1, Parts, NamesFacts DEF Busy, OpenSteps, CloseSteps, TypeOK
    <3>2. LifeFits(b, t) /\ \A e \in Actors : Busy(e, t) => b = e
      BY <2>1, <3>1, Parts DEF LifeAgrees
    <3> QED BY <1>1, <2>1, <3>1, <3>2 DEF LifeFits
  <2>2. ASSUME NEW b \in Actors, at'[b] \in {"counting", "publish"}
        PROVE  life[cur'[b]] \in {"attached", "removed"}
    BY <1>1, <2>2, Parts, NamesFacts DEF LifeAgrees, TypeOK
  <2>3. life[cur[c]] \in {"attached", "removed"}
    BY <1>1, Parts, NamesFacts DEF LifeAgrees
  <2> QED BY <1>1, <2>1, <2>2, <2>3 DEF LifeAgrees
<1>6. ThreadsAgree'
  <2>1. \A b \in Actors, t \in Sessions : SameHands(b, t)
    BY <1>1, Parts DEF SameHands, Busy, Joins, OpenSteps, CloseSteps, TypeOK
  <2> QED BY <1>1, <2>1, ThreadsStay
<1>7. LoopsAgree'
  <2> SUFFICES ASSUME NEW b \in Actors, NEW t \in Sessions, cur'[b] = t
               PROVE  LoopOf(b, t)'
    BY DEF LoopsAgree
  <2>1. ThreadsOf(t) /\ (cur[b] = t => LoopOf(b, t))
    BY Parts DEF LoopsAgree, ThreadsAgree
  <2> QED BY <2>1, Parts, <1>1, NamesFacts, SizeFacts
      DEF LoopOf, ThreadsOf, InProgress, NoThread, Launched, TypeOK
<1>8. RoundsAgree'
  <2>1. at'[Media] = at[Media] /\ cur'[Media] = cur[Media]
    BY <1>1, Parts, NamesFacts DEF WhereAgrees, FrameSteps, TypeOK
  <2> QED BY <1>1, <2>1, RoundsStay
<1>9. FrameOfOpenSession'
  BY Parts, <1>1, NamesFacts
  DEF FrameOfOpenSession, LifeAgrees, LifeFits, Busy, OpenSteps, CloseSteps,
         FrameSteps, WhereAgrees, TypeOK
<1> QED BY <1>2, <1>3, <1>4, <1>5, <1>6, <1>7, <1>8, <1>9 DEF IInv

-----------------------------------------------------------------------------
(* The commands, the hangup, and the removal of a bug.                     *)

\* The session of an API command has no detectors.
LEMMA ApiStartKeeps ==
  ASSUME IInv, NEW c \in Callers, NEW s \in Sessions, ApiStart(c, s)
  PROVE  IInv'
<1>1. /\ UNCHANGED <<up, bug, session_n, holder, destroyed, beep, frame_n,
                     pos, asleep, done, exit, verdict, lag, thread, dpos,
                     after, idx>>
      /\ at[c] = "idle" /\ life[s] = "free" /\ s \in ApiSessions
      /\ globals' = c
      /\ life' = [life EXCEPT ![s] = "made"]
      /\ at' = [at EXCEPT ![c] = "adding"]
      /\ cur' = [cur EXCEPT ![c] = s]
  BY Parts, Working, NamesFacts
  DEF ApiStart, LifeIs, GotoOn, channel, module, session, detectors, where
<1>2. TypeOK'
  BY Parts, <1>1, NamesFacts, SizeFacts
  DEF TypeOK, ThreadSteps, StartSteps, StopSteps, CloseSteps, FrameSteps
<1>3. WhereAgrees'
  BY Parts, <1>1, NamesFacts
  DEF WhereAgrees, TypeOK, AppSteps, StartSteps, StopSteps, CloseSteps,
         FrameSteps, Busy, OpenSteps
<1>4. MutexAgrees'
  <2> SUFFICES ASSUME NEW b \in Actors, NEW t \in Sessions
               PROVE  Holds(b, t)' <=> holder'[t] = b
    BY DEF MutexAgrees
  <2>1. Holds(b, t) <=> holder[t] = b
    BY Parts DEF MutexAgrees
  <2> QED BY <2>1, Parts, <1>1, NamesFacts
      DEF Holds, WhereAgrees, TypeOK
<1>5. LifeAgrees'
  BY Parts, <1>1, NamesFacts
  DEF LifeAgrees, LifeFits, Busy, WhereAgrees, TypeOK, OpenSteps, CloseSteps,
         AppSteps
<1>6. ThreadsAgree'
  <2> SUFFICES ASSUME NEW t \in Sessions PROVE ThreadsOf(t)'
    BY DEF ThreadsAgree
  <2>1. ThreadsOf(t) /\ \A b \in Actors : cur[b] = t => LoopOf(b, t)
    BY Parts DEF ThreadsAgree, LoopsAgree
  <2> QED BY SMTT(20), <2>1, Parts, <1>1, NamesFacts, SizeFacts
      DEF ThreadsOf, LoopOf, NoThread, Launched, Joins, LifeAgrees, LifeFits, Busy,
             OpenSteps, CloseSteps, TypeOK
<1>7. LoopsAgree'
  <2> SUFFICES ASSUME NEW b \in Actors, NEW t \in Sessions, cur'[b] = t
               PROVE  LoopOf(b, t)'
    BY DEF LoopsAgree
  <2>1. ThreadsOf(t) /\ (cur[b] = t => LoopOf(b, t))
    BY Parts DEF LoopsAgree, ThreadsAgree
  <2> QED BY <2>1, Parts, <1>1, NamesFacts, SizeFacts
      DEF LoopOf, ThreadsOf, InProgress, NoThread, Launched, TypeOK
<1>8. RoundsAgree'
  <2> SUFFICES ASSUME NEW t \in Sessions PROVE RoundOf(t)'
    BY DEF RoundsAgree
  <2>1. RoundOf(t) /\ \A b \in Actors : cur[b] = t => LoopOf(b, t)
    BY Parts DEF RoundsAgree, LoopsAgree
  <2> QED BY <2>1, Parts, <1>1, NamesFacts, SizeFacts
      DEF RoundOf, LoopOf, InProgress, InRound, LifeAgrees, LifeFits, Busy, OpenSteps,
             CloseSteps, TypeOK
<1>9. FrameOfOpenSession'
  BY Parts, <1>1, NamesFacts
  DEF FrameOfOpenSession, LifeAgrees, LifeFits, Busy, OpenSteps, CloseSteps,
         FrameSteps, WhereAgrees, TypeOK
<1> QED BY <1>2, <1>3, <1>4, <1>5, <1>6, <1>7, <1>8, <1>9 DEF IInv

\* A stop goes for the session that the channel names.
LEMMA ApiStopKeeps ==
  ASSUME IInv, NEW c \in Callers, ApiStop(c)
  PROVE  IInv'
<1>1. /\ UNCHANGED <<up, bug, session_n, life, holder, destroyed, beep,
                     frame_n, pos, asleep, done, exit, verdict, lag, thread,
                     dpos, after, idx>>
      /\ at[c] = "idle" /\ bug \in Sessions
      /\ globals' = c
      /\ at' = [at EXCEPT ![c] = "clearing"]
      /\ cur' = [cur EXCEPT ![c] = bug]
  BY Parts, Working, NamesFacts
  DEF ApiStop, GotoOn, TypeOK, channel, module, session, detectors, where
<1>2. TypeOK'
  BY Parts, <1>1, NamesFacts, SizeFacts
  DEF TypeOK, ThreadSteps, StartSteps, StopSteps, CloseSteps, FrameSteps
<1>3. WhereAgrees'
  BY Parts, <1>1, NamesFacts
  DEF WhereAgrees, TypeOK, AppSteps, StartSteps, StopSteps, CloseSteps,
         FrameSteps, Busy, OpenSteps
<1>4. MutexAgrees'
  <2> SUFFICES ASSUME NEW b \in Actors, NEW t \in Sessions
               PROVE  Holds(b, t)' <=> holder'[t] = b
    BY DEF MutexAgrees
  <2>1. Holds(b, t) <=> holder[t] = b
    BY Parts DEF MutexAgrees
  <2> QED BY <2>1, Parts, <1>1, NamesFacts
      DEF Holds, WhereAgrees, TypeOK
<1>5. LifeAgrees'
  BY Parts, <1>1, NamesFacts
  DEF LifeAgrees, LifeFits, Busy, WhereAgrees, TypeOK, OpenSteps, CloseSteps,
         AppSteps
<1>6. ThreadsAgree'
  <2>1. \A b \in Actors, t \in Sessions : SameHands(b, t)
    BY <1>1, Parts DEF SameHands, Busy, Joins, OpenSteps, CloseSteps, TypeOK
  <2> QED BY <1>1, <2>1, ThreadsStay
<1>7. LoopsAgree'
  <2> SUFFICES ASSUME NEW b \in Actors, NEW t \in Sessions, cur'[b] = t
               PROVE  LoopOf(b, t)'
    BY DEF LoopsAgree
  <2>1. ThreadsOf(t) /\ (cur[b] = t => LoopOf(b, t))
    BY Parts DEF LoopsAgree, ThreadsAgree
  <2> QED BY <2>1, Parts, <1>1, NamesFacts, SizeFacts
      DEF LoopOf, ThreadsOf, InProgress, NoThread, Launched, TypeOK
<1>8. RoundsAgree'
  <2>1. at'[Media] = at[Media] /\ cur'[Media] = cur[Media]
    BY <1>1, Parts, NamesFacts DEF WhereAgrees, FrameSteps, TypeOK
  <2> QED BY <1>1, <2>1, RoundsStay
<1>9. FrameOfOpenSession'
  BY Parts, <1>1, NamesFacts
  DEF FrameOfOpenSession, LifeAgrees, LifeFits, Busy, OpenSteps, CloseSteps,
         FrameSteps, WhereAgrees, TypeOK
<1> QED BY <1>2, <1>3, <1>4, <1>5, <1>6, <1>7, <1>8, <1>9 DEF IInv

\* The same by the application, which then reads the session.
LEMMA StopAppKeeps ==
  ASSUME IInv, StopApp
  PROVE  IInv'
<1>1. /\ UNCHANGED <<up, bug, globals, session_n, life, holder, destroyed,
                     beep, frame_n, pos, asleep, done, exit, verdict, lag,
                     thread, dpos, after, idx>>
      /\ at[App] = "idle" /\ bug \in Sessions
      /\ at' = [at EXCEPT ![App] = "reading"]
      /\ cur' = [cur EXCEPT ![App] = bug]
  BY Parts, Working, NamesFacts
  DEF StopApp, GotoOn, TypeOK, channel, module, session, detectors, where
<1>2. TypeOK'
  BY Parts, <1>1, NamesFacts, SizeFacts
  DEF TypeOK, ThreadSteps, StartSteps, StopSteps, CloseSteps, FrameSteps
<1>3. WhereAgrees'
  <2>1. \A b \in Actors : b # App => at'[b] = at[b] /\ cur'[b] = cur[b]
    BY <1>1, Parts DEF TypeOK
  <2>2. at'[App] = "reading" /\ cur'[App] = bug /\ bug # None /\ after[App] = "idle"
    BY <1>1, Parts, NamesFacts DEF TypeOK, WhereAgrees, CloseSteps
  <2> QED BY <1>1, <2>1, <2>2, Parts, NamesFacts
      DEF WhereAgrees, AppSteps, CloseSteps, FrameSteps
<1>4. MutexAgrees'
  <2> SUFFICES ASSUME NEW b \in Actors, NEW t \in Sessions
               PROVE  Holds(b, t)' <=> holder'[t] = b
    BY DEF MutexAgrees
  <2>1. Holds(b, t) <=> holder[t] = b
    BY Parts DEF MutexAgrees
  <2> QED BY <2>1, Parts, <1>1, NamesFacts
      DEF Holds, WhereAgrees, TypeOK
<1>5. LifeAgrees'
  BY Parts, <1>1, NamesFacts
  DEF LifeAgrees, LifeFits, Busy, WhereAgrees, TypeOK, OpenSteps, CloseSteps,
         AppSteps
<1>6. ThreadsAgree'
  <2>1. \A b \in Actors, t \in Sessions : SameHands(b, t)
    BY <1>1, Parts DEF SameHands, Busy, Joins, OpenSteps, CloseSteps, TypeOK
  <2> QED BY <1>1, <2>1, ThreadsStay
<1>7. LoopsAgree'
  <2> SUFFICES ASSUME NEW b \in Actors, NEW t \in Sessions, cur'[b] = t
               PROVE  LoopOf(b, t)'
    BY DEF LoopsAgree
  <2>1. ThreadsOf(t) /\ (cur[b] = t => LoopOf(b, t))
    BY Parts DEF LoopsAgree, ThreadsAgree
  <2> QED BY <2>1, Parts, <1>1, NamesFacts, SizeFacts
      DEF LoopOf, ThreadsOf, InProgress, NoThread, Launched, TypeOK
<1>8. RoundsAgree'
  <2>1. at'[Media] = at[Media] /\ cur'[Media] = cur[Media]
    BY <1>1, Parts, NamesFacts DEF WhereAgrees, FrameSteps, TypeOK
  <2> QED BY <1>1, <2>1, RoundsStay
<1>9. FrameOfOpenSession'
  BY Parts, <1>1, NamesFacts
  DEF FrameOfOpenSession, LifeAgrees, LifeFits, Busy, OpenSteps, CloseSteps,
         FrameSteps, WhereAgrees, TypeOK
<1> QED BY <1>2, <1>3, <1>4, <1>5, <1>6, <1>7, <1>8, <1>9 DEF IInv

\* The same by the function, which reads nothing.
LEMMA FunctionStopKeeps ==
  ASSUME IInv, FunctionStop
  PROVE  IInv'
<1>1. /\ UNCHANGED <<up, bug, globals, session_n, life, holder, destroyed,
                     beep, frame_n, pos, asleep, done, exit, verdict, lag,
                     thread, dpos, after, idx>>
      /\ at[App] = "idle" /\ bug \in Sessions
      /\ at' = [at EXCEPT ![App] = "clearing"]
      /\ cur' = [cur EXCEPT ![App] = bug]
  BY Parts, Working, NamesFacts
  DEF FunctionStop, GotoOn, TypeOK, channel, module, session, detectors, where
<1>2. TypeOK'
  BY Parts, <1>1, NamesFacts, SizeFacts
  DEF TypeOK, ThreadSteps, StartSteps, StopSteps, CloseSteps, FrameSteps
<1>3. WhereAgrees'
  BY Parts, <1>1, NamesFacts
  DEF WhereAgrees, TypeOK, AppSteps, StartSteps, StopSteps, CloseSteps,
         FrameSteps, Busy, OpenSteps
<1>4. MutexAgrees'
  <2> SUFFICES ASSUME NEW b \in Actors, NEW t \in Sessions
               PROVE  Holds(b, t)' <=> holder'[t] = b
    BY DEF MutexAgrees
  <2>1. Holds(b, t) <=> holder[t] = b
    BY Parts DEF MutexAgrees
  <2> QED BY <2>1, Parts, <1>1, NamesFacts
      DEF Holds, WhereAgrees, TypeOK
<1>5. LifeAgrees'
  BY Parts, <1>1, NamesFacts
  DEF LifeAgrees, LifeFits, Busy, WhereAgrees, TypeOK, OpenSteps, CloseSteps,
         AppSteps
<1>6. ThreadsAgree'
  <2>1. \A b \in Actors, t \in Sessions : SameHands(b, t)
    BY <1>1, Parts DEF SameHands, Busy, Joins, OpenSteps, CloseSteps, TypeOK
  <2> QED BY <1>1, <2>1, ThreadsStay
<1>7. LoopsAgree'
  <2> SUFFICES ASSUME NEW b \in Actors, NEW t \in Sessions, cur'[b] = t
               PROVE  LoopOf(b, t)'
    BY DEF LoopsAgree
  <2>1. ThreadsOf(t) /\ (cur[b] = t => LoopOf(b, t))
    BY Parts DEF LoopsAgree, ThreadsAgree
  <2> QED BY <2>1, Parts, <1>1, NamesFacts, SizeFacts
      DEF LoopOf, ThreadsOf, InProgress, NoThread, Launched, TypeOK
<1>8. RoundsAgree'
  <2>1. at'[Media] = at[Media] /\ cur'[Media] = cur[Media]
    BY <1>1, Parts, NamesFacts DEF WhereAgrees, FrameSteps, TypeOK
  <2> QED BY <1>1, <2>1, RoundsStay
<1>9. FrameOfOpenSession'
  BY Parts, <1>1, NamesFacts
  DEF FrameOfOpenSession, LifeAgrees, LifeFits, Busy, OpenSteps, CloseSteps,
         FrameSteps, WhereAgrees, TypeOK
<1> QED BY <1>2, <1>3, <1>4, <1>5, <1>6, <1>7, <1>8, <1>9 DEF IInv

\* The session was read.
LEMMA StopReadsKeeps ==
  ASSUME IInv, StopReads
  PROVE  IInv'
<1>1. /\ UNCHANGED <<up, bug, globals, session_n, life, holder, destroyed,
                     beep, frame_n, pos, asleep, done, exit, verdict, lag,
                     thread, dpos, cur, after, idx>>
      /\ at[App] = "reading" /\ cur[App] \in Sessions
      /\ at' = [at EXCEPT ![App] = "clearing"]
  BY Parts, Working, NamesFacts
  DEF StopReads, Goto, channel, module, session, detectors, where
<1>2. TypeOK'
  BY Parts, <1>1, NamesFacts, SizeFacts
  DEF TypeOK, ThreadSteps, StartSteps, StopSteps, CloseSteps, FrameSteps
<1>3. WhereAgrees'
  BY Parts, <1>1, NamesFacts
  DEF WhereAgrees, TypeOK, AppSteps, StartSteps, StopSteps, CloseSteps,
         FrameSteps, Busy, OpenSteps
<1>4. MutexAgrees'
  <2> SUFFICES ASSUME NEW b \in Actors, NEW t \in Sessions
               PROVE  Holds(b, t)' <=> holder'[t] = b
    BY DEF MutexAgrees
  <2>1. Holds(b, t) <=> holder[t] = b
    BY Parts DEF MutexAgrees
  <2> QED BY <2>1, Parts, <1>1, NamesFacts
      DEF Holds, WhereAgrees, TypeOK
<1>5. LifeAgrees'
  BY Parts, <1>1, NamesFacts
  DEF LifeAgrees, LifeFits, Busy, WhereAgrees, TypeOK, OpenSteps, CloseSteps,
         AppSteps
<1>6. ThreadsAgree'
  <2>1. \A b \in Actors, t \in Sessions : SameHands(b, t)
    BY <1>1, Parts DEF SameHands, Busy, Joins, OpenSteps, CloseSteps, TypeOK
  <2> QED BY <1>1, <2>1, ThreadsStay
<1>7. LoopsAgree'
  <2> SUFFICES ASSUME NEW b \in Actors, NEW t \in Sessions, cur'[b] = t
               PROVE  LoopOf(b, t)'
    BY DEF LoopsAgree
  <2>1. ThreadsOf(t) /\ (cur[b] = t => LoopOf(b, t))
    BY Parts DEF LoopsAgree, ThreadsAgree
  <2> QED BY <2>1, Parts, <1>1, NamesFacts, SizeFacts
      DEF LoopOf, ThreadsOf, InProgress, NoThread, Launched, TypeOK
<1>8. RoundsAgree'
  <2>1. at'[Media] = at[Media] /\ cur'[Media] = cur[Media]
    BY <1>1, Parts, NamesFacts DEF WhereAgrees, FrameSteps, TypeOK
  <2> QED BY <1>1, <2>1, RoundsStay
<1>9. FrameOfOpenSession'
  BY Parts, <1>1, NamesFacts
  DEF FrameOfOpenSession, LifeAgrees, LifeFits, Busy, OpenSteps, CloseSteps,
         FrameSteps, WhereAgrees, TypeOK
<1> QED BY <1>2, <1>3, <1>4, <1>5, <1>6, <1>7, <1>8, <1>9 DEF IInv

\* The channel names no bug.
LEMMA ClearPrivateKeeps ==
  ASSUME IInv, NEW a \in Actors, ClearPrivate(a)
  PROVE  IInv'
<1>1. /\ UNCHANGED <<up, globals, session_n, life, holder, destroyed, beep,
                     frame_n, pos, asleep, done, exit, verdict, lag, thread,
                     dpos, cur, after, idx>>
      /\ at[a] = "clearing" /\ cur[a] \in Sessions
      /\ bug' = None
      /\ at' = [at EXCEPT ![a] = "removing"]
  BY Parts, Working, NamesFacts
  DEF ClearPrivate, Goto, channel, module, session, detectors, where
<1>2. TypeOK'
  BY Parts, <1>1, NamesFacts, SizeFacts
  DEF TypeOK, ThreadSteps, StartSteps, StopSteps, CloseSteps, FrameSteps
<1>3. WhereAgrees'
  BY Parts, <1>1, NamesFacts
  DEF WhereAgrees, TypeOK, AppSteps, StartSteps, StopSteps, CloseSteps,
         FrameSteps, Busy, OpenSteps
<1>4. MutexAgrees'
  <2> SUFFICES ASSUME NEW b \in Actors, NEW t \in Sessions
               PROVE  Holds(b, t)' <=> holder'[t] = b
    BY DEF MutexAgrees
  <2>1. Holds(b, t) <=> holder[t] = b
    BY Parts DEF MutexAgrees
  <2> QED BY <2>1, Parts, <1>1, NamesFacts
      DEF Holds, WhereAgrees, TypeOK
<1>5. LifeAgrees'
  BY Parts, <1>1, NamesFacts
  DEF LifeAgrees, LifeFits, Busy, WhereAgrees, TypeOK, OpenSteps, CloseSteps,
         AppSteps
<1>6. ThreadsAgree'
  <2>1. \A b \in Actors, t \in Sessions : SameHands(b, t)
    BY <1>1, Parts DEF SameHands, Busy, Joins, OpenSteps, CloseSteps, TypeOK
  <2> QED BY <1>1, <2>1, ThreadsStay
<1>7. LoopsAgree'
  <2> SUFFICES ASSUME NEW b \in Actors, NEW t \in Sessions, cur'[b] = t
               PROVE  LoopOf(b, t)'
    BY DEF LoopsAgree
  <2>1. ThreadsOf(t) /\ (cur[b] = t => LoopOf(b, t))
    BY Parts DEF LoopsAgree, ThreadsAgree
  <2> QED BY <2>1, Parts, <1>1, NamesFacts, SizeFacts
      DEF LoopOf, ThreadsOf, InProgress, NoThread, Launched, TypeOK
<1>8. RoundsAgree'
  <2>1. at'[Media] = at[Media] /\ cur'[Media] = cur[Media]
    BY <1>1, Parts, NamesFacts DEF WhereAgrees, FrameSteps, TypeOK
  <2> QED BY <1>1, <2>1, RoundsStay
<1>9. FrameOfOpenSession'
  BY Parts, <1>1, NamesFacts
  DEF FrameOfOpenSession, LifeAgrees, LifeFits, Busy, OpenSteps, CloseSteps,
         FrameSteps, WhereAgrees, TypeOK
<1> QED BY <1>2, <1>3, <1>4, <1>5, <1>6, <1>7, <1>8, <1>9 DEF IInv

(***************************************************************************)
(* A bug that was still there is closed, with all its threads running and  *)
(* done, for no frame is in the callback.                                  *)
(***************************************************************************)
LEMMA RemoveBugKeeps ==
  ASSUME IInv, NEW a \in Actors, RemoveBug(a), life[cur[a]] = "attached"
  PROVE  IInv'
<1>1. /\ UNCHANGED <<up, bug, globals, session_n, holder, destroyed, beep,
                     frame_n, pos, asleep, done, exit, verdict, lag, thread,
                     dpos, cur, idx>>
      /\ at[a] = "removing" /\ at[Media] = "idle" /\ cur[a] \in Sessions
      /\ life[cur[a]] = "attached"
      /\ life' = [life EXCEPT ![cur[a]] = "removed"]
      /\ at' = [at EXCEPT ![a] = "closing"]
      /\ after' = [after EXCEPT ![a] = "uncounting"]
  <2>1. at[a] = "removing" /\ at[Media] = "idle" /\ cur[a] \in Sessions
    BY Working DEF RemoveBug
  <2>2. LifeIs(cur[a], "removed") /\ Close(a, cur[a], "uncounting") /\ UNCHANGED globals
    BY DEF RemoveBug
  <2>3. cur' = cur
    BY <2>2, Parts DEF Close, TypeOK
  <2> QED BY <2>1, <2>2, <2>3 DEF RemoveBug, LifeIs, Close, channel, detectors
<1>2. TypeOK'
  BY Parts, <1>1, NamesFacts, SizeFacts
  DEF TypeOK, ThreadSteps, StartSteps, StopSteps, CloseSteps, FrameSteps
<1>3. WhereAgrees'
  BY Parts, <1>1, NamesFacts
  DEF WhereAgrees, TypeOK, AppSteps, StartSteps, StopSteps, CloseSteps,
         FrameSteps, Busy, OpenSteps
<1>4. MutexAgrees'
  <2> SUFFICES ASSUME NEW b \in Actors, NEW t \in Sessions
               PROVE  Holds(b, t)' <=> holder'[t] = b
    BY DEF MutexAgrees
  <2>1. Holds(b, t) <=> holder[t] = b
    BY Parts DEF MutexAgrees
  <2> QED BY <2>1, Parts, <1>1, NamesFacts
      DEF Holds, WhereAgrees, TypeOK
<1>5. LifeAgrees'
  BY Parts, <1>1, NamesFacts
  DEF LifeAgrees, LifeFits, Busy, WhereAgrees, TypeOK, OpenSteps, CloseSteps,
         AppSteps
<1>6. ThreadsAgree'
  <2> SUFFICES ASSUME NEW t \in Sessions PROVE ThreadsOf(t)'
    BY DEF ThreadsAgree
  <2>1. ThreadsOf(t) /\ \A b \in Actors : cur[b] = t => LoopOf(b, t)
    BY Parts DEF ThreadsAgree, LoopsAgree
  <2> QED BY <2>1, Parts, <1>1, NamesFacts, SizeFacts
      DEF ThreadsOf, LoopOf, NoThread, Launched, Joins, LifeAgrees, LifeFits, Busy,
             OpenSteps, CloseSteps, TypeOK
<1>7. LoopsAgree'
  <2> SUFFICES ASSUME NEW b \in Actors, NEW t \in Sessions, cur'[b] = t
               PROVE  LoopOf(b, t)'
    BY DEF LoopsAgree
  <2>1. ThreadsOf(t) /\ (cur[b] = t => LoopOf(b, t))
    BY Parts DEF LoopsAgree, ThreadsAgree
  <2> QED BY <2>1, Parts, <1>1, NamesFacts, SizeFacts
      DEF LoopOf, ThreadsOf, InProgress, NoThread, Launched, TypeOK
<1>8. RoundsAgree'
  <2> SUFFICES ASSUME NEW t \in Sessions PROVE RoundOf(t)'
    BY DEF RoundsAgree
  <2>1. RoundOf(t) /\ \A b \in Actors : cur[b] = t => LoopOf(b, t)
    BY Parts DEF RoundsAgree, LoopsAgree
  <2> QED BY <2>1, Parts, <1>1, NamesFacts, SizeFacts
      DEF RoundOf, LoopOf, InProgress, InRound, LifeAgrees, LifeFits, Busy, OpenSteps,
             CloseSteps, TypeOK
<1>9. FrameOfOpenSession'
  BY Parts, <1>1, NamesFacts
  DEF FrameOfOpenSession, LifeAgrees, LifeFits, Busy, OpenSteps, CloseSteps,
         FrameSteps, WhereAgrees, TypeOK
<1> QED BY <1>2, <1>3, <1>4, <1>5, <1>6, <1>7, <1>8, <1>9 DEF IInv

\* A bug that is not there any more is not removed.
LEMMA RemoveNothingKeeps ==
  ASSUME IInv, NEW a \in Actors, RemoveBug(a), life[cur[a]] # "attached"
  PROVE  IInv'
<1>1. /\ UNCHANGED <<up, bug, session_n, life, holder, destroyed, beep,
                     frame_n, pos, asleep, done, exit, verdict, lag, thread,
                     dpos>>
      /\ at[a] = "removing" /\ cur[a] \in Sessions
      /\ globals' \in Actors \union {None}
      /\ at' = [at EXCEPT ![a] = "idle"]
      /\ cur' = [cur EXCEPT ![a] = None]
      /\ after' = [after EXCEPT ![a] = "idle"]
      /\ idx' = [idx EXCEPT ![a] = 0]
  BY Parts, Working, NamesFacts
  DEF RemoveBug, Leave, EndsCommand, TypeOK, channel, module, session, detectors, where
<1>2. TypeOK'
  BY Parts, <1>1, NamesFacts, SizeFacts
  DEF TypeOK, ThreadSteps, StartSteps, StopSteps, CloseSteps, FrameSteps
<1>3. WhereAgrees'
  BY Parts, <1>1, NamesFacts
  DEF WhereAgrees, TypeOK, AppSteps, StartSteps, StopSteps, CloseSteps,
         FrameSteps, Busy, OpenSteps
<1>4. MutexAgrees'
  <2> SUFFICES ASSUME NEW b \in Actors, NEW t \in Sessions
               PROVE  Holds(b, t)' <=> holder'[t] = b
    BY DEF MutexAgrees
  <2>1. Holds(b, t) <=> holder[t] = b
    BY Parts DEF MutexAgrees
  <2> QED BY <2>1, Parts, <1>1, NamesFacts
      DEF Holds, WhereAgrees, TypeOK
<1>5. LifeAgrees'
  BY Parts, <1>1, NamesFacts
  DEF LifeAgrees, LifeFits, Busy, WhereAgrees, TypeOK, OpenSteps, CloseSteps,
         AppSteps
<1>6. ThreadsAgree'
  <2>1. \A b \in Actors, t \in Sessions : SameHands(b, t)
    BY <1>1, Parts DEF SameHands, Busy, Joins, OpenSteps, CloseSteps, TypeOK
  <2> QED BY <1>1, <2>1, ThreadsStay
<1>7. LoopsAgree'
  <2> SUFFICES ASSUME NEW b \in Actors, NEW t \in Sessions, cur'[b] = t
               PROVE  LoopOf(b, t)'
    BY DEF LoopsAgree
  <2>1. ThreadsOf(t) /\ (cur[b] = t => LoopOf(b, t))
    BY Parts DEF LoopsAgree, ThreadsAgree
  <2> QED BY <2>1, Parts, <1>1, NamesFacts, SizeFacts
      DEF LoopOf, ThreadsOf, InProgress, NoThread, Launched, TypeOK
<1>8. RoundsAgree'
  <2>1. at'[Media] = at[Media] /\ cur'[Media] = cur[Media]
    BY <1>1, Parts, NamesFacts DEF WhereAgrees, FrameSteps, TypeOK
  <2> QED BY <1>1, <2>1, RoundsStay
<1>9. FrameOfOpenSession'
  BY Parts, <1>1, NamesFacts
  DEF FrameOfOpenSession, LifeAgrees, LifeFits, Busy, OpenSteps, CloseSteps,
         FrameSteps, WhereAgrees, TypeOK
<1> QED BY <1>2, <1>3, <1>4, <1>5, <1>6, <1>7, <1>8, <1>9 DEF IInv

\* The channel hangs up.
LEMMA HangupKeeps ==
  ASSUME IInv, Hangup
  PROVE  IInv'
<1>1. /\ UNCHANGED <<bug, globals, session_n, life, holder, destroyed, beep,
                     frame_n, pos, asleep, done, exit, verdict, lag, thread,
                     dpos, at, cur, after, idx>>
      /\ up' = FALSE
  BY Parts, Working, NamesFacts
  DEF Hangup, channel, module, session, detectors, where
<1>2. TypeOK'
  BY Parts, <1>1, NamesFacts, SizeFacts
  DEF TypeOK, ThreadSteps, StartSteps, StopSteps, CloseSteps, FrameSteps
<1>3. WhereAgrees'
  BY Parts, <1>1, NamesFacts
  DEF WhereAgrees, TypeOK, AppSteps, StartSteps, StopSteps, CloseSteps,
         FrameSteps, Busy, OpenSteps
<1>4. MutexAgrees'
  <2> SUFFICES ASSUME NEW b \in Actors, NEW t \in Sessions
               PROVE  Holds(b, t)' <=> holder'[t] = b
    BY DEF MutexAgrees
  <2>1. Holds(b, t) <=> holder[t] = b
    BY Parts DEF MutexAgrees
  <2> QED BY <2>1, Parts, <1>1, NamesFacts
      DEF Holds, WhereAgrees, TypeOK
<1>5. LifeAgrees'
  BY Parts, <1>1, NamesFacts
  DEF LifeAgrees, LifeFits, Busy, WhereAgrees, TypeOK, OpenSteps, CloseSteps,
         AppSteps
<1>6. ThreadsAgree'
  <2> SUFFICES ASSUME NEW t \in Sessions PROVE ThreadsOf(t)'
    BY DEF ThreadsAgree
  <2>1. ThreadsOf(t) /\ \A b \in Actors : cur[b] = t => LoopOf(b, t)
    BY Parts DEF ThreadsAgree, LoopsAgree
  <2> QED BY <2>1, Parts, <1>1, NamesFacts, SizeFacts
      DEF ThreadsOf, LoopOf, NoThread, Launched, Joins, LifeAgrees, LifeFits, Busy,
             OpenSteps, CloseSteps, TypeOK
<1>7. LoopsAgree'
  <2> SUFFICES ASSUME NEW b \in Actors, NEW t \in Sessions, cur'[b] = t
               PROVE  LoopOf(b, t)'
    BY DEF LoopsAgree
  <2>1. ThreadsOf(t) /\ (cur[b] = t => LoopOf(b, t))
    BY Parts DEF LoopsAgree, ThreadsAgree
  <2> QED BY <2>1, Parts, <1>1, NamesFacts, SizeFacts
      DEF LoopOf, ThreadsOf, InProgress, NoThread, Launched, TypeOK
<1>8. RoundsAgree'
  <2> SUFFICES ASSUME NEW t \in Sessions PROVE RoundOf(t)'
    BY DEF RoundsAgree
  <2>1. RoundOf(t) /\ \A b \in Actors : cur[b] = t => LoopOf(b, t)
    BY Parts DEF RoundsAgree, LoopsAgree
  <2> QED BY <2>1, Parts, <1>1, NamesFacts, SizeFacts
      DEF RoundOf, LoopOf, InProgress, InRound, LifeAgrees, LifeFits, Busy, OpenSteps,
             CloseSteps, TypeOK
<1>9. FrameOfOpenSession'
  BY Parts, <1>1, NamesFacts
  DEF FrameOfOpenSession, LifeAgrees, LifeFits, Busy, OpenSteps, CloseSteps,
         FrameSteps, WhereAgrees, TypeOK
<1> QED BY <1>2, <1>3, <1>4, <1>5, <1>6, <1>7, <1>8, <1>9 DEF IInv

\* The hangup closes a bug that is on the channel.
LEMMA RemoveAtHangupKeeps ==
  ASSUME IInv, NEW s \in Sessions, RemoveAtHangup(s)
  PROVE  IInv'
<1>1. /\ UNCHANGED <<up, bug, globals, session_n, holder, destroyed, beep,
                     frame_n, pos, asleep, done, exit, verdict, lag, thread,
                     dpos, idx>>
      /\ at[App] = "idle" /\ at[Media] = "idle" /\ life[s] = "attached"
      /\ life' = [life EXCEPT ![s] = "removed"]
      /\ at' = [at EXCEPT ![App] = "closing"]
      /\ cur' = [cur EXCEPT ![App] = s]
      /\ after' = [after EXCEPT ![App] = "uncounting"]
  BY Parts, Working, NamesFacts
  DEF RemoveAtHangup, LifeIs, Close, channel, module, session, detectors, where
<1>2. TypeOK'
  BY Parts, <1>1, NamesFacts, SizeFacts
  DEF TypeOK, ThreadSteps, StartSteps, StopSteps, CloseSteps, FrameSteps
<1>3. WhereAgrees'
  BY Parts, <1>1, NamesFacts
  DEF WhereAgrees, TypeOK, AppSteps, StartSteps, StopSteps, CloseSteps,
         FrameSteps, Busy, OpenSteps
<1>4. MutexAgrees'
  <2> SUFFICES ASSUME NEW b \in Actors, NEW t \in Sessions
               PROVE  Holds(b, t)' <=> holder'[t] = b
    BY DEF MutexAgrees
  <2>1. Holds(b, t) <=> holder[t] = b
    BY Parts DEF MutexAgrees
  <2> QED BY <2>1, Parts, <1>1, NamesFacts
      DEF Holds, WhereAgrees, TypeOK
<1>5. LifeAgrees'
  BY Parts, <1>1, NamesFacts
  DEF LifeAgrees, LifeFits, Busy, WhereAgrees, TypeOK, OpenSteps, CloseSteps,
         AppSteps
<1>6. ThreadsAgree'
  <2> SUFFICES ASSUME NEW t \in Sessions PROVE ThreadsOf(t)'
    BY DEF ThreadsAgree
  <2>1. ThreadsOf(t) /\ \A b \in Actors : cur[b] = t => LoopOf(b, t)
    BY Parts DEF ThreadsAgree, LoopsAgree
  <2> QED BY SMTT(20), <2>1, Parts, <1>1, NamesFacts, SizeFacts
      DEF ThreadsOf, LoopOf, NoThread, Launched, Joins, LifeAgrees, LifeFits, Busy,
             OpenSteps, CloseSteps, TypeOK
<1>7. LoopsAgree'
  <2> SUFFICES ASSUME NEW b \in Actors, NEW t \in Sessions, cur'[b] = t
               PROVE  LoopOf(b, t)'
    BY DEF LoopsAgree
  <2>1. ThreadsOf(t) /\ (cur[b] = t => LoopOf(b, t))
    BY Parts DEF LoopsAgree, ThreadsAgree
  <2> QED BY <2>1, Parts, <1>1, NamesFacts, SizeFacts
      DEF LoopOf, ThreadsOf, InProgress, NoThread, Launched, TypeOK
<1>8. RoundsAgree'
  <2> SUFFICES ASSUME NEW t \in Sessions PROVE RoundOf(t)'
    BY DEF RoundsAgree
  <2>1. RoundOf(t) /\ \A b \in Actors : cur[b] = t => LoopOf(b, t)
    BY Parts DEF RoundsAgree, LoopsAgree
  <2> QED BY <2>1, Parts, <1>1, NamesFacts, SizeFacts
      DEF RoundOf, LoopOf, InProgress, InRound, LifeAgrees, LifeFits, Busy, OpenSteps,
             CloseSteps, TypeOK
<1>9. FrameOfOpenSession'
  BY Parts, <1>1, NamesFacts
  DEF FrameOfOpenSession, LifeAgrees, LifeFits, Busy, OpenSteps, CloseSteps,
         FrameSteps, WhereAgrees, TypeOK
<1> QED BY <1>2, <1>3, <1>4, <1>5, <1>6, <1>7, <1>8, <1>9 DEF IInv

-----------------------------------------------------------------------------
(* The close of a session.                                                 *)

\* The mutex was free.
LEMMA CloseLocksKeeps ==
  ASSUME IInv, NEW a \in Actors, CloseLocks(a)
  PROVE  IInv'
<1>1. /\ UNCHANGED <<up, bug, globals, session_n, life, destroyed, beep,
                     frame_n, pos, asleep, done, exit, verdict, lag, thread,
                     dpos, cur, after, idx>>
      /\ at[a] = "closing" /\ cur[a] \in Sessions /\ holder[cur[a]] = None
      /\ holder' = [holder EXCEPT ![cur[a]] = a]
      /\ at' = [at EXCEPT ![a] = "awaiting"]
  BY Parts, Working, NamesFacts
  DEF CloseLocks, Locks, Goto, channel, module, session, detectors, where
<1>2. TypeOK'
  BY Parts, <1>1, NamesFacts, SizeFacts
  DEF TypeOK, ThreadSteps, StartSteps, StopSteps, CloseSteps, FrameSteps
<1>3. WhereAgrees'
  BY Parts, <1>1, NamesFacts
  DEF WhereAgrees, TypeOK, AppSteps, StartSteps, StopSteps, CloseSteps,
         FrameSteps, Busy, OpenSteps
<1>4. MutexAgrees'
  <2> SUFFICES ASSUME NEW b \in Actors, NEW t \in Sessions
               PROVE  Holds(b, t)' <=> holder'[t] = b
    BY DEF MutexAgrees
  <2>1. Holds(b, t) <=> holder[t] = b
    BY Parts DEF MutexAgrees
  <2> QED BY <2>1, Parts, <1>1, NamesFacts
      DEF Holds, WhereAgrees, TypeOK
<1>5. LifeAgrees'
  BY Parts, <1>1, NamesFacts
  DEF LifeAgrees, LifeFits, Busy, WhereAgrees, TypeOK, OpenSteps, CloseSteps,
         AppSteps
<1>6. ThreadsAgree'
  <2>1. \A b \in Actors, t \in Sessions : SameHands(b, t)
    BY <1>1, Parts DEF SameHands, Busy, Joins, OpenSteps, CloseSteps, TypeOK
  <2> QED BY <1>1, <2>1, ThreadsStay
<1>7. LoopsAgree'
  <2> SUFFICES ASSUME NEW b \in Actors, NEW t \in Sessions, cur'[b] = t
               PROVE  LoopOf(b, t)'
    BY DEF LoopsAgree
  <2>1. ThreadsOf(t) /\ (cur[b] = t => LoopOf(b, t))
    BY Parts DEF LoopsAgree, ThreadsAgree
  <2> QED BY <2>1, Parts, <1>1, NamesFacts, SizeFacts
      DEF LoopOf, ThreadsOf, InProgress, NoThread, Launched, TypeOK
<1>8. RoundsAgree'
  <2>1. at'[Media] = at[Media] /\ cur'[Media] = cur[Media]
    BY <1>1, Parts, NamesFacts DEF WhereAgrees, FrameSteps, TypeOK
  <2> QED BY <1>1, <2>1, RoundsStay
<1>9. FrameOfOpenSession'
  BY Parts, <1>1, NamesFacts
  DEF FrameOfOpenSession, LifeAgrees, LifeFits, Busy, OpenSteps, CloseSteps,
         FrameSteps, WhereAgrees, TypeOK
<1> QED BY <1>2, <1>3, <1>4, <1>5, <1>6, <1>7, <1>8, <1>9 DEF IInv

\* Somebody waits to be told that a detector is done.
LEMMA AwaitKeeps ==
  ASSUME IInv, NEW a \in Actors, Await(a)
  PROVE  IInv'
<1>1. /\ UNCHANGED <<up, bug, globals, session_n, life, holder, destroyed,
                     beep, frame_n, pos, done, exit, verdict, lag, thread,
                     dpos, at, cur, after, idx>>
      /\ cur[a] \in Sessions
      /\ asleep' = [asleep EXCEPT ![cur[a]] = TRUE]
  BY Parts, Working, NamesFacts
  DEF Await, channel, module, session, detectors, where
<1>2. TypeOK'
  BY Parts, <1>1, NamesFacts, SizeFacts
  DEF TypeOK, ThreadSteps, StartSteps, StopSteps, CloseSteps, FrameSteps
<1>3. WhereAgrees'
  BY Parts, <1>1, NamesFacts
  DEF WhereAgrees, TypeOK, AppSteps, StartSteps, StopSteps, CloseSteps,
         FrameSteps, Busy, OpenSteps
<1>4. MutexAgrees'
  <2> SUFFICES ASSUME NEW b \in Actors, NEW t \in Sessions
               PROVE  Holds(b, t)' <=> holder'[t] = b
    BY DEF MutexAgrees
  <2>1. Holds(b, t) <=> holder[t] = b
    BY Parts DEF MutexAgrees
  <2> QED BY <2>1, Parts, <1>1, NamesFacts
      DEF Holds, WhereAgrees, TypeOK
<1>5. LifeAgrees'
  BY Parts, <1>1, NamesFacts
  DEF LifeAgrees, LifeFits, Busy, WhereAgrees, TypeOK, OpenSteps, CloseSteps,
         AppSteps
<1>6. ThreadsAgree'
  <2>1. \A b \in Actors, t \in Sessions : SameHands(b, t)
    BY <1>1, Parts DEF SameHands, Busy, Joins, OpenSteps, CloseSteps, TypeOK
  <2> QED BY <1>1, <2>1, ThreadsStay
<1>7. LoopsAgree'
  <2> SUFFICES ASSUME NEW b \in Actors, NEW t \in Sessions, cur'[b] = t
               PROVE  LoopOf(b, t)'
    BY DEF LoopsAgree
  <2>1. ThreadsOf(t) /\ (cur[b] = t => LoopOf(b, t))
    BY Parts DEF LoopsAgree, ThreadsAgree
  <2> QED BY <2>1, Parts, <1>1, NamesFacts, SizeFacts
      DEF LoopOf, ThreadsOf, InProgress, NoThread, Launched, TypeOK
<1>8. RoundsAgree'
  <2> SUFFICES ASSUME NEW t \in Sessions PROVE RoundOf(t)'
    BY DEF RoundsAgree
  <2>1. RoundOf(t) /\ \A b \in Actors : cur[b] = t => LoopOf(b, t)
    BY Parts DEF RoundsAgree, LoopsAgree
  <2> QED BY <2>1, Parts, <1>1, NamesFacts, SizeFacts
      DEF RoundOf, LoopOf, InProgress, InRound, LifeAgrees, LifeFits, Busy, OpenSteps,
             CloseSteps, TypeOK
<1>9. FrameOfOpenSession'
  BY Parts, <1>1, NamesFacts
  DEF FrameOfOpenSession, LifeAgrees, LifeFits, Busy, OpenSteps, CloseSteps,
         FrameSteps, WhereAgrees, TypeOK
<1> QED BY <1>2, <1>3, <1>4, <1>5, <1>6, <1>7, <1>8, <1>9 DEF IInv

\* The loop that joins the threads begins.
LEMMA CloseBeginsKeeps ==
  ASSUME IInv, NEW a \in Actors, CloseBegins(a)
  PROVE  IInv'
<1>1. /\ UNCHANGED <<up, bug, globals, session_n, life, holder, destroyed,
                     beep, frame_n, pos, asleep, done, exit, verdict, lag,
                     thread, dpos, cur, after>>
      /\ at[a] = "awaiting" /\ cur[a] \in Sessions
      /\ at' = [at EXCEPT ![a] = "telling"]
      /\ idx' = [idx EXCEPT ![a] = 1]
  BY Parts, Working, NamesFacts
  DEF CloseBegins, Loop, channel, module, session, detectors, where
<1>2. TypeOK'
  BY Parts, <1>1, NamesFacts, SizeFacts
  DEF TypeOK, ThreadSteps, StartSteps, StopSteps, CloseSteps, FrameSteps
<1>3. WhereAgrees'
  BY Parts, <1>1, NamesFacts
  DEF WhereAgrees, TypeOK, AppSteps, StartSteps, StopSteps, CloseSteps,
         FrameSteps, Busy, OpenSteps
<1>4. MutexAgrees'
  <2> SUFFICES ASSUME NEW b \in Actors, NEW t \in Sessions
               PROVE  Holds(b, t)' <=> holder'[t] = b
    BY DEF MutexAgrees
  <2>1. Holds(b, t) <=> holder[t] = b
    BY Parts DEF MutexAgrees
  <2> QED BY <2>1, Parts, <1>1, NamesFacts
      DEF Holds, WhereAgrees, TypeOK
<1>5. LifeAgrees'
  BY Parts, <1>1, NamesFacts
  DEF LifeAgrees, LifeFits, Busy, WhereAgrees, TypeOK, OpenSteps, CloseSteps,
         AppSteps
<1>6. ThreadsAgree'
  <2> SUFFICES ASSUME NEW t \in Sessions PROVE ThreadsOf(t)'
    BY DEF ThreadsAgree
  <2>1. ThreadsOf(t) /\ \A b \in Actors : cur[b] = t => LoopOf(b, t)
    BY Parts DEF ThreadsAgree, LoopsAgree
  <2> QED BY <2>1, Parts, <1>1, NamesFacts, SizeFacts
      DEF ThreadsOf, LoopOf, NoThread, Launched, Joins, LifeAgrees, LifeFits, Busy,
             OpenSteps, CloseSteps, TypeOK
<1>7. LoopsAgree'
  <2> SUFFICES ASSUME NEW b \in Actors, NEW t \in Sessions, cur'[b] = t
               PROVE  LoopOf(b, t)'
    BY DEF LoopsAgree
  <2>1. ThreadsOf(t) /\ (cur[b] = t => LoopOf(b, t))
    BY Parts DEF LoopsAgree, ThreadsAgree
  <2> QED BY <2>1, Parts, <1>1, NamesFacts, SizeFacts
      DEF LoopOf, ThreadsOf, InProgress, NoThread, Launched, TypeOK
<1>8. RoundsAgree'
  <2>1. at'[Media] = at[Media] /\ cur'[Media] = cur[Media]
    BY <1>1, Parts, NamesFacts DEF WhereAgrees, FrameSteps, TypeOK
  <2> QED BY <1>1, <2>1, RoundsStay
<1>9. FrameOfOpenSession'
  BY Parts, <1>1, NamesFacts
  DEF FrameOfOpenSession, LifeAgrees, LifeFits, Busy, OpenSteps, CloseSteps,
         FrameSteps, WhereAgrees, TypeOK
<1> QED BY <1>2, <1>3, <1>4, <1>5, <1>6, <1>7, <1>8, <1>9 DEF IInv

\* A thread that was not created is passed over.
LEMMA PassOverKeeps ==
  ASSUME IInv, NEW a \in Actors, TellExit(a), Skipped(a)
  PROVE  IInv'
<1>1. /\ UNCHANGED <<up, bug, globals, session_n, life, holder, destroyed,
                     beep, frame_n, pos, asleep, done, exit, verdict, lag,
                     thread, dpos, cur, after>>
      /\ at[a] = "telling" /\ cur[a] \in Sessions /\ Busy(a, cur[a]) /\ idx[a] \in DetectorsOf(cur[a])
      /\ after[a] = "unlock" /\ thread[cur[a]][idx[a]] = "none"
      /\ at' = [at EXCEPT ![a] = "telling"]
      /\ idx' = [idx EXCEPT ![a] = @ + 1]
  BY Parts, Working, NamesFacts
  DEF TellExit, Skipped, Round, Busy, CloseSteps, TypeOK, channel, module, session, detectors, where
<1>2. TypeOK'
  BY SMTT(20), Parts, <1>1, NamesFacts, SizeFacts
  DEF TypeOK, ThreadSteps, StartSteps, StopSteps, CloseSteps, FrameSteps
<1>3. WhereAgrees'
  BY Parts, <1>1, NamesFacts
  DEF WhereAgrees, TypeOK, AppSteps, StartSteps, StopSteps, CloseSteps,
         FrameSteps, Busy, OpenSteps
<1>4. MutexAgrees'
  <2> SUFFICES ASSUME NEW b \in Actors, NEW t \in Sessions
               PROVE  Holds(b, t)' <=> holder'[t] = b
    BY DEF MutexAgrees
  <2>1. Holds(b, t) <=> holder[t] = b
    BY Parts DEF MutexAgrees
  <2> QED BY <2>1, Parts, <1>1, NamesFacts
      DEF Holds, WhereAgrees, TypeOK
<1>5. LifeAgrees'
  BY Parts, <1>1, NamesFacts
  DEF LifeAgrees, LifeFits, Busy, WhereAgrees, TypeOK, OpenSteps, CloseSteps,
         AppSteps
<1>6. ASSUME NEW t \in Sessions, t # cur[a] PROVE Untouched(t)
  BY <1>1, <1>6, Parts, NamesFacts, SizeFacts DEF Untouched, TypeOK
<1>7. /\ ThreadsOf(cur[a]) /\ RoundOf(cur[a]) /\ life[cur[a]] # "attached"
      /\ \A b \in Actors : cur[b] = cur[a] => LoopOf(b, cur[a])
      /\ \A b \in Actors : Busy(b, cur[a]) => b = a
  BY <1>1, Parts, NamesFacts, AttachedIsOpen
  DEF ThreadsAgree, RoundsAgree, LoopsAgree, LifeAgrees, LifeFits, Busy, OpenSteps,
      CloseSteps, WhereAgrees, TypeOK
<1>8. ThreadsOf(cur[a])'
  <2>1. \A b \in Actors : Busy(b, cur[a])' <=> Busy(b, cur[a])
    BY <1>1, Parts DEF Busy, CloseSteps, TypeOK
  <2>2. \A b \in Actors, d \in All : Joins(b, cur[a], d)' <=> Joins(b, cur[a], d)
    BY <1>1, Parts DEF Joins, TypeOK
  <2> QED BY <1>1, <1>7, <2>1, <2>2, SizeFacts DEF ThreadsOf, NoThread, Launched
<1>9. ASSUME NEW b \in Actors, cur'[b] = cur[a] PROVE LoopOf(b, cur[a])'
  <2>1. CASE b = a
    <3>1. at'[a] = "telling" /\ idx'[a] = idx[a] + 1 /\ LoopOf(a, cur[a])
      BY <1>1, <1>7, Parts DEF TypeOK
    <3>2. /\ idx[a] \in Nat /\ idx'[a] \in 1..(Size(cur[a]) + 1)
          /\ \A d \in DetectorsOf(cur[a]) : d \in All /\ d \in Nat
      BY <1>1, <3>1, SizeFacts
    <3>3. \A d \in DetectorsOf(cur[a]) : d < idx[a] + 1 => d < idx[a] \/ d = idx[a]
      BY <3>2
    <3> QED BY <1>1, <2>1, <3>1, <3>2, <3>3 DEF LoopOf
  <2>2. CASE b # a
    BY <1>1, <1>7, <1>9, <2>2, Parts DEF LoopOf, Busy, OpenSteps, CloseSteps, TypeOK
  <2> QED BY <2>1, <2>2
<1>10. RoundOf(cur[a])'
  BY <1>1, <1>7, SizeFacts DEF RoundOf
<1>11. ThreadsAgree' /\ LoopsAgree' /\ RoundsAgree'
  BY <1>1, <1>6, <1>8, <1>9, <1>10, UntouchedKeeps DEF ThreadsAgree, LoopsAgree, RoundsAgree
<1>12. FrameOfOpenSession'
  BY Parts, <1>1, NamesFacts
  DEF FrameOfOpenSession, LifeAgrees, LifeFits, Busy, OpenSteps, CloseSteps,
         FrameSteps, WhereAgrees, TypeOK
<1> QED BY <1>2, <1>3, <1>4, <1>5, <1>11, <1>12 DEF IInv

\* One thread is told to exit, by who is alone with the session.
LEMMA TellExitKeeps ==
  ASSUME IInv, NEW a \in Actors, TellExit(a), ~Skipped(a)
  PROVE  IInv'
<1>0. /\ at[a] = "telling" /\ cur[a] \in Sessions /\ Busy(a, cur[a]) /\ idx[a] \in DetectorsOf(cur[a])
      /\ thread' \in [Sessions -> [All -> ThreadSteps]]
      /\ \A t \in Sessions, e \in All :
           thread'[t][e] = IF t = cur[a] /\ e = idx[a] THEN (IF thread[cur[a]][idx[a]] = "asleep" THEN "ready" ELSE thread[cur[a]][idx[a]]) ELSE thread[t][e]
  <2>1. at[a] = "telling" /\ cur[a] \in Sessions /\ Busy(a, cur[a]) /\ idx[a] \in DetectorsOf(cur[a])
    BY Parts, Working, NamesFacts DEF TellExit, Busy, CloseSteps
  <2>2. TypeOK /\ cur[a] \in Sessions /\ idx[a] \in All
    BY <2>1, Parts, SizeFacts
  <2>3. thread' = Signalled(cur[a], idx[a])
    BY DEF TellExit, Told
  <2> QED BY <2>1, <2>2, <2>3, SignalMoves
<1>1. /\ UNCHANGED <<up, bug, globals, session_n, life, holder, destroyed,
                     beep, frame_n, pos, asleep, verdict, lag, dpos, cur,
                     after, idx>>
      /\ thread' \in [Sessions -> [All -> ThreadSteps]]
      /\ at[a] = "telling" /\ cur[a] \in Sessions /\ Busy(a, cur[a]) /\ idx[a] \in DetectorsOf(cur[a])
      /\ thread[cur[a]][idx[a]] # "none"
      /\ \/ done' = done
         \/ done' = [done EXCEPT ![cur[a]] = @ \ {idx[a]}] /\ after[a] # "unlock"
      /\ exit' = [exit EXCEPT ![cur[a]] = @ \union {idx[a]}]
      /\ at' = [at EXCEPT ![a] = "joining"]
  <2>1. thread[cur[a]][idx[a]] # "none"
    BY SMTT(20), <1>0, Parts DEF Skipped, LoopsAgree, LoopOf
  <2>2. \/ done' = done
        \/ done' = [done EXCEPT ![cur[a]] = @ \ {idx[a]}] /\ after[a] # "unlock"
    BY DEF TellExit
  <2> QED BY <1>0, <2>1, <2>2 DEF TellExit, Goto, channel, module, session
<1>2. TypeOK'
  <2>1. done' \in [Sessions -> SUBSET All] /\ exit' \in [Sessions -> SUBSET All]
    <3>1. /\ [done EXCEPT ![cur[a]] = @ \ {idx[a]}] \in [Sessions -> SUBSET All]
          /\ [exit EXCEPT ![cur[a]] = @ \ {idx[a]}] \in [Sessions -> SUBSET All]
      BY Parts DEF TypeOK
    <3>2. [exit EXCEPT ![cur[a]] = @ \union {idx[a]}] \in [Sessions -> SUBSET All]
      BY <1>1, Parts, SizeFacts DEF TypeOK
    <3> QED BY <1>1, <3>1, <3>2, Parts DEF TypeOK
  <2>2. at' \in [Actors -> {"idle"} \union StartSteps \union StopSteps
                       \union CloseSteps \union FrameSteps]
    BY <1>1, Parts, NamesFacts DEF TypeOK, CloseSteps, FrameSteps
  <2>3. idx' \in [Actors -> Nat]
    BY <1>1, Parts, NamesFacts DEF TypeOK
  <2> QED BY <1>1, <2>1, <2>2, <2>3, Parts DEF TypeOK
<1>3. WhereAgrees'
  BY Parts, <1>1, <1>0, NamesFacts
  DEF WhereAgrees, TypeOK, AppSteps, StartSteps, StopSteps, CloseSteps,
         FrameSteps, Busy, OpenSteps
<1>4. MutexAgrees'
  <2> SUFFICES ASSUME NEW b \in Actors, NEW t \in Sessions
               PROVE  Holds(b, t)' <=> holder'[t] = b
    BY DEF MutexAgrees
  <2>1. Holds(b, t) <=> holder[t] = b
    BY Parts DEF MutexAgrees
  <2> QED BY <2>1, Parts, <1>1, NamesFacts
      DEF Holds, WhereAgrees, TypeOK
<1>5. LifeAgrees'
  BY Parts, <1>1, <1>0, NamesFacts
  DEF LifeAgrees, LifeFits, Busy, WhereAgrees, TypeOK, OpenSteps, CloseSteps,
         AppSteps
<1>6. ASSUME NEW t \in Sessions, t # cur[a] PROVE Untouched(t)
  BY <1>1, <1>0, <1>6, Parts, NamesFacts, SizeFacts DEF Untouched, TypeOK
<1>7. /\ ThreadsOf(cur[a]) /\ RoundOf(cur[a]) /\ life[cur[a]] # "attached"
      /\ \A b \in Actors : cur[b] = cur[a] => LoopOf(b, cur[a])
      /\ \A b \in Actors : Busy(b, cur[a]) => b = a
  BY <1>1, <1>0, Parts, NamesFacts, AttachedIsOpen
  DEF ThreadsAgree, RoundsAgree, LoopsAgree, LifeAgrees, LifeFits, Busy, OpenSteps,
      CloseSteps, WhereAgrees, TypeOK
<1>8. ThreadsOf(cur[a])'
  <2>1. \A d \in All : thread'[cur[a]][d] = "none" <=> thread[cur[a]][d] = "none"
    BY <1>1, <1>0
  <2>2. Busy(a, cur[a])'
    BY <1>1, Parts DEF Busy, CloseSteps, TypeOK
  <2>3. Joins(a, cur[a], idx[a])'
    BY <1>1, Parts DEF Joins, TypeOK
  <2>4. \A d \in DetectorsOf(cur[a]) :
          thread[cur[a]][d] # "none" => d \notin exit[cur[a]]
    <3>1. \A b \in Actors, d \in All : ~Joins(b, cur[a], d)
      BY <1>1, <1>7 DEF Joins, Busy, CloseSteps
    <3> QED BY <1>7, <3>1, SizeFacts, <1>1 DEF ThreadsOf
  <2>5. \A d \in All :
          /\ d \in exit'[cur[a]] <=> d \in exit[cur[a]] \/ d = idx[a]
          /\ thread'[cur[a]][d] = "ended" => thread[cur[a]][d] = "ended"
    BY ZenonT(60), <1>1, <1>0, Parts DEF TypeOK
  <2>6. ~destroyed[cur[a]]
    BY <1>1, <1>7 DEF ThreadsOf, NoThread
  <2>7. \A d \in DetectorsOf(cur[a]) :
          /\ thread'[cur[a]][d] = "ended" => d \in exit'[cur[a]]
          /\ thread'[cur[a]][d] # "none" /\ d \in exit'[cur[a]] => d = idx[a]
    <3> SUFFICES ASSUME NEW d \in DetectorsOf(cur[a])
                 PROVE  /\ thread'[cur[a]][d] = "ended" => d \in exit'[cur[a]]
                        /\ thread'[cur[a]][d] # "none" /\ d \in exit'[cur[a]] => d = idx[a]
      OBVIOUS
    <3>1. d \in All /\ (thread[cur[a]][d] = "ended" => d \in exit[cur[a]])
      BY <1>1, <1>7, SizeFacts DEF ThreadsOf
    <3>2. thread'[cur[a]][d] = "ended" => d \in exit'[cur[a]]
      BY <3>1, <2>5
    <3>3. thread'[cur[a]][d] # "none" => d \notin exit[cur[a]]
      BY <3>1, <2>1, <2>4
    <3> QED BY <3>1, <3>2, <3>3, <2>5
  <2>8. \A d \in All \ DetectorsOf(cur[a]) : thread'[cur[a]][d] = "none"
    BY <1>7, <2>1 DEF ThreadsOf
  <2>9. life'[cur[a]] = life[cur[a]] /\ life[cur[a]] \notin {"free", "attached"}
    BY <1>1, <1>7, Parts DEF LifeAgrees, LifeFits, Busy, CloseSteps, WhereAgrees, TypeOK
  <2> QED BY <1>1, <1>7, <2>2, <2>3, <2>6, <2>7, <2>8, <2>9 DEF ThreadsOf
<1>9. ASSUME NEW b \in Actors, cur'[b] = cur[a] PROVE LoopOf(b, cur[a])'
  <2>1. \A d \in All : thread'[cur[a]][d] = "none" <=> thread[cur[a]][d] = "none"
    BY <1>1, <1>0
  <2>2. CASE b = a
    <3>1. at'[a] = "joining" /\ idx[a] \in exit'[cur[a]] /\ LoopOf(a, cur[a])
      BY <1>1, <1>7, Parts, SizeFacts DEF TypeOK
    <3> QED BY <1>1, <2>1, <2>2, <3>1, SizeFacts DEF LoopOf
  <2>3. CASE b # a
    BY <1>1, <1>7, <1>9, <2>3, Parts DEF LoopOf, Busy, OpenSteps, CloseSteps, TypeOK
  <2> QED BY <2>2, <2>3
<1>10. RoundOf(cur[a])'
  <2>1. \A d \in All : thread'[cur[a]][d] = "none" <=> thread[cur[a]][d] = "none"
    BY <1>1, <1>0
  <2>2. \A d \in All : d \in done[cur[a]] \union exit[cur[a]]
                       => d \in done'[cur[a]] \union exit'[cur[a]]
    BY <1>1, Parts DEF TypeOK
  <2>3. \A d \in DetectorsOf(cur[a]) : thread[cur[a]][d] # "examining"
    BY <1>7 DEF RoundOf
  <2>4. \A d \in DetectorsOf(cur[a]) : thread'[cur[a]][d] # "examining"
    BY <1>0, <1>1, <2>3, SizeFacts
  <2> QED BY <1>1, <1>7, <2>1, <2>2, <2>4, SizeFacts DEF RoundOf
<1>11. ThreadsAgree' /\ LoopsAgree' /\ RoundsAgree'
  BY <1>1, <1>0, <1>6, <1>8, <1>9, <1>10, UntouchedKeeps DEF ThreadsAgree, LoopsAgree, RoundsAgree
<1>12. FrameOfOpenSession'
  BY Parts, <1>1, <1>0, NamesFacts
  DEF FrameOfOpenSession, LifeAgrees, LifeFits, Busy, OpenSteps, CloseSteps,
         FrameSteps, WhereAgrees, TypeOK
<1> QED BY <1>2, <1>3, <1>4, <1>5, <1>11, <1>12 DEF IInv

\* The thread that was told to exit has ended.
LEMMA JoinThreadKeeps ==
  ASSUME IInv, NEW a \in Actors, JoinThread(a)
  PROVE  IInv'
<1>0. /\ at[a] = "joining" /\ cur[a] \in Sessions /\ Busy(a, cur[a]) /\ idx[a] \in DetectorsOf(cur[a])
      /\ thread' \in [Sessions -> [All -> ThreadSteps]]
      /\ \A t \in Sessions, e \in All :
           thread'[t][e] = IF t = cur[a] /\ e = idx[a] THEN "none" ELSE thread[t][e]
  <2>1. at[a] = "joining" /\ cur[a] \in Sessions /\ Busy(a, cur[a]) /\ idx[a] \in DetectorsOf(cur[a])
    BY Parts, Working, NamesFacts DEF JoinThread, Busy, CloseSteps, LoopsAgree, LoopOf
  <2>2. TypeOK /\ cur[a] \in Sessions /\ idx[a] \in All
    BY <2>1, Parts, SizeFacts
  <2>3. "none" \in ThreadSteps
    BY DEF ThreadSteps
  <2>4. thread' = [thread EXCEPT ![cur[a]][idx[a]] = "none"]
    BY DEF JoinThread
  <2> QED BY ZenonT(60), <2>1, <2>2, <2>3, <2>4, ThreadMoves
<1>1. /\ UNCHANGED <<up, bug, globals, session_n, life, holder, destroyed,
                     beep, frame_n, pos, asleep, done, exit, verdict, lag,
                     dpos, cur, after>>
      /\ thread' \in [Sessions -> [All -> ThreadSteps]]
      /\ at[a] = "joining" /\ cur[a] \in Sessions /\ Busy(a, cur[a]) /\ idx[a] \in DetectorsOf(cur[a])
      /\ at' = [at EXCEPT ![a] = "telling"]
      /\ idx' = [idx EXCEPT ![a] = @ + 1]
  BY <1>0 DEF JoinThread, Round, channel, module, session
<1>2. TypeOK'
  <2>1. UNCHANGED <<done, exit>>
    BY <1>1
  <2>2. at' \in [Actors -> {"idle"} \union StartSteps \union StopSteps
                       \union CloseSteps \union FrameSteps]
    BY <1>1, Parts, NamesFacts DEF TypeOK, CloseSteps, FrameSteps
  <2>3. idx' \in [Actors -> Nat]
    BY <1>1, Parts, NamesFacts DEF TypeOK
  <2> QED BY <1>1, <2>1, <2>2, <2>3, Parts DEF TypeOK
<1>3. WhereAgrees'
  BY Parts, <1>1, <1>0, NamesFacts
  DEF WhereAgrees, TypeOK, AppSteps, StartSteps, StopSteps, CloseSteps,
         FrameSteps, Busy, OpenSteps
<1>4. MutexAgrees'
  <2> SUFFICES ASSUME NEW b \in Actors, NEW t \in Sessions
               PROVE  Holds(b, t)' <=> holder'[t] = b
    BY DEF MutexAgrees
  <2>1. Holds(b, t) <=> holder[t] = b
    BY Parts DEF MutexAgrees
  <2> QED BY <2>1, Parts, <1>1, NamesFacts
      DEF Holds, WhereAgrees, TypeOK
<1>5. LifeAgrees'
  BY Parts, <1>1, <1>0, NamesFacts
  DEF LifeAgrees, LifeFits, Busy, WhereAgrees, TypeOK, OpenSteps, CloseSteps,
         AppSteps
<1>6. ASSUME NEW t \in Sessions, t # cur[a] PROVE Untouched(t)
  BY <1>1, <1>0, <1>6, Parts, NamesFacts, SizeFacts DEF Untouched, TypeOK
<1>7. /\ ThreadsOf(cur[a]) /\ RoundOf(cur[a]) /\ life[cur[a]] # "attached"
      /\ \A b \in Actors : cur[b] = cur[a] => LoopOf(b, cur[a])
      /\ \A b \in Actors : Busy(b, cur[a]) => b = a
  BY <1>1, <1>0, Parts, NamesFacts, AttachedIsOpen
  DEF ThreadsAgree, RoundsAgree, LoopsAgree, LifeAgrees, LifeFits, Busy, OpenSteps,
      CloseSteps, WhereAgrees, TypeOK
<1>8. ThreadsOf(cur[a])'
  <2>1. Busy(a, cur[a])'
    BY <1>1, Parts DEF Busy, CloseSteps, TypeOK
  <2>2. \A d \in DetectorsOf(cur[a]) :
          d # idx[a] /\ thread[cur[a]][d] # "none" => d \notin exit[cur[a]]
    <3>1. \A b \in Actors, d \in All : Joins(b, cur[a], d) => d = idx[a]
      BY <1>1, <1>7 DEF Joins, Busy, CloseSteps
    <3> QED BY <1>7, <3>1, SizeFacts, <1>1 DEF ThreadsOf
  <2>3. ~destroyed[cur[a]]
    BY <1>1, <1>7 DEF ThreadsOf, NoThread, LoopOf
  <2>4. \A d \in All : thread'[cur[a]][d] \in {"none", thread[cur[a]][d]}
    BY <1>0
  <2>5. \A d \in All \ DetectorsOf(cur[a]) : thread'[cur[a]][d] = "none"
    BY <1>7, <2>4 DEF ThreadsOf
  <2>6. \A d \in DetectorsOf(cur[a]) : thread'[cur[a]][d] # "none" =>
          /\ d # idx[a] /\ thread'[cur[a]][d] = thread[cur[a]][d] /\ d \notin exit[cur[a]]
    BY <1>0, <2>2, SizeFacts
  <2>7. \A d \in DetectorsOf(cur[a]) : thread[cur[a]][d] = "ended" => d \in exit[cur[a]]
    BY <1>7 DEF ThreadsOf
  <2>8. NoThread(cur[a]) => NoThread(cur[a])'
    BY <1>1, <2>6 DEF NoThread, DetectorsOf, Size
  <2>9. life[cur[a]] = "free" => NoThread(cur[a])
    BY <1>7 DEF ThreadsOf
  <2> QED BY <1>1, <1>7, <2>1, <2>3, <2>5, <2>6, <2>7, <2>8, <2>9
      DEF ThreadsOf, DetectorsOf, Size
<1>9. ASSUME NEW b \in Actors, cur'[b] = cur[a] PROVE LoopOf(b, cur[a])'
  <2>1. CASE b = a
    <3>1. at'[a] = "telling" /\ idx'[a] = idx[a] + 1 /\ LoopOf(a, cur[a])
      BY <1>1, <1>7, Parts DEF TypeOK
    <3>2. /\ idx[a] \in Nat /\ idx'[a] \in 1..(Size(cur[a]) + 1)
          /\ \A d \in DetectorsOf(cur[a]) : d \in All /\ d \in Nat
      BY <1>1, <3>1, SizeFacts
    <3>3. \A d \in DetectorsOf(cur[a]) : d < idx[a] + 1 => d < idx[a] \/ d = idx[a]
      BY <3>2
    <3>4. \A d \in DetectorsOf(cur[a]) : idx[a] + 1 <= d => idx[a] <= d /\ d # idx[a]
      BY <3>2
    <3> QED BY <1>0, <1>1, <2>1, <3>1, <3>2, <3>3, <3>4 DEF LoopOf
  <2>2. CASE b # a
    BY <1>1, <1>7, <1>9, <2>2, Parts DEF LoopOf, Busy, OpenSteps, CloseSteps, TypeOK
  <2> QED BY <2>1, <2>2
<1>10. RoundOf(cur[a])'
  BY <1>0, <1>1, <1>7, SizeFacts DEF RoundOf
<1>11. ThreadsAgree' /\ LoopsAgree' /\ RoundsAgree'
  BY <1>1, <1>0, <1>6, <1>8, <1>9, <1>10, UntouchedKeeps DEF ThreadsAgree, LoopsAgree, RoundsAgree
<1>12. FrameOfOpenSession'
  BY Parts, <1>1, <1>0, NamesFacts
  DEF FrameOfOpenSession, LifeAgrees, LifeFits, Busy, OpenSteps, CloseSteps,
         FrameSteps, WhereAgrees, TypeOK
<1> QED BY <1>2, <1>3, <1>4, <1>5, <1>11, <1>12 DEF IInv

\* No thread is left when the loop is at its end.
LEMMA ThreadsJoinedKeeps ==
  ASSUME IInv, NEW a \in Actors, ThreadsJoined(a), after[a] = "uncounting"
  PROVE  IInv'
<1>1. /\ UNCHANGED <<up, bug, globals, session_n, life, beep, frame_n, pos,
                     asleep, done, exit, verdict, lag, thread, dpos, cur,
                     after, idx>>
      /\ at[a] = "telling" /\ cur[a] \in Sessions /\ Busy(a, cur[a]) /\ NoThread(cur[a])
      /\ holder' = [holder EXCEPT ![cur[a]] = None]
      /\ after[a] = "uncounting"
      /\ destroyed' = [destroyed EXCEPT ![cur[a]] = TRUE]
      /\ at' = [at EXCEPT ![a] = "uncounting"]
  <2>1. at[a] = "telling" /\ cur[a] \in Sessions /\ Busy(a, cur[a])
    BY Working DEF ThreadsJoined, Busy, CloseSteps
  <2>2. NoThread(cur[a])
    <3> SUFFICES ASSUME NEW d \in DetectorsOf(cur[a]) PROVE thread[cur[a]][d] = "none"
      BY DEF NoThread
    <3>1. idx[a] \in 1..(Size(cur[a]) + 1) /\ idx[a] \notin 1..Size(cur[a])
      BY <2>1, Parts, SizeFacts DEF ThreadsJoined, LoopsAgree, LoopOf
    <3>2. d < idx[a]
      BY <2>1, <3>1, SizeFacts
    <3> QED BY <2>1, <3>2, Parts DEF LoopsAgree, LoopOf
  <2> QED BY <2>1, <2>2 DEF ThreadsJoined, Unlocks, Goto, Leave, LifeIs, channel, module,
        detectors
<1>2. TypeOK'
  BY Parts, <1>1, NamesFacts, SizeFacts
  DEF TypeOK, ThreadSteps, StartSteps, StopSteps, CloseSteps, FrameSteps
<1>3. WhereAgrees'
  BY Parts, <1>1, NamesFacts
  DEF WhereAgrees, TypeOK, AppSteps, StartSteps, StopSteps, CloseSteps,
         FrameSteps, Busy, OpenSteps
<1>4. MutexAgrees'
  <2> SUFFICES ASSUME NEW b \in Actors, NEW t \in Sessions
               PROVE  Holds(b, t)' <=> holder'[t] = b
    BY DEF MutexAgrees
  <2>1. (Holds(b, t) <=> holder[t] = b) /\ (Holds(a, t) <=> holder[t] = a)
    BY Parts, NamesFacts DEF MutexAgrees
  <2> QED BY <2>1, Parts, <1>1, NamesFacts
      DEF Holds, WhereAgrees, TypeOK
<1>5. LifeAgrees'
  BY Parts, <1>1, NamesFacts
  DEF LifeAgrees, LifeFits, Busy, WhereAgrees, TypeOK, OpenSteps, CloseSteps,
         AppSteps
<1>6. ThreadsAgree'
  <2> SUFFICES ASSUME NEW t \in Sessions PROVE ThreadsOf(t)'
    BY DEF ThreadsAgree
  <2>1. ThreadsOf(t) /\ \A b \in Actors : cur[b] = t => LoopOf(b, t)
    BY Parts DEF ThreadsAgree, LoopsAgree
  <2> QED BY SMTT(20), <2>1, Parts, <1>1, NamesFacts, SizeFacts
      DEF ThreadsOf, LoopOf, NoThread, Launched, Joins, LifeAgrees, LifeFits, Busy,
             OpenSteps, CloseSteps, TypeOK
<1>7. LoopsAgree'
  <2> SUFFICES ASSUME NEW b \in Actors, NEW t \in Sessions, cur'[b] = t
               PROVE  LoopOf(b, t)'
    BY DEF LoopsAgree
  <2>1. ThreadsOf(t) /\ (cur[b] = t => LoopOf(b, t))
    BY Parts DEF LoopsAgree, ThreadsAgree
  <2> QED BY <2>1, Parts, <1>1, NamesFacts, SizeFacts
      DEF LoopOf, ThreadsOf, InProgress, NoThread, Launched, TypeOK
<1>8. RoundsAgree'
  <2> SUFFICES ASSUME NEW t \in Sessions PROVE RoundOf(t)'
    BY DEF RoundsAgree
  <2>1. RoundOf(t) /\ \A b \in Actors : cur[b] = t => LoopOf(b, t)
    BY Parts DEF RoundsAgree, LoopsAgree
  <2> QED BY <2>1, Parts, <1>1, NamesFacts, SizeFacts
      DEF RoundOf, LoopOf, InProgress, InRound, LifeAgrees, LifeFits, Busy, OpenSteps,
             CloseSteps, TypeOK
<1>9. FrameOfOpenSession'
  BY Parts, <1>1, NamesFacts
  DEF FrameOfOpenSession, LifeAgrees, LifeFits, Busy, OpenSteps, CloseSteps,
         FrameSteps, WhereAgrees, TypeOK
<1> QED BY <1>2, <1>3, <1>4, <1>5, <1>6, <1>7, <1>8, <1>9 DEF IInv

\* The same at the end of a start that failed.
LEMMA StartUndoneKeeps ==
  ASSUME IInv, NEW a \in Actors, ThreadsJoined(a), after[a] # "uncounting"
  PROVE  IInv'
<1>1. /\ UNCHANGED <<up, bug, globals, session_n, beep, frame_n, pos, asleep,
                     done, exit, verdict, lag, thread, dpos>>
      /\ at[a] = "telling" /\ cur[a] \in Sessions /\ Busy(a, cur[a]) /\ NoThread(cur[a])
      /\ holder' = [holder EXCEPT ![cur[a]] = None]
      /\ after[a] # "uncounting"
      /\ destroyed' = [destroyed EXCEPT ![cur[a]] = after[a] # "unlock"]
      /\ life' = [life EXCEPT ![cur[a]] = "failed"]
      /\ at' = [at EXCEPT ![a] = "idle"]
      /\ cur' = [cur EXCEPT ![a] = None]
      /\ after' = [after EXCEPT ![a] = "idle"]
      /\ idx' = [idx EXCEPT ![a] = 0]
  <2>1. at[a] = "telling" /\ cur[a] \in Sessions /\ Busy(a, cur[a])
    BY Working DEF ThreadsJoined, Busy, CloseSteps
  <2>2. NoThread(cur[a])
    <3> SUFFICES ASSUME NEW d \in DetectorsOf(cur[a]) PROVE thread[cur[a]][d] = "none"
      BY DEF NoThread
    <3>1. idx[a] \in 1..(Size(cur[a]) + 1) /\ idx[a] \notin 1..Size(cur[a])
      BY <2>1, Parts, SizeFacts DEF ThreadsJoined, LoopsAgree, LoopOf
    <3>2. d < idx[a]
      BY <2>1, <3>1, SizeFacts
    <3> QED BY <2>1, <3>2, Parts DEF LoopsAgree, LoopOf
  <2> QED BY <2>1, <2>2 DEF ThreadsJoined, Unlocks, Goto, Leave, LifeIs, channel, module,
        detectors
<1>2. TypeOK'
  BY Parts, <1>1, NamesFacts, SizeFacts
  DEF TypeOK, ThreadSteps, StartSteps, StopSteps, CloseSteps, FrameSteps
<1>3. WhereAgrees'
  BY Parts, <1>1, NamesFacts
  DEF WhereAgrees, TypeOK, AppSteps, StartSteps, StopSteps, CloseSteps,
         FrameSteps, Busy, OpenSteps
<1>4. MutexAgrees'
  <2> SUFFICES ASSUME NEW b \in Actors, NEW t \in Sessions
               PROVE  Holds(b, t)' <=> holder'[t] = b
    BY DEF MutexAgrees
  <2>1. (Holds(b, t) <=> holder[t] = b) /\ (Holds(a, t) <=> holder[t] = a)
    BY Parts, NamesFacts DEF MutexAgrees
  <2> QED BY <2>1, Parts, <1>1, NamesFacts
      DEF Holds, WhereAgrees, TypeOK
<1>5. LifeAgrees'
  BY Parts, <1>1, NamesFacts
  DEF LifeAgrees, LifeFits, Busy, WhereAgrees, TypeOK, OpenSteps, CloseSteps,
         AppSteps
<1>6. ThreadsAgree'
  <2> SUFFICES ASSUME NEW t \in Sessions PROVE ThreadsOf(t)'
    BY DEF ThreadsAgree
  <2>1. ThreadsOf(t) /\ \A b \in Actors : cur[b] = t => LoopOf(b, t)
    BY Parts DEF ThreadsAgree, LoopsAgree
  <2>2. CASE t = cur[a]
    <3>1. life'[t] = "failed"
      BY <1>1, <2>2, Parts DEF TypeOK
    <3>2. NoThread(t)' /\ \A d \in DetectorsOf(t) : thread[t][d] = "none"
      BY <1>1, <2>2 DEF NoThread
    <3> QED BY <1>1, <2>1, <3>1, <3>2 DEF ThreadsOf
  <2>3. CASE t # cur[a]
    <3>1. life'[t] = life[t] /\ destroyed'[t] = destroyed[t]
      BY <1>1, <2>3, Parts DEF TypeOK
    <3>2. \A b \in Actors : cur[b] = t =>
            at'[b] = at[b] /\ cur'[b] = cur[b] /\ idx'[b] = idx[b]
      BY <1>1, <2>3, Parts DEF TypeOK
    <3>3. \A b \in Actors : Busy(b, t) => Busy(b, t)'
      BY <3>2 DEF Busy
    <3>4. \A b \in Actors, d \in DetectorsOf(t) : Joins(b, t, d) => Joins(b, t, d)'
      BY <3>2 DEF Joins
    <3> QED BY <1>1, <2>1, <3>1, <3>3, <3>4 DEF ThreadsOf, NoThread, Launched
  <2> QED BY <2>2, <2>3
<1>7. LoopsAgree'
  <2> SUFFICES ASSUME NEW b \in Actors, NEW t \in Sessions, cur'[b] = t
               PROVE  LoopOf(b, t)'
    BY DEF LoopsAgree
  <2>1. ThreadsOf(t) /\ (cur[b] = t => LoopOf(b, t))
    BY Parts DEF LoopsAgree, ThreadsAgree
  <2> QED BY <2>1, Parts, <1>1, NamesFacts, SizeFacts
      DEF LoopOf, ThreadsOf, InProgress, NoThread, Launched, TypeOK
<1>8. RoundsAgree'
  <2> SUFFICES ASSUME NEW t \in Sessions PROVE RoundOf(t)'
    BY DEF RoundsAgree
  <2>1. RoundOf(t) /\ \A b \in Actors : cur[b] = t => LoopOf(b, t)
    BY Parts DEF RoundsAgree, LoopsAgree
  <2> QED BY <2>1, Parts, <1>1, NamesFacts, SizeFacts
      DEF RoundOf, LoopOf, InProgress, InRound, LifeAgrees, LifeFits, Busy, OpenSteps,
             CloseSteps, TypeOK
<1>9. FrameOfOpenSession'
  BY Parts, <1>1, NamesFacts
  DEF FrameOfOpenSession, LifeAgrees, LifeFits, Busy, OpenSteps, CloseSteps,
         FrameSteps, WhereAgrees, TypeOK
<1> QED BY <1>2, <1>3, <1>4, <1>5, <1>6, <1>7, <1>8, <1>9 DEF IInv

\* The session is counted out.
LEMMA UncountSessionKeeps ==
  ASSUME IInv, NEW a \in Actors, UncountSession(a)
  PROVE  IInv'
<1>1. /\ UNCHANGED <<up, bug, life, holder, destroyed, beep, frame_n, pos,
                     asleep, done, exit, verdict, lag, thread, dpos>>
      /\ at[a] = "uncounting" /\ cur[a] \in Sessions /\ NoThread(cur[a])
      /\ globals' \in Actors \union {None}
      /\ session_n' \in Nat
      /\ at' = [at EXCEPT ![a] = "idle"]
      /\ cur' = [cur EXCEPT ![a] = None]
      /\ after' = [after EXCEPT ![a] = "idle"]
      /\ idx' = [idx EXCEPT ![a] = 0]
  BY Parts, Working, NamesFacts
  DEF UncountSession, CountedOut, EndsCommand, Leave, LoopsAgree, LoopOf, TypeOK,
      channel, module, session, detectors, where
<1>2. TypeOK'
  BY Parts, <1>1, NamesFacts, SizeFacts
  DEF TypeOK, ThreadSteps, StartSteps, StopSteps, CloseSteps, FrameSteps
<1>3. WhereAgrees'
  BY Parts, <1>1, NamesFacts
  DEF WhereAgrees, TypeOK, AppSteps, StartSteps, StopSteps, CloseSteps,
         FrameSteps, Busy, OpenSteps
<1>4. MutexAgrees'
  <2> SUFFICES ASSUME NEW b \in Actors, NEW t \in Sessions
               PROVE  Holds(b, t)' <=> holder'[t] = b
    BY DEF MutexAgrees
  <2>1. Holds(b, t) <=> holder[t] = b
    BY Parts DEF MutexAgrees
  <2> QED BY <2>1, Parts, <1>1, NamesFacts
      DEF Holds, WhereAgrees, TypeOK
<1>5. LifeAgrees'
  BY Parts, <1>1, NamesFacts
  DEF LifeAgrees, LifeFits, Busy, WhereAgrees, TypeOK, OpenSteps, CloseSteps,
         AppSteps
<1>6. ThreadsAgree'
  <2> SUFFICES ASSUME NEW t \in Sessions PROVE ThreadsOf(t)'
    BY DEF ThreadsAgree
  <2>1. ThreadsOf(t) /\ \A b \in Actors : cur[b] = t => LoopOf(b, t)
    BY Parts DEF ThreadsAgree, LoopsAgree
  <2> QED BY <2>1, Parts, <1>1, NamesFacts, SizeFacts
      DEF ThreadsOf, LoopOf, NoThread, Launched, Joins, LifeAgrees, LifeFits, Busy,
             OpenSteps, CloseSteps, TypeOK
<1>7. LoopsAgree'
  <2> SUFFICES ASSUME NEW b \in Actors, NEW t \in Sessions, cur'[b] = t
               PROVE  LoopOf(b, t)'
    BY DEF LoopsAgree
  <2>1. ThreadsOf(t) /\ (cur[b] = t => LoopOf(b, t))
    BY Parts DEF LoopsAgree, ThreadsAgree
  <2> QED BY <2>1, Parts, <1>1, NamesFacts, SizeFacts
      DEF LoopOf, ThreadsOf, InProgress, NoThread, Launched, TypeOK
<1>8. RoundsAgree'
  <2>1. \A t \in Sessions : InRound(t)' <=> InRound(t)
    BY <1>1, Parts, NamesFacts DEF InRound, WhereAgrees, FrameSteps, TypeOK
  <2> QED BY <1>1, <2>1, Parts DEF RoundsAgree, RoundOf, InProgress
<1>9. FrameOfOpenSession'
  BY Parts, <1>1, NamesFacts
  DEF FrameOfOpenSession, LifeAgrees, LifeFits, Busy, OpenSteps, CloseSteps,
         FrameSteps, WhereAgrees, TypeOK
<1> QED BY <1>2, <1>3, <1>4, <1>5, <1>6, <1>7, <1>8, <1>9 DEF IInv

-----------------------------------------------------------------------------
(* A frame.                                                                *)

\* The callback runs for a bug that is on the session.
LEMMA FrameBeginsKeeps ==
  ASSUME IInv, NEW s \in Sessions, FrameBegins(s)
  PROVE  IInv'
<1>1. /\ UNCHANGED <<up, bug, globals, session_n, life, holder, destroyed,
                     beep, frame_n, pos, asleep, done, exit, verdict, lag,
                     thread, dpos, after, idx>>
      /\ at[Media] = "idle" /\ life[s] = "attached"
      /\ at' = [at EXCEPT ![Media] = "frame"]
      /\ cur' = [cur EXCEPT ![Media] = s]
  BY Parts, Working, NamesFacts
  DEF FrameBegins, GotoOn, channel, module, session, detectors, where
<1>2. TypeOK'
  BY Parts, <1>1, NamesFacts, SizeFacts
  DEF TypeOK, ThreadSteps, StartSteps, StopSteps, CloseSteps, FrameSteps
<1>3. WhereAgrees'
  <2>1. \A b \in Actors : b # Media => at'[b] = at[b] /\ cur'[b] = cur[b]
    BY <1>1, Parts DEF TypeOK
  <2>2. at'[Media] = "frame" /\ cur'[Media] = s /\ after'[Media] = "idle"
    BY <1>1, Parts, NamesFacts DEF TypeOK, WhereAgrees, CloseSteps
  <2> QED BY <1>1, <2>1, <2>2, Parts, NamesFacts
      DEF WhereAgrees, AppSteps, CloseSteps, FrameSteps
<1>4. MutexAgrees'
  <2> SUFFICES ASSUME NEW b \in Actors, NEW t \in Sessions
               PROVE  Holds(b, t)' <=> holder'[t] = b
    BY DEF MutexAgrees
  <2>1. Holds(b, t) <=> holder[t] = b
    BY Parts DEF MutexAgrees
  <2> QED BY <2>1, Parts, <1>1, NamesFacts
      DEF Holds, WhereAgrees, TypeOK
<1>5. LifeAgrees'
  BY Parts, <1>1, NamesFacts
  DEF LifeAgrees, LifeFits, Busy, WhereAgrees, TypeOK, OpenSteps, CloseSteps,
         AppSteps
<1>6. ThreadsAgree'
  <2>1. \A b \in Actors, t \in Sessions : SameHands(b, t)
    BY <1>1, Parts DEF SameHands, Busy, Joins, OpenSteps, CloseSteps, TypeOK
  <2> QED BY <1>1, <2>1, ThreadsStay
<1>7. LoopsAgree'
  <2> SUFFICES ASSUME NEW b \in Actors, NEW t \in Sessions, cur'[b] = t
               PROVE  LoopOf(b, t)'
    BY DEF LoopsAgree
  <2>1. ThreadsOf(t) /\ (cur[b] = t => LoopOf(b, t))
    BY Parts DEF LoopsAgree, ThreadsAgree
  <2> QED BY <2>1, Parts, <1>1, NamesFacts, SizeFacts
      DEF LoopOf, ThreadsOf, InProgress, NoThread, Launched, TypeOK
<1>8. RoundsAgree'
  <2> SUFFICES ASSUME NEW t \in Sessions PROVE RoundOf(t)'
    BY DEF RoundsAgree
  <2>1. RoundOf(t) /\ \A b \in Actors : cur[b] = t => LoopOf(b, t)
    BY Parts DEF RoundsAgree, LoopsAgree
  <2> QED BY <2>1, Parts, <1>1, NamesFacts, SizeFacts
      DEF RoundOf, LoopOf, InProgress, InRound, LifeAgrees, LifeFits, Busy, OpenSteps,
             CloseSteps, TypeOK
<1>9. FrameOfOpenSession'
  <2>1. ~destroyed[s]
    BY <1>1, Parts DEF ThreadsAgree, ThreadsOf
  <2> QED BY <2>1, Parts, <1>1, NamesFacts
      DEF FrameOfOpenSession, LifeAgrees, LifeFits, Busy, OpenSteps, CloseSteps,
             FrameSteps, WhereAgrees, TypeOK
<1> QED BY <1>2, <1>3, <1>4, <1>5, <1>6, <1>7, <1>8, <1>9 DEF IInv

\* The mutex was free.
LEMMA FrameLocksKeeps ==
  ASSUME IInv, FrameLocks
  PROVE  IInv'
<1>1. /\ UNCHANGED <<up, bug, globals, session_n, life, destroyed, beep,
                     frame_n, pos, asleep, done, exit, verdict, lag, thread,
                     dpos, cur, after, idx>>
      /\ at[Media] = "frame" /\ cur[Media] \in Sessions /\ holder[cur[Media]] = None
      /\ holder' = [holder EXCEPT ![cur[Media]] = Media]
      /\ at' = [at EXCEPT ![Media] = "settling"]
  BY Parts, Working, NamesFacts
  DEF FrameLocks, Locks, Goto, channel, module, session, detectors, where
<1>2. TypeOK'
  BY Parts, <1>1, NamesFacts, SizeFacts
  DEF TypeOK, ThreadSteps, StartSteps, StopSteps, CloseSteps, FrameSteps
<1>3. WhereAgrees'
  BY Parts, <1>1, NamesFacts
  DEF WhereAgrees, TypeOK, AppSteps, StartSteps, StopSteps, CloseSteps,
         FrameSteps, Busy, OpenSteps
<1>4. MutexAgrees'
  <2> SUFFICES ASSUME NEW b \in Actors, NEW t \in Sessions
               PROVE  Holds(b, t)' <=> holder'[t] = b
    BY DEF MutexAgrees
  <2>1. Holds(b, t) <=> holder[t] = b
    BY Parts DEF MutexAgrees
  <2> QED BY <2>1, Parts, <1>1, NamesFacts
      DEF Holds, WhereAgrees, TypeOK
<1>5. LifeAgrees'
  BY Parts, <1>1, NamesFacts
  DEF LifeAgrees, LifeFits, Busy, WhereAgrees, TypeOK, OpenSteps, CloseSteps,
         AppSteps
<1>6. ThreadsAgree'
  <2>1. \A b \in Actors, t \in Sessions : SameHands(b, t)
    BY <1>1, Parts DEF SameHands, Busy, Joins, OpenSteps, CloseSteps, TypeOK
  <2> QED BY <1>1, <2>1, ThreadsStay
<1>7. LoopsAgree'
  <2> SUFFICES ASSUME NEW b \in Actors, NEW t \in Sessions, cur'[b] = t
               PROVE  LoopOf(b, t)'
    BY DEF LoopsAgree
  <2>1. ThreadsOf(t) /\ (cur[b] = t => LoopOf(b, t))
    BY Parts DEF LoopsAgree, ThreadsAgree
  <2> QED BY <2>1, Parts, <1>1, NamesFacts, SizeFacts
      DEF LoopOf, ThreadsOf, InProgress, NoThread, Launched, TypeOK
<1>8. RoundsAgree'
  <2> SUFFICES ASSUME NEW t \in Sessions PROVE RoundOf(t)'
    BY DEF RoundsAgree
  <2>1. RoundOf(t) /\ \A b \in Actors : cur[b] = t => LoopOf(b, t)
    BY Parts DEF RoundsAgree, LoopsAgree
  <2> QED BY <2>1, Parts, <1>1, NamesFacts, SizeFacts
      DEF RoundOf, LoopOf, InProgress, InRound, LifeAgrees, LifeFits, Busy, OpenSteps,
             CloseSteps, TypeOK
<1>9. FrameOfOpenSession'
  BY Parts, <1>1, NamesFacts
  DEF FrameOfOpenSession, LifeAgrees, LifeFits, Busy, OpenSteps, CloseSteps,
         FrameSteps, WhereAgrees, TypeOK
<1> QED BY <1>2, <1>3, <1>4, <1>5, <1>6, <1>7, <1>8, <1>9 DEF IInv

\* A frame that comes after a beep is passed over.
LEMMA FramePassedOverKeeps ==
  ASSUME IInv, FrameInserted, beep[cur[Media]]
  PROVE  IInv'
<1>1. /\ UNCHANGED <<up, bug, globals, session_n, life, destroyed, beep,
                     frame_n, pos, asleep, done, exit, verdict, lag, thread,
                     dpos>>
      /\ at[Media] = "settling" /\ cur[Media] \in Sessions
      /\ holder' = [holder EXCEPT ![cur[Media]] = None]
      /\ at' = [at EXCEPT ![Media] = "idle"]
      /\ cur' = [cur EXCEPT ![Media] = None]
      /\ after' = [after EXCEPT ![Media] = "idle"]
      /\ idx' = [idx EXCEPT ![Media] = 0]
  BY Parts, Working, NamesFacts
  DEF FrameInserted, RoundIsOver, Unlocks, Leave, Loop, channel, module, session, detectors, where
<1>2. TypeOK'
  BY Parts, <1>1, NamesFacts, SizeFacts
  DEF TypeOK, ThreadSteps, StartSteps, StopSteps, CloseSteps, FrameSteps
<1>3. WhereAgrees'
  BY Parts, <1>1, NamesFacts
  DEF WhereAgrees, TypeOK, AppSteps, StartSteps, StopSteps, CloseSteps,
         FrameSteps, Busy, OpenSteps
<1>4. MutexAgrees'
  <2> SUFFICES ASSUME NEW b \in Actors, NEW t \in Sessions
               PROVE  Holds(b, t)' <=> holder'[t] = b
    BY DEF MutexAgrees
  <2>1. (Holds(b, t) <=> holder[t] = b) /\ (Holds(Media, t) <=> holder[t] = Media)
    BY Parts, NamesFacts DEF MutexAgrees
  <2> QED BY <2>1, Parts, <1>1, NamesFacts
      DEF Holds, WhereAgrees, TypeOK
<1>5. LifeAgrees'
  BY Parts, <1>1, NamesFacts
  DEF LifeAgrees, LifeFits, Busy, WhereAgrees, TypeOK, OpenSteps, CloseSteps,
         AppSteps
<1>6. ThreadsAgree'
  <2>1. \A b \in Actors, t \in Sessions : SameHands(b, t)
    BY <1>1, Parts DEF SameHands, Busy, Joins, OpenSteps, CloseSteps, TypeOK
  <2> QED BY <1>1, <2>1, ThreadsStay
<1>7. LoopsAgree'
  <2> SUFFICES ASSUME NEW b \in Actors, NEW t \in Sessions, cur'[b] = t
               PROVE  LoopOf(b, t)'
    BY DEF LoopsAgree
  <2>1. ThreadsOf(t) /\ (cur[b] = t => LoopOf(b, t))
    BY Parts DEF LoopsAgree, ThreadsAgree
  <2> QED BY <2>1, Parts, <1>1, NamesFacts, SizeFacts
      DEF LoopOf, ThreadsOf, InProgress, NoThread, Launched, TypeOK
<1>8. RoundsAgree'
  <2> SUFFICES ASSUME NEW t \in Sessions PROVE RoundOf(t)'
    BY DEF RoundsAgree
  <2>1. RoundOf(t) /\ \A b \in Actors : cur[b] = t => LoopOf(b, t)
    BY Parts DEF RoundsAgree, LoopsAgree
  <2> QED BY <2>1, Parts, <1>1, NamesFacts, SizeFacts
      DEF RoundOf, LoopOf, InProgress, InRound, LifeAgrees, LifeFits, Busy, OpenSteps,
             CloseSteps, TypeOK
<1>9. FrameOfOpenSession'
  BY Parts, <1>1, NamesFacts
  DEF FrameOfOpenSession, LifeAgrees, LifeFits, Busy, OpenSteps, CloseSteps,
         FrameSteps, WhereAgrees, TypeOK
<1> QED BY <1>2, <1>3, <1>4, <1>5, <1>6, <1>7, <1>8, <1>9 DEF IInv

\* The frame is inserted, and the round begins.
LEMMA FrameInsertedKeeps ==
  ASSUME IInv, FrameInserted, ~beep[cur[Media]]
  PROVE  IInv'
<1>1. /\ UNCHANGED <<up, bug, globals, session_n, life, holder, destroyed,
                     beep, frame_n, pos, asleep, done, exit, verdict, lag,
                     thread, dpos, cur, after>>
      /\ at[Media] = "settling" /\ cur[Media] \in Sessions
      /\ at' = [at EXCEPT ![Media] = "handing"]
      /\ idx' = [idx EXCEPT ![Media] = 1]
  BY Parts, Working, NamesFacts
  DEF FrameInserted, RoundIsOver, Unlocks, Leave, Loop, channel, module, session, detectors, where
<1>2. TypeOK'
  BY Parts, <1>1, NamesFacts, SizeFacts
  DEF TypeOK, ThreadSteps, StartSteps, StopSteps, CloseSteps, FrameSteps
<1>3. WhereAgrees'
  BY Parts, <1>1, NamesFacts
  DEF WhereAgrees, TypeOK, AppSteps, StartSteps, StopSteps, CloseSteps,
         FrameSteps, Busy, OpenSteps
<1>4. MutexAgrees'
  <2> SUFFICES ASSUME NEW b \in Actors, NEW t \in Sessions
               PROVE  Holds(b, t)' <=> holder'[t] = b
    BY DEF MutexAgrees
  <2>1. Holds(b, t) <=> holder[t] = b
    BY Parts DEF MutexAgrees
  <2> QED BY <2>1, Parts, <1>1, NamesFacts
      DEF Holds, WhereAgrees, TypeOK
<1>5. LifeAgrees'
  BY Parts, <1>1, NamesFacts
  DEF LifeAgrees, LifeFits, Busy, WhereAgrees, TypeOK, OpenSteps, CloseSteps,
         AppSteps
<1>6. ThreadsAgree'
  <2>1. \A b \in Actors, t \in Sessions : SameHands(b, t)
    BY <1>1, Parts DEF SameHands, Busy, Joins, OpenSteps, CloseSteps, TypeOK
  <2> QED BY <1>1, <2>1, ThreadsStay
<1>7. LoopsAgree'
  <2> SUFFICES ASSUME NEW b \in Actors, NEW t \in Sessions, cur'[b] = t
               PROVE  LoopOf(b, t)'
    BY DEF LoopsAgree
  <2>1. ThreadsOf(t) /\ (cur[b] = t => LoopOf(b, t))
    BY Parts DEF LoopsAgree, ThreadsAgree
  <2> QED BY <2>1, Parts, <1>1, NamesFacts, SizeFacts
      DEF LoopOf, ThreadsOf, InProgress, NoThread, Launched, TypeOK
<1>8. RoundsAgree'
  <2> SUFFICES ASSUME NEW t \in Sessions PROVE RoundOf(t)'
    BY DEF RoundsAgree
  <2>1. RoundOf(t) /\ \A b \in Actors : cur[b] = t => LoopOf(b, t)
    BY Parts DEF RoundsAgree, LoopsAgree
  <2> QED BY <2>1, Parts, <1>1, NamesFacts, SizeFacts
      DEF RoundOf, LoopOf, InProgress, InRound, LifeAgrees, LifeFits, Busy, OpenSteps,
             CloseSteps, TypeOK
<1>9. FrameOfOpenSession'
  BY Parts, <1>1, NamesFacts
  DEF FrameOfOpenSession, LifeAgrees, LifeFits, Busy, OpenSteps, CloseSteps,
         FrameSteps, WhereAgrees, TypeOK
<1> QED BY <1>2, <1>3, <1>4, <1>5, <1>6, <1>7, <1>8, <1>9 DEF IInv

\* A detector that has a verdict gets no frame.
LEMMA HandNothingKeeps ==
  ASSUME IInv, HandOver, HasVerdict(cur[Media], idx[Media])
  PROVE  IInv'
<1>1. /\ UNCHANGED <<up, bug, globals, session_n, life, holder, destroyed,
                     beep, frame_n, pos, asleep, done, exit, verdict, lag,
                     thread, dpos, at, cur, after>>
      /\ at[Media] = "handing" /\ cur[Media] \in Sessions /\ idx[Media] \in DetectorsOf(cur[Media])
      /\ idx' = [idx EXCEPT ![Media] = @ + 1]
  <2>1. at[Media] = "handing" /\ cur[Media] \in Sessions /\ idx[Media] \in DetectorsOf(cur[Media])
    BY Working, NamesFacts DEF HandOver
  <2>2. at' = at
    BY <2>1, Parts, NamesFacts DEF HandOver, Round, TypeOK
  <2> QED BY <2>1, <2>2 DEF HandOver, Round, channel, module, session
<1>2. TypeOK'
  <2>1. idx' \in [Actors -> Nat]
    BY <1>1, Parts, NamesFacts DEF TypeOK
  <2> QED BY <1>1, <2>1, Parts DEF TypeOK
<1>3. WhereAgrees'
  BY Parts, <1>1, NamesFacts
  DEF WhereAgrees, TypeOK, AppSteps, StartSteps, StopSteps, CloseSteps,
         FrameSteps, Busy, OpenSteps
<1>4. MutexAgrees'
  <2> SUFFICES ASSUME NEW b \in Actors, NEW t \in Sessions
               PROVE  Holds(b, t)' <=> holder'[t] = b
    BY DEF MutexAgrees
  <2>1. Holds(b, t) <=> holder[t] = b
    BY Parts DEF MutexAgrees
  <2> QED BY <2>1, Parts, <1>1, NamesFacts
      DEF Holds, WhereAgrees, TypeOK
<1>5. LifeAgrees'
  BY Parts, <1>1, NamesFacts
  DEF LifeAgrees, LifeFits, Busy, WhereAgrees, TypeOK, OpenSteps, CloseSteps,
         AppSteps
<1>6. ThreadsAgree'
  <2>1. \A b \in Actors, t \in Sessions : SameHands(b, t)
    BY <1>1, Parts DEF SameHands, Busy, Joins, OpenSteps, CloseSteps, TypeOK
  <2> QED BY <1>1, <2>1, ThreadsStay
<1>7. LoopsAgree'
  <2> SUFFICES ASSUME NEW b \in Actors, NEW t \in Sessions, cur'[b] = t
               PROVE  LoopOf(b, t)'
    BY DEF LoopsAgree
  <2>1. ThreadsOf(t) /\ (cur[b] = t => LoopOf(b, t))
    BY Parts DEF LoopsAgree, ThreadsAgree
  <2>2. CASE b = Media
    <3>1. idx[Media] \in 1..Size(t) /\ idx'[b] = idx[Media] + 1 /\ at'[b] = "handing"
      BY <1>1, <2>2, Parts, NamesFacts, SizeFacts DEF TypeOK
    <3>2. idx'[b] \in 1..(Size(t) + 1)
      BY <3>1, SizeFacts
    <3> QED BY <3>1, <3>2 DEF LoopOf
  <2>3. CASE b # Media
    BY <1>1, <2>1, <2>3, Parts DEF LoopOf, NoThread, Launched, InProgress, TypeOK
  <2> QED BY <2>2, <2>3
<1>8. RoundsAgree'
  <2> SUFFICES ASSUME NEW t \in Sessions PROVE RoundOf(t)'
    BY DEF RoundsAgree
  <2>1. RoundOf(t) /\ \A b \in Actors : cur[b] = t => LoopOf(b, t)
    BY Parts DEF RoundsAgree, LoopsAgree
  <2> QED BY <2>1, Parts, <1>1, NamesFacts, SizeFacts
      DEF RoundOf, LoopOf, InProgress, InRound, LifeAgrees, LifeFits, Busy, OpenSteps,
             CloseSteps, TypeOK
<1>9. FrameOfOpenSession'
  BY Parts, <1>1, NamesFacts
  DEF FrameOfOpenSession, LifeAgrees, LifeFits, Busy, OpenSteps, CloseSteps,
         FrameSteps, WhereAgrees, TypeOK
<1> QED BY <1>2, <1>3, <1>4, <1>5, <1>6, <1>7, <1>8, <1>9 DEF IInv

\* The frame is handed to one detector of a session that is attached.
LEMMA HandOverKeeps ==
  ASSUME IInv, HandOver, ~HasVerdict(cur[Media], idx[Media])
  PROVE  IInv'
<1>0. /\ at[Media] = "handing" /\ cur[Media] \in Sessions /\ idx[Media] \in DetectorsOf(cur[Media])
      /\ thread' \in [Sessions -> [All -> ThreadSteps]]
      /\ \A t \in Sessions, e \in All :
           thread'[t][e] = IF t = cur[Media] /\ e = idx[Media] THEN (IF thread[cur[Media]][idx[Media]] = "asleep" THEN "ready" ELSE thread[cur[Media]][idx[Media]]) ELSE thread[t][e]
  <2>1. at[Media] = "handing" /\ cur[Media] \in Sessions /\ idx[Media] \in DetectorsOf(cur[Media])
    BY Parts, Working, NamesFacts DEF HandOver
  <2>2. TypeOK /\ cur[Media] \in Sessions /\ idx[Media] \in All
    BY <2>1, Parts, SizeFacts
  <2>3. thread' = Signalled(cur[Media], idx[Media])
    BY DEF HandOver
  <2> QED BY <2>1, <2>2, <2>3, SignalMoves
<1>1. /\ UNCHANGED <<up, bug, globals, session_n, life, holder, destroyed,
                     beep, frame_n, pos, asleep, verdict, lag, dpos, cur,
                     after>>
      /\ thread' \in [Sessions -> [All -> ThreadSteps]]
      /\ at[Media] = "handing" /\ cur[Media] \in Sessions /\ idx[Media] \in DetectorsOf(cur[Media])
      /\ life[cur[Media]] = "attached"
      /\ at' = [at EXCEPT ![Media] = "handing"]
      /\ idx' = [idx EXCEPT ![Media] = @ + 1]
      /\ done' = [done EXCEPT ![cur[Media]] = @ \ {idx[Media]}]
      /\ exit' = [exit EXCEPT ![cur[Media]] = @ \ {idx[Media]}]
  <2>1. life[cur[Media]] = "attached"
    BY <1>0, Parts DEF FrameOfOpenSession
  <2> QED BY <1>0, <2>1 DEF HandOver, Round, channel, module, session
<1>2. TypeOK'
  <2>1. done' \in [Sessions -> SUBSET All] /\ exit' \in [Sessions -> SUBSET All]
    <3>1. /\ [done EXCEPT ![cur[Media]] = @ \ {idx[Media]}] \in [Sessions -> SUBSET All]
          /\ [exit EXCEPT ![cur[Media]] = @ \ {idx[Media]}] \in [Sessions -> SUBSET All]
      BY Parts DEF TypeOK
    <3> QED BY <1>1, <3>1, Parts DEF TypeOK
  <2>2. at' \in [Actors -> {"idle"} \union StartSteps \union StopSteps
                       \union CloseSteps \union FrameSteps]
    BY <1>1, Parts, NamesFacts DEF TypeOK, CloseSteps, FrameSteps
  <2>3. idx' \in [Actors -> Nat]
    BY <1>1, Parts, NamesFacts DEF TypeOK
  <2> QED BY <1>1, <2>1, <2>2, <2>3, Parts DEF TypeOK
<1>3. WhereAgrees'
  BY Parts, <1>1, <1>0, NamesFacts
  DEF WhereAgrees, TypeOK, AppSteps, StartSteps, StopSteps, CloseSteps,
         FrameSteps, Busy, OpenSteps
<1>4. MutexAgrees'
  <2> SUFFICES ASSUME NEW b \in Actors, NEW t \in Sessions
               PROVE  Holds(b, t)' <=> holder'[t] = b
    BY DEF MutexAgrees
  <2>1. Holds(b, t) <=> holder[t] = b
    BY Parts DEF MutexAgrees
  <2> QED BY <2>1, Parts, <1>1, NamesFacts
      DEF Holds, WhereAgrees, TypeOK
<1>5. LifeAgrees'
  BY Parts, <1>1, <1>0, NamesFacts
  DEF LifeAgrees, LifeFits, Busy, WhereAgrees, TypeOK, OpenSteps, CloseSteps,
         AppSteps
<1>6. ASSUME NEW t \in Sessions, t # cur[Media] PROVE Untouched(t)
  BY <1>1, <1>0, <1>6, Parts, NamesFacts, SizeFacts DEF Untouched, TypeOK
<1>7. /\ ThreadsOf(cur[Media]) /\ RoundOf(cur[Media]) /\ life[cur[Media]] = "attached"
      /\ \A b \in Actors : cur[b] = cur[Media] => LoopOf(b, cur[Media])
      /\ \A b \in Actors : Busy(b, cur[Media]) => FALSE
  BY <1>1, <1>0, Parts, NamesFacts, AttachedIsOpen
  DEF ThreadsAgree, RoundsAgree, LoopsAgree, LifeAgrees, LifeFits, Busy, OpenSteps,
      CloseSteps, WhereAgrees, TypeOK
<1>8. ThreadsOf(cur[Media])'
  <2>1. \A d \in DetectorsOf(cur[Media]) :
          /\ thread[cur[Media]][d] \notin {"none", "ended"}
          /\ d \notin exit[cur[Media]]
    BY <1>1, AttachedRuns
  <2>2. \A d \in DetectorsOf(cur[Media]) :
          /\ thread'[cur[Media]][d] \notin {"none", "ended"}
          /\ d \notin exit'[cur[Media]]
    BY <1>0, <1>1, <2>1, SizeFacts, Parts DEF TypeOK
  <2>3. \A d \in All \ DetectorsOf(cur[Media]) : thread'[cur[Media]][d] = "none"
    BY <1>0, <1>1, <1>7 DEF ThreadsOf
  <2> QED BY <1>1, <1>7, <2>2, <2>3 DEF ThreadsOf, Launched
<1>9. ASSUME NEW b \in Actors, cur'[b] = cur[Media] PROVE LoopOf(b, cur[Media])'
  <2>1. CASE b = Media
    BY <1>1, <1>7, <2>1, SizeFacts, Parts DEF LoopOf, TypeOK
  <2>2. CASE b # Media
    BY <1>1, <1>7, <1>9, <2>2, Parts DEF LoopOf, Busy, OpenSteps, CloseSteps, TypeOK
  <2> QED BY <2>1, <2>2
<1>10. RoundOf(cur[Media])'
  <2>1. \A d \in DetectorsOf(cur[Media]) :
          /\ thread'[cur[Media]][d] = "examining" => thread[cur[Media]][d] = "examining"
          /\ done'[cur[Media]] \subseteq done[cur[Media]]
          /\ exit'[cur[Media]] \subseteq exit[cur[Media]]
    BY <1>0, <1>1, SizeFacts, Parts DEF TypeOK
  <2>2. InRound(cur[Media])'
    BY <1>1, NamesFacts, Parts DEF InRound, TypeOK
  <2> QED BY <1>1, <1>7, <2>1, <2>2 DEF RoundOf
<1>11. ThreadsAgree' /\ LoopsAgree' /\ RoundsAgree'
  BY <1>1, <1>0, <1>6, <1>8, <1>9, <1>10, UntouchedKeeps DEF ThreadsAgree, LoopsAgree, RoundsAgree
<1>12. FrameOfOpenSession'
  BY Parts, <1>1, <1>0, NamesFacts
  DEF FrameOfOpenSession, LifeAgrees, LifeFits, Busy, OpenSteps, CloseSteps,
         FrameSteps, WhereAgrees, TypeOK
<1> QED BY <1>2, <1>3, <1>4, <1>5, <1>11, <1>12 DEF IInv

\* The frame is handed to everybody.
LEMMA AllHandedKeeps ==
  ASSUME IInv, AllHanded
  PROVE  IInv'
<1>1. /\ UNCHANGED <<up, bug, globals, session_n, life, holder, destroyed,
                     beep, frame_n, pos, asleep, done, exit, verdict, lag,
                     thread, dpos, cur, after, idx>>
      /\ at[Media] = "handing" /\ cur[Media] \in Sessions
      /\ at' = [at EXCEPT ![Media] = "collecting"]
  BY Parts, Working, NamesFacts
  DEF AllHanded, Goto, channel, module, session, detectors, where
<1>2. TypeOK'
  BY Parts, <1>1, NamesFacts, SizeFacts
  DEF TypeOK, ThreadSteps, StartSteps, StopSteps, CloseSteps, FrameSteps
<1>3. WhereAgrees'
  BY Parts, <1>1, NamesFacts
  DEF WhereAgrees, TypeOK, AppSteps, StartSteps, StopSteps, CloseSteps,
         FrameSteps, Busy, OpenSteps
<1>4. MutexAgrees'
  <2> SUFFICES ASSUME NEW b \in Actors, NEW t \in Sessions
               PROVE  Holds(b, t)' <=> holder'[t] = b
    BY DEF MutexAgrees
  <2>1. Holds(b, t) <=> holder[t] = b
    BY Parts DEF MutexAgrees
  <2> QED BY <2>1, Parts, <1>1, NamesFacts
      DEF Holds, WhereAgrees, TypeOK
<1>5. LifeAgrees'
  BY Parts, <1>1, NamesFacts
  DEF LifeAgrees, LifeFits, Busy, WhereAgrees, TypeOK, OpenSteps, CloseSteps,
         AppSteps
<1>6. ThreadsAgree'
  <2>1. \A b \in Actors, t \in Sessions : SameHands(b, t)
    BY <1>1, Parts DEF SameHands, Busy, Joins, OpenSteps, CloseSteps, TypeOK
  <2> QED BY <1>1, <2>1, ThreadsStay
<1>7. LoopsAgree'
  <2> SUFFICES ASSUME NEW b \in Actors, NEW t \in Sessions, cur'[b] = t
               PROVE  LoopOf(b, t)'
    BY DEF LoopsAgree
  <2>1. ThreadsOf(t) /\ (cur[b] = t => LoopOf(b, t))
    BY Parts DEF LoopsAgree, ThreadsAgree
  <2> QED BY <2>1, Parts, <1>1, NamesFacts, SizeFacts
      DEF LoopOf, ThreadsOf, InProgress, NoThread, Launched, TypeOK
<1>8. RoundsAgree'
  <2> SUFFICES ASSUME NEW t \in Sessions PROVE RoundOf(t)'
    BY DEF RoundsAgree
  <2>1. RoundOf(t) /\ \A b \in Actors : cur[b] = t => LoopOf(b, t)
    BY Parts DEF RoundsAgree, LoopsAgree
  <2> QED BY <2>1, Parts, <1>1, NamesFacts, SizeFacts
      DEF RoundOf, LoopOf, InProgress, InRound, LifeAgrees, LifeFits, Busy, OpenSteps,
             CloseSteps, TypeOK
<1>9. FrameOfOpenSession'
  BY Parts, <1>1, NamesFacts
  DEF FrameOfOpenSession, LifeAgrees, LifeFits, Busy, OpenSteps, CloseSteps,
         FrameSteps, WhereAgrees, TypeOK
<1> QED BY <1>2, <1>3, <1>4, <1>5, <1>6, <1>7, <1>8, <1>9 DEF IInv

\* The round is over: everybody is done.
LEMMA CollectKeeps ==
  ASSUME IInv, Collect
  PROVE  IInv'
<1>1. /\ UNCHANGED <<up, bug, globals, session_n, life, destroyed, asleep,
                     done, exit, verdict, lag, thread, dpos>>
      /\ at[Media] = "collecting" /\ cur[Media] \in Sessions /\ ~InProgress(cur[Media])
      /\ beep' \in [Sessions -> BOOLEAN] /\ frame_n' \in [Sessions -> 0..1]
      /\ pos' \in [Sessions -> 0..(BufferSamples - 1)]
      /\ holder' = [holder EXCEPT ![cur[Media]] = None]
      /\ at' = [at EXCEPT ![Media] = "idle"]
      /\ cur' = [cur EXCEPT ![Media] = None]
      /\ after' = [after EXCEPT ![Media] = "idle"]
      /\ idx' = [idx EXCEPT ![Media] = 0]
  <2>1. at[Media] = "collecting" /\ cur[Media] \in Sessions
    BY Working, NamesFacts DEF Collect
  <2>2. pos' \in [Sessions -> 0..(BufferSamples - 1)]
    <3>1. \A m \in Nat : m % BufferSamples \in 0..(BufferSamples - 1)
      BY BufferAssumption, RemainderInRange
    <3>2. pos[cur[Media]] + FrameSamples - (IF frame_n[cur[Media]] = 0 THEN 1 ELSE 0) \in Nat
      BY <2>1, Parts, BufferAssumption DEF TypeOK
    <3> QED BY <2>1, <3>1, <3>2, Parts DEF Collect, Advanced, TypeOK
  <2>3. beep' \in [Sessions -> BOOLEAN]
    <3>1. (verdict[cur[Media]] # {}) \in BOOLEAN
      OBVIOUS
    <3> QED BY <3>1, Parts DEF Collect, TypeOK
  <2>4. frame_n' \in [Sessions -> 0..1]
    <3>1. frame_n' = [frame_n EXCEPT ![cur[Media]] = 1] /\ 1 \in 0..1
      BY DEF Collect
    <3> QED BY <3>1, Parts DEF TypeOK
  <2> QED BY <2>1, <2>2, <2>3, <2>4
        DEF Collect, RoundIsOver, Unlocks, Leave, channel, module, detectors
<1>2. TypeOK'
  BY Parts, <1>1, NamesFacts, SizeFacts
  DEF TypeOK, ThreadSteps, StartSteps, StopSteps, CloseSteps, FrameSteps
<1>3. WhereAgrees'
  BY Parts, <1>1, NamesFacts
  DEF WhereAgrees, TypeOK, AppSteps, StartSteps, StopSteps, CloseSteps,
         FrameSteps, Busy, OpenSteps
<1>4. MutexAgrees'
  <2> SUFFICES ASSUME NEW b \in Actors, NEW t \in Sessions
               PROVE  Holds(b, t)' <=> holder'[t] = b
    BY DEF MutexAgrees
  <2>1. (Holds(b, t) <=> holder[t] = b) /\ (Holds(Media, t) <=> holder[t] = Media)
    BY Parts, NamesFacts DEF MutexAgrees
  <2> QED BY <2>1, Parts, <1>1, NamesFacts
      DEF Holds, WhereAgrees, TypeOK
<1>5. LifeAgrees'
  BY Parts, <1>1, NamesFacts
  DEF LifeAgrees, LifeFits, Busy, WhereAgrees, TypeOK, OpenSteps, CloseSteps,
         AppSteps
<1>6. ThreadsAgree'
  <2>1. \A b \in Actors, t \in Sessions : SameHands(b, t)
    BY <1>1, Parts DEF SameHands, Busy, Joins, OpenSteps, CloseSteps, TypeOK
  <2> QED BY <1>1, <2>1, ThreadsStay
<1>7. LoopsAgree'
  <2> SUFFICES ASSUME NEW b \in Actors, NEW t \in Sessions, cur'[b] = t
               PROVE  LoopOf(b, t)'
    BY DEF LoopsAgree
  <2>1. ThreadsOf(t) /\ (cur[b] = t => LoopOf(b, t))
    BY Parts DEF LoopsAgree, ThreadsAgree
  <2> QED BY <2>1, Parts, <1>1, NamesFacts, SizeFacts
      DEF LoopOf, ThreadsOf, InProgress, NoThread, Launched, TypeOK
<1>8. RoundsAgree'
  <2> SUFFICES ASSUME NEW t \in Sessions PROVE RoundOf(t)'
    BY DEF RoundsAgree
  <2>1. RoundOf(t) /\ \A b \in Actors : cur[b] = t => LoopOf(b, t)
    BY Parts DEF RoundsAgree, LoopsAgree
  <2> QED BY <2>1, Parts, <1>1, NamesFacts, SizeFacts
      DEF RoundOf, LoopOf, InProgress, InRound, LifeAgrees, LifeFits, Busy, OpenSteps,
             CloseSteps, TypeOK
<1>9. FrameOfOpenSession'
  BY Parts, <1>1, NamesFacts
  DEF FrameOfOpenSession, LifeAgrees, LifeFits, Busy, OpenSteps, CloseSteps,
         FrameSteps, WhereAgrees, TypeOK
<1> QED BY <1>2, <1>3, <1>4, <1>5, <1>6, <1>7, <1>8, <1>9 DEF IInv

-----------------------------------------------------------------------------
(* A detector.                                                             *)

(***************************************************************************)
(* What a detector does to the rest: its thread moves, and it may mark     *)
(* itself done, but not when it takes a frame to examine.                  *)
(***************************************************************************)
DetectorMoves(s, d, x) ==
  /\ UNCHANGED <<channel, module, session, exit, where>>
  /\ asleep' \in [Sessions -> BOOLEAN] /\ verdict' \in [Sessions -> SUBSET All]
  /\ lag' \in [Sessions -> [All -> Nat]]
  /\ dpos' \in [Sessions -> [All -> 0..(BufferSamples - 1)]]
  /\ x \in ThreadSteps \ {"none"} /\ thread[s][d] \notin {"none", "ended"}
  /\ thread' = [thread EXCEPT ![s][d] = x]
  /\ x = "ended" => d \in exit[s]
  /\ x = "examining" => d \notin done[s] \union exit[s] /\ done' = done
  /\ done' \in {done, [done EXCEPT ![s] = @ \union {d}]}

LEMMA DetectorMovesOn ==
  ASSUME IInv, NEW s \in Sessions, NEW d \in All, DetectorGoesOn(s, d)
  PROVE  \E x \in ThreadSteps : DetectorMoves(s, d, x)
<1>0. thread[s] \in [All -> ThreadSteps] /\ lag[s] \in [All -> Nat]
      /\ dpos[s] \in [All -> 0..(BufferSamples - 1)]
  BY Parts DEF TypeOK
<1> USE Parts DEF ThreadIs
<1>1. CASE DetectorStarts(s, d)
  <2>1. dpos' = [dpos EXCEPT ![s] = [dpos[s] EXCEPT ![d] = pos[s]]]
    BY <1>1 DEF DetectorStarts
  <2>2. pos[s] \in 0..(BufferSamples - 1)
    BY DEF TypeOK
  <2>3. dpos' \in [Sessions -> [All -> 0..(BufferSamples - 1)]]
    BY <1>0, <2>1, <2>2 DEF TypeOK
  <2> QED BY <1>1, <2>3 DEF DetectorMoves, DetectorStarts, TypeOK, ThreadSteps
<1>2. CASE DetectorSleeps(s, d)
  BY <1>2 DEF DetectorMoves, DetectorSleeps, TypeOK, ThreadSteps
<1>3. CASE DetectorExits(s, d)
  BY <1>3 DEF DetectorMoves, DetectorExits, TypeOK, ThreadSteps
<1>4. CASE DetectorLags(s, d)
  <2>1. lag[s][d] - 1 \in Nat
    BY <1>0, <1>4 DEF DetectorLags
  <2>2. lag' = [lag EXCEPT ![s] = [lag[s] EXCEPT ![d] = lag[s][d] - 1]]
    BY <1>4 DEF DetectorLags
  <2>3. lag' \in [Sessions -> [All -> Nat]]
    BY <1>0, <2>1, <2>2 DEF TypeOK
  <2> QED BY <1>4, <2>3 DEF DetectorMoves, DetectorLags, Handed, TypeOK, ThreadSteps
<1>5. CASE DetectorTakes(s, d)
  <2>1. \A m \in Nat : m % BufferSamples \in 0..(BufferSamples - 1)
    BY BufferAssumption, RemainderInRange
  <2>2. dpos[s][d] + 1 \in Nat
    BY <1>0, BufferAssumption
  <2>3. [dpos[s] EXCEPT ![d] = (dpos[s][d] + 1) % BufferSamples]
          \in [All -> 0..(BufferSamples - 1)]
    BY <1>0, <2>1, <2>2
  <2>4. dpos' \in {dpos, [dpos EXCEPT ![s] =
                  [dpos[s] EXCEPT ![d] = (dpos[s][d] + 1) % BufferSamples]]}
    BY <1>5 DEF DetectorTakes
  <2>5. dpos' \in [Sessions -> [All -> 0..(BufferSamples - 1)]]
    BY <2>3, <2>4 DEF TypeOK
  <2> QED BY <1>5, <2>5 DEF DetectorMoves, DetectorTakes, Taken, Handed, TypeOK, ThreadSteps
<1>6. CASE DetectorDone(s, d)
  <2>1. verdict' \in [Sessions -> SUBSET All]
    BY <1>6 DEF DetectorDone, TypeOK
  <2> QED BY <1>6, <2>1 DEF DetectorMoves, DetectorDone, TypeOK, ThreadSteps
<1>7. CASE DetectorSignals(s, d)
  BY <1>7 DEF DetectorMoves, DetectorSignals, Woken, TypeOK, ThreadSteps
<1> QED BY <1>1, <1>2, <1>3, <1>4, <1>5, <1>6, <1>7 DEF DetectorGoesOn

\* A detector moves its own thread and marks itself done, nothing else.
LEMMA DetectorKeeps ==
  ASSUME IInv, NEW s \in Sessions, NEW d \in All, NEW x \in ThreadSteps,
         DetectorMoves(s, d, x)
  PROVE  IInv'
<1>0. \A t \in Sessions, e \in All :
        thread'[t][e] = IF t = s /\ e = d THEN x ELSE thread[t][e]
  <2>1. TypeOK /\ thread' = [thread EXCEPT ![s][d] = x]
    BY Parts DEF DetectorMoves
  <2> QED BY <2>1, ThreadMoves
<1>1. /\ UNCHANGED <<up, bug, globals, session_n, life, holder, destroyed,
                     beep, frame_n, pos, exit, at, cur, after, idx>>
      /\ thread' \in [Sessions -> [All -> ThreadSteps]]
      /\ asleep' \in [Sessions -> BOOLEAN] /\ verdict' \in [Sessions -> SUBSET All]
      /\ lag' \in [Sessions -> [All -> Nat]]
      /\ dpos' \in [Sessions -> [All -> 0..(BufferSamples - 1)]]
      /\ x \in ThreadSteps \ {"none"} /\ thread[s][d] \notin {"none", "ended"}
      /\ x = "ended" => d \in exit[s]
      /\ x = "examining" => d \notin done[s] \union exit[s] /\ done' = done
      /\ done' \in {done, [done EXCEPT ![s] = @ \union {d}]}
  <2>1. TypeOK /\ thread' = [thread EXCEPT ![s][d] = x]
    BY Parts DEF DetectorMoves
  <2> QED BY <2>1, ThreadMoves DEF DetectorMoves, channel, module, session, where
<1>2. TypeOK'
  <2>1. done' \in [Sessions -> SUBSET All] /\ exit' = exit
    <3>1. [done EXCEPT ![s] = @ \union {d}] \in [Sessions -> SUBSET All]
      BY Parts DEF TypeOK
    <3> QED BY <1>1, <3>1, Parts DEF TypeOK
  <2>2. at' \in [Actors -> {"idle"} \union StartSteps \union StopSteps
                       \union CloseSteps \union FrameSteps]
    BY <1>1, Parts, NamesFacts DEF TypeOK, CloseSteps, FrameSteps
  <2>3. idx' \in [Actors -> Nat]
    BY <1>1, Parts, NamesFacts DEF TypeOK
  <2> QED BY <1>1, <2>1, <2>2, <2>3, Parts DEF TypeOK
<1>3. WhereAgrees'
  BY Parts, <1>1, <1>0, NamesFacts
  DEF WhereAgrees, TypeOK, AppSteps, StartSteps, StopSteps, CloseSteps,
         FrameSteps, Busy, OpenSteps
<1>4. MutexAgrees'
  <2> SUFFICES ASSUME NEW b \in Actors, NEW t \in Sessions
               PROVE  Holds(b, t)' <=> holder'[t] = b
    BY DEF MutexAgrees
  <2>1. Holds(b, t) <=> holder[t] = b
    BY Parts DEF MutexAgrees
  <2> QED BY <2>1, Parts, <1>1, NamesFacts
      DEF Holds, WhereAgrees, TypeOK
<1>5. LifeAgrees'
  BY Parts, <1>1, <1>0, NamesFacts
  DEF LifeAgrees, LifeFits, Busy, WhereAgrees, TypeOK, OpenSteps, CloseSteps,
         AppSteps
<1>6. ASSUME NEW t \in Sessions, t # s PROVE Untouched(t)
  BY <1>1, <1>0, <1>6, Parts, NamesFacts, SizeFacts DEF Untouched, TypeOK
<1>7. /\ ThreadsOf(s) /\ RoundOf(s) /\ life[s] = life[s]
      /\ \A b \in Actors : cur[b] = s => LoopOf(b, s)
      /\ \A b \in Actors : Busy(b, s) => TRUE
  BY Parts DEF ThreadsAgree, RoundsAgree, LoopsAgree
<1>8. ThreadsOf(s)'
  <2>1. \A e \in All : thread'[s][e] = "none" <=> thread[s][e] = "none"
    BY <1>1, <1>0
  <2>2. \A e \in All : thread'[s][e] = "ended" => thread[s][e] = "ended" \/ e \in exit[s]
    BY <1>1, <1>0
  <2>3. \A b \in Actors : Busy(b, s)' <=> Busy(b, s)
    BY <1>1 DEF Busy
  <2>4. \A b \in Actors, e \in All : Joins(b, s, e)' <=> Joins(b, s, e)
    BY <1>1 DEF Joins
  <2> QED BY <1>1, <1>7, <2>1, <2>2, <2>3, <2>4, SizeFacts DEF ThreadsOf, NoThread, Launched
<1>9. ASSUME NEW b \in Actors, cur'[b] = s PROVE LoopOf(b, s)'
  <2>1. \A e \in All : thread'[s][e] = "none" <=> thread[s][e] = "none"
    BY <1>1, <1>0
  <2>2. done[s] \subseteq done'[s]
    BY <1>1, Parts DEF TypeOK
  <2>3. LoopOf(b, s) /\ at' = at /\ idx' = idx /\ after' = after /\ exit' = exit
    BY <1>1, <1>7, <1>9
  <2>4. /\ NoThread(s)' <=> NoThread(s)
        /\ Launched(s)' <=> Launched(s)
        /\ ~InProgress(s) => ~InProgress(s)'
    BY <2>1, <2>2, SizeFacts DEF NoThread, Launched, InProgress
  <2>5. \A i : i \in DetectorsOf(s) => i \in All
    BY SizeFacts
  <2> QED BY <2>1, <2>3, <2>4, <2>5 DEF LoopOf
<1>10. RoundOf(s)'
  <2>1. \A e \in All : thread'[s][e] = "none" <=> thread[s][e] = "none"
    BY <1>1, <1>0
  <2>2. done[s] \subseteq done'[s]
    BY <1>1, Parts DEF TypeOK
  <2>3. \A e \in DetectorsOf(s) :
          thread'[s][e] = "examining" => e \notin done'[s] \union exit[s]
    <3> SUFFICES ASSUME NEW e \in DetectorsOf(s), thread'[s][e] = "examining"
                 PROVE  e \notin done'[s] \union exit[s]
      OBVIOUS
    <3>1. CASE e = d
      BY <1>0, <1>1, <3>1, SizeFacts
    <3>2. CASE e # d
      <4>1. thread[s][e] = "examining" /\ e \in All
        BY <1>0, <3>2, SizeFacts
      <4>2. e \notin done[s] \union exit[s]
        BY <1>7, <4>1 DEF RoundOf
      <4>3. done'[s] \in {done[s], done[s] \union {d}}
        BY <1>1, Parts DEF TypeOK
      <4> QED BY <3>2, <4>2, <4>3
    <3> QED BY <3>1, <3>2
  <2> QED BY <1>1, <1>7, <2>1, <2>2, <2>3, SizeFacts DEF RoundOf, InRound, InProgress
<1>11. ThreadsAgree' /\ LoopsAgree' /\ RoundsAgree'
  BY <1>1, <1>0, <1>6, <1>8, <1>9, <1>10, UntouchedKeeps DEF ThreadsAgree, LoopsAgree, RoundsAgree
<1>12. FrameOfOpenSession'
  BY Parts, <1>1, <1>0, NamesFacts
  DEF FrameOfOpenSession, LifeAgrees, LifeFits, Busy, OpenSteps, CloseSteps,
         FrameSteps, WhereAgrees, TypeOK
<1> QED BY <1>2, <1>3, <1>4, <1>5, <1>11, <1>12 DEF IInv

-----------------------------------------------------------------------------
LEMMA InitHolds == Init => IInv
<1> SUFFICES ASSUME Init PROVE IInv
  OBVIOUS
<1>1. TypeOK
  BY NamesFacts, BufferAssumption DEF Init, TypeOK, ThreadSteps
<1> QED BY <1>1, NamesFacts, SizeFacts
      DEF Init, IInv, WhereAgrees, MutexAgrees, LifeAgrees, ThreadsAgree, LoopsAgree,
          RoundsAgree, FrameOfOpenSession, Holds, Busy, NoThread, Joins, ThreadsOf, LoopOf, RoundOf,
          InRound, OpenSteps,
          CloseSteps, FrameSteps, AppSteps

LEMMA NextKeeps == IInv /\ [Next]_vars => IInv'
<1> SUFFICES ASSUME IInv, [Next]_vars PROVE IInv'
  OBVIOUS
<1>1. CASE UNCHANGED vars
  BY <1>1 DEF vars, channel, module, session, detectors, where, IInv, TypeOK, WhereAgrees,
     MutexAgrees, LifeAgrees, ThreadsAgree, LoopsAgree, RoundsAgree, FrameOfOpenSession,
     Holds, Busy, LifeFits, ThreadsOf, LoopOf, RoundOf, NoThread, Launched, Joins,
     InRound, InProgress
<1>2. ASSUME NEW a \in Actors, CloseGoesOn(a) PROVE IInv'
  BY <1>2, CloseLocksKeeps, AwaitKeeps, CloseBeginsKeeps, PassOverKeeps, TellExitKeeps,
     JoinThreadKeeps, ThreadsJoinedKeeps, StartUndoneKeeps, UncountSessionKeeps
  DEF CloseGoesOn
<1>3. ASSUME NEW a \in Actors, a # Media, CommandGoesOn(a) PROVE IInv'
  <2>1. CASE AddBug(a) \/ AddBugFails(a) \/ PublishBug(a)
    BY <1>3, <2>1, NamesFacts, AddBugAppKeeps, AddBugApiKeeps, AddBugFailsAppKeeps,
       AddBugFailsApiKeeps, PublishBugAppKeeps, PublishBugApiKeeps
  <2>2. CASE ClearPrivate(a) \/ RemoveBug(a)
    BY <2>2, ClearPrivateKeeps, RemoveBugKeeps, RemoveNothingKeeps
  <2> QED BY <1>2, <1>3, <2>1, <2>2 DEF CommandGoesOn
<1>4. CASE LaunchThreads
  <2>1. PICK created \in 0..Size(cur[App]) :
          /\ LaunchesSome(created)
          /\ \/ created = Size(cur[App]) /\ Goto(App, "adding")
             \/ /\ created # Size(cur[App])
                /\ at' = [at EXCEPT ![App] = "telling"]
                /\ after' = [after EXCEPT ![App] = "unlock"]
                /\ idx' = [idx EXCEPT ![App] = 1]
    BY <1>4 DEF LaunchThreads, LaunchesSome, Goto
  <2> QED BY <2>1, LaunchesAllKeeps, LaunchesFewerKeeps
<1>5. CASE Hangup \/ StopApp \/ FunctionStop \/ StopReads
  BY <1>5, HangupKeeps, StopAppKeeps, FunctionStopKeeps, StopReadsKeeps
<1>6. CASE AppGoesOn
  BY <1>3, <1>4, <1>5, <1>6, NamesFacts, StartRefusedKeeps, InitSessionKeeps, CountSessionKeeps
  DEF AppGoesOn, StartGoesOn
<1>7. CASE FrameGoesOn
  BY <1>7, NamesFacts, FrameLocksKeeps, AwaitKeeps, FramePassedOverKeeps, FrameInsertedKeeps,
     HandNothingKeeps, HandOverKeeps, AllHandedKeeps, CollectKeeps DEF FrameGoesOn
<1>8. ASSUME NEW c \in Callers, ApiStop(c) \/ CommandGoesOn(c) PROVE IInv'
  BY <1>3, <1>8, NamesFacts, ApiStopKeeps
<1>9. ASSUME NEW s \in Sessions, SessionNext(s) PROVE IInv'
  BY <1>9, StartAppKeeps, RemoveAtHangupKeeps, FrameBeginsKeeps, ApiStartKeeps,
     DetectorMovesOn, DetectorKeeps DEF SessionNext
<1> QED BY <1>1, <1>5, <1>6, <1>7, <1>8, <1>9 DEF Next

(***************************************************************************)
(* The mutexes, the life of each session, its threads and its rounds       *)
(* agree, for any number of sessions, detectors and commands.              *)
(***************************************************************************)
THEOREM IInvHolds == Spec => []IInv
<1>1. Init => IInv
  BY InitHolds
<1>2. IInv /\ [Next]_vars => IInv'
  BY NextKeeps
<1> QED BY <1>1, <1>2, PTL DEF Spec

(***************************************************************************)
(* No detector thread is forgotten, whichever start, stop and hangup race, *)
(* and whichever thread could not be created.                              *)
(***************************************************************************)
THEOREM NoThreadLeftHolds == Spec => []NoThreadLeft
<1>1. IInv => NoThreadLeft
  <2> SUFFICES ASSUME IInv, NEW s \in Sessions, NEW d \in All, thread[s][d] # "none"
               PROVE  Attended(s) /\ ~destroyed[s]
    BY DEF NoThreadLeft
  <2>1. d \in DetectorsOf(s) /\ ~NoThread(s)
    BY Parts DEF ThreadsAgree, ThreadsOf, NoThread
  <2>2. CASE life[s] = "attached"
    BY <2>1, <2>2, Parts DEF Attended, ThreadsAgree, ThreadsOf
  <2>3. CASE life[s] # "attached"
    <3>1. PICK a \in Actors : Busy(a, s)
      BY <2>1, <2>3, Parts DEF ThreadsAgree, ThreadsOf
    <3>2. a # Media
      BY <3>1, Parts DEF WhereAgrees, Busy, OpenSteps, CloseSteps, FrameSteps
    <3> QED BY <2>1, <3>1, <3>2, Parts DEF Attended, ThreadsAgree, ThreadsOf, Busy
  <2> QED BY <2>2, <2>3
<1> QED BY <1>1, IInvHolds, PTL

(***************************************************************************)
(* The callback never meets a session that was closed.                     *)
(***************************************************************************)
THEOREM FrameOfOpenSessionHolds == Spec => []FrameOfOpenSession
<1>1. IInv => FrameOfOpenSession
  BY DEF IInv
<1> QED BY <1>1, IInvHolds, PTL
-----------------------------------------------------------------------------
(* The refinement of FrameRounds.                                          *)

SameRound(s) ==
  /\ Stage(s)' = Stage(s) /\ ToDo(s)' = ToDo(s) /\ Owes(s)' = Owes(s)
  /\ Opened(s)' <=> Opened(s)

\* A step that concerns no round.
LEMMA RoundsStutter ==
  ASSUME \A s \in Sessions : SameRound(s), UNCHANGED <<verdict, beep>>
  PROVE  UNCHANGED Rounds!vars
  BY DEF SameRound, Rounds!vars

\* Whom a round concerns: sessions that are open, and the frame in the callback.
Quiet(s) ==
  /\ Opened(s)' <=> Opened(s)
  /\ Opened(s) => life'[s] = life[s] /\ done'[s] = done[s] /\ exit'[s] = exit[s]

SameFrame ==
  \/ at'[Media] = at[Media] /\ cur'[Media] = cur[Media] /\ idx'[Media] = idx[Media]
  \/ /\ at[Media] \notin {"handing", "collecting"}
     /\ at'[Media] \notin {"handing", "collecting"}

LEMMA QuietSession ==
  ASSUME NEW s \in Sessions, Quiet(s), SameFrame, UNCHANGED verdict,
         life[s] # "attached" => ~InRound(s)
  PROVE  SameRound(s)
<1>1. InRound(s)' <=> InRound(s)
  BY DEF InRound, SameFrame
<1>2. Stage(s)' = Stage(s)
  BY <1>1 DEF Stage, Quiet, Opened
<1>3. ToDo(s)' = ToDo(s)
  BY <1>1 DEF ToDo, InRound, SameFrame, DetectorsOf, Size, HasVerdict
<1>4. Owes(s)' = Owes(s)
  BY DEF Owes, Quiet, DetectorsOf, Size
<1> QED BY <1>2, <1>3, <1>4 DEF SameRound, Quiet

LEMMA FrameIsAttached ==
  ASSUME IInv, NEW s \in Sessions, InRound(s)
  PROVE  life[s] = "attached"
  BY Parts DEF InRound, FrameOfOpenSession

LEMMA QuietStep ==
  ASSUME IInv, \A s \in Sessions : Quiet(s), SameFrame, UNCHANGED <<verdict, beep>>
  PROVE  UNCHANGED Rounds!vars
  BY QuietSession, FrameIsAttached, RoundsStutter

-----------------------------------------------------------------------------
(* One session moves in its rounds, and no other.                          *)

OthersSame(s) == \A t \in Sessions \ {s} : SameRound(t)

LEMMA Opens ==
  ASSUME NEW s \in Sessions, OthersSame(s), UNCHANGED <<verdict, beep>>,
         Stage(s) = "off", Stage(s)' = "idle", Opened(s)',
         ToDo(s)' = ToDo(s), Owes(s)' = Owes(s)
  PROVE  Rounds!Next
<1>0. DetectorsOf(s) \in SUBSET All
  BY SizeFacts
<1>1. Rounds!Open(s)
  BY <1>0 DEF Rounds!Open, Rounds!StageIs, OthersSame, SameRound, DetectorsOf, Size
<1> QED BY <1>1 DEF Rounds!Next

LEMMA Closes ==
  ASSUME NEW s \in Sessions, OthersSame(s), UNCHANGED <<verdict, beep>>,
         Stage(s) = "idle", Stage(s)' = "closed", Opened(s), Opened(s)',
         ToDo(s)' = ToDo(s), Owes(s)' = Owes(s), Owes(s) = {}
  PROVE  Rounds!Next
<1>1. Rounds!Close(s)
  BY DEF Rounds!Close, Rounds!StageIs, OthersSame, SameRound, DetectorsOf, Size
<1> QED BY <1>1 DEF Rounds!Next

LEMMA Inserts ==
  ASSUME NEW s \in Sessions, OthersSame(s), UNCHANGED <<verdict, beep>>, ~beep[s],
         Stage(s) = "idle", Stage(s)' = "round", Opened(s), Opened(s)',
         ToDo(s)' = DetectorsOf(s) \ verdict[s], Owes(s)' = Owes(s), Owes(s) = {}
  PROVE  Rounds!Next
<1>1. Rounds!Insert(s)
  BY DEF Rounds!Insert, Rounds!StageIs, OthersSame, SameRound, DetectorsOf, Size
<1> QED BY <1>1 DEF Rounds!Next

LEMMA HandsOver ==
  ASSUME NEW s \in Sessions, NEW d \in All, OthersSame(s), UNCHANGED <<verdict, beep>>,
         Stage(s) = "round", Stage(s)' = "round", Opened(s), Opened(s)',
         d \in ToDo(s), ToDo(s)' = ToDo(s) \ {d}, Owes(s)' = Owes(s) \union {d}
  PROVE  Rounds!Next
<1>1. Rounds!HandOver(s, d)
  BY DEF Rounds!HandOver, OthersSame, SameRound, DetectorsOf, Size
<1> QED BY <1>1 DEF Rounds!Next

LEMMA Examines ==
  ASSUME NEW s \in Sessions, NEW d \in All, OthersSame(s), UNCHANGED beep,
         verdict' = verdict \/ verdict' = [verdict EXCEPT ![s] = @ \union {d}],
         Stage(s)' = Stage(s), Opened(s), Opened(s)',
         ToDo(s)' = ToDo(s), d \in Owes(s), Owes(s)' = Owes(s) \ {d}
  PROVE  Rounds!Next
<1>1. Rounds!Examine(s, d)
  BY DEF Rounds!Examine, OthersSame, SameRound, DetectorsOf, Size
<1> QED BY <1>1 DEF Rounds!Next

LEMMA Collects ==
  ASSUME NEW s \in Sessions, OthersSame(s), UNCHANGED verdict,
         beep' = [beep EXCEPT ![s] = verdict[s] # {}],
         Stage(s) = "round", Stage(s)' = "idle", Opened(s), Opened(s)',
         ToDo(s) = {}, ToDo(s)' = {}, Owes(s) = {}, Owes(s)' = {}
  PROVE  Rounds!Next
<1>1. Rounds!Collect(s)
  BY DEF Rounds!Collect, Rounds!StageIs, OthersSame, SameRound, DetectorsOf, Size
<1> QED BY <1>1 DEF Rounds!Next

-----------------------------------------------------------------------------
(* What the steps of mod_avmd are to the rounds.                           *)

LEMMA OthersQuiet ==
  ASSUME IInv, NEW s \in Sessions, \A t \in Sessions \ {s} : Quiet(t), SameFrame,
         UNCHANGED verdict
  PROVE  OthersSame(s)
  BY QuietSession, FrameIsAttached DEF OthersSame

LEMMA AddBugOpens ==
  ASSUME IInv, NEW a \in Actors, AddBug(a)
  PROVE  Rounds!Next
<1>1. /\ at[a] = "adding" /\ cur[a] \in Sessions /\ a # Media
      /\ at[Media] = "idle" /\ at'[Media] = "idle"
      /\ life' = [life EXCEPT ![cur[a]] = "attached"]
      /\ UNCHANGED <<verdict, beep, done, exit, cur, idx>>
  BY Parts, Working, NamesFacts DEF AddBug, LifeIs, Goto, channel, module, session, detectors,
     TypeOK
<1>2. life[cur[a]] = "made" /\ ~InProgress(cur[a])
  BY <1>1, Parts DEF LifeAgrees, LifeFits, Busy, OpenSteps, LoopsAgree, LoopOf
<1>3. life'[cur[a]] = "attached" /\ \A t \in Sessions \ {cur[a]} : life'[t] = life[t]
  BY <1>1, Parts DEF TypeOK
<1>4. OthersSame(cur[a])
  <2>1. SameFrame
    BY <1>1 DEF SameFrame
  <2>2. \A t \in Sessions \ {cur[a]} : Quiet(t)
    BY <1>1, <1>3 DEF Quiet, Opened
  <2> QED BY <1>1, <2>1, <2>2, OthersQuiet
<1>5. Owes(cur[a]) = {} /\ Owes(cur[a])' = {}
  BY <1>1, <1>2, <1>3 DEF Owes, Opened, InProgress, DetectorsOf, Size
<1>6. ToDo(cur[a]) = {} /\ ToDo(cur[a])' = {}
  BY <1>1 DEF ToDo, InRound
<1>7. Stage(cur[a]) = "off" /\ Stage(cur[a])' = "idle" /\ Opened(cur[a])'
  BY <1>1, <1>2, <1>3 DEF Stage, InRound, Opened
<1> QED BY <1>1, <1>4, <1>5, <1>6, <1>7, Opens

\* The bug is removed, by a command or at the hangup.
LEMMA RemovalCloses ==
  ASSUME IInv, NEW s \in Sessions, life[s] = "attached", at[Media] = "idle",
         at'[Media] # "handing", at'[Media] # "collecting",
         life' = [life EXCEPT ![s] = "removed"], UNCHANGED <<verdict, beep, done, exit>>
  PROVE  Rounds!Next
<1>1. life'[s] = "removed" /\ \A t \in Sessions \ {s} : life'[t] = life[t]
  BY Parts DEF TypeOK
<1>2. OthersSame(s)
  <2>1. SameFrame
    BY DEF SameFrame
  <2>2. \A t \in Sessions \ {s} : Quiet(t)
    BY <1>1 DEF Quiet, Opened
  <2> QED BY <2>1, <2>2, OthersQuiet
<1>3. ~InProgress(s)
  BY Parts DEF RoundsAgree, RoundOf, InRound
<1>4. Owes(s) = {} /\ Owes(s)' = {}
  BY <1>3 DEF Owes, InProgress, DetectorsOf, Size
<1>5. ToDo(s) = {} /\ ToDo(s)' = {}
  BY DEF ToDo, InRound
<1>6. Stage(s) = "idle" /\ Stage(s)' = "closed" /\ Opened(s) /\ Opened(s)'
  BY <1>1 DEF Stage, InRound, Opened
<1> QED BY <1>2, <1>4, <1>5, <1>6, Closes

LEMMA RemoveBugRounds ==
  ASSUME IInv, NEW a \in Actors, RemoveBug(a)
  PROVE  Rounds!Next \/ UNCHANGED Rounds!vars
<1>1. /\ at[a] = "removing" /\ cur[a] \in Sessions /\ a # Media /\ at[Media] = "idle"
      /\ UNCHANGED <<verdict, beep, done, exit>>
  BY Parts, Working DEF RemoveBug, channel, detectors, WhereAgrees, FrameSteps
<1>2. CASE life[cur[a]] = "attached"
  <2>1. life' = [life EXCEPT ![cur[a]] = "removed"] /\ at'[Media] = "idle"
    BY <1>1, <1>2, Parts, NamesFacts DEF RemoveBug, LifeIs, Close, TypeOK
  <2> QED BY <1>1, <1>2, <2>1, RemovalCloses
<1>3. CASE life[cur[a]] # "attached"
  <2>1. life' = life /\ at'[Media] = "idle"
    BY <1>1, <1>3, Parts, NamesFacts DEF RemoveBug, Leave, TypeOK
  <2> QED BY <1>1, <2>1, QuietStep DEF Quiet, Opened, SameFrame
<1> QED BY <1>2, <1>3

LEMMA RemoveAtHangupRounds ==
  ASSUME IInv, NEW s \in Sessions, RemoveAtHangup(s)
  PROVE  Rounds!Next
<1>1. at'[Media] = "idle"
  BY Parts, NamesFacts DEF RemoveAtHangup, Close, TypeOK
<1> QED BY <1>1, RemovalCloses DEF RemoveAtHangup, LifeIs, detectors

\* A start touches no session that is open.
LEMMA StartRounds ==
  ASSUME IInv, \/ StartRefused
               \/ InitSession
               \/ LaunchThreads
               \/ CountSession
               \/ \E s \in Sessions : StartApp(s)
  PROVE  UNCHANGED Rounds!vars
<1>1. UNCHANGED <<verdict, beep>>
  BY DEF StartRefused, InitSession, LaunchThreads, CountSession, StartApp, session, detectors
<1>2. at'[Media] = at[Media] /\ cur'[Media] = cur[Media] /\ idx'[Media] = idx[Media]
  BY Parts, NamesFacts DEF StartRefused, InitSession, LaunchThreads, CountSession, StartApp,
     Goto, GotoOn, Leave, TypeOK
<1>3. ASSUME NEW t \in Sessions PROVE Quiet(t)
  <2>1. at[App] \in OpenSteps => cur[App] \in Sessions /\ life[cur[App]] = "made"
    BY Parts, Working, NamesFacts DEF LifeAgrees, LifeFits, Busy, OpenSteps
  <2>2. CASE StartRefused
    BY <2>1, <2>2, Parts DEF StartRefused, LifeIs, OpenSteps, Quiet, Opened, detectors, TypeOK
  <2>3. CASE InitSession
    BY <2>1, <2>3, Parts DEF InitSession, OpenSteps, Quiet, Opened, session, TypeOK
  <2>4. CASE LaunchThreads
    BY <2>1, <2>4, Parts DEF LaunchThreads, OpenSteps, Quiet, Opened, TypeOK
  <2>5. CASE CountSession
    BY <2>5 DEF CountSession, Quiet, Opened, session, detectors
  <2>6. CASE \E s \in Sessions : StartApp(s)
    BY <2>6, Parts DEF StartApp, LifeIs, Quiet, Opened, detectors, TypeOK
  <2> QED BY <2>2, <2>3, <2>4, <2>5, <2>6
<1> QED BY <1>1, <1>2, <1>3, QuietStep DEF SameFrame

\* A step of a command that neither adds nor removes a bug.
LEMMA CommandRounds ==
  ASSUME IInv, NEW a \in Actors, a # Media,
         \/ AddBugFails(a) \/ PublishBug(a) \/ ClearPrivate(a)
         \/ CloseLocks(a) \/ Await(a) \/ CloseBegins(a) \/ JoinThread(a)
         \/ ThreadsJoined(a) \/ UncountSession(a)
  PROVE  UNCHANGED Rounds!vars
<1>1. UNCHANGED <<verdict, beep, done, exit>>
  BY DEF AddBugFails, PublishBug, ClearPrivate, CloseLocks, Await, CloseBegins, JoinThread,
     ThreadsJoined, UncountSession, session, detectors
<1>2. at'[Media] = at[Media] /\ cur'[Media] = cur[Media] /\ idx'[Media] = idx[Media]
  BY Parts, NamesFacts DEF AddBugFails, PublishBug, ClearPrivate, CloseLocks, Await,
     CloseBegins, JoinThread, ThreadsJoined, UncountSession, Goto, Close, Leave, Loop, Round,
     where, TypeOK
<1>3. ASSUME NEW t \in Sessions PROVE Opened(t)' <=> Opened(t)
  <2>1. at[a] # "idle" => cur[a] \in Sessions
    BY Working
  <2>2. CASE AddBugFails(a)
    <3>1. life[cur[a]] = "made" /\ life' = [life EXCEPT ![cur[a]] = "failed"]
      BY <2>1, <2>2, Parts DEF AddBugFails, LifeIs, LifeAgrees, LifeFits, Busy, OpenSteps
    <3> QED BY <2>1, <3>1, Parts DEF Opened, TypeOK
  <2>3. CASE ThreadsJoined(a)
    <3>1. life' # life => life[cur[a]] \in {"made", "failed"}
                          /\ life' = [life EXCEPT ![cur[a]] = "failed"]
      BY <2>1, <2>3, Parts DEF ThreadsJoined, LifeIs, LifeAgrees, LifeFits, Busy, CloseSteps,
         TypeOK
    <3> QED BY <2>1, <3>1, Parts DEF Opened, TypeOK
  <2>4. CASE ~AddBugFails(a) /\ ~ThreadsJoined(a)
    BY <2>4 DEF PublishBug, ClearPrivate, CloseLocks, Await, CloseBegins, JoinThread,
       UncountSession, Opened, session
  <2> QED BY <2>2, <2>3, <2>4
<1>4. ASSUME NEW t \in Sessions PROVE Quiet(t)
  <2>1. Opened(t) => life'[t] = life[t]
    <3>1. at[a] # "idle" => cur[a] \in Sessions
      BY Working
    <3>2. \/ life' = life
          \/ /\ life' = [life EXCEPT ![cur[a]] = "failed"] /\ cur[a] \in Sessions
      BY <3>1 DEF AddBugFails, ThreadsJoined, PublishBug, ClearPrivate, CloseLocks, Await,
         CloseBegins, JoinThread, UncountSession, LifeIs, session
    <3> QED BY <1>3, <3>2, Parts DEF Opened, TypeOK
  <2> QED BY <1>1, <1>3, <2>1 DEF Quiet
<1> QED BY <1>1, <1>2, <1>4, QuietStep DEF SameFrame

\* Who is told to exit owes nothing: its bug was removed, or never was there.
LEMMA TellExitRounds ==
  ASSUME IInv, NEW a \in Actors, a # Media, TellExit(a)
  PROVE  UNCHANGED Rounds!vars
<1>1. at[a] = "telling" /\ cur[a] \in Sessions /\ UNCHANGED <<verdict, beep, life, cur>>
  BY Working DEF TellExit, Round, Goto, session
<1>2. at'[Media] = at[Media] /\ cur'[Media] = cur[Media] /\ idx'[Media] = idx[Media]
  BY Parts, NamesFacts DEF TellExit, Round, Goto, TypeOK
<1>3. ASSUME NEW t \in Sessions, t # cur[a] PROVE Quiet(t)
  BY <1>1, <1>3, Parts DEF TellExit, Quiet, Opened, TypeOK
<1>4. SameRound(cur[a])
  <2>1. life[cur[a]] # "attached" /\ life'[cur[a]] = life[cur[a]]
    BY <1>1, AttachedIsOpen DEF Busy, CloseSteps
  <2>2. life[cur[a]] = "removed" => DetectorsOf(cur[a]) \subseteq done[cur[a]] \union exit[cur[a]]
    BY <1>1, Parts DEF RoundsAgree, RoundOf
  <2>3. done[cur[a]] \union exit[cur[a]] \subseteq done'[cur[a]] \union exit'[cur[a]]
    BY <1>1, Parts DEF TellExit, TypeOK
  <2>4. Owes(cur[a]) = {} /\ Owes(cur[a])' = {}
    BY <1>1, <2>1, <2>2, <2>3 DEF Owes, Opened, DetectorsOf, Size
  <2>5. ~InRound(cur[a]) /\ ~InRound(cur[a])'
    BY <1>1, <1>2, <2>1, FrameIsAttached DEF InRound
  <2> QED BY <1>1, <2>1, <2>4, <2>5 DEF SameRound, Stage, Opened, ToDo
<1>5. OthersSame(cur[a])
  BY <1>1, <1>2, <1>3, OthersQuiet DEF SameFrame
<1> QED BY <1>1, <1>4, <1>5, RoundsStutter DEF OthersSame

(***************************************************************************)
(* The steps of the callback with a frame of session s.                    *)
(***************************************************************************)
LEMMA FrameStepRounds ==
  ASSUME IInv, FrameGoesOn
  PROVE  Rounds!Next \/ UNCHANGED Rounds!vars
<1>1. PICK s \in Sessions : cur[Media] = s
  BY Working, NamesFacts DEF FrameGoesOn, FrameLocks, Await, FrameInserted, HandOver,
     AllHanded, Collect
<1>2. life[s] = "attached"
  BY <1>1, Parts, NamesFacts DEF FrameOfOpenSession, WhereAgrees
<1>3. Opened(s) /\ LoopOf(Media, s) /\ RoundOf(s)
  BY <1>1, <1>2, Parts, NamesFacts DEF Opened, LoopsAgree, RoundsAgree
<1>4. CASE FrameLocks
  <2>1. at[Media] = "frame" /\ at'[Media] = "settling"
    BY <1>4, Parts, NamesFacts DEF FrameLocks, Goto, TypeOK
  <2>2. UNCHANGED <<life, done, exit, verdict, beep>>
    BY <1>4 DEF FrameLocks, detectors
  <2> QED BY <2>1, <2>2, QuietStep DEF Quiet, Opened, SameFrame
<1>5. CASE Await(Media)
  BY <1>5, QuietStep DEF Await, session, where, Quiet, Opened, SameFrame
<1>6. CASE FrameInserted
  <2>1. at[Media] = "settling" /\ ~InProgress(s) /\ UNCHANGED <<life, done, exit, verdict, beep>>
    BY <1>1, <1>6 DEF FrameInserted, RoundIsOver, detectors
  <2>2. CASE beep[s]
    <3>1. at'[Media] = "idle"
      BY <1>1, <1>6, <2>2, Parts, NamesFacts DEF FrameInserted, Leave, TypeOK
    <3> QED BY <2>1, <3>1, QuietStep DEF Quiet, Opened, SameFrame
  <2>3. CASE ~beep[s]
    <3>1. at'[Media] = "handing" /\ cur' = cur /\ idx'[Media] = 1
      BY <1>1, <1>6, <2>3, Parts, NamesFacts DEF FrameInserted, Loop, TypeOK
    <3>2. OthersSame(s)
      <4> SUFFICES ASSUME NEW t \in Sessions, t # s PROVE SameRound(t)
        BY DEF OthersSame
      <4>1. ~InRound(t) /\ ~InRound(t)'
        BY <1>1, <3>1 DEF InRound
      <4> QED BY <2>1, <4>1 DEF SameRound, Stage, ToDo, Owes, Opened, DetectorsOf, Size
    <3>3. Owes(s) = {} /\ Owes(s)' = {}
      BY <2>1 DEF Owes, InProgress, DetectorsOf, Size
    <3>4. Stage(s) = "idle" /\ Stage(s)' = "round" /\ Opened(s)'
      BY <1>1, <1>2, <2>1, <3>1 DEF Stage, InRound, Opened
    <3>5. ToDo(s)' = DetectorsOf(s) \ verdict[s]
      <4>1. \A d \in DetectorsOf(s) : 1 <= d
        BY SizeFacts
      <4>2. ToDo(s)' = {d \in DetectorsOf(s) : 1 <= d /\ d \notin verdict[s]}
        BY <1>1, <2>1, <3>1 DEF ToDo, InRound, HasVerdict, DetectorsOf, Size
      <4> QED BY <4>1, <4>2
    <3> QED BY <1>3, <2>1, <2>3, <3>2, <3>3, <3>4, <3>5, Inserts
  <2> QED BY <2>2, <2>3
<1>7. CASE HandOver
  <2>1. /\ at[Media] = "handing" /\ idx[Media] \in DetectorsOf(s) /\ idx[Media] \in All
        /\ idx[Media] \in Nat
        /\ at' = at /\ cur' = cur /\ idx'[Media] = idx[Media] + 1
        /\ UNCHANGED <<life, verdict, beep>>
    BY <1>1, <1>7, Parts, NamesFacts, SizeFacts DEF HandOver, Round, session, TypeOK
  <2>2. \A t \in Sessions \ {s} : ~InRound(t) /\ ~InRound(t)'
    BY <1>1, <2>1 DEF InRound
  <2>3. Stage(s) = "round" /\ Stage(s)' = "round" /\ Opened(s)'
    BY <1>1, <1>2, <2>1 DEF Stage, InRound, Opened
  <2>4. \A e \in DetectorsOf(s) : e \in Nat
    BY SizeFacts
  <2>5. ToDo(s) = {e \in DetectorsOf(s) : idx[Media] <= e /\ e \notin verdict[s]}
    BY <1>1, <2>1 DEF ToDo, InRound, HasVerdict
  <2>6. ToDo(s)' = {e \in DetectorsOf(s) : idx[Media] + 1 <= e /\ e \notin verdict[s]}
    BY <1>1, <2>1 DEF ToDo, InRound, HasVerdict, DetectorsOf, Size
  <2>7. \A e \in DetectorsOf(s) : idx[Media] + 1 <= e <=> idx[Media] <= e /\ e # idx[Media]
    BY <2>1, <2>4
  <2>8. CASE idx[Media] \in verdict[s]
    <3>1. UNCHANGED <<done, exit>>
      BY <1>1, <1>7, <2>8 DEF HandOver, HasVerdict
    <3>2. ToDo(s)' = ToDo(s)
      BY <2>5, <2>6, <2>7, <2>8
    <3>3. \A t \in Sessions : SameRound(t)
      BY <2>1, <2>2, <2>3, <3>1, <3>2
      DEF SameRound, Stage, ToDo, Owes, Opened, DetectorsOf, Size
    <3> QED BY <2>1, <3>3, RoundsStutter
  <2>9. CASE idx[Media] \notin verdict[s]
    <3>1. /\ done' = [done EXCEPT ![s] = @ \ {idx[Media]}]
          /\ exit' = [exit EXCEPT ![s] = @ \ {idx[Media]}]
      BY <1>1, <1>7, <2>9 DEF HandOver, HasVerdict
    <3>2. idx[Media] \in ToDo(s) /\ ToDo(s)' = ToDo(s) \ {idx[Media]}
      BY <2>1, <2>5, <2>6, <2>7, <2>9
    <3>3. OthersSame(s)
      BY <2>1, <2>2, <3>1, Parts
      DEF OthersSame, SameRound, Stage, ToDo, Owes, Opened, DetectorsOf, Size, TypeOK
    <3>4. Owes(s)' = Owes(s) \union {idx[Media]}
      <4>1. /\ Owes(s) = DetectorsOf(s) \ (done[s] \union exit[s])
            /\ Owes(s)' = DetectorsOf(s) \ (done'[s] \union exit'[s])
        BY <1>3, <2>3 DEF Owes, DetectorsOf, Size
      <4>2. done'[s] = done[s] \ {idx[Media]} /\ exit'[s] = exit[s] \ {idx[Media]}
        BY <3>1, Parts DEF TypeOK
      <4> QED BY <2>1, <4>1, <4>2
    <3> QED BY <1>3, <2>1, <2>3, <3>2, <3>3, <3>4, HandsOver
  <2> QED BY <2>8, <2>9
<1>8. CASE AllHanded
  <2>1. /\ at[Media] = "handing" /\ at'[Media] = "collecting" /\ cur' = cur
        /\ UNCHANGED <<life, done, exit, verdict, beep>>
    BY <1>8, Parts, NamesFacts DEF AllHanded, Goto, session, detectors, TypeOK
  <2>2. \A t \in Sessions : InRound(t)' <=> InRound(t)
    BY <2>1 DEF InRound
  <2>3. ToDo(s) = {}
    <3>1. idx[Media] \in 1..(Size(s) + 1) /\ idx[Media] \notin 1..Size(s)
      BY <1>1, <1>3, <1>8, <2>1, SizeFacts DEF AllHanded, LoopOf
    <3>2. \A d \in 1..Size(s) : ~(idx[Media] <= d)
      BY <3>1, SizeFacts
    <3> QED BY <3>2, SizeFacts DEF ToDo
  <2>4. \A t \in Sessions : ToDo(t)' = {} /\ ToDo(t) = {}
    BY <1>1, <2>1, <2>3 DEF ToDo, InRound
  <2>5. \A t \in Sessions : SameRound(t)
    BY <2>1, <2>2, <2>4 DEF SameRound, Stage, Owes, Opened, DetectorsOf, Size
  <2> QED BY <2>1, <2>5, RoundsStutter
<1>9. CASE Collect
  <2>1. /\ at[Media] = "collecting" /\ at'[Media] = "idle" /\ ~InProgress(s)
        /\ beep' = [beep EXCEPT ![s] = verdict[s] # {}]
        /\ UNCHANGED <<life, done, exit, verdict>>
    BY <1>1, <1>9, Parts, NamesFacts DEF Collect, RoundIsOver, Leave, detectors, TypeOK
  <2>2. OthersSame(s)
    <3> SUFFICES ASSUME NEW t \in Sessions, t # s PROVE SameRound(t)
      BY DEF OthersSame
    <3>1. ~InRound(t) /\ ~InRound(t)'
      BY <1>1, <2>1 DEF InRound
    <3> QED BY <2>1, <3>1 DEF SameRound, Stage, ToDo, Owes, Opened, DetectorsOf, Size
  <2>3. Owes(s) = {} /\ Owes(s)' = {}
    BY <2>1 DEF Owes, InProgress, DetectorsOf, Size
  <2>4. ToDo(s) = {} /\ ToDo(s)' = {}
    BY <2>1 DEF ToDo, InRound
  <2>5. Stage(s) = "round" /\ Stage(s)' = "idle" /\ Opened(s)'
    BY <1>1, <1>2, <2>1 DEF Stage, InRound, Opened
  <2> QED BY <1>3, <2>1, <2>2, <2>3, <2>4, <2>5, Collects
<1> QED BY <1>4, <1>5, <1>6, <1>7, <1>8, <1>9 DEF FrameGoesOn

(***************************************************************************)
(* What the callback has not yet handed over, nobody examines.             *)
(***************************************************************************)
LeftAreDone ==
  \A s \in Sessions : cur[Media] = s /\ at[Media] = "handing" =>
    \A d \in DetectorsOf(s) : idx[Media] <= d => d \in done[s]

\* Detectors only become done, but for those that are handed a frame.
LEMMA LeftStays ==
  ASSUME LeftAreDone,
         \A s \in Sessions :
           cur[Media] = s /\ at[Media] = "handing" => done[s] \subseteq done'[s],
         \/ at'[Media] # "handing"
         \/ at'[Media] = at[Media] /\ cur'[Media] = cur[Media] /\ idx'[Media] = idx[Media]
  PROVE  LeftAreDone'
  BY DEF LeftAreDone, DetectorsOf, Size

LEMMA LeftKeepsCommands ==
  ASSUME IInv, LeftAreDone, Hangup \/ StopApp \/ FunctionStop \/ AppGoesOn
                            \/ \E c \in Callers : ApiStop(c) \/ CommandGoesOn(c)
  PROVE  LeftAreDone'
<1>1. \A s \in Sessions : done[s] \subseteq All
  BY Parts DEF TypeOK
<1>2. PICK a \in Actors \ {Media} :
        \/ Hangup \/ StopApp \/ FunctionStop \/ StopReads \/ ApiStop(a)
        \/ StartGoesOn \/ CommandGoesOn(a)
  BY NamesFacts DEF AppGoesOn
<1>3. CASE Hangup \/ StopApp \/ FunctionStop \/ StopReads \/ ApiStop(a)
  <2>1. done' = done /\ at'[Media] = at[Media] /\ cur'[Media] = cur[Media]
        /\ idx'[Media] = idx[Media]
    BY <1>2, <1>3, Parts, NamesFacts DEF Hangup, StopApp, FunctionStop, StopReads, ApiStop,
       Goto, GotoOn, where, detectors, TypeOK
  <2> QED BY <2>1, LeftStays
<1>4. CASE StartGoesOn
  <2>1. at'[Media] = at[Media] /\ cur'[Media] = cur[Media] /\ idx'[Media] = idx[Media]
    BY <1>4, Parts, NamesFacts DEF StartGoesOn, StartRefused, InitSession, LaunchThreads,
       CountSession, Goto, Leave, TypeOK
  <2>2. \A s \in Sessions : done[s] \subseteq done'[s]
    BY <1>1, <1>4, Parts DEF StartGoesOn, StartRefused, InitSession, LaunchThreads,
       CountSession, detectors, TypeOK
  <2> QED BY <2>1, <2>2, LeftStays
<1>5. CASE CommandGoesOn(a)
  <2>1. at'[Media] = at[Media] /\ cur'[Media] = cur[Media] /\ idx'[Media] = idx[Media]
    <3>1. Media \in Actors /\ a # Media /\ TypeOK
      BY <1>2, Parts, NamesFacts
    <3>2. CASE CloseGoesOn(a)
      BY <3>1, <3>2
      DEF CloseGoesOn, CloseLocks, Await, CloseBegins, TellExit, JoinThread, ThreadsJoined,
          UncountSession, Goto, Leave, Loop, Round, where, TypeOK
    <3>3. CASE AddBug(a) \/ AddBugFails(a) \/ PublishBug(a) \/ ClearPrivate(a) \/ RemoveBug(a)
      BY <3>1, <3>3
      DEF AddBug, AddBugFails, PublishBug, ClearPrivate, RemoveBug, Goto, Close, Leave, TypeOK
    <3> QED BY <1>5, <3>2, <3>3 DEF CommandGoesOn
  <2>2. \A s \in Sessions :
          cur[Media] = s /\ at[Media] = "handing" => done[s] \subseteq done'[s]
    <3>1. CASE TellExit(a)
      <4>1. life[cur[a]] # "attached" /\ cur[a] \in Sessions
        BY <3>1, Working, AttachedIsOpen DEF TellExit, Busy, CloseSteps
      <4>2. \A s \in Sessions : s # cur[a] => done'[s] = done[s]
        BY <3>1, <4>1, Parts DEF TellExit, TypeOK
      <4>3. at[Media] = "handing" => cur[Media] # cur[a]
        BY <4>1, Parts DEF FrameOfOpenSession
      <4> QED BY <4>2, <4>3
    <3>2. CASE ~TellExit(a)
      BY <1>5, <3>2 DEF CommandGoesOn, CloseGoesOn, AddBug, AddBugFails, PublishBug,
         ClearPrivate, RemoveBug, CloseLocks, Await, CloseBegins, JoinThread, ThreadsJoined,
         UncountSession, detectors
    <3> QED BY <3>1, <3>2
  <2> QED BY <2>1, <2>2, LeftStays
<1> QED BY <1>2, <1>3, <1>4, <1>5

LEMMA LeftKeepsFrames ==
  ASSUME IInv, LeftAreDone, FrameGoesOn
  PROVE  LeftAreDone'
<1>1. CASE FrameLocks \/ Await(Media) \/ AllHanded \/ Collect
  <2>1. done' = done /\ (at'[Media] # "handing" \/ UNCHANGED <<at, cur, idx>>)
    BY <1>1, Parts, NamesFacts DEF FrameLocks, Await, AllHanded, Collect, Goto, Leave, where,
       detectors, TypeOK
  <2> QED BY <2>1, LeftStays
<1>2. CASE FrameInserted
  BY <1>2, Parts, NamesFacts DEF FrameInserted, RoundIsOver, InProgress, Leave, Loop,
     detectors, LeftAreDone, DetectorsOf, Size, TypeOK
<1>3. CASE HandOver
  <2>1. /\ cur' = cur /\ at[Media] = "handing" /\ cur[Media] \in Sessions
        /\ idx[Media] \in Nat /\ idx'[Media] = idx[Media] + 1
    BY <1>3, Parts, Working, NamesFacts DEF HandOver, Round, TypeOK
  <2>2. \A d \in DetectorsOf(cur[Media]) :
          d \in done[cur[Media]] /\ d # idx[Media] => d \in done'[cur[Media]]
    BY <1>3, <2>1, Parts DEF HandOver, TypeOK
  <2>3. \A d \in DetectorsOf(cur[Media]) :
          idx[Media] + 1 <= d => idx[Media] <= d /\ d # idx[Media]
    BY <2>1, SizeFacts
  <2> QED BY <2>1, <2>2, <2>3 DEF LeftAreDone, DetectorsOf, Size
<1> QED BY <1>1, <1>2, <1>3 DEF FrameGoesOn

LEMMA LeftKeepsSessions ==
  ASSUME IInv, LeftAreDone, NEW s \in Sessions, SessionNext(s)
  PROVE  LeftAreDone'
<1>1. CASE StartApp(s) \/ RemoveAtHangup(s) \/ FrameBegins(s) \/ \E c \in Callers : ApiStart(c, s)
  <2>1. done' = done /\ at[Media] \in {"idle"} \union FrameSteps
    BY <1>1, Parts DEF StartApp, RemoveAtHangup, FrameBegins, ApiStart, detectors, WhereAgrees
  <2>2. \/ at'[Media] # "handing"
        \/ at'[Media] = at[Media] /\ cur'[Media] = cur[Media] /\ idx'[Media] = idx[Media]
    BY <1>1, Parts, NamesFacts DEF StartApp, RemoveAtHangup, FrameBegins, ApiStart, GotoOn,
       Close, TypeOK
  <2> QED BY <2>1, <2>2, LeftStays
<1>2. ASSUME NEW d \in All, DetectorGoesOn(s, d) PROVE LeftAreDone'
  <2>1. UNCHANGED <<at, cur, idx>> /\ \A t \in Sessions : done[t] \subseteq done'[t]
    BY ZenonT(60), <1>2, Parts DEF DetectorGoesOn, DetectorStarts, DetectorSleeps, DetectorExits,
       DetectorLags, DetectorTakes, Taken, DetectorDone, DetectorSignals, where, TypeOK
  <2> QED BY <2>1, LeftStays
<1> QED BY <1>1, <1>2 DEF SessionNext

LEMMA LeftKeeps == IInv /\ LeftAreDone /\ [Next]_vars => LeftAreDone'
<1>1. UNCHANGED vars => UNCHANGED <<at, cur, idx, done>>
  BY DEF vars, where, detectors
<1>2. LeftAreDone /\ UNCHANGED <<at, cur, idx, done>> => LeftAreDone'
  BY DEF LeftAreDone, DetectorsOf, Size
<1> QED BY <1>1, <1>2, LeftKeepsCommands, LeftKeepsFrames, LeftKeepsSessions DEF Next

(***************************************************************************)
(* A detector that was handed a frame belongs to a session whose bug is on *)
(* the channel; being done with the frame is to have examined it.          *)
(***************************************************************************)
LEMMA DetectorRounds ==
  ASSUME IInv, LeftAreDone, NEW s \in Sessions, NEW d \in All, DetectorGoesOn(s, d)
  PROVE  Rounds!Next \/ UNCHANGED Rounds!vars
<1>1. /\ UNCHANGED <<at, cur, idx, life, beep, exit>>
      /\ ThreadsOf(s) /\ RoundOf(s)
  BY Parts DEF ThreadsAgree, RoundsAgree, DetectorGoesOn, DetectorStarts, DetectorSleeps,
     DetectorExits, DetectorLags, DetectorTakes, DetectorDone, DetectorSignals, session, where
<1>2. SameFrame /\ \A t \in Sessions : InRound(t)' <=> InRound(t)
  BY <1>1 DEF SameFrame, InRound
<1>3. CASE DetectorStarts(s, d) \/ DetectorSleeps(s, d) \/ DetectorTakes(s, d)
           \/ DetectorSignals(s, d)
  <2>1. UNCHANGED <<done, verdict>>
    BY <1>3 DEF DetectorStarts, DetectorSleeps, DetectorTakes, DetectorSignals, Taken
  <2> QED BY <1>1, <1>2, <2>1, QuietStep DEF Quiet, Opened
<1>4. CASE DetectorExits(s, d)
  <2>1. d \in exit[s] /\ done' = [done EXCEPT ![s] = @ \union {d}] /\ UNCHANGED verdict
    BY <1>4 DEF DetectorExits
  <2>2. \A t \in Sessions : Owes(t)' = Owes(t)
    BY <1>1, <2>1, Parts DEF Owes, Opened, DetectorsOf, Size, TypeOK
  <2>3. \A t \in Sessions : SameRound(t)
    BY <1>1, <1>2, <2>1, <2>2
    DEF SameRound, Stage, ToDo, Opened, HasVerdict, DetectorsOf, Size
  <2> QED BY <1>1, <2>1, <2>3, RoundsStutter
<1>5. CASE DetectorLags(s, d) \/ DetectorDone(s, d)
  <2>1. /\ d \notin done[s] \union exit[s] /\ thread[s][d] # "none"
        /\ done' = [done EXCEPT ![s] = @ \union {d}]
        /\ verdict' = verdict \/ verdict' = [verdict EXCEPT ![s] = @ \union {d}]
    <3>1. CASE DetectorLags(s, d)
      BY <3>1 DEF DetectorLags, Handed
    <3>2. CASE DetectorDone(s, d)
      <4>1. d \in DetectorsOf(s)
        BY <1>1, <3>2 DEF DetectorDone, ThreadsOf
      <4>2. PICK found \in SUBSET {d} : verdict' = [verdict EXCEPT ![s] = @ \union found]
        BY <3>2 DEF DetectorDone
      <4>3. verdict' = verdict \/ verdict' = [verdict EXCEPT ![s] = @ \union {d}]
        <5>1. CASE found = {}
          <6>1. verdict' = [verdict EXCEPT ![s] = @]
            BY <4>2, <5>1
          <6> QED BY <6>1, Parts DEF TypeOK
        <5>2. CASE found = {d}
          BY <4>2, <5>2
        <5> QED BY <4>2, <5>1, <5>2
      <4> QED BY <1>1, <3>2, <4>1, <4>3 DEF DetectorDone, RoundOf
    <3> QED BY <1>5, <3>1, <3>2
  <2>2. d \in DetectorsOf(s) /\ life[s] = "attached"
    BY <1>1, <2>1 DEF ThreadsOf, RoundOf
  <2>3. /\ Stage(s)' = Stage(s) /\ Opened(s) /\ Opened(s)' /\ d \in Owes(s)
    BY <1>1, <1>2, <2>1, <2>2 DEF Stage, Opened, Owes
  <2>4. Owes(s)' = Owes(s) \ {d}
    BY <1>1, <2>1, <2>3, Parts DEF Owes, DetectorsOf, Size, TypeOK
  <2>5. \A t \in Sessions \ {s} : verdict'[t] = verdict[t] /\ done'[t] = done[t]
    BY <2>1, Parts DEF TypeOK
  <2>6. ToDo(s)' = ToDo(s)
    <3>1. CASE ~(InRound(s) /\ at[Media] = "handing")
      BY <1>1, <1>2, <3>1 DEF ToDo
    <3>2. CASE InRound(s) /\ at[Media] = "handing"
      <4>1. ~(idx[Media] <= d)
        BY <2>1, <2>2, <3>2 DEF LeftAreDone, InRound
      <4> QED BY <1>1, <1>2, <2>1, <3>2, <4>1, Parts
          DEF ToDo, HasVerdict, DetectorsOf, Size, TypeOK
    <3> QED BY <3>1, <3>2
  <2>7. OthersSame(s)
    BY <1>1, <1>2, <2>5 DEF OthersSame, SameRound, Stage, ToDo, Owes, Opened, HasVerdict,
       DetectorsOf, Size
  <2> QED BY <1>1, <2>1, <2>3, <2>4, <2>6, <2>7, Examines
<1> QED BY <1>3, <1>4, <1>5 DEF DetectorGoesOn


\* The steps by which a command, a frame or a hangup begins.
LEMMA BeginRounds ==
  ASSUME IInv, \/ Hangup \/ StopApp \/ FunctionStop \/ StopReads
               \/ \E c \in Callers : ApiStop(c)
               \/ \E s \in Sessions : FrameBegins(s)
               \/ \E s \in Sessions, c \in Callers : ApiStart(c, s)
  PROVE  UNCHANGED Rounds!vars
<1>1. UNCHANGED <<verdict, beep, done, exit>>
  BY DEF Hangup, StopApp, FunctionStop, StopReads, ApiStop, FrameBegins, ApiStart, session,
     detectors
<1>2. SameFrame
  BY Parts, NamesFacts DEF Hangup, StopApp, FunctionStop, StopReads, ApiStop, FrameBegins,
     ApiStart, Goto, GotoOn, where, SameFrame, TypeOK
<1>3. \A t \in Sessions : (Opened(t)' <=> Opened(t)) /\ (Opened(t) => life'[t] = life[t])
  BY Parts DEF Hangup, StopApp, FunctionStop, StopReads, ApiStop, FrameBegins, ApiStart,
     LifeIs, Opened, session, TypeOK
<1> QED BY <1>1, <1>2, <1>3, QuietStep DEF Quiet

LEMMA RoundsInit == Init => Rounds!Init
<1> SUFFICES ASSUME Init PROVE Rounds!Init
  OBVIOUS
<1>1. \A s \in Sessions : life[s] = "free" /\ ~InRound(s)
  BY NamesFacts DEF Init, InRound
<1>2. \A s \in Sessions : Stage(s) = "off" /\ ToDo(s) = {} /\ Owes(s) = {} /\ ~Opened(s)
  BY <1>1 DEF Stage, ToDo, Owes, Opened
<1> QED BY <1>2 DEF Init, Rounds!Init

LEMMA RoundsNext ==
  IInv /\ LeftAreDone /\ [Next]_vars => [Rounds!Next]_(Rounds!vars)
<1> SUFFICES ASSUME IInv, LeftAreDone, [Next]_vars
             PROVE  Rounds!Next \/ UNCHANGED Rounds!vars
  OBVIOUS
<1>1. CASE UNCHANGED vars
  <2>1. UNCHANGED <<at, cur, idx, life, done, exit, verdict, beep>>
    BY <1>1 DEF vars, where, session, detectors
  <2> QED BY <2>1, QuietStep DEF Quiet, Opened, SameFrame
<1>2. CASE Hangup \/ StopApp \/ FunctionStop
  BY <1>2, BeginRounds
<1>3. ASSUME NEW a \in Actors, a # Media, CommandGoesOn(a)
      PROVE  Rounds!Next \/ UNCHANGED Rounds!vars
  BY <1>3, AddBugOpens, RemoveBugRounds, TellExitRounds, CommandRounds
  DEF CommandGoesOn, CloseGoesOn
<1>4. CASE AppGoesOn
  BY <1>3, <1>4, NamesFacts, StartRounds, BeginRounds DEF AppGoesOn, StartGoesOn
<1>5. CASE FrameGoesOn
  BY <1>5, FrameStepRounds
<1>6. ASSUME NEW c \in Callers, ApiStop(c) \/ CommandGoesOn(c)
      PROVE  Rounds!Next \/ UNCHANGED Rounds!vars
  BY <1>3, <1>6, NamesFacts, BeginRounds
<1>7. ASSUME NEW s \in Sessions, SessionNext(s)
      PROVE  Rounds!Next \/ UNCHANGED Rounds!vars
  BY <1>7, StartRounds, BeginRounds, RemoveAtHangupRounds, DetectorRounds DEF SessionNext
<1> QED BY <1>1, <1>2, <1>4, <1>5, <1>6, <1>7 DEF Next

(***************************************************************************)
(* The callback, the detector threads and their two condition variables    *)
(* implement FrameRounds: a frame is handed to each detector once, and the *)
(* next one is not inserted before all have examined it.                   *)
(***************************************************************************)
THEOREM ImplementsRounds == Spec => ImplementsFrameRounds
<1>1. Init => LeftAreDone
  BY NamesFacts DEF Init, LeftAreDone
<1>2. Spec => []LeftAreDone
  BY <1>1, IInvHolds, LeftKeeps, PTL DEF Spec
<1> QED BY <1>2, IInvHolds, RoundsInit, RoundsNext, PTL DEF Spec, ImplementsFrameRounds, Rounds!Spec

-----------------------------------------------------------------------------
(* The count of the sessions that run.                                     *)

\* Who stops a session found it in the private, so that its start was over;
\* a session that is being counted is known to its start alone.
StartsFirst ==
  /\ \A a \in Actors : at[a] \in StopSteps => life[cur[a]] \notin {"free", "made"}
  /\ at[App] \in {"making", "starting", "adding", "counting"} => cur[App] \in AppSessions
  /\ at[App] = "counting" =>
       /\ life[cur[App]] = "attached"
       /\ bug # cur[App]
       /\ \A c \in Callers : cur[c] # cur[App]

\* The sessions that are counted.
CountedSet == {s \in Sessions : Counted(s)}

\* No session of the API command was closed.
ApiOpen == \A s \in ApiSessions : life[s] # "removed"

\* There are finitely many of them, and session_n is how many.
CountInv ==
  /\ IsFiniteSet(CountedSet)
  /\ ApiOpen => session_n = Cardinality(CountedSet)

\* What is counted of a session stays as it was when actor a makes its step.
Stands(a, s) ==
  /\ life'[s] = life[s] \/ {life[s], life'[s]} \intersect {"attached", "removed"} = {}
  /\ life[s] = "attached" =>
       ((at'[a] = "counting" /\ cur'[a] = s) <=> (at[a] = "counting" /\ cur[a] = s))
  /\ life[s] = "removed" =>
       ((at'[a] \in CloseSteps /\ cur'[a] = s) <=> (at[a] \in CloseSteps /\ cur[a] = s))

\* Nobody else moves.
OthersStay(a) == \A b \in Actors \ {a} : at'[b] = at[b] /\ cur'[b] = cur[b]

\* Then the count stays, too.
LEMMA CountStays ==
  ASSUME CountInv, NEW a \in Actors, OthersStay(a), session_n' = session_n,
         \A s \in Sessions : Stands(a, s)
  PROVE  CountInv'
<1>1. ASSUME NEW s \in Sessions PROVE Counted(s)' <=> Counted(s)
  <2>1. Stands(a, s)
    OBVIOUS
  <2>2. CASE life[s] = "attached"
    BY <2>1, <2>2, NamesFacts DEF Stands, OthersStay, Counted
  <2>3. CASE life[s] = "removed"
    BY <2>1, <2>3, NamesFacts DEF Stands, OthersStay, Counted
  <2>4. CASE life[s] \notin {"attached", "removed"}
    BY <2>1, <2>4 DEF Stands, Counted
  <2> QED BY <2>2, <2>3, <2>4
<1>2. CountedSet' = CountedSet
  BY <1>1 DEF CountedSet
<1>3. ApiOpen' => ApiOpen
  BY NamesFacts DEF ApiOpen, Stands
<1> QED BY <1>2, <1>3 DEF CountInv

\* What the proof carries along.
Started == IInv /\ StartsFirst /\ CountInv

\* A session is counted by its start, that nobody else knows.
LEMMA CountSessionCounts ==
  ASSUME Started, CountSession
  PROVE  CountInv'
<1> DEFINE s == cur[App]
<1>1. /\ at[App] = "counting" /\ s \in AppSessions /\ s \in Sessions
      /\ life[s] = "attached" /\ life' = life /\ cur' = cur
      /\ at' = [at EXCEPT ![App] = "publish"]
      /\ session_n' = session_n + 1
  BY NamesFacts DEF Started, StartsFirst, CountSession, Goto, session
<1>2. TypeOK
  BY Parts DEF Started
<1>3. ~Counted(s) /\ Counted(s)'
  BY <1>1, <1>2, NamesFacts DEF Counted, TypeOK
<1>4. ASSUME NEW t \in Sessions, t # s PROVE Counted(t)' <=> Counted(t)
  BY <1>1, <1>2, <1>4, NamesFacts DEF Counted, TypeOK, CloseSteps
<1>5. CountedSet' = CountedSet \union {s} /\ s \notin CountedSet
  BY <1>1, <1>3, <1>4 DEF CountedSet
<1>6. /\ IsFiniteSet(CountedSet')
      /\ Cardinality(CountedSet') = Cardinality(CountedSet) + 1
  BY <1>5, FS_AddElement DEF Started, CountInv
<1>7. ApiOpen' => ApiOpen
  BY <1>1 DEF ApiOpen
<1> QED BY <1>1, <1>6, <1>7 DEF Started, CountInv

\* The last step of a close: its session was counted, or is one of the API command.
LEMMA UncountSessionCounts ==
  ASSUME Started, NEW a \in Actors, UncountSession(a)
  PROVE  CountInv'
<1>0. PICK s \in Sessions : s = cur[a]
  BY Working DEF Started, UncountSession
<1>1. /\ at[a] = "uncounting" /\ Busy(a, s) /\ after[a] = "uncounting"
      /\ life' = life /\ session_n' = CountedOut
      /\ cur' = [cur EXCEPT ![a] = None] /\ at' = [at EXCEPT ![a] = "idle"]
  BY <1>0, Parts DEF Started, UncountSession, Leave, session, Busy, CloseSteps, WhereAgrees
<1>2. TypeOK /\ life[s] = "removed" /\ \A b \in Actors : Busy(b, s) => a = b
  BY <1>1, Parts DEF Started, LifeAgrees, LifeFits, CloseSteps
<1>3. ASSUME NEW t \in Sessions, t # s PROVE Counted(t)' <=> Counted(t)
  <2>1. \A b \in Actors : (cur'[b] = t <=> cur[b] = t) /\ (cur[b] = t => at'[b] = at[b])
    BY <1>0, <1>1, <1>2, <1>3, NamesFacts DEF TypeOK
  <2> QED BY <1>1, <2>1, NamesFacts DEF Counted
<1>4. ~Counted(s)'
  <2>1. ASSUME NEW b \in Actors, cur'[b] = s, at'[b] \in CloseSteps PROVE FALSE
    <3>1. b # a
      BY <1>0, <1>1, <1>2, <2>1, NamesFacts DEF TypeOK
    <3>2. Busy(b, s)
      BY <1>1, <1>2, <2>1, <3>1 DEF TypeOK, Busy
    <3> QED BY <1>2, <3>1, <3>2
  <2> QED BY <1>1, <1>2, <2>1 DEF Counted
<1>5. CountedSet' = CountedSet \ {s}
  <2>1. \A t \in Sessions : Counted(t)' <=> Counted(t) /\ t # s
    BY <1>3, <1>4
  <2> QED BY <2>1 DEF CountedSet
<1>6. IsFiniteSet(CountedSet')
  BY <1>5, FS_RemoveElement DEF Started, CountInv
<1>7. CASE s \in ApiSessions
  BY <1>1, <1>2, <1>6, <1>7 DEF CountInv, ApiOpen
<1>8. CASE s \in AppSessions
  <2>1. s \in CountedSet
    BY <1>0, <1>1, <1>2, <1>8 DEF CountedSet, Counted, CloseSteps
  <2>2. Cardinality(CountedSet') = Cardinality(CountedSet) - 1
    BY <1>5, <2>1, FS_RemoveElement DEF Started, CountInv
  <2>3. Cardinality(CountedSet) \in Nat /\ Cardinality(CountedSet) # 0
    BY <2>1, FS_CardinalityType, FS_EmptySet DEF Started, CountInv
  <2>4. ApiOpen' => ApiOpen
    BY <1>1 DEF ApiOpen
  <2> QED BY <1>1, <1>6, <2>2, <2>3, <2>4 DEF Started, CountInv, CountedOut
<1> QED BY <1>1, <1>7, <1>8 DEF Sessions

\* Removing a bug leaves the session counted until its close ends.
LEMMA RemovalCounts ==
  ASSUME Started, NEW a \in Actors, NEW s \in Sessions, at[a] \in {"idle", "removing"},
         life[s] = "attached", LifeIs(s, "removed"), Close(a, s, "uncounting"),
         at[a] = "removing" => cur[a] = s, at[a] = "idle" => a = App,
         session_n' = session_n
  PROVE  CountInv'
<1>1. TypeOK /\ cur' = [cur EXCEPT ![a] = s] /\ at' = [at EXCEPT ![a] = "closing"]
      /\ life' = [life EXCEPT ![s] = "removed"]
  BY Parts DEF Started, Close, LifeIs
<1>2. CASE s \in ApiSessions
  <2>1. ~ApiOpen'
    BY <1>1, <1>2 DEF ApiOpen, TypeOK
  <2>2. CountedSet' = CountedSet
    <3>1. ASSUME NEW t \in Sessions, t # s PROVE Counted(t)' <=> Counted(t)
      BY <1>1, <3>1, NamesFacts DEF Counted, TypeOK, CloseSteps
    <3>2. s \notin AppSessions
      BY <1>2, NamesAssumption
    <3> QED BY <3>1, <3>2 DEF CountedSet, Counted
  <2> QED BY <2>1, <2>2 DEF Started, CountInv
<1>3. CASE s \in AppSessions
  <2>1. ~(at[App] = "counting" /\ cur[App] = s)
    BY <1>1, NamesFacts DEF Started, StartsFirst, IInv, WhereAgrees, FrameSteps
  <2>2. Counted(s) /\ Counted(s)'
    BY <1>1, <1>3, <2>1 DEF Counted, TypeOK, CloseSteps
  <2>3. ASSUME NEW t \in Sessions, t # s PROVE Counted(t)' <=> Counted(t)
    BY <1>1, <2>3, NamesFacts DEF Counted, TypeOK, CloseSteps
  <2>4. CountedSet' = CountedSet
    BY <2>2, <2>3 DEF CountedSet
  <2>5. ApiOpen' => ApiOpen
    BY <1>1, <1>3, NamesAssumption DEF ApiOpen, TypeOK, Sessions
  <2> QED BY <2>4, <2>5 DEF Started, CountInv
<1> QED BY <1>2, <1>3 DEF Sessions

\* A command, other than the steps that count and that remove a bug.
LEMMA CommandCounts ==
  ASSUME Started, NEW a \in Actors, a # Media, CommandGoesOn(a)
  PROVE  CountInv'
<1> USE NamesFacts, Parts DEF Started
<1>0. TypeOK /\ CountInv
  OBVIOUS
<1>1. CASE AddBug(a)
  <2>1. at[a] = "adding" /\ cur[a] \in Sessions /\ life[cur[a]] = "made"
    BY <1>1, Working DEF AddBug, LifeAgrees, LifeFits, Busy, OpenSteps
  <2>2. a # App => cur[a] \in ApiSessions
    BY <2>1 DEF WhereAgrees
  <2>3. a = App => cur[a] \in AppSessions
    BY <2>1 DEF StartsFirst
  <2>4. /\ life' = [life EXCEPT ![cur[a]] = "attached"] /\ cur' = cur
        /\ at' = [at EXCEPT ![a] = IF a = App THEN "counting" ELSE "publish"]
        /\ session_n' = session_n
    BY <1>1 DEF AddBug, LifeIs, Goto, module
  <2>5. ASSUME NEW s \in Sessions PROVE Counted(s)' <=> Counted(s)
    <3>1. CASE s = cur[a]
      BY <2>1, <2>2, <2>3, <2>4, <3>1, <1>0, NamesAssumption DEF Counted, TypeOK, CloseSteps
    <3>2. CASE s # cur[a]
      BY <2>1, <2>4, <3>2, <1>0 DEF Counted, TypeOK, CloseSteps
    <3> QED BY <3>1, <3>2
  <2>6. CountedSet' = CountedSet
    BY <2>5 DEF CountedSet
  <2>7. ApiOpen' => ApiOpen
    BY <2>1, <2>4, <1>0 DEF ApiOpen, TypeOK
  <2> QED BY <2>4, <2>6, <2>7 DEF CountInv
<1>2. CASE AddBugFails(a)
  <2>1. at[a] = "adding" /\ cur[a] \in Sessions /\ life[cur[a]] = "made"
    BY <1>2, Working DEF AddBugFails, LifeAgrees, LifeFits, Busy, OpenSteps
  <2>2. /\ OthersStay(a) /\ session_n' = session_n /\ at'[a] # "counting"
        /\ cur'[a] \in {cur[a], None} /\ life' = [life EXCEPT ![cur[a]] = "failed"]
    BY <1>2, <1>0 DEF AddBugFails, Close, Leave, LifeIs, OthersStay, TypeOK
  <2>3. \A s \in Sessions : Stands(a, s)
    BY <2>1, <2>2, <1>0 DEF Stands, TypeOK, CloseSteps
  <2> QED BY <2>2, <2>3, <1>0, CountStays
<1>3. CASE PublishBug(a)
  <2>1. OthersStay(a) /\ session_n' = session_n
    BY <1>3, <1>0 DEF PublishBug, Leave, OthersStay, TypeOK
  <2>2. \A s \in Sessions : Stands(a, s)
    BY <1>3, <1>0 DEF PublishBug, Leave, Stands, TypeOK, CloseSteps
  <2> QED BY <2>1, <2>2, <1>0, CountStays
<1>4. CASE ClearPrivate(a)
  <2>1. OthersStay(a) /\ session_n' = session_n
    BY <1>4, <1>0 DEF ClearPrivate, Goto, OthersStay, TypeOK, module
  <2>2. \A s \in Sessions : Stands(a, s)
    BY <1>4, <1>0 DEF ClearPrivate, Goto, Stands, TypeOK, CloseSteps, session
  <2> QED BY <2>1, <2>2, <1>0, CountStays
<1>5. CASE RemoveBug(a)
  <2>1. CASE life[cur[a]] = "attached"
    BY <1>5, <2>1, Working, RemovalCounts DEF RemoveBug
  <2>2. CASE life[cur[a]] # "attached"
    <3>1. OthersStay(a) /\ session_n' = session_n
      BY <1>5, <2>2, <1>0 DEF RemoveBug, Leave, OthersStay, TypeOK
    <3>2. \A s \in Sessions : Stands(a, s)
      BY <1>5, <2>2, <1>0 DEF RemoveBug, Leave, Stands, TypeOK, CloseSteps
    <3> QED BY <3>1, <3>2, <1>0, CountStays
  <2> QED BY <2>1, <2>2
<1>6. CASE CloseLocks(a) \/ Await(a) \/ CloseBegins(a) \/ TellExit(a) \/ JoinThread(a)
  <2>1. /\ cur' = cur /\ life' = life /\ session_n' = session_n
        /\ \A b \in Actors \ {a} : at'[b] = at[b]
        /\ at'[a] \in CloseSteps /\ at[a] \in CloseSteps
    BY <1>6, <1>0
    DEF CloseLocks, Await, CloseBegins, TellExit, JoinThread, Goto, Loop, Round, WhereAgrees,
        FrameSteps, CloseSteps, TypeOK, module, session, where
  <2>2. OthersStay(a) /\ \A s \in Sessions : Stands(a, s)
    BY <2>1 DEF OthersStay, Stands, CloseSteps
  <2> QED BY <2>1, <2>2, <1>0, CountStays
<1>7. CASE ThreadsJoined(a)
  <2>1. /\ at[a] = "telling" /\ cur[a] \in Sessions /\ Busy(a, cur[a])
        /\ LifeFits(a, cur[a]) /\ session_n' = session_n /\ OthersStay(a)
    BY <1>7, <1>0, Working
    DEF ThreadsJoined, Goto, Leave, OthersStay, TypeOK, module, LifeAgrees, Busy, CloseSteps
  <2>2. ASSUME NEW s \in Sessions PROVE Stands(a, s)
    <3>1. CASE after[a] = "uncounting"
      BY <1>7, <2>1, <3>1, <1>0 DEF ThreadsJoined, Goto, Stands, TypeOK, CloseSteps
    <3>2. CASE after[a] # "uncounting"
      <4>1. life[cur[a]] \in {"made", "failed"}
        BY <2>1, <3>2, <1>0 DEF LifeFits, CloseSteps, TypeOK
      <4> QED BY <1>7, <2>1, <3>2, <4>1, <1>0
          DEF ThreadsJoined, Leave, LifeIs, Stands, TypeOK, CloseSteps
    <3> QED BY <3>1, <3>2
  <2> QED BY <2>1, <2>2, <1>0, CountStays
<1>8. CASE UncountSession(a)
  BY <1>8, UncountSessionCounts
<1> QED BY <1>1, <1>2, <1>3, <1>4, <1>5, <1>6, <1>7, <1>8 DEF CommandGoesOn, CloseGoesOn

\* The start of the application, up to the bug.
LEMMA StartCounts ==
  ASSUME Started, StartRefused \/ InitSession \/ LaunchThreads \/ StopReads \/ StopApp
                  \/ FunctionStop \/ \E s \in Sessions : StartApp(s)
  PROVE  CountInv'
<1> USE NamesFacts, Parts DEF Started
<1>0. TypeOK /\ CountInv
  OBVIOUS
<1>1. CASE StartRefused
  <2>1. cur[App] \in Sessions /\ life[cur[App]] = "made"
    BY <1>1, Working DEF StartRefused, LifeAgrees, LifeFits, Busy, OpenSteps
  <2>2. OthersStay(App) /\ session_n' = session_n
    BY <1>1, <1>0 DEF StartRefused, Leave, OthersStay, TypeOK, module
  <2>3. \A s \in Sessions : Stands(App, s)
    BY <1>1, <2>1, <1>0 DEF StartRefused, Leave, LifeIs, Stands, TypeOK, CloseSteps
  <2> QED BY <2>2, <2>3, <1>0, CountStays
<1>2. CASE InitSession \/ StopReads
  <2>1. OthersStay(App) /\ session_n' = session_n
    BY <1>2, <1>0 DEF InitSession, StopReads, Goto, OthersStay, TypeOK, module
  <2>2. \A s \in Sessions : Stands(App, s)
    BY <1>2, <1>0 DEF InitSession, StopReads, Goto, Stands, TypeOK, CloseSteps, session
  <2> QED BY <2>1, <2>2, <1>0, CountStays
<1>3. CASE LaunchThreads
  <2>1. at[App] = "starting" /\ cur[App] \in Sessions /\ life[cur[App]] = "made"
    BY <1>3, Working DEF LaunchThreads, LifeAgrees, LifeFits, Busy, OpenSteps
  <2>2. OthersStay(App) /\ session_n' = session_n /\ life' = life /\ cur' = cur
        /\ at'[App] # "counting"
    BY <1>3, <1>0 DEF LaunchThreads, Goto, OthersStay, TypeOK, module
  <2>3. \A s \in Sessions : Stands(App, s)
    BY <2>1, <2>2, <1>0 DEF Stands
  <2> QED BY <2>2, <2>3, <1>0, CountStays
<1>4. CASE StopApp \/ FunctionStop
  <2>1. OthersStay(App) /\ session_n' = session_n
    BY <1>4, <1>0 DEF StopApp, FunctionStop, GotoOn, OthersStay, TypeOK, module
  <2>2. \A s \in Sessions : Stands(App, s)
    BY <1>4, <1>0 DEF StopApp, FunctionStop, GotoOn, Stands, TypeOK, CloseSteps, session
  <2> QED BY <2>1, <2>2, <1>0, CountStays
<1>5. ASSUME NEW s \in Sessions, StartApp(s) PROVE CountInv'
  <2>1. OthersStay(App) /\ session_n' = session_n
    BY <1>5, <1>0 DEF StartApp, GotoOn, OthersStay, TypeOK, module
  <2>2. \A t \in Sessions : Stands(App, t)
    BY <1>5, <1>0 DEF StartApp, GotoOn, LifeIs, Stands, TypeOK, CloseSteps
  <2> QED BY <2>1, <2>2, <1>0, CountStays
<1> QED BY <1>1, <1>2, <1>3, <1>4, <1>5

\* A frame counts nothing.
LEMMA FrameCounts ==
  ASSUME Started, FrameGoesOn \/ \E s \in Sessions : FrameBegins(s)
  PROVE  CountInv'
<1> USE NamesFacts, Parts DEF Started
<1>0. TypeOK /\ CountInv
  OBVIOUS
<1>1. /\ OthersStay(Media) /\ session_n' = session_n /\ life' = life
      /\ at[Media] \in {"idle"} \union FrameSteps /\ at'[Media] \in {"idle"} \union FrameSteps
  <2>1. at[Media] \in {"idle"} \union FrameSteps
    BY DEF WhereAgrees
  <2>2. CASE FrameLocks \/ Await(Media) \/ HandOver \/ AllHanded
    BY <2>1, <2>2, <1>0
    DEF FrameLocks, Await, HandOver, AllHanded, Goto, Round, OthersStay, TypeOK, FrameSteps,
        module, session, where
  <2>3. CASE FrameInserted \/ Collect
    BY <2>1, <2>3, <1>0
    DEF FrameInserted, Collect, Leave, Loop, OthersStay, TypeOK, FrameSteps, module
  <2>4. CASE \E s \in Sessions : FrameBegins(s)
    BY <2>1, <2>4, <1>0 DEF FrameBegins, GotoOn, OthersStay, TypeOK, FrameSteps, module, session
  <2> QED BY <2>2, <2>3, <2>4 DEF FrameGoesOn
<1>2. \A s \in Sessions : Stands(Media, s)
  BY <1>1 DEF Stands, FrameSteps, CloseSteps
<1> QED BY <1>0, <1>1, <1>2, CountStays

\* The API command starts and stops.
LEMMA ApiCounts ==
  ASSUME Started, NEW c \in Callers, ApiStop(c) \/ \E s \in Sessions : ApiStart(c, s)
  PROVE  CountInv'
<1> USE NamesFacts, Parts DEF Started
<1>0. TypeOK /\ CountInv
  OBVIOUS
<1>1. OthersStay(c) /\ session_n' = session_n
  BY <1>0 DEF ApiStop, ApiStart, GotoOn, OthersStay, TypeOK
<1>2. \A t \in Sessions : Stands(c, t)
  BY <1>0 DEF ApiStop, ApiStart, GotoOn, LifeIs, Stands, TypeOK, CloseSteps, session
<1> QED BY <1>0, <1>1, <1>2, CountStays

\* One step of anybody.
LEMMA CountKeeps == Started /\ [Next]_vars => CountInv'
<1> SUFFICES ASSUME Started, [Next]_vars PROVE CountInv'
  OBVIOUS
<1>0. IInv /\ CountInv
  BY DEF Started
<1>1. CASE Hangup \/ UNCHANGED vars
  BY <1>0, <1>1
  DEF Hangup, vars, channel, module, session, detectors, where, CountInv, ApiOpen, CountedSet,
      Counted
<1>2. CASE StopApp \/ FunctionStop
  BY <1>2, StartCounts
<1>3. CASE AppGoesOn
  BY <1>3, NamesFacts, StartCounts, CommandCounts, CountSessionCounts
  DEF AppGoesOn, StartGoesOn
<1>4. CASE FrameGoesOn
  BY <1>4, FrameCounts
<1>5. ASSUME NEW c \in Callers, ApiStop(c) \/ CommandGoesOn(c) PROVE CountInv'
  BY <1>5, NamesFacts, ApiCounts, CommandCounts
<1>6. ASSUME NEW s \in Sessions, SessionNext(s) PROVE CountInv'
  <2>1. CASE RemoveAtHangup(s)
    BY <2>1, NamesFacts, RemovalCounts DEF RemoveAtHangup, module
  <2>2. ASSUME NEW d \in All, DetectorGoesOn(s, d) PROVE CountInv'
    <3>1. PICK x \in ThreadSteps : DetectorMoves(s, d, x)
      BY <1>0, <2>2, DetectorMovesOn
    <3> QED BY <1>0, <3>1
        DEF DetectorMoves, module, session, where, CountInv, ApiOpen, CountedSet, Counted
  <2> QED BY <1>6, <2>1, <2>2, StartCounts, FrameCounts, ApiCounts DEF SessionNext
<1> QED BY <1>1, <1>2, <1>3, <1>4, <1>5, <1>6 DEF Next

\* The facts about a session's start, when only actor a moves and the bug stays.
LEMMA StartsFirstStays ==
  ASSUME IInv, StartsFirst, NEW a \in Actors, OthersStay(a), bug' = bug,
         \A s \in Sessions : life[s] \notin {"free", "made"} => life'[s] \notin {"free", "made"},
         at[App] = "counting" => life'[cur[App]] = "attached",
         at'[a] \in StopSteps => life'[cur'[a]] \notin {"free", "made"},
         at'[App] # "counting" \/ a # App,
         a = App /\ at'[App] \in {"making", "starting", "adding"} => cur'[App] \in AppSessions,
         a \in Callers => cur'[a] # cur[App] \/ at[App] # "counting"
  PROVE  StartsFirst'
<1>1. \A b \in Actors : at[b] # "idle" => cur[b] \in Sessions
  BY Working
<1> QED BY <1>1, NamesFacts DEF StartsFirst, OthersStay, StopSteps

\* A command: a bug is added to a session that only its start knows.
LEMMA CommandStartsFirst ==
  ASSUME IInv, StartsFirst, NEW a \in Actors, a # Media, CommandGoesOn(a)
  PROVE  StartsFirst'
<1> USE NamesFacts, Parts
<1>0. TypeOK /\ cur[a] \in Sessions /\ at[a] # "idle"
  <2>1. at[a] # "idle"
    BY DEF CommandGoesOn, CloseGoesOn, AddBug, AddBugFails, PublishBug, ClearPrivate, RemoveBug,
       CloseLocks, Await, CloseBegins, TellExit, JoinThread, ThreadsJoined, UncountSession
  <2> QED BY <2>1, Working
<1>00. a # App /\ at[App] = "counting" => cur[a] # cur[App]
  BY DEF StartsFirst
<1>1. CASE AddBug(a)
  <2>1. /\ at[a] = "adding" /\ life[cur[a]] = "made"
        /\ \A b \in Actors : Busy(b, cur[a]) => a = b
    BY <1>0, <1>1 DEF AddBug, LifeAgrees, LifeFits, Busy, OpenSteps
  <2>2. /\ life' = [life EXCEPT ![cur[a]] = "attached"] /\ cur' = cur /\ bug' = bug
        /\ at' = [at EXCEPT ![a] = IF a = App THEN "counting" ELSE "publish"]
    BY <1>1 DEF AddBug, LifeIs, Goto, channel
  <2>3. CASE a # App
    BY <1>0, <1>00, <2>1, <2>2, <2>3 DEF StartsFirst, TypeOK, StopSteps
  <2>4. CASE a = App
    <3>1. bug # cur[App]
      BY <2>1, <2>4, <1>0 DEF LifeAgrees
    <3>2. ASSUME NEW c \in Callers, cur[c] = cur[App] PROVE FALSE
      <4>1. at[c] # "idle" /\ ~Busy(c, cur[App]) /\ at[c] \notin FrameSteps
        BY <1>0, <2>1, <2>4, <3>2 DEF WhereAgrees
      <4>2. at[c] \in StopSteps \union {"publish"}
        BY <4>1, <1>0, <3>2
        DEF TypeOK, Busy, OpenSteps, StartSteps, StopSteps, CloseSteps, WhereAgrees, AppSteps
      <4> QED BY <4>2, <2>1, <2>4, <3>2 DEF StartsFirst, LifeAgrees
    <3>3. cur[App] \in AppSessions
      BY <2>1, <2>4 DEF StartsFirst
    <3> QED BY <1>0, <2>1, <2>2, <2>4, <3>1, <3>2, <3>3 DEF StartsFirst, TypeOK, StopSteps
  <2> QED BY <2>3, <2>4
<1>2. CASE AddBugFails(a)
  <2>1. at[a] = "adding" /\ life[cur[a]] = "made"
    BY <1>0, <1>2 DEF AddBugFails, LifeAgrees, LifeFits, Busy, OpenSteps
  <2>2. /\ life' = [life EXCEPT ![cur[a]] = "failed"] /\ bug' = bug
        /\ OthersStay(a) /\ at'[a] \in {"idle", "closing"} /\ cur'[a] \in {cur[a], None}
    BY <1>0, <1>2 DEF AddBugFails, LifeIs, Close, Leave, OthersStay, TypeOK, channel
  <2>3. at[App] = "counting" => life'[cur[App]] = "attached"
    BY <1>0, <2>1, <2>2 DEF StartsFirst, TypeOK
  <2>4. a \in Callers => cur'[a] # cur[App] \/ at[App] # "counting"
    BY <1>0, <1>00, <2>2, Working
  <2> QED BY <1>0, <2>2, <2>3, <2>4, StartsFirstStays DEF TypeOK, StopSteps
<1>3. CASE PublishBug(a)
  <2>1. /\ at[a] = "publish" /\ bug' = cur[a] /\ life' = life
        /\ at' = [at EXCEPT ![a] = "idle"] /\ cur' = [cur EXCEPT ![a] = None]
    BY <1>3 DEF PublishBug, Leave
  <2>2. at[App] = "counting" => cur[App] \in Sessions
    BY Working
  <2> QED BY <1>0, <1>00, <2>1, <2>2 DEF StartsFirst, TypeOK, StopSteps
<1>4. CASE ClearPrivate(a)
  <2>1. /\ at[a] = "clearing" /\ bug' = None /\ life' = life
        /\ at' = [at EXCEPT ![a] = "removing"] /\ cur' = cur
    BY <1>4 DEF ClearPrivate, Goto, session
  <2>2. at[App] = "counting" => cur[App] \in Sessions
    BY Working
  <2> QED BY <1>0, <1>00, <2>1, <2>2 DEF StartsFirst, TypeOK, StopSteps
<1>5. CASE RemoveBug(a)
  <2>1. /\ at[a] = "removing" /\ bug' = bug
        /\ OthersStay(a) /\ at'[a] \in {"idle", "closing"} /\ cur'[a] \in {cur[a], None}
        /\ life' \in {life, [life EXCEPT ![cur[a]] = "removed"]}
    BY <1>0, <1>5 DEF RemoveBug, LifeIs, Close, Leave, OthersStay, TypeOK, channel
  <2>2. at[App] = "counting" => life'[cur[App]] = "attached"
    BY <1>0, <1>00, <2>1 DEF StartsFirst, TypeOK
  <2>3. a \in Callers => cur'[a] # cur[App] \/ at[App] # "counting"
    BY <1>0, <1>00, <2>1, Working
  <2> QED BY <1>0, <2>1, <2>2, <2>3, StartsFirstStays DEF TypeOK, StopSteps
<1>6. CASE CloseGoesOn(a)
  <2>1. /\ at[a] \in CloseSteps /\ bug' = bug
        /\ OthersStay(a) /\ at'[a] \in CloseSteps \union {"idle"} /\ cur'[a] \in {cur[a], None}
        /\ life' \in {life, [life EXCEPT ![cur[a]] = "failed"]}
    <3>1. CASE CloseLocks(a) \/ Await(a) \/ CloseBegins(a) \/ TellExit(a) \/ JoinThread(a)
      BY <1>0, <3>1
      DEF CloseLocks, Await, CloseBegins, TellExit, JoinThread, Goto, Loop, Round, WhereAgrees,
          FrameSteps, CloseSteps, TypeOK, channel, session, where, OthersStay
    <3>2. CASE ThreadsJoined(a) \/ UncountSession(a)
      BY <1>0, <3>2
      DEF ThreadsJoined, UncountSession, Goto, Leave, LifeIs, CloseSteps, TypeOK, channel,
          session, OthersStay
    <3> QED BY <1>6, <3>1, <3>2 DEF CloseGoesOn
  <2>2. at[App] = "counting" => life'[cur[App]] = "attached"
    BY <1>0, <1>00, <2>1 DEF StartsFirst, TypeOK, CloseSteps
  <2>3. a \in Callers => cur'[a] # cur[App] \/ at[App] # "counting"
    BY <1>0, <1>00, <2>1, Working
  <2> QED BY <1>0, <2>1, <2>2, <2>3, StartsFirstStays DEF TypeOK, StopSteps, CloseSteps
<1> QED BY <1>1, <1>2, <1>3, <1>4, <1>5, <1>6 DEF CommandGoesOn

\* One step of anybody.
LEMMA StartsFirstKeeps == IInv /\ StartsFirst /\ [Next]_vars => StartsFirst'
<1> SUFFICES ASSUME IInv, StartsFirst, [Next]_vars PROVE StartsFirst'
  OBVIOUS
<1> USE NamesFacts, Parts
<1>0. TypeOK
  OBVIOUS
<1>1. CASE Hangup \/ UNCHANGED vars
  BY <1>1
  DEF Hangup, vars, channel, module, session, detectors, where, StartsFirst, StopSteps
<1>2. CASE StopApp \/ FunctionStop
  <2>1. bug \in Sessions /\ life[bug] \notin {"free", "made"}
    BY <1>2 DEF StopApp, FunctionStop, LifeAgrees, TypeOK
  <2>2. /\ at[App] = "idle" /\ bug' = bug /\ life' = life /\ OthersStay(App)
        /\ at'[App] \in StopSteps /\ cur'[App] = bug
    BY <1>0, <1>2
    DEF StopApp, FunctionStop, GotoOn, OthersStay, TypeOK, StopSteps, channel, session
  <2> QED BY <2>1, <2>2, StartsFirstStays DEF StopSteps
<1>3. CASE StartRefused
  <2>1. cur[App] \in Sessions
    BY <1>3, Working DEF StartRefused
  <2> QED BY <1>0, <1>3, <2>1
      DEF StartRefused, Leave, LifeIs, StartsFirst, TypeOK, StopSteps, channel
<1>4. CASE InitSession \/ CountSession \/ StopReads
  BY <1>0, <1>4
  DEF InitSession, CountSession, StopReads, Goto, StartsFirst, TypeOK, StopSteps, channel, session
<1>5. CASE LaunchThreads
  <2>1. /\ at[App] = "starting" /\ life' = life /\ cur' = cur /\ bug' = bug /\ OthersStay(App)
        /\ at'[App] \in {"adding", "telling"}
    BY <1>0, <1>5 DEF LaunchThreads, Goto, OthersStay, TypeOK, channel
  <2> QED BY <1>0, <2>1 DEF OthersStay, StartsFirst, StopSteps
<1>6. CASE AppGoesOn
  BY <1>3, <1>4, <1>5, <1>6, CommandStartsFirst DEF AppGoesOn, StartGoesOn
<1>7. ASSUME FrameGoesOn \/ \E s \in Sessions : FrameBegins(s) PROVE StartsFirst'
  <2>1. /\ OthersStay(Media) /\ bug' = bug /\ life' = life
        /\ at'[Media] \in {"idle"} \union FrameSteps
    <3>1. at[Media] \in {"idle"} \union FrameSteps
      BY DEF WhereAgrees
    <3>2. CASE FrameLocks \/ Await(Media) \/ HandOver \/ AllHanded
      BY <3>1, <3>2, <1>0
      DEF FrameLocks, Await, HandOver, AllHanded, Goto, Round, OthersStay, TypeOK, FrameSteps,
          channel, session, where
    <3>3. CASE FrameInserted \/ Collect
      BY <3>1, <3>3, <1>0
      DEF FrameInserted, Collect, Leave, Loop, OthersStay, TypeOK, FrameSteps, channel
    <3>4. CASE \E s \in Sessions : FrameBegins(s)
      BY <3>1, <3>4, <1>0
      DEF FrameBegins, GotoOn, OthersStay, TypeOK, FrameSteps, channel, session
    <3> QED BY <1>7, <3>2, <3>3, <3>4 DEF FrameGoesOn
  <2> QED BY <1>0, <2>1 DEF StartsFirst, OthersStay, FrameSteps, StopSteps
<1>8. ASSUME NEW c \in Callers, ApiStop(c) PROVE StartsFirst'
  <2>1. bug \in Sessions /\ life[bug] \notin {"free", "made"}
    BY <1>8 DEF ApiStop, LifeAgrees, TypeOK
  <2> QED BY <1>0, <1>8, <2>1
      DEF ApiStop, GotoOn, StartsFirst, TypeOK, StopSteps, channel, session
<1>9. ASSUME NEW s \in Sessions, SessionNext(s) PROVE StartsFirst'
  <2>1. CASE StartApp(s)
    BY <1>0, <2>1, Working DEF StartApp, GotoOn, LifeIs, StartsFirst, TypeOK, StopSteps, channel
  <2>2. CASE RemoveAtHangup(s)
    BY <1>0, <2>2, Working
    DEF RemoveAtHangup, Close, LifeIs, StartsFirst, TypeOK, StopSteps, channel
  <2>3. ASSUME NEW c \in Callers, ApiStart(c, s) PROVE StartsFirst'
    BY <1>0, <2>3, Working, NamesAssumption
    DEF ApiStart, GotoOn, LifeIs, StartsFirst, TypeOK, StopSteps, channel
  <2>4. ASSUME NEW d \in All, DetectorGoesOn(s, d) PROVE StartsFirst'
    <3>1. PICK x \in ThreadSteps : DetectorMoves(s, d, x)
      BY <2>4, DetectorMovesOn
    <3> QED BY <3>1 DEF DetectorMoves, channel, session, where, StartsFirst
  <2> QED BY <1>7, <1>9, <2>1, <2>2, <2>3, <2>4 DEF SessionNext
<1> QED BY <1>1, <1>2, <1>6, <1>7, <1>8, <1>9, CommandStartsFirst DEF Next

(***************************************************************************)
(* avmd_globals.session_n is the number of the sessions that run, for any  *)
(* number of sessions, detectors and commands, as long as no session of    *)
(* the API command was closed.                                             *)
(***************************************************************************)
THEOREM SessionsCountedHolds == Spec => []SessionsCounted
<1>1. Init => Started
  <2> SUFFICES ASSUME Init PROVE Started
    OBVIOUS
  <2>1. CountedSet = {} /\ session_n = 0
    BY DEF Init, CountedSet, Counted
  <2>2. CountInv
    BY <2>1, FS_EmptySet DEF CountInv
  <2>3. StartsFirst
    BY NamesFacts DEF Init, StartsFirst, StopSteps
  <2> QED BY <2>2, <2>3, InitHolds DEF Started
<1>2. Started /\ [Next]_vars => Started'
  BY CountKeeps, StartsFirstKeeps, NextKeeps DEF Started
<1>3. Started => SessionsCounted
  BY DEF Started, CountInv, ApiOpen, CountedSet, SessionsCounted
<1> QED BY <1>1, <1>2, <1>3, PTL DEF Spec
=============================================================================
