-------------------------------- MODULE Avmd --------------------------------
(***************************************************************************)
(* mod_avmd on one channel (mod_avmd.new.c): the commands that start and   *)
(* stop the detection, the callback that hands each frame to the detector  *)
(* threads and collects what they found, and those threads.  The settings  *)
(* are not told apart: whether they let a start go on is a free choice.    *)
(*                                                                         *)
(* FreeSWITCH is external: adding and removing a bug wait until no         *)
(* callback runs on the channel (bug_rwlock), removing one runs its CLOSE  *)
(* callback if it was still there, and frames may come on another thread   *)
(* than the one that runs the applications (WRITE_REPLACE).                *)
(*                                                                         *)
(* A critical section under d->mutex holds nothing else and waits only at  *)
(* its head, so it is one step.  A search for a detector that is not done  *)
(* (avmd_detection_in_progress) is one step too: while it looks, detectors *)
(* only become done.                                                       *)
(***************************************************************************)
EXTENDS Naturals, FiniteSets

CONSTANTS
  AppSessions,    \* the avmd sessions the application allocates
  ApiSessions,    \* those the API command allocates
  DetectorsN,     \* settings.detectors_n
  LaggedN,        \* settings.detectors_lagged_n
  FrameSamples,   \* samples in a frame, with AVMD_P as the unit
  BufferSamples,  \* samples in the circular buffer, same unit
  App,            \* the session's thread: applications, and bugs at hangup
  Media,          \* the thread that delivers frames
  Callers,        \* the threads that run the API command
  None            \* NULL

Sessions == AppSessions \union ApiSessions

Actors == Callers \union {App, Media}

ASSUME DetectorsAssumption == DetectorsN \in Nat /\ LaggedN \in Nat

ASSUME BufferAssumption == FrameSamples \in Nat \ {0} /\ BufferSamples \in Nat \ {0}

ASSUME NamesAssumption ==
  /\ App # Media
  /\ {App, Media} \intersect Callers = {}
  /\ AppSessions \intersect ApiSessions = {}
  /\ None \notin Actors \union Sessions

VARIABLES
  up,         \* the channel is not hung up
  bug,        \* the channel's private "_avmd_"
  globals,    \* who holds avmd_globals.mutex
  session_n,  \* avmd_globals.session_n
  life,       \* its bug: "free", "made", "attached", "removed", "failed"
  holder,     \* who holds s->mutex
  destroyed,  \* s->mutex was destroyed
  beep,       \* s->state.beep_state = BEEP_DETECTED
  frame_n,    \* s->frame_n, up to 1
  pos,        \* s->pos
  asleep,     \* somebody waits for cond_detectors_done
  done,       \* the detectors with flag_processing_done = 1
  exit,       \* the detectors with flag_should_exit = 1
  verdict,    \* the detectors with a result
  lag,        \* d->lag
  thread,     \* where the detector's thread is
  dpos,       \* its local variable pos
  at,         \* where each actor is
  cur,        \* the session it works on
  after,      \* where it goes when the detectors are joined
  idx         \* the detector its loop is at

channel == <<up, bug>>
module == <<globals, session_n>>
session == <<life, holder, destroyed, beep, frame_n, pos>>
detectors == <<asleep, done, exit, verdict, lag, thread, dpos>>
where == <<at, cur, after, idx>>
vars == <<channel, module, session, detectors, where>>

All == 1..(DetectorsN + LaggedN)

\* The API command gives its session no settings, hence no detector.
Size(s) == IF s \in AppSessions THEN DetectorsN + LaggedN ELSE 0

DetectorsOf(s) == 1..Size(s)

ThreadSteps == {"none", "starting", "ready", "asleep", "examining", "signalling", "ended"}
StartSteps == {"making", "starting", "adding", "counting", "publish"}
StopSteps == {"reading", "clearing", "removing"}
CloseSteps == {"closing", "awaiting", "telling", "joining", "uncounting"}
FrameSteps == {"frame", "settling", "handing", "collecting"}

TypeOK ==
  /\ up \in BOOLEAN
  /\ bug \in Sessions \union {None}
  /\ globals \in Actors \union {None}
  /\ session_n \in Nat
  /\ life \in [Sessions -> {"free", "made", "attached", "removed", "failed"}]
  /\ holder \in [Sessions -> Actors \union {None}]
  /\ destroyed \in [Sessions -> BOOLEAN]
  /\ beep \in [Sessions -> BOOLEAN]
  /\ frame_n \in [Sessions -> 0..1]
  /\ pos \in [Sessions -> 0..(BufferSamples - 1)]
  /\ asleep \in [Sessions -> BOOLEAN]
  /\ done \in [Sessions -> SUBSET All]
  /\ exit \in [Sessions -> SUBSET All]
  /\ verdict \in [Sessions -> SUBSET All]
  /\ lag \in [Sessions -> [All -> Nat]]
  /\ thread \in [Sessions -> [All -> ThreadSteps]]
  /\ dpos \in [Sessions -> [All -> 0..(BufferSamples - 1)]]
  /\ at \in [Actors -> {"idle"} \union StartSteps \union StopSteps
                       \union CloseSteps \union FrameSteps]
  /\ cur \in [Actors -> Sessions \union {None}]
  /\ after \in [Actors -> {"idle", "unlock", "uncounting"}]
  /\ idx \in [Actors -> Nat]

Init ==
  /\ up = TRUE
  /\ bug = None
  /\ globals = None
  /\ session_n = 0
  /\ life = [s \in Sessions |-> "free"]
  /\ holder = [s \in Sessions |-> None]
  /\ destroyed = [s \in Sessions |-> FALSE]
  /\ beep = [s \in Sessions |-> FALSE]
  /\ frame_n = [s \in Sessions |-> 0]
  /\ pos = [s \in Sessions |-> 0]
  /\ asleep = [s \in Sessions |-> FALSE]
  /\ done = [s \in Sessions |-> {}]
  /\ exit = [s \in Sessions |-> {}]
  /\ verdict = [s \in Sessions |-> {}]
  /\ lag = [s \in Sessions |-> [d \in All |-> 0]]
  /\ thread = [s \in Sessions |-> [d \in All |-> "none"]]
  /\ dpos = [s \in Sessions |-> [d \in All |-> 0]]
  /\ at = [a \in Actors |-> "idle"]
  /\ cur = [a \in Actors |-> None]
  /\ after = [a \in Actors |-> "idle"]
  /\ idx = [a \in Actors |-> 0]

-----------------------------------------------------------------------------
(* Helpers.                                                                *)

Goto(a, step) == at' = [at EXCEPT ![a] = step] /\ UNCHANGED <<cur, after, idx>>

GotoOn(a, step, s) ==
  /\ at' = [at EXCEPT ![a] = step]
  /\ cur' = [cur EXCEPT ![a] = s]
  /\ UNCHANGED <<after, idx>>

Leave(a) ==
  /\ at' = [at EXCEPT ![a] = "idle"]
  /\ cur' = [cur EXCEPT ![a] = None]
  /\ after' = [after EXCEPT ![a] = "idle"]
  /\ idx' = [idx EXCEPT ![a] = 0]

\* Start of a loop over the detectors, and one round of it.
Loop(a, step) ==
  /\ at' = [at EXCEPT ![a] = step]
  /\ idx' = [idx EXCEPT ![a] = 1]
  /\ UNCHANGED <<cur, after>>

Round(a, step) ==
  /\ at' = [at EXCEPT ![a] = step]
  /\ idx' = [idx EXCEPT ![a] = @ + 1]
  /\ UNCHANGED <<cur, after>>

Close(a, s, ret) ==
  /\ at' = [at EXCEPT ![a] = "closing"]
  /\ cur' = [cur EXCEPT ![a] = s]
  /\ after' = [after EXCEPT ![a] = ret]
  /\ UNCHANGED idx

\* Mutant: the mutex is taken from who holds it.
Locks_Held(a, s) == holder' = [holder EXCEPT ![s] = a]

Locks(a, s) == holder[s] = None /\ holder' = [holder EXCEPT ![s] = a]

Unlocks(s) == holder' = [holder EXCEPT ![s] = None]

LifeIs(s, step) == life' = [life EXCEPT ![s] = step]

\* avmd_globals.mutex is nested: the API command holds it to its end.
Unclaimed(a) == globals \in {None, a}

EndsCommand(a) == globals' = IF globals = a THEN None ELSE globals

InProgress(s) == \E d \in DetectorsOf(s) : d \notin done[s]

\* A detector is given work under its mutex, and woken up if it waits.
Signalled(s, d) == [thread EXCEPT ![s][d] = IF @ = "asleep" THEN "ready" ELSE @]

-----------------------------------------------------------------------------
(* avmd_start_app, on the session's thread.                                *)

\* The channel is looked at, and the session allocated.
StartApp(s) ==
  /\ s \in AppSessions
  /\ at[App] = "idle"
  /\ up
  /\ bug = None
  /\ life[s] = "free"
  /\ LifeIs(s, "made")
  /\ GotoOn(App, "making", s)
  /\ UNCHANGED <<channel, module, holder, destroyed, beep, frame_n, pos,
                 detectors>>

\* The parameters, the buffers, or the direction of the channel are no good.
StartRefused ==
  /\ at[App] \in {"making", "starting"}
  /\ LifeIs(cur[App], "failed")
  /\ Leave(App)
  /\ UNCHANGED <<channel, module, holder, destroyed, beep, frame_n, pos,
                 detectors>>

\* init_avmd_session_data, under the globals mutex; no thread yet.
InitSession ==
  LET s == cur[App]
  IN  /\ at[App] = "making"
      /\ Unclaimed(App)
      /\ done' = [done EXCEPT ![s] = All]
      /\ exit' = [exit EXCEPT ![s] = All]
      /\ Goto(App, "starting")
      /\ UNCHANGED <<channel, module, session, asleep, verdict, lag, thread, dpos>>

(***************************************************************************)
(* avmd_launch_threads, up to the first thread that cannot be created; the *)
(* threads that were are then told to exit and joined.                     *)
(***************************************************************************)
LaunchThreads ==
  LET s == cur[App]
  IN  /\ at[App] = "starting"
      /\ Locks(App, s)
      /\ \E created \in 0..Size(s) :
           /\ exit' = [exit EXCEPT ![s] = {d \in All : d > created + 1}]
           /\ lag' = [lag EXCEPT ![s] =
                [d \in All |-> IF DetectorsN < d /\ d <= created + 1
                               THEN d - DetectorsN ELSE 0]]
           /\ thread' = [thread EXCEPT ![s] =
                [d \in All |-> IF d <= created THEN "starting" ELSE "none"]]
           /\ IF created = Size(s)
              THEN Goto(App, "adding")
              ELSE /\ at' = [at EXCEPT ![App] = "telling"]
                   /\ after' = [after EXCEPT ![App] = "unlock"]
                   /\ idx' = [idx EXCEPT ![App] = 1]
                   /\ UNCHANGED cur
      /\ UNCHANGED <<channel, module, life, destroyed, beep, frame_n, pos,
                     asleep, done, verdict, dpos>>

\* The end of a start; only the application has locked s->mutex.
EndsStart(a, s) ==
  /\ EndsCommand(a)
  /\ IF a = App THEN Unlocks(s) ELSE UNCHANGED holder

\* switch_core_media_bug_add, here and in the API command.
AddBug(a) ==
  /\ at[a] = "adding"
  /\ up
  /\ at[Media] = "idle"
  /\ LifeIs(cur[a], "attached")
  /\ Goto(a, IF a = App THEN "counting" ELSE "publish")
  /\ UNCHANGED <<channel, module, holder, destroyed, beep, frame_n, pos,
                 detectors>>

\* The application closes the session; the API command just ends.
AddBugFails(a) ==
  LET s == cur[a]
  IN  /\ at[a] = "adding"
      /\ LifeIs(s, "failed")
      /\ EndsStart(a, s)
      /\ IF a = App THEN Close(a, s, "idle") ELSE Leave(a)
      /\ UNCHANGED <<channel, session_n, destroyed, beep, frame_n, pos,
                 detectors>>

\* With s->mutex held.
CountSession ==
  /\ at[App] = "counting"
  /\ Unclaimed(App)
  /\ session_n' = session_n + 1
  /\ Goto(App, "publish")
  /\ UNCHANGED <<channel, globals, session, detectors>>

PublishBug(a) ==
  LET s == cur[a]
  IN  /\ at[a] = "publish"
      /\ bug' = s
      /\ EndsStart(a, s)
      /\ Leave(a)
      /\ UNCHANGED <<up, session_n, life, destroyed, beep, frame_n, pos,
                 detectors>>

-----------------------------------------------------------------------------
(* avmd_api_main; commands that change nothing are left out.               *)

ApiStart(c, s) ==
  /\ s \in ApiSessions
  /\ at[c] = "idle"
  /\ globals = None
  /\ up
  /\ bug = None
  /\ life[s] = "free"
  /\ globals' = c
  /\ LifeIs(s, "made")
  /\ GotoOn(c, "adding", s)
  /\ UNCHANGED <<channel, session_n, holder, destroyed, beep, frame_n, pos,
                 detectors>>

ApiStop(c) ==
  /\ at[c] = "idle"
  /\ globals = None
  /\ up
  /\ bug # None
  /\ globals' = c
  /\ GotoOn(c, "clearing", bug)
  /\ UNCHANGED <<channel, session_n, session, detectors>>

-----------------------------------------------------------------------------
(* avmd_stop_app and avmd_start_function.                                  *)

StopApp ==
  /\ at[App] = "idle"
  /\ up
  /\ bug # None
  /\ GotoOn(App, "reading", bug)
  /\ UNCHANGED <<channel, module, session, detectors>>

\* What the session's state was, under its mutex.
StopReads ==
  /\ at[App] = "reading"
  /\ holder[cur[App]] = None
  /\ Goto(App, "clearing")
  /\ UNCHANGED <<channel, module, session, detectors>>

\* avmd_start_function with "stop" reads nothing.
FunctionStop ==
  /\ at[App] = "idle"
  /\ up
  /\ bug # None
  /\ GotoOn(App, "clearing", bug)
  /\ UNCHANGED <<channel, module, session, detectors>>

ClearPrivate(a) ==
  /\ at[a] = "clearing"
  /\ bug' = None
  /\ Goto(a, "removing")
  /\ UNCHANGED <<up, module, session, detectors>>

\* switch_core_media_bug_remove: the CLOSE callback if the bug was there.
RemoveBug(a) ==
  LET s == cur[a]
  IN  /\ at[a] = "removing"
      /\ at[Media] = "idle"
      /\ \/ /\ life[s] = "attached"
            /\ LifeIs(s, "removed")
            /\ Close(a, s, "uncounting")
            /\ UNCHANGED globals
         \/ /\ life[s] # "attached"
            /\ EndsCommand(a)
            /\ Leave(a)
            /\ UNCHANGED life
      /\ UNCHANGED <<channel, session_n, holder, destroyed, beep, frame_n, pos,
                 detectors>>

Hangup ==
  /\ up
  /\ up' = FALSE
  /\ UNCHANGED <<bug, module, session, detectors, where>>

\* The hangup removes every bug of the channel.
RemoveAtHangup(s) ==
  /\ ~up
  /\ at[App] = "idle"
  /\ at[Media] = "idle"
  /\ life[s] = "attached"
  /\ LifeIs(s, "removed")
  /\ Close(App, s, "uncounting")
  /\ UNCHANGED <<channel, module, holder, destroyed, beep, frame_n, pos,
                 detectors>>

-----------------------------------------------------------------------------
(* avmd_session_close and avmd_join_threads.                               *)

CloseLocks(a) ==
  /\ at[a] = "closing"
  /\ Locks(a, cur[a])
  /\ Goto(a, "awaiting")
  /\ UNCHANGED <<channel, module, life, destroyed, beep, frame_n, pos,
                 detectors>>

\* Under mutex_detectors_done: somebody is not done, wait to be told.
Await(a) ==
  LET s == cur[a]
  IN  /\ at[a] \in {"awaiting", "settling", "collecting"}
      /\ ~asleep[s]
      /\ InProgress(s)
      /\ asleep' = [asleep EXCEPT ![s] = TRUE]
      /\ UNCHANGED <<channel, module, session, done, exit, verdict, lag, thread,
                     dpos, where>>

RoundIsOver(s) == ~asleep[s] /\ ~InProgress(s)

CloseBegins(a) ==
  /\ at[a] = "awaiting"
  /\ RoundIsOver(cur[a])
  /\ Loop(a, "telling")
  /\ UNCHANGED <<channel, module, session, detectors>>

\* Mutant: avmd_join_threads passes over every thread.
Skipped_All(a) == after[a] = "unlock"

\* avmd_join_threads passes over a thread that was not created.
Skipped(a) == after[a] = "unlock" /\ thread[cur[a]][idx[a]] = "none"

\* Mutant: the detector is told to exit without a signal.
Told_Silently(s, d) == UNCHANGED thread

Told(s, d) == thread' = Signalled(s, d)

TellExit(a) ==
  LET s == cur[a]
      d == idx[a]
  IN  /\ at[a] = "telling"
      /\ d \in DetectorsOf(s)
      /\ \/ Skipped(a) /\ Round(a, "telling") /\ UNCHANGED <<done, exit, thread>>
         \/ /\ ~Skipped(a)
            /\ done' = IF after[a] = "unlock" THEN done
                       ELSE [done EXCEPT ![s] = @ \ {d}]
            /\ exit' = [exit EXCEPT ![s] = @ \union {d}]
            /\ Told(s, d)
            /\ Goto(a, "joining")
      /\ UNCHANGED <<channel, module, session, asleep, verdict, lag, dpos>>

JoinThread(a) ==
  LET s == cur[a]
      d == idx[a]
  IN  /\ at[a] = "joining"
      /\ thread[s][d] = "ended"
      /\ thread' = [thread EXCEPT ![s][d] = "none"]
      /\ Round(a, "telling")
      /\ UNCHANGED <<channel, module, session, asleep, done, exit, verdict, lag, dpos>>

\* The end of avmd_join_threads, or of avmd_session_close.
ThreadsJoined(a) ==
  LET s == cur[a]
  IN  /\ at[a] = "telling"
      /\ idx[a] \notin DetectorsOf(s)
      /\ Unlocks(s)
      /\ destroyed' = [destroyed EXCEPT ![s] = after[a] # "unlock"]
      /\ IF after[a] = "uncounting"
         THEN Goto(a, "uncounting") /\ UNCHANGED life
         ELSE Leave(a) /\ LifeIs(s, "failed")
      /\ UNCHANGED <<channel, module, beep, frame_n, pos,
                 detectors>>

\* Mutant: the CLOSE callback does not count the session out.
CountedOut_Not == session_n

CountedOut == IF session_n > 0 THEN session_n - 1 ELSE 0

UncountSession(a) ==
  /\ at[a] = "uncounting"
  /\ Unclaimed(a)
  /\ session_n' = CountedOut
  /\ EndsCommand(a)
  /\ Leave(a)
  /\ UNCHANGED <<channel, session, detectors>>

-----------------------------------------------------------------------------
(* avmd_callback with a frame, and avmd_process.                           *)

FrameBegins(s) ==
  /\ at[Media] = "idle"
  /\ up
  /\ life[s] = "attached"
  /\ GotoOn(Media, "frame", s)
  /\ UNCHANGED <<channel, module, session, detectors>>

FrameLocks ==
  /\ at[Media] = "frame"
  /\ Locks(Media, cur[Media])
  /\ Goto(Media, "settling")
  /\ UNCHANGED <<channel, module, life, destroyed, beep, frame_n, pos,
                 detectors>>

\* The frame is put into the buffer, unless a beep was heard before.
FrameInserted ==
  LET s == cur[Media]
  IN  /\ at[Media] = "settling"
      /\ RoundIsOver(s)
      /\ \/ beep[s] /\ Unlocks(s) /\ Leave(Media)
         \/ ~beep[s] /\ Loop(Media, "handing") /\ UNCHANGED holder
      /\ UNCHANGED <<channel, module, life, destroyed, beep, frame_n, pos,
                 detectors>>

HasVerdict(s, d) == d \in verdict[s]

HandOver ==
  LET s == cur[Media]
      d == idx[Media]
  IN  /\ at[Media] = "handing"
      /\ d \in DetectorsOf(s)
      /\ \/ HasVerdict(s, d) /\ UNCHANGED <<done, exit, thread>>
         \/ /\ ~HasVerdict(s, d)
            /\ done' = [done EXCEPT ![s] = @ \ {d}]
            /\ exit' = [exit EXCEPT ![s] = @ \ {d}]
            /\ thread' = Signalled(s, d)
      /\ Round(Media, "handing")
      /\ UNCHANGED <<channel, module, session, asleep, verdict, lag, dpos>>

AllHanded ==
  /\ at[Media] = "handing"
  /\ idx[Media] \notin DetectorsOf(cur[Media])
  /\ Goto(Media, "collecting")
  /\ UNCHANGED <<channel, module, session, detectors>>

\* The place of the next frame; the first one starts AVMD_P samples later.
Advanced(s) ==
  (pos[s] + FrameSamples - (IF frame_n[s] = 0 THEN 1 ELSE 0)) % BufferSamples

\* avmd_detection_result and avmd_report_detection.
Collect ==
  LET s == cur[Media]
  IN  /\ at[Media] = "collecting"
      /\ RoundIsOver(s)
      /\ beep' = [beep EXCEPT ![s] = verdict[s] # {}]
      /\ frame_n' = [frame_n EXCEPT ![s] = 1]
      /\ pos' = [pos EXCEPT ![s] = Advanced(s)]
      /\ Unlocks(s)
      /\ Leave(Media)
      /\ UNCHANGED <<channel, module, life, destroyed, detectors>>

-----------------------------------------------------------------------------
(* avmd_detector_func.                                                     *)

ThreadIs(s, d, step) == thread' = [thread EXCEPT ![s][d] = step]

DetectorStarts(s, d) ==
  /\ thread[s][d] = "starting"
  /\ dpos' = [dpos EXCEPT ![s][d] = pos[s]]
  /\ ThreadIs(s, d, "ready")
  /\ UNCHANGED <<channel, module, session, asleep, done, exit, verdict, lag, where>>

HasNothingToDo(s, d) == d \in done[s] /\ d \notin exit[s]

DetectorSleeps(s, d) ==
  /\ thread[s][d] = "ready"
  /\ HasNothingToDo(s, d)
  /\ ThreadIs(s, d, "asleep")
  /\ UNCHANGED <<channel, module, session, asleep, done, exit, verdict, lag, dpos, where>>

DetectorExits(s, d) ==
  /\ thread[s][d] = "ready"
  /\ d \in exit[s]
  /\ done' = [done EXCEPT ![s] = @ \union {d}]
  /\ ThreadIs(s, d, "ended")
  /\ UNCHANGED <<channel, module, session, asleep, exit, verdict, lag, dpos, where>>

Handed(s, d) == thread[s][d] = "ready" /\ d \notin done[s] /\ d \notin exit[s]

\* A lagged detector lets its first frames pass.
DetectorLags(s, d) ==
  /\ Handed(s, d)
  /\ lag[s][d] > 0
  /\ lag' = [lag EXCEPT ![s][d] = @ - 1]
  /\ done' = [done EXCEPT ![s] = @ \union {d}]
  /\ ThreadIs(s, d, "signalling")
  /\ UNCHANGED <<channel, module, session, asleep, exit, verdict, dpos, where>>

\* Mutant: the detector is marked done when it takes the frame.
Taken_Early(s, d) == done' = [done EXCEPT ![s] = @ \union {d}]

Taken(s, d) == UNCHANGED done

DetectorTakes(s, d) ==
  /\ Handed(s, d)
  /\ lag[s][d] = 0
  /\ dpos' = IF d <= DetectorsN THEN dpos
             ELSE [dpos EXCEPT ![s][d] = (@ + 1) % BufferSamples]
  /\ Taken(s, d)
  /\ ThreadIs(s, d, "examining")
  /\ UNCHANGED <<channel, module, session, asleep, exit, verdict, lag, where>>

\* The samples were examined, and may have been a beep.
DetectorDone(s, d) ==
  /\ thread[s][d] = "examining"
  /\ \E found \in SUBSET {d} : verdict' = [verdict EXCEPT ![s] = @ \union found]
  /\ done' = [done EXCEPT ![s] = @ \union {d}]
  /\ ThreadIs(s, d, "signalling")
  /\ UNCHANGED <<channel, module, session, asleep, exit, lag, dpos, where>>

Woken(s) == asleep' = [asleep EXCEPT ![s] = FALSE]

\* mutex_detectors_done is taken, so it comes before or after an Await.
DetectorSignals(s, d) ==
  /\ thread[s][d] = "signalling"
  /\ Woken(s)
  /\ ThreadIs(s, d, "ready")
  /\ UNCHANGED <<channel, module, session, done, exit, verdict, lag, dpos, where>>

-----------------------------------------------------------------------------
StartGoesOn ==
  \/ StartRefused
  \/ InitSession
  \/ LaunchThreads
  \/ CountSession

CloseGoesOn(a) ==
  \/ CloseLocks(a)
  \/ Await(a)
  \/ CloseBegins(a)
  \/ TellExit(a)
  \/ JoinThread(a)
  \/ ThreadsJoined(a)
  \/ UncountSession(a)

CommandGoesOn(a) ==
  \/ AddBug(a)
  \/ AddBugFails(a)
  \/ PublishBug(a)
  \/ ClearPrivate(a)
  \/ RemoveBug(a)
  \/ CloseGoesOn(a)

AppGoesOn == StartGoesOn \/ StopReads \/ CommandGoesOn(App)

FrameGoesOn ==
  \/ FrameLocks
  \/ Await(Media)
  \/ FrameInserted
  \/ HandOver
  \/ AllHanded
  \/ Collect

DetectorGoesOn(s, d) ==
  \/ DetectorStarts(s, d)
  \/ DetectorSleeps(s, d)
  \/ DetectorExits(s, d)
  \/ DetectorLags(s, d)
  \/ DetectorTakes(s, d)
  \/ DetectorDone(s, d)
  \/ DetectorSignals(s, d)

SessionNext(s) ==
  \/ StartApp(s)
  \/ RemoveAtHangup(s)
  \/ FrameBegins(s)
  \/ \E c \in Callers : ApiStart(c, s)
  \/ \E d \in All : DetectorGoesOn(s, d)

Next ==
  \/ Hangup
  \/ StopApp
  \/ FunctionStop
  \/ AppGoesOn
  \/ FrameGoesOn
  \/ \E c \in Callers : ApiStop(c) \/ CommandGoesOn(c)
  \/ \E s \in Sessions : SessionNext(s)

Spec == Init /\ [][Next]_vars

(***************************************************************************)
(* Fairness: every thread goes on with what it began, and the session's    *)
(* thread removes the bugs of a channel that hung up.                      *)
(***************************************************************************)
Fairness ==
  /\ WF_vars(AppGoesOn)
  /\ \A c \in Callers : WF_vars(CommandGoesOn(c))
  /\ WF_vars(\E s \in Sessions : RemoveAtHangup(s))
  /\ WF_vars(FrameGoesOn)
  /\ \A s \in Sessions : \A d \in All : WF_vars(DetectorGoesOn(s, d))

FairSpec == Spec /\ Fairness

-----------------------------------------------------------------------------
(* Properties.                                                             *)

\* Every session whose threads may run is attached, or in somebody's hands.
Attended(s) == life[s] = "attached" \/ \E a \in Actors \ {Media} : cur[a] = s

(***************************************************************************)
(* No detector thread is forgotten, and none outlives the mutexes of its   *)
(* session; a start that failed half way and a start whose bug could not   *)
(* be added join what they launched.                                       *)
(***************************************************************************)
NoThreadLeft ==
  \A s \in Sessions : (\E d \in All : thread[s][d] # "none") =>
    /\ Attended(s)
    /\ ~destroyed[s]

(***************************************************************************)
(* The callback never meets a session that was closed: a frame that has    *)
(* begun holds the CLOSE callback back.  A stop command may, for it takes  *)
(* the session from the private before it removes the bug.                 *)
(***************************************************************************)
FrameOfOpenSession ==
  at[Media] # "idle" => life[cur[Media]] = "attached" /\ ~destroyed[cur[Media]]

Counted(s) ==
  /\ s \in AppSessions
  /\ \/ life[s] = "attached" /\ ~(at[App] = "counting" /\ cur[App] = s)
     \/ life[s] = "removed" /\ \E a \in Actors : cur[a] = s /\ at[a] \in CloseSteps

(***************************************************************************)
(* avmd_globals.session_n is the number of sessions that run, on which the *)
(* warning at shutdown rests, as long as no session of the API command was *)
(* closed: that one is counted out and was never counted in.               *)
(***************************************************************************)
SessionsCounted ==
  (\A s \in ApiSessions : life[s] # "removed") =>
    session_n = Cardinality({s \in Sessions : Counted(s)})

(***************************************************************************)
(* The callback holds bug_rwlock and waits for s->mutex, whose holder, the *)
(* start application, waits for the globals mutex, whose holder, the API   *)
(* command, waits for bug_rwlock.                                          *)
(***************************************************************************)
Entangled ==
  /\ at[App] = "counting"
  /\ at[Media] = "frame" /\ cur[Media] = cur[App]
  /\ \E c \in Callers : globals = c /\ at[c] \in {"adding", "removing"}

(***************************************************************************)
(* When the channel has hung up, every command and frame comes to its end  *)
(* and all threads are joined, but for that deadlock.  What could hang     *)
(* hangs then too: a wait for detectors, a join, a wait for a lock.        *)
(***************************************************************************)
HangupCompletes ==
  ~up ~> \/ /\ \A a \in Actors : at[a] = "idle"
            /\ \A s \in Sessions : \A d \in All : thread[s][d] = "none"
         \/ Entangled

-----------------------------------------------------------------------------
(* The inductive invariant.                                                *)

AppSteps == {"making", "starting", "counting", "reading"}

\* Who can be where, and what it works on there.
WhereAgrees ==
  /\ at[Media] \in {"idle"} \union FrameSteps
  /\ \A a \in Actors \ {Media} : at[a] \notin FrameSteps
  /\ \A c \in Callers : at[c] \notin AppSteps /\ (at[c] = "adding" => cur[c] \in ApiSessions)
  /\ \A a \in Actors :
       /\ at[a] = "idle" <=> cur[a] = None
       /\ at[a] \notin CloseSteps => after[a] = "idle"
       /\ at[a] = "uncounting" => after[a] = "uncounting"
       /\ after[a] = "unlock" => a = App /\ at[a] \in {"telling", "joining"}

\* Where s->mutex is held.
Holds(a, s) ==
  /\ cur[a] = s
  /\ \/ at[a] \in {"awaiting", "telling", "joining", "settling", "handing", "collecting"}
     \/ a = App /\ at[a] \in {"adding", "counting", "publish"}

MutexAgrees == \A a \in Actors, s \in Sessions : Holds(a, s) <=> holder[s] = a

OpenSteps == {"making", "starting", "adding"}

\* A session that is being opened or closed, by whom.
Busy(a, s) == cur[a] = s /\ at[a] \in OpenSteps \union CloseSteps

\* What the session of who is busy with it has become.
LifeFits(a, s) ==
  /\ at[a] \in OpenSteps \/ after[a] = "unlock" => life[s] = "made"
  /\ at[a] \in CloseSteps /\ after[a] = "uncounting" => life[s] = "removed"
  /\ at[a] \in CloseSteps /\ after[a] = "idle" => life[s] = "failed"

LifeAgrees ==
  /\ \A a \in Actors, s \in Sessions : Busy(a, s) =>
       /\ LifeFits(a, s)
       /\ \A b \in Actors : Busy(b, s) => a = b
  /\ \A a \in Actors :
       at[a] \in {"counting", "publish"} => life[cur[a]] \in {"attached", "removed"}
  /\ bug # None => life[bug] \notin {"free", "made"}

NoThread(s) == \A d \in DetectorsOf(s) : thread[s][d] = "none"

Launched(s) == \A d \in DetectorsOf(s) : thread[s][d] # "none"

Joins(a, s, d) == cur[a] = s /\ at[a] = "joining" /\ idx[a] = d

\* Which threads a session has, by what has become of it.
ThreadsOf(s) ==
  /\ \A d \in All \ DetectorsOf(s) : thread[s][d] = "none"
  /\ life[s] = "free" => NoThread(s)
  /\ life[s] = "attached" => Launched(s)
  /\ life[s] # "attached" => NoThread(s) \/ \E a \in Actors : Busy(a, s)
  /\ destroyed[s] => life[s] \in {"removed", "failed"} /\ NoThread(s)
  /\ \A d \in DetectorsOf(s) :
       /\ thread[s][d] = "ended" => d \in exit[s]
       /\ thread[s][d] # "none" /\ d \in exit[s] => \E a \in Actors : Joins(a, s, d)

ThreadsAgree == \A s \in Sessions : ThreadsOf(s)

\* Which threads are left to who opens or closes a session.
LoopOf(a, s) ==
  /\ at[a] \in {"making", "starting", "uncounting"} => NoThread(s)
  /\ at[a] \in {"adding", "closing", "awaiting"} => Launched(s)
  /\ at[a] \in {"starting", "adding"} => ~InProgress(s)
  /\ at[a] \in {"telling", "joining", "handing"} => idx[a] \in 1..(Size(s) + 1)
  /\ at[a] = "joining" =>
       /\ idx[a] \in DetectorsOf(s) \intersect exit[s]
       /\ thread[s][idx[a]] # "none"
  /\ at[a] \in {"telling", "joining"} => \A d \in DetectorsOf(s) :
       /\ d < idx[a] => thread[s][d] = "none"
       /\ idx[a] <= d /\ after[a] # "unlock" => thread[s][d] # "none"

LoopsAgree == \A a \in Actors, s \in Sessions : cur[a] = s => LoopOf(a, s)

InRound(s) == cur[Media] = s /\ at[Media] \in {"handing", "collecting"}

\* Which detectors are done: all of them, outside of a round.
RoundOf(s) ==
  /\ life[s] = "attached" /\ ~InRound(s) => ~InProgress(s)
  /\ life[s] = "removed" => DetectorsOf(s) \subseteq done[s] \union exit[s]
  /\ \A d \in DetectorsOf(s) :
       /\ life[s] # "attached" /\ thread[s][d] # "none" => d \in done[s] \union exit[s]
       /\ thread[s][d] = "examining" => d \notin done[s] \union exit[s]

RoundsAgree == \A s \in Sessions : RoundOf(s)

IInv ==
  /\ TypeOK
  /\ WhereAgrees
  /\ MutexAgrees
  /\ LifeAgrees
  /\ ThreadsAgree
  /\ LoopsAgree
  /\ RoundsAgree
  /\ FrameOfOpenSession

-----------------------------------------------------------------------------
(* The rounds of FrameRounds.                                              *)

Opened(s) == life[s] \in {"attached", "removed"}

Stage(s) ==
  IF life[s] = "removed" THEN "closed"
  ELSE IF life[s] # "attached" THEN "off"
  ELSE IF InRound(s) THEN "round" ELSE "idle"

ToDo(s) ==
  IF InRound(s) /\ at[Media] = "handing"
  THEN {d \in DetectorsOf(s) : idx[Media] <= d /\ ~HasVerdict(s, d)}
  ELSE {}

\* Once the bug is removed a detector that is not done is one that is told to exit.
Owes(s) == IF Opened(s) THEN DetectorsOf(s) \ (done[s] \union exit[s]) ELSE {}

Rounds == INSTANCE FrameRounds WITH
  Detectors <- All,
  stage <- [s \in Sessions |-> Stage(s)],
  members <- [s \in Sessions |-> IF Opened(s) THEN DetectorsOf(s) ELSE {}],
  todo <- [s \in Sessions |-> ToDo(s)],
  owes <- [s \in Sessions |-> Owes(s)]

(***************************************************************************)
(* A frame is handed to each detector once and examined by each once, the  *)
(* buffer is not written while a detector reads it, and a beep ends the    *)
(* detection: the callback, the threads and their two condition variables  *)
(* implement the rounds.                                                   *)
(***************************************************************************)
ImplementsFrameRounds == Rounds!Spec

(***************************************************************************)
(* Process one frame of data with avmd algorithm: what a detector examines *)
(* is the frame that was just inserted, which begins at s->pos.            *)
(***************************************************************************)
ExaminesTheFrame ==
  \A s \in Sessions : \A d \in 1..DetectorsN :
    thread[s][d] = "examining" => dpos[s][d] = pos[s]
=============================================================================
