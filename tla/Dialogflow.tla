----------------------------- MODULE Dialogflow -----------------------------
(***************************************************************************)
(* mod_dialogflow: the start and stop commands of one session, its media   *)
(* thread, and the read thread of every stream it opens (google_glue.cpp,  *)
(* mod_dialogflow.c).  A stream is a cap_cb with its GStreamer, its read   *)
(* thread and its media bug.  A read thread is named by its stream: when   *)
(* the stream ends with an error it runs a stop like everybody else, on    *)
(* the stream whose bug the channel names by then.                         *)
(*                                                                         *)
(* FreeSWITCH and gRPC are external: the session is located until it hangs *)
(* up, removing a bug waits for a READ callback to return and runs the     *)
(* CLOSE callback if the bug was still there, a call is over when the far  *)
(* end says so, after WritesDone at the latest, and Finish waits for that. *)
(* The audio files of the responses are left out.                          *)
(***************************************************************************)
EXTENDS Naturals

CONSTANTS
  Streams,    \* the streams one session can open, and their read threads
  Callers,    \* the threads that run dialogflow_start and dialogflow_stop
  Media,      \* the session's own thread
  None        \* nullptr

Actors == Callers \union {Media} \union Streams

ASSUME NamesAssumption ==
  /\ None \notin Actors
  /\ Media \notin Callers \union Streams
  /\ Callers \intersect Streams = {}

VARIABLES
  up,         \* the session can be located
  bug,        \* the channel's private: the stream of that bug
  attached,   \* the streams whose bug is on the session
  streamer,   \* cb->streamer: "none" before, "live", "deleted"
  thread,     \* cb->thread is set
  finished,   \* m_finished
  holder,     \* who holds cb->mutex
  over,       \* the far end has ended the call
  at,         \* where each actor is
  cur,        \* the stream it works on
  outer,      \* the stream whose stop runs the CLOSE callback it is in
  after,      \* where its stop returns to
  halfClosed, \* history: WritesDone was called
  late        \* history: something was written after WritesDone

channel == <<up, bug, attached>>
stream == <<streamer, thread, finished, holder, over>>
where == <<at, cur, outer, after>>
history == <<halfClosed, late>>
vars == <<channel, stream, where, history>>

ReaderSteps == {"reading", "ending", "testing", "setting", "waiting", "handler", "exited"}
StartSteps == {"start", "adding", "publish"}
StopSteps == {"begin", "lock", "closing", "marking", "finishing", "joining",
              "killing", "clearing", "removing", "unlocking"}

TypeOK ==
  /\ up \in BOOLEAN
  /\ bug \in Streams \union {None}
  /\ attached \subseteq Streams
  /\ streamer \in [Streams -> {"none", "live", "deleted"}]
  /\ thread \in [Streams -> BOOLEAN]
  /\ finished \in [Streams -> BOOLEAN]
  /\ holder \in [Streams -> Actors \union {None}]
  /\ over \in [Streams -> BOOLEAN]
  /\ at \in [Actors -> {"idle", "frame"} \union ReaderSteps \union StartSteps \union StopSteps]
  /\ cur \in [Actors -> Streams \union {None}]
  /\ outer \in [Actors -> Streams \union {None}]
  /\ after \in [Actors -> {"idle", "start", "exited"}]
  /\ halfClosed \in [Streams -> BOOLEAN]
  /\ late \in [Streams -> BOOLEAN]

Init ==
  /\ up = TRUE
  /\ bug = None
  /\ attached = {}
  /\ streamer = [s \in Streams |-> "none"]
  /\ thread = [s \in Streams |-> FALSE]
  /\ finished = [s \in Streams |-> FALSE]
  /\ holder = [s \in Streams |-> None]
  /\ over = [s \in Streams |-> FALSE]
  /\ at = [a \in Actors |-> "idle"]
  /\ cur = [a \in Actors |-> None]
  /\ outer = [a \in Actors |-> None]
  /\ after = [a \in Actors |-> "idle"]
  /\ halfClosed = [s \in Streams |-> FALSE]
  /\ late = [s \in Streams |-> FALSE]

-----------------------------------------------------------------------------
(* Helpers.                                                                *)

Goto(a, step) == at' = [at EXCEPT ![a] = step] /\ UNCHANGED <<cur, outer, after>>

GotoOn(a, step, s, ret) ==
  /\ at' = [at EXCEPT ![a] = step]
  /\ cur' = [cur EXCEPT ![a] = s]
  /\ after' = [after EXCEPT ![a] = ret]
  /\ UNCHANGED outer

Leave(a, step) == GotoOn(a, step, None, "idle")

\* Mutant: the mutex is taken from who holds it.
Locks_Held(a, s) == holder' = [holder EXCEPT ![s] = a]

Locks(a, s) == holder[s] = None /\ holder' = [holder EXCEPT ![s] = a]

\* Mutant: the mutex is kept.
Unlocks_Not(s) == UNCHANGED holder

Unlocks(s) == holder' = [holder EXCEPT ![s] = None]

\* session_stop with channelIsClosing: in a CLOSE callback.
IsClosing(a) == a = Media \/ outer[a] # None

-----------------------------------------------------------------------------
(* dialogflow_start.                                                       *)

\* start_capture: a dialogflow that runs on the channel is stopped first.
Start(c) ==
  /\ at[c] = "idle"
  /\ up
  /\ IF bug # None THEN GotoOn(c, "begin", None, "start") ELSE Goto(c, "start")
  /\ UNCHANGED <<channel, stream, history>>

(***************************************************************************)
(* google_dialogflow_session_init: the GStreamer opens its stream and      *)
(* writes the first request, then the read thread is created.              *)
(***************************************************************************)
StartStream(c, s) ==
  /\ at[c] = "start"
  /\ streamer[s] = "none"
  /\ streamer' = [streamer EXCEPT ![s] = "live"]
  /\ thread' = [thread EXCEPT ![s] = TRUE]
  /\ at' = [at EXCEPT ![c] = "adding", ![s] = "reading"]
  /\ cur' = [cur EXCEPT ![c] = s]
  /\ UNCHANGED <<channel, finished, holder, over, outer, after, history>>

\* No early media, no credentials, or no resampler: no read thread is left.
StartFails(c) ==
  /\ at[c] = "start"
  /\ Leave(c, "idle")
  /\ UNCHANGED <<channel, stream, history>>

AddBug(c) ==
  /\ at[c] = "adding"
  /\ up
  /\ attached' = attached \union {cur[c]}
  /\ Goto(c, "publish")
  /\ UNCHANGED <<up, bug, stream, history>>

\* destroyChannelUserData: the read thread is not asked.
AddBugFails(c) ==
  /\ at[c] = "adding"
  /\ streamer' = [streamer EXCEPT ![cur[c]] = "deleted"]
  /\ Leave(c, "idle")
  /\ UNCHANGED <<channel, thread, finished, holder, over, history>>

PublishBug(c) ==
  /\ at[c] = "publish"
  /\ bug' = cur[c]
  /\ Leave(c, "idle")
  /\ UNCHANGED <<up, attached, stream, history>>

-----------------------------------------------------------------------------
(* google_dialogflow_session_stop: by a command, by the error handler of a *)
(* read thread, by the CLOSE callback.                                     *)

Stop(c) ==
  /\ at[c] = "idle"
  /\ up
  /\ bug # None
  /\ GotoOn(c, "begin", None, "idle")
  /\ UNCHANGED <<channel, stream, history>>

Hangup ==
  /\ up
  /\ up' = FALSE
  /\ UNCHANGED <<bug, attached, stream, where, history>>

\* The hangup removes each bug of the session, with its CLOSE callback.
CloseCallback(s) ==
  /\ at[Media] = "idle"
  /\ ~up
  /\ s \in attached
  /\ attached' = attached \ {s}
  /\ GotoOn(Media, "begin", None, "idle")
  /\ UNCHANGED <<up, bug, stream, history>>

\* The stream is the one the channel names now, whoever stops it and why.
StopBegins(a) ==
  /\ at[a] = "begin"
  /\ IF bug # None THEN GotoOn(a, "lock", bug, after[a])
     ELSE IF outer[a] # None
          THEN GotoOn(a, "unlocking", outer[a], after[a])
          ELSE Leave(a, after[a])
  /\ UNCHANGED <<channel, stream, history>>

StopLocks(a) ==
  /\ at[a] = "lock"
  /\ Locks(a, cur[a])
  /\ Goto(a, "closing")
  /\ UNCHANGED <<channel, streamer, thread, finished, over, history>>

\* writesDone, and what finish reads of m_finished.
StopCloses(a) ==
  LET s == cur[a]
  IN  /\ at[a] = "closing"
      /\ \/ streamer[s] # "live" /\ Goto(a, "joining") /\ UNCHANGED halfClosed
         \/ /\ streamer[s] = "live"
            /\ halfClosed' = [halfClosed EXCEPT ![s] = TRUE]
            /\ Goto(a, IF finished[s] THEN "joining" ELSE "marking")
      /\ UNCHANGED <<channel, stream, late>>

StopMarks(a) ==
  /\ at[a] = "marking"
  /\ finished' = [finished EXCEPT ![cur[a]] = TRUE]
  /\ Goto(a, "finishing")
  /\ UNCHANGED <<channel, streamer, thread, holder, over, history>>

StopFinishes(a) ==
  /\ at[a] = "finishing"
  /\ over[cur[a]]
  /\ Goto(a, "joining")
  /\ UNCHANGED <<channel, stream, history>>

\* Mutant: the read thread is not joined.
Joined_Not(a, s) == TRUE

\* A read thread that joins itself is refused, and goes on.
Joined(a, s) == thread[s] => (at[s] = "exited" \/ a = s)

StopJoins(a) ==
  LET s == cur[a]
  IN  /\ at[a] = "joining"
      /\ Joined(a, s)
      /\ thread' = [thread EXCEPT ![s] = FALSE]
      /\ Goto(a, "killing")
      /\ UNCHANGED <<channel, streamer, finished, holder, over, history>>

\* killcb.
StopKills(a) ==
  /\ at[a] = "killing"
  /\ streamer' = [streamer EXCEPT ![cur[a]] = "deleted"]
  /\ Goto(a, "clearing")
  /\ UNCHANGED <<channel, thread, finished, holder, over, history>>

\* The private may by now be that of a later bug.
StopClears(a) ==
  /\ at[a] = "clearing"
  /\ bug' = None
  /\ Goto(a, IF IsClosing(a) THEN "unlocking" ELSE "removing")
  /\ UNCHANGED <<up, attached, stream, history>>

(***************************************************************************)
(* switch_core_media_bug_remove: it waits for the READ callback, and the   *)
(* CLOSE callback it runs stops the stream the channel names by then.      *)
(***************************************************************************)
StopRemoves(a) ==
  LET s == cur[a]
  IN  /\ at[a] = "removing"
      /\ at[Media] # "frame"
      /\ attached' = attached \ {s}
      /\ IF s \in attached
         THEN /\ at' = [at EXCEPT ![a] = "begin"]
              /\ outer' = [outer EXCEPT ![a] = s]
              /\ UNCHANGED <<cur, after>>
         ELSE Goto(a, "unlocking")
      /\ UNCHANGED <<up, bug, stream, history>>

\* The end of the stop, or of the one inside the CLOSE callback.
StopUnlocks(a) ==
  LET s == cur[a]
  IN  /\ at[a] = "unlocking"
      /\ Unlocks(s)
      /\ IF outer[a] \notin {None, s}
         THEN GotoOn(a, "unlocking", outer[a], after[a])
         ELSE /\ at' = [at EXCEPT ![a] = after[a]]
              /\ cur' = [cur EXCEPT ![a] = None]
              /\ outer' = [outer EXCEPT ![a] = None]
              /\ after' = [after EXCEPT ![a] = "idle"]
      /\ UNCHANGED <<channel, streamer, thread, finished, over, history>>

-----------------------------------------------------------------------------
(* google_dialogflow_frame, on the session's thread.                       *)

\* A frame that finds the mutex held or the stream ended changes nothing.
FrameLocks(s) ==
  /\ at[Media] = "idle"
  /\ up
  /\ s \in attached
  /\ streamer[s] = "live"
  /\ ~finished[s]
  /\ Locks(Media, s)
  /\ GotoOn(Media, "frame", s, "idle")
  /\ UNCHANGED <<channel, streamer, thread, finished, over, history>>

FrameWrites ==
  LET s == cur[Media]
  IN  /\ at[Media] = "frame"
      /\ ~finished[s]
      /\ late' = [late EXCEPT ![s] = @ \/ halfClosed[s]]
      /\ UNCHANGED <<channel, stream, where, halfClosed>>

FrameEnds ==
  /\ at[Media] = "frame"
  /\ Unlocks(cur[Media])
  /\ Leave(Media, "idle")
  /\ UNCHANGED <<channel, streamer, thread, finished, over, history>>

-----------------------------------------------------------------------------
(* grpc_read_thread.                                                       *)

FarEnd(s) ==
  /\ at[s] # "idle"
  /\ ~over[s]
  /\ over' = [over EXCEPT ![s] = TRUE]
  /\ UNCHANGED <<channel, streamer, thread, finished, holder, where, history>>

\* Read returns a response for a session that is gone.
ReadGone(s) ==
  /\ at[s] = "reading"
  /\ ~up
  /\ Goto(s, "ending")
  /\ UNCHANGED <<channel, stream, history>>

ReadEnds(s) ==
  /\ at[s] = "reading"
  /\ over[s]
  /\ Goto(s, "ending")
  /\ UNCHANGED <<channel, stream, history>>

\* Without the session the stream is not finished.
ReaderLocates(s) ==
  /\ at[s] = "ending"
  /\ Goto(s, IF up THEN "testing" ELSE "exited")
  /\ UNCHANGED <<channel, stream, history>>

\* finish: the flag is tested, then set, and nobody holds the mutex.
ReaderTests(s) ==
  /\ at[s] = "testing"
  /\ Goto(s, IF finished[s] THEN "exited" ELSE "setting")
  /\ UNCHANGED <<channel, stream, history>>

ReaderMarks(s) ==
  /\ at[s] = "setting"
  /\ finished' = [finished EXCEPT ![s] = TRUE]
  /\ Goto(s, "waiting")
  /\ UNCHANGED <<channel, streamer, thread, holder, over, history>>

\* The status of the call: the error handler stops what runs on the channel.
ReaderFinishes(s) ==
  /\ at[s] = "waiting"
  /\ over[s]
  /\ Goto(s, "exited") \/ Goto(s, "handler")
  /\ UNCHANGED <<channel, stream, history>>

HandleError(s) ==
  /\ at[s] = "handler"
  /\ IF bug # None THEN GotoOn(s, "begin", None, "exited") ELSE Goto(s, "exited")
  /\ UNCHANGED <<channel, stream, history>>

-----------------------------------------------------------------------------
StartGoesOn(c) ==
  \/ \E s \in Streams : StartStream(c, s)
  \/ StartFails(c)
  \/ AddBug(c)
  \/ AddBugFails(c)
  \/ PublishBug(c)

StopGoesOn(a) ==
  \/ StopBegins(a)
  \/ StopLocks(a)
  \/ StopCloses(a)
  \/ StopMarks(a)
  \/ StopFinishes(a)
  \/ StopJoins(a)
  \/ StopKills(a)
  \/ StopClears(a)
  \/ StopRemoves(a)
  \/ StopUnlocks(a)

ReaderGoesOn(s) ==
  \/ ReadEnds(s)
  \/ ReaderLocates(s)
  \/ ReaderTests(s)
  \/ ReaderMarks(s)
  \/ ReaderFinishes(s)
  \/ HandleError(s)

Next ==
  \/ Hangup
  \/ FrameWrites
  \/ FrameEnds
  \/ \E c \in Callers : Start(c) \/ Stop(c) \/ StartGoesOn(c)
  \/ \E a \in Actors : StopGoesOn(a)
  \/ \E s \in Streams :
       \/ CloseCallback(s)
       \/ FrameLocks(s)
       \/ FarEnd(s)
       \/ ReadGone(s)
       \/ ReaderGoesOn(s)

Spec == Init /\ [][Next]_vars

(***************************************************************************)
(* Fairness: every thread goes on with what it began, the hangup removes   *)
(* every bug, and the far end answers a half-closed call.                  *)
(***************************************************************************)
Fairness ==
  /\ WF_vars(FrameEnds)
  /\ \A c \in Callers : WF_vars(StartGoesOn(c))
  /\ \A a \in Actors : WF_vars(StopGoesOn(a))
  /\ WF_vars(\E s \in Streams : CloseCallback(s))
  /\ \A s \in Streams :
       /\ WF_vars(ReaderGoesOn(s))
       /\ WF_vars(halfClosed[s] /\ FarEnd(s))

FairSpec == Spec /\ Fairness

-----------------------------------------------------------------------------
(* Properties.                                                             *)

(***************************************************************************)
(* No audio goes to a call that was half-closed: the frames and the stop   *)
(* work on the streamer under cb->mutex, and the frames look at m_finished *)
(* for every packet.                                                       *)
(***************************************************************************)
NoLateWrite == \A s \in Streams : ~late[s]

\* The steps of a read thread that call the streamer.
UsesStreamer == {"reading", "ending", "testing", "setting", "waiting"}

(***************************************************************************)
(* Our contract: while we are reading, cb and cb->streamer will not be     *)
(* deleted.                                                                *)
(***************************************************************************)
ReaderContract ==
  \A s \in Streams : at[s] \in UsesStreamer => streamer[s] = "live"

(***************************************************************************)
(* A stop keeps the contract, whoever runs it and whichever stream it      *)
(* finds on the channel: it deletes a streamer only when the read thread   *)
(* was joined, or when the read thread itself is the one that stops.       *)
(***************************************************************************)
StopKeepsContract ==
  [][\A a \in Actors, s \in Streams :
       at[a] = "killing" /\ cur[a] = s /\ streamer[s] # streamer'[s]
         => at[s] = "exited" \/ a = s]_vars

(***************************************************************************)
(* A read thread whose call failed runs a stop in its error handler, and   *)
(* waits for the mutex of a stop that joins it.                            *)
(***************************************************************************)
Entangled ==
  \E s \in Streams, a \in Actors :
    /\ at[s] = "lock" /\ holder[cur[s]] = a
    /\ at[a] = "joining" /\ cur[a] = s /\ a # s

(***************************************************************************)
(* Every command returns and every CLOSE callback ends once the channel    *)
(* hung up, and what still reads then is a stream that nobody stopped (its *)
(* bug was not added, or was not the one that the channel named); but for  *)
(* that deadlock.                                                          *)
(***************************************************************************)
HangupCompletes ==
  ~up ~> \/ /\ attached = {}
            /\ \A a \in Actors : \/ at[a] \in {"idle", "exited"}
                                 \/ at[a] = "reading" /\ ~halfClosed[a]
         \/ Entangled

-----------------------------------------------------------------------------
(* The inductive invariant.                                                *)

InStop == StopSteps \ {"begin", "lock"}

\* Which steps an actor can be at, and what it works on there.
WhereAgrees ==
  /\ \A c \in Callers : at[c] \in {"idle"} \union StartSteps \union StopSteps
  /\ at[Media] \in {"idle", "frame"} \union StopSteps
  /\ \A s \in Streams : at[s] \in {"idle"} \union ReaderSteps \union StopSteps
  /\ \A a \in Actors :
       /\ at[a] \in {"adding", "publish", "frame", "lock"} \union InStop => cur[a] # None
       /\ at[a] \notin StopSteps => outer[a] = None /\ after[a] = "idle"
       /\ after[a] = "start" => a \in Callers
       /\ after[a] = "exited" <=> a \in Streams /\ at[a] \in StopSteps
       /\ at[a] = "removing" => outer[a] = None

\* A mutex is held by whom is stopping the stream or writes its audio.
Holds(a, s) ==
  \/ at[a] \in InStop /\ cur[a] = s
  \/ outer[a] = s
  \/ at[a] = "frame" /\ cur[a] = s

MutexAgrees == \A a \in Actors, s \in Streams : Holds(a, s) <=> holder[s] = a

\* A stream is opened and published by one start, and stopped after that.
StartAgrees ==
  \A c \in Callers : at[c] \in {"adding", "publish"} =>
    /\ streamer[cur[c]] = "live"
    /\ bug # cur[c]
    /\ \A a \in Actors \ {c} :
         at[a] \in {"adding", "publish", "lock"} \union InStop => cur[a] # cur[c]
    /\ \A a \in Actors : outer[a] # cur[c]

\* A stream that was taken off the channel does not come back.
ClearAgrees ==
  \A a \in Actors :
    /\ outer[a] # None => bug # outer[a]
    /\ at[a] = "removing" => bug # cur[a]
    /\ at[a] \in StopSteps \ {"unlocking"} /\ outer[a] # None => cur[a] # outer[a] \/ at[a] = "begin"

HalfCloseAgrees ==
  \A s \in Streams : halfClosed[s] =>
    finished[s] \/ \E a \in Actors : at[a] = "marking" /\ cur[a] = s

\* What is left of a stream whose read thread was joined, or is not there.
ThreadAgrees ==
  /\ \A s \in Streams :
       /\ streamer[s] = "none" <=> at[s] = "idle"
       /\ streamer[s] = "live" /\ ~thread[s] =>
            at[s] = "exited" \/ \E a \in Actors : at[a] = "killing" /\ cur[a] = s
  /\ \A a \in Actors : at[a] = "killing" =>
       streamer[cur[a]] # "live" \/ at[cur[a]] = "exited" \/ a = cur[a]
  /\ bug # None => streamer[bug] # "none"
  /\ \A a \in Actors :
       /\ at[a] \in {"lock"} \union InStop => streamer[cur[a]] # "none"
       /\ outer[a] # None => streamer[outer[a]] # "none"

IInv ==
  /\ TypeOK
  /\ WhereAgrees
  /\ MutexAgrees
  /\ StartAgrees
  /\ ClearAgrees
  /\ HalfCloseAgrees
  /\ ThreadAgrees
  /\ NoLateWrite
=============================================================================
