------------------------------ MODULE Transcribe ------------------------------
(***************************************************************************)
(* mod_google_transcribe: the start and stop commands of one session, its  *)
(* media thread, and the read thread of every gRPC stream it opens         *)
(* (google_glue.cpp, mod_google_transcribe.c).  A stream is a cap_cb with  *)
(* its GStreamer, its read thread and its media bug; all bugs of the       *)
(* session carry the same name.  Sessions share nothing, nor do names.     *)
(*                                                                         *)
(* FreeSWITCH and gRPC are external: the session is located until it hangs *)
(* up, removing a bug waits for a READ callback to return and runs the     *)
(* CLOSE callback if the bug was still there, and Read fails at any time,  *)
(* or after WritesDone at the latest.                                      *)
(***************************************************************************)
EXTENDS Naturals

CONSTANTS
  Streams,    \* the streams one session can open
  Callers,    \* the threads that run uuid_google_transcribe
  Media,      \* the session's own thread
  None        \* nullptr

Actors == Callers \union {Media}

ASSUME NamesAssumption == None \notin Streams \union Actors /\ Media \notin Callers

VARIABLES
  up,         \* the session can be located
  bug,        \* the channel's private: the stream of that bug
  attached,   \* the streams whose bug is on the session
  streamer,   \* cb->streamer: "none" before, "live", "deleted"
  vad,        \* cb->vad: connect when speech is detected
  single,     \* cb->wants_single_utterance
  gotEnd,     \* cb->got_end_of_utterance
  connected,  \* m_connected
  writesDone, \* m_writesDone
  holder,     \* who holds cb->mutex
  reader,     \* where the read thread is
  at,         \* where each actor is
  cur,        \* the stream it works on
  after,      \* where its cleanup returns to
  alone,      \* history: the caller whose start began when no other's command ran
  raced,      \* history: the streams whose start another command ran beside
  promised,   \* history: how often m_promise was set, up to 2
  halfClosed, \* history: how often WritesDone was called, up to 2
  destroyed,  \* history: how often the resampler was destroyed, up to 2
  late        \* history: something was written after WritesDone

stream == <<streamer, vad, single, gotEnd, connected, writesDone, holder>>
channel == <<up, bug, attached>>
where == <<at, cur, after>>
commands == <<alone, raced>>
history == <<promised, halfClosed, destroyed, late>>
vars == <<stream, channel, reader, where, commands, history>>

FrameSteps == {"frame", "locked", "config", "draining"}
CleanupSteps == {"lock", "closing", "calling", "joining", "destroying", "removing"}
StartSteps == {"start", "adding", "publish"}
Readers == {"none", "waiting", "reading", "utterance", "calling", "exited"}

TypeOK ==
  /\ up \in BOOLEAN
  /\ bug \in Streams \union {None}
  /\ attached \subseteq Streams
  /\ streamer \in [Streams -> {"none", "live", "deleted"}]
  /\ vad \in [Streams -> BOOLEAN]
  /\ single \in [Streams -> BOOLEAN]
  /\ gotEnd \in [Streams -> BOOLEAN]
  /\ connected \in [Streams -> BOOLEAN]
  /\ writesDone \in [Streams -> BOOLEAN]
  /\ holder \in [Streams -> Actors \union {None}]
  /\ reader \in [Streams -> Readers]
  /\ at \in [Actors -> {"idle"} \union FrameSteps \union CleanupSteps \union StartSteps]
  /\ cur \in [Actors -> Streams \union {None}]
  /\ after \in [Actors -> {"idle", "start"}]
  /\ alone \in Callers \union {None}
  /\ raced \subseteq Streams
  /\ promised \in [Streams -> 0..2]
  /\ halfClosed \in [Streams -> 0..2]
  /\ destroyed \in [Streams -> 0..2]
  /\ late \in [Streams -> BOOLEAN]

Init ==
  /\ up = TRUE
  /\ bug = None
  /\ attached = {}
  /\ streamer = [s \in Streams |-> "none"]
  /\ vad = [s \in Streams |-> FALSE]
  /\ single = [s \in Streams |-> FALSE]
  /\ gotEnd = [s \in Streams |-> FALSE]
  /\ connected = [s \in Streams |-> FALSE]
  /\ writesDone = [s \in Streams |-> FALSE]
  /\ holder = [s \in Streams |-> None]
  /\ reader = [s \in Streams |-> "none"]
  /\ at = [a \in Actors |-> "idle"]
  /\ cur = [a \in Actors |-> None]
  /\ after = [a \in Actors |-> "idle"]
  /\ alone = None
  /\ raced = {}
  /\ promised = [s \in Streams |-> 0]
  /\ halfClosed = [s \in Streams |-> 0]
  /\ destroyed = [s \in Streams |-> 0]
  /\ late = [s \in Streams |-> FALSE]

-----------------------------------------------------------------------------
(* Helpers.                                                                *)

Once(h, s) == [h EXCEPT ![s] = IF @ < 2 THEN @ + 1 ELSE @]

Goto(a, step) == at' = [at EXCEPT ![a] = step] /\ UNCHANGED <<cur, after>>

GotoOn(a, step, s, ret) ==
  /\ at' = [at EXCEPT ![a] = step]
  /\ cur' = [cur EXCEPT ![a] = s]
  /\ after' = [after EXCEPT ![a] = ret]

Leave(a, step) == GotoOn(a, step, None, "idle")

\* Mutant: the mutex is taken from who holds it.
Locks_Held(a, s) == holder' = [holder EXCEPT ![s] = a]

Locks(a, s) == holder[s] = None /\ holder' = [holder EXCEPT ![s] = a]

Unlocks(s) == holder' = [holder EXCEPT ![s] = None]

\* m_streamer->Write; what it returns is not looked at.
Writes(s) == late' = [late EXCEPT ![s] = @ \/ halfClosed[s] > 0]

\* Mutant: the private is left on the channel.
ClearPrivate_Not == UNCHANGED bug

ClearPrivate == bug' = None

-----------------------------------------------------------------------------
(* uuid_google_transcribe start.                                           *)

\* Mutant: start looks for no earlier bug.
Previous_Ignored == FALSE

Previous == bug # None

\* History: the commands that run beside one that begins.
Quiet(c) == \A d \in Callers \ {c} : at[d] = "idle"
BesideStarts ==
  raced' = raced \union {cur[d] : d \in {e \in Callers : at[e] \in {"adding", "publish"}}}

\* start_capture: a bug of that name is stopped first.
Start(c) ==
  /\ at[c] = "idle"
  /\ up
  /\ IF Previous THEN GotoOn(c, "lock", bug, "start") ELSE Goto(c, "start")
  /\ alone' = IF Quiet(c) THEN c ELSE None
  /\ BesideStarts
  /\ UNCHANGED <<stream, channel, reader, history>>

\* new GStreamer; the configuration it writes into the request is not told apart.
NewStream(s) ==
  /\ streamer[s] = "none"
  /\ streamer' = [streamer EXCEPT ![s] = "live"]

(***************************************************************************)
(* google_speech_session_init: without VAD the stream is opened at once    *)
(* and the config written, then the read thread is created.  Nobody else   *)
(* knows the stream yet.                                                   *)
(***************************************************************************)
StartStream(c, s) ==
  /\ at[c] = "start"
  /\ NewStream(s)
  /\ \E v, one \in BOOLEAN :
       /\ vad' = [vad EXCEPT ![s] = v]
       /\ single' = [single EXCEPT ![s] = one]
       /\ connected' = [connected EXCEPT ![s] = ~v]
       /\ promised' = IF v THEN promised ELSE Once(promised, s)
  /\ reader' = [reader EXCEPT ![s] = "waiting"]
  /\ GotoOn(c, "adding", s, "idle")
  /\ raced' = IF alone = c THEN raced ELSE raced \union {s}
  /\ UNCHANGED <<alone, channel, gotEnd, writesDone, holder, halfClosed, destroyed, late>>

\* switch_channel_pre_answer, the resampler or the GStreamer fails.
StartFails(c) ==
  /\ at[c] = "start"
  /\ Leave(c, "idle")
  /\ UNCHANGED <<commands, stream, channel, reader, history>>

AddBug(c) ==
  /\ at[c] = "adding"
  /\ up
  /\ attached' = attached \union {cur[c]}
  /\ Goto(c, "publish")
  /\ UNCHANGED <<commands, stream, up, bug, reader, history>>

\* The command returns and the stream stays, with nobody to end it.
AddBugFails(c) ==
  /\ at[c] = "adding"
  /\ Leave(c, "idle")
  /\ UNCHANGED <<commands, stream, channel, reader, history>>

PublishBug(c) ==
  /\ at[c] = "publish"
  /\ bug' = cur[c]
  /\ Leave(c, "idle")
  /\ UNCHANGED <<commands, stream, up, attached, reader, history>>

-----------------------------------------------------------------------------
(* google_speech_session_cleanup: by stop, by start, by ABC_TYPE_CLOSE.    *)

Stop(c) ==
  /\ at[c] = "idle"
  /\ up
  /\ bug # None
  /\ GotoOn(c, "lock", bug, "idle")
  /\ alone' = None
  /\ BesideStarts
  /\ UNCHANGED <<stream, channel, reader, history>>

Hangup ==
  /\ up
  /\ up' = FALSE
  /\ UNCHANGED <<commands, stream, bug, attached, reader, where, history>>

\* Mutant: CLOSE is not handled.
OnClose_Ignored(s) == UNCHANGED where

OnClose(s) == GotoOn(Media, "lock", s, "idle")

\* The hangup removes each bug of the session, whose CLOSE callback cleans up.
CloseCallback(s) ==
  /\ at[Media] = "idle"
  /\ ~up
  /\ s \in attached
  /\ attached' = attached \ {s}
  /\ OnClose(s)
  /\ UNCHANGED <<commands, stream, up, bug, reader, history>>

\* Mutant: nobody looks whether the bug is still there.
Gone_Unchecked == FALSE

Gone == bug = None

\* Under cb->mutex: no private means that another cleanup was here before.
CleanupReturns(a) ==
  /\ at[a] = "lock"
  /\ holder[cur[a]] = None
  /\ Gone
  /\ Leave(a, after[a])
  /\ UNCHANGED <<commands, stream, channel, reader, history>>

\* The private may by now be that of a later bug.
CleanupLocks(a) ==
  /\ at[a] = "lock"
  /\ Locks(a, cur[a])
  /\ ~Gone
  /\ ClearPrivate
  /\ Goto(a, "closing")
  /\ UNCHANGED <<commands, up, attached, streamer, vad, single, gotEnd, connected,
                 writesDone, reader, history>>

\* Mutant: a stream that was never connected is not cancelled.
Cancel_Not(s) == UNCHANGED promised

\* cancelConnect: the read thread is let go.
Cancel(s) == promised' = Once(promised, s)

\* Mutant: every stream is cancelled.
NotConnected_Ever(s) == TRUE

NotConnected(s) == ~connected[s]

\* writesDone, up to its test of m_writesDone.
CleanupCloses(a) ==
  LET s == cur[a]
  IN  /\ at[a] = "closing"
      /\ \/ streamer[s] # "live" /\ Goto(a, "destroying") /\ UNCHANGED promised
         \/ streamer[s] = "live" /\ NotConnected(s) /\ Cancel(s) /\ Goto(a, "joining")
         \/ /\ streamer[s] = "live" /\ ~NotConnected(s)
            /\ Goto(a, IF writesDone[s] THEN "joining" ELSE "calling")
            /\ UNCHANGED promised
      /\ UNCHANGED <<commands, stream, channel, reader, halfClosed, destroyed, late>>

CleanupCalls(a) ==
  LET s == cur[a]
  IN  /\ at[a] = "calling"
      /\ halfClosed' = Once(halfClosed, s)
      /\ writesDone' = [writesDone EXCEPT ![s] = TRUE]
      /\ Goto(a, "joining")
      /\ UNCHANGED <<commands, channel, streamer, vad, single, gotEnd, connected, holder,
                     reader, promised, destroyed, late>>

\* Mutant: the read thread is not joined.
Joined_Not(s) == TRUE

Joined(s) == reader[s] = "exited"

\* switch_thread_join, then delete streamer.
CleanupJoins(a) ==
  LET s == cur[a]
  IN  /\ at[a] = "joining"
      /\ Joined(s)
      /\ streamer' = [streamer EXCEPT ![s] = "deleted"]
      /\ Goto(a, "destroying")
      /\ UNCHANGED <<commands, channel, vad, single, gotEnd, connected, writesDone, holder,
                     reader, history>>

\* The resampler and the VAD; only the VAD's pointer is cleared.
CleanupDestroys(a) ==
  LET s == cur[a]
  IN  /\ at[a] = "destroying"
      /\ destroyed' = Once(destroyed, s)
      /\ vad' = [vad EXCEPT ![s] = FALSE]
      /\ Goto(a, "removing")
      /\ UNCHANGED <<commands, channel, streamer, single, gotEnd, connected, writesDone,
                     holder, reader, promised, halfClosed, late>>

(***************************************************************************)
(* switch_core_media_bug_remove, not done when the channel is closing, and *)
(* the unlock.  It waits for the READ callback.  The CLOSE callback it     *)
(* runs enters the nested mutex again, and cleans up a second time if by   *)
(* now the channel names another bug.                                      *)
(***************************************************************************)
CleanupRemoves(a) ==
  LET s == cur[a]
      again == a \in Callers /\ s \in attached /\ ~Gone
  IN  /\ at[a] = "removing"
      /\ a \in Callers => at[Media] \notin FrameSteps
      /\ attached' = IF a \in Callers THEN attached \ {s} ELSE attached
      /\ IF again THEN ClearPrivate /\ destroyed' = Once(destroyed, s)
                  ELSE UNCHANGED <<bug, destroyed>>
      /\ Unlocks(s)
      /\ Leave(a, after[a])
      /\ UNCHANGED <<commands, up, streamer, vad, single, gotEnd, connected, writesDone,
                     reader, promised, halfClosed, late>>

-----------------------------------------------------------------------------
(* google_speech_frame, on the session's thread.                           *)

\* cb->streamer and got_end_of_utterance are read before the lock.
FrameBegins(s) ==
  /\ at[Media] = "idle"
  /\ s \in attached
  /\ streamer[s] = "live"
  /\ ~(single[s] /\ gotEnd[s])
  /\ GotoOn(Media, "frame", s, "idle")
  /\ UNCHANGED <<commands, stream, channel, reader, history>>

FrameLocks ==
  /\ at[Media] = "frame"
  /\ Locks(Media, cur[Media])
  /\ Goto(Media, "locked")
  /\ UNCHANGED <<commands, streamer, vad, single, gotEnd, connected, writesDone, channel,
                 reader, history>>

FrameRefused ==
  /\ at[Media] = "frame"
  /\ holder[cur[Media]] # None
  /\ Leave(Media, "idle")
  /\ UNCHANGED <<commands, stream, channel, reader, history>>

\* Speech: connect() opens the stream and lets the read thread go.
FrameConnects ==
  LET s == cur[Media]
  IN  /\ at[Media] = "locked"
      /\ vad[s]
      /\ ~connected[s]
      /\ connected' = [connected EXCEPT ![s] = TRUE]
      /\ promised' = Once(promised, s)
      /\ Goto(Media, "config")
      /\ UNCHANGED <<commands, streamer, vad, single, gotEnd, writesDone, holder, channel,
                     reader, halfClosed, destroyed, late>>

FrameConfigures ==
  /\ at[Media] = "config"
  /\ Writes(cur[Media])
  /\ Goto(Media, "draining")
  /\ UNCHANGED <<commands, stream, channel, reader, promised, halfClosed, destroyed>>

\* The audio that was buffered before the connect, if there is any.
FrameDrains ==
  /\ at[Media] = "draining"
  /\ Writes(cur[Media]) \/ UNCHANGED late
  /\ Goto(Media, "locked")
  /\ UNCHANGED <<commands, stream, channel, reader, promised, halfClosed, destroyed>>

FrameWrites ==
  /\ at[Media] = "locked"
  /\ connected[cur[Media]]
  /\ Writes(cur[Media])
  /\ UNCHANGED <<commands, stream, channel, reader, where, promised, halfClosed, destroyed>>

FrameEnds ==
  /\ at[Media] = "locked"
  /\ Unlocks(cur[Media])
  /\ Leave(Media, "idle")
  /\ UNCHANGED <<commands, streamer, vad, single, gotEnd, connected, writesDone, channel,
                 reader, history>>

-----------------------------------------------------------------------------
(* grpc_read_thread.                                                       *)

ReaderIs(s, step) == reader' = [reader EXCEPT ![s] = step]

\* waitForConnect returns: connected, or cancelled.
ReaderConnects(s) ==
  /\ reader[s] = "waiting"
  /\ promised[s] > 0
  /\ ReaderIs(s, IF connected[s] THEN "reading" ELSE "exited")
  /\ UNCHANGED <<commands, stream, channel, where, history>>

\* A response, of any kind, for a session that is gone.
ReadGone(s) ==
  /\ reader[s] = "reading"
  /\ ~up
  /\ ReaderIs(s, "exited")
  /\ UNCHANGED <<commands, stream, channel, where, history>>

\* END_OF_SINGLE_UTTERANCE, which comes once and only if it was asked for.
ReadEndOfUtterance(s) ==
  /\ reader[s] = "reading"
  /\ up
  /\ single[s]
  /\ ~gotEnd[s]
  /\ gotEnd' = [gotEnd EXCEPT ![s] = TRUE]
  /\ ReaderIs(s, "utterance")
  /\ UNCHANGED <<commands, streamer, vad, single, connected, writesDone, holder, channel,
                 where, history>>

\* writesDone, up to its test of m_writesDone.
ReaderCloses(s) ==
  /\ reader[s] = "utterance"
  /\ ReaderIs(s, IF writesDone[s] THEN "reading" ELSE "calling")
  /\ UNCHANGED <<commands, stream, channel, where, history>>

ReaderCalls(s) ==
  /\ reader[s] = "calling"
  /\ halfClosed' = Once(halfClosed, s)
  /\ writesDone' = [writesDone EXCEPT ![s] = TRUE]
  /\ ReaderIs(s, "reading")
  /\ UNCHANGED <<commands, streamer, vad, single, gotEnd, connected, holder, channel,
                 where, promised, destroyed, late>>

\* Read returns false; Finish.
ReadEnds(s) ==
  /\ reader[s] = "reading"
  /\ ReaderIs(s, "exited")
  /\ UNCHANGED <<commands, stream, channel, where, history>>

-----------------------------------------------------------------------------
Command(c) == Start(c) \/ Stop(c)

StartGoesOn(c) ==
  \/ StartFails(c)
  \/ AddBug(c)
  \/ AddBugFails(c)
  \/ PublishBug(c)
  \/ \E s \in Streams : StartStream(c, s)

CleanupGoesOn(a) ==
  \/ CleanupReturns(a)
  \/ CleanupLocks(a)
  \/ CleanupCloses(a)
  \/ CleanupCalls(a)
  \/ CleanupJoins(a)
  \/ CleanupDestroys(a)
  \/ CleanupRemoves(a)

FrameGoesOn ==
  \/ FrameLocks
  \/ FrameRefused
  \/ FrameConfigures
  \/ FrameDrains
  \/ FrameEnds

MediaNext ==
  \/ Hangup
  \/ FrameGoesOn
  \/ FrameConnects
  \/ FrameWrites
  \/ \E s \in Streams : FrameBegins(s) \/ CloseCallback(s)

ReaderGoesOn(s) ==
  \/ ReaderConnects(s)
  \/ ReaderCloses(s)
  \/ ReaderCalls(s)

ReaderNext(s) ==
  \/ ReaderGoesOn(s)
  \/ ReadGone(s)
  \/ ReadEndOfUtterance(s)
  \/ ReadEnds(s)

Next ==
  \/ \E c \in Callers : Command(c) \/ StartGoesOn(c)
  \/ \E a \in Actors : CleanupGoesOn(a)
  \/ MediaNext
  \/ \E s \in Streams : ReaderNext(s)

Spec == Init /\ [][Next]_vars

(***************************************************************************)
(* Fairness: a thread in the middle of a command, of a cleanup, of a frame *)
(* or of a response goes on; who waits for the mutex or for the READ       *)
(* callback to be over is let in; the far end ends a stream that was half  *)
(* closed; a session that hung up leaves its media loop and closes bugs.   *)
(***************************************************************************)
Fairness ==
  /\ \A c \in Callers : WF_vars(StartGoesOn(c))
  /\ \A a \in Actors : SF_vars(CleanupGoesOn(a))
  /\ WF_vars(FrameGoesOn)
  /\ SF_vars(\E s \in Streams : CloseCallback(s))
  /\ \A s \in Streams :
       WF_vars(ReaderGoesOn(s) \/ (halfClosed[s] > 0 /\ ReadEnds(s)))

FairSpec == Spec /\ Fairness

-----------------------------------------------------------------------------
(* Properties.                                                             *)

(***************************************************************************)
(* A GStreamer is not deleted under those who use it: the read thread, a   *)
(* frame that has the lock, a cleanup that is half way.  A frame reads the *)
(* pointer before it has the lock; the order of delete, bug_remove and     *)
(* unlock in the cleanup is what makes that safe.                          *)
(***************************************************************************)
StreamerInUse ==
  /\ \A s \in Streams : reader[s] \notin {"none", "exited"} => streamer[s] = "live"
  /\ at[Media] \in {"locked", "config", "draining"} => streamer[cur[Media]] = "live"
  /\ \A a \in Actors : at[a] \in {"calling", "joining"} => streamer[cur[a]] = "live"

\* std::promise throws when it is set twice: connect() and cancelConnect() of
\* one stream exclude each other, whoever calls them.
PromiseSetOnce == \A s \in Streams : promised[s] <= 1

(***************************************************************************)
(* Without single-utterance recognition a stream is half closed once, and  *)
(* nothing is written after that (writesDone, google_speech_frame).        *)
(***************************************************************************)
WritesDoneLast ==
  \A s \in Streams : ~single[s] => halfClosed[s] <= 1 /\ ~late[s]

\* While the session lives, the bug its channel names is on it, so that stop
\* never works on a bug that was removed (start_capture, cleanup).
NamedBugIsAttached == up /\ bug # None => bug \in attached

(***************************************************************************)
(* The inductive invariant behind the four properties above, for any       *)
(* number of callers: what the life of a stream implies, and what an actor *)
(* knows of the stream it works on.                                        *)
(***************************************************************************)
Holds(a) ==
  at[a] \in {"closing", "calling", "joining", "destroying", "removing",
             "locked", "config", "draining"}

Ending(s) ==
  streamer[s] = "deleted" \/ \E a \in Actors : at[a] = "joining" /\ cur[a] = s

Fresh(s) ==
  /\ reader[s] = "none" /\ promised[s] = 0 /\ halfClosed[s] = 0 /\ ~late[s]
  /\ s \notin attached /\ bug # s
  /\ \A a \in Actors : cur[a] # s

StreamAgrees(s) ==
  /\ streamer[s] = "none" => Fresh(s)
  /\ streamer[s] # "none" => reader[s] # "none"
  /\ streamer[s] = "deleted" => reader[s] = "exited"
  /\ streamer[s] = "deleted" /\ s \in attached =>
       \E c \in Callers : at[c] \in {"destroying", "removing"} /\ cur[c] = s
  /\ promised[s] <= 1
  /\ promised[s] = 1 => connected[s] \/ Ending(s)
  /\ halfClosed[s] > 0 => writesDone[s]
  /\ ~single[s] => /\ reader[s] \notin {"utterance", "calling"}
                   /\ halfClosed[s] <= 1 /\ ~late[s]
                   /\ halfClosed[s] = 1 => Ending(s)

HolderAgrees(a) ==
  /\ at[a] \notin {"idle", "start"} => cur[a] \in Streams
  /\ Holds(a) => holder[cur[a]] = a
  /\ at[a] \in {"calling", "joining"} => streamer[cur[a]] = "live"
  /\ at[a] = "calling" /\ ~single[cur[a]] => halfClosed[cur[a]] = 0

CallerAgrees(c) ==
  /\ at[c] \notin FrameSteps
  /\ at[c] \in CleanupSteps /\ Holds(c) => bug # cur[c]
  /\ at[c] \in {"adding", "publish"} =>
       /\ bug # cur[c]
       /\ \A b \in Callers \ {c} : cur[b] # cur[c]
  /\ at[c] = "adding" =>
       streamer[cur[c]] = "live" /\ cur[c] \notin attached /\ cur[Media] # cur[c]
  /\ at[c] = "publish" => ~up \/ cur[c] \in attached

MediaAgrees ==
  /\ after[Media] = "idle"
  /\ at[Media] \in {"idle"} \union FrameSteps \union CleanupSteps
  /\ at[Media] \in FrameSteps => cur[Media] \in attached
  /\ at[Media] \in {"locked", "config", "draining"} => streamer[cur[Media]] = "live"
  /\ at[Media] \in CleanupSteps => ~up /\ cur[Media] \notin attached

IInv ==
  /\ TypeOK
  /\ \A s \in Streams : StreamAgrees(s)
  /\ \A a \in Actors : HolderAgrees(a)
  /\ \A c \in Callers : CallerAgrees(c)
  /\ MediaAgrees
  /\ NamedBugIsAttached

(***************************************************************************)
(* start stops the stream the channel names before it opens its own: at    *)
(* any time one stream's bug is on the session, those apart that were      *)
(* started while another command ran.  Nothing is locked from the test for *)
(* the old bug to the naming of the new one (start_capture), and such a    *)
(* start can meet a stream that is not named yet, or not any more.         *)
(***************************************************************************)
OneStreamAttached == \A s, r \in attached \ raced : s = r

(***************************************************************************)
(* The resampler's pointer is not cleared, so only the test for the        *)
(* private keeps a second cleanup from destroying it again, the CLOSE      *)
(* callback's or another stop's: it does so unless some other stream was   *)
(* started while a command ran, whose private the second cleanup takes.    *)
(***************************************************************************)
ResamplerDestroyedOnce ==
  \A s \in Streams : raced \subseteq {s} => destroyed[s] <= 1

\* Every cleanup returns: the read thread it joins was let go, whether it was
\* reading or still waiting for the connect.
CleanupCompletes ==
  \A a \in Actors : at[a] \in CleanupSteps ~> at[a] \notin CleanupSteps

(***************************************************************************)
(* The stream of a bug that is named by its channel and on its session is  *)
(* ended and deleted after a hangup, if no stream was started while        *)
(* another command ran: else the CLOSE callback of another bug can take    *)
(* the private first.  A stream whose bug is named only after the CLOSE    *)
(* callback, which found no private, never is ended (start_capture).       *)
(***************************************************************************)
HangupEndsStream ==
  \A s \in Streams :
    ~up /\ bug = s /\ s \in attached /\ raced = {} ~>
      reader[s] = "exited" /\ streamer[s] = "deleted"

===============================================================================
