# Verification of the FreeSWITCH modules in this overlay

The repository is a Gentoo overlay. Most of it is ebuilds, patches and
configuration; the programs in it are FreeSWITCH modules under
`net-voip/freeswitch/files/`, written in C and C++. This directory holds TLA+
models of those modules, the TLC runs that check them and proofs for TLAPS.

All paths below are relative to `net-voip/freeswitch/files/`.

## 1. The system and its parts

FreeSWITCH loads each module into one process. A *session* is a call; it has a
thread of its own that pulls media, and a *channel* with named *privates*. An
API command (`uuid_audio_fork`, `uuid_google_transcribe`, ...) runs on some
other thread, locates the session by uuid and works on it. A *media bug* hooks a
module into the session's audio: its callback runs READ for each frame on the
session's thread, and CLOSE once, on the thread that removes it.

| Component | State | Operations | Interacts with | Hard behaviour | What makes it correct |
|---|---|---|---|---|---|
| `mod_audio_fork`, websocket layer (`audio_pipe.cpp/.hpp`, class AudioPipe) | per pipe: m_state, the text and audio buffers, the lws connection; three static lists of pending connects, disconnects and writes; up to 5 libwebsockets service threads | connect, bufferForSending, unlockAudioBuffer, close, do_graceful_shutdown; `lws_callback` for every event of a connection | called by the sessions; calls `eventCallback` back from a service thread | queues emptied by several threads, wake-ups, m_state read and written without locks, delete of a pipe others still point to | connected once; told in order, once; no wake-up lost; deleted at its end only; what was buffered leaves |
| `mod_audio_fork`, sessions (`lws_glue.cpp`, `mod_audio_fork.c`) | per fork (`tech_pvt`): pAudioPipe, mutex, sessionId, audio_paused, initial metadata; the channel's private | start, stop, send_text, pause/resume, graceful-shutdown, READ frame, CLOSE, eventCallback | AudioPipe, FreeSWITCH | stop against hangup against the end of the connection; start after stop | two bugs on a session only by a race; metadata before audio; a fork keeps its pipe until that ended; stop closes the connection |
| `mod_google_transcribe` (`google_glue.cpp`, `mod_google_transcribe.c`) | per stream (`cap_cb`): GStreamer, read thread, mutex, VAD, resampler; the private named by the bug | start, stop, READ frame, CLOSE, `grpc_read_thread` | gRPC, FreeSWITCH | the cleanup joins the read thread under the mutex; a promise two threads may set; WritesDone from two threads | streamer not used after its delete; every cleanup returns; a hangup ends the stream |
| SimpleBuffer (`mod_google_transcribe/simple_buffer.h`) | a ring of chunks | add, getNextChunk | GStreamer before the connect | the read position is derived from the write position | chunks come out once and in order |
| `mod_dialogflow` (`google_glue.cpp`, `mod_dialogflow.c`) | per stream (`cap_cb`): GStreamer with m_finished, read thread, mutex; one private per channel | start, stop, READ frame, CLOSE, `grpc_read_thread`, its error handler | gRPC, FreeSWITCH | the read thread stops the session itself; a stop runs the CLOSE callback, which stops again; m_finished without a lock | a streamer outlives its read thread; nothing written after the half-close; everything ends after a hangup |
| `mod_avmd` (`mod_avmd.new.c`) | per session: a circular buffer, a mutex, detectors with a mutex, condition and flags each; globally a nested mutex and a count | start and stop by applications, by `avmd_start_function` and by the API command; the callback; detector threads; close and join | FreeSWITCH | hand-over of a frame to several threads and back; half-failed starts; three locks | rounds; no thread forgotten or outliving its mutex; the count; everything ends after a hangup |
| `mod_amd` (`AMD/mod_amd.c`) | per detection (`amd_helper`): times, flags and counters of the word detection; two privates, two variables | `voice_start`, `voice_stop`, `waitforresult`, the callback | FreeSWITCH | results that follow from long histories; times that start at 0; two detections on a channel | bounded analysis; a result its frames justify; the wait returns |
| `mod_ytel_dial`, `mod_vm` | positions in lists of targets and caller ids, a retry count, the peer's read lock | dial loop, answer, bridge, release | FreeSWITCH | rotation at the end of a list; hangup between two steps | targets in turn; the peer released |
| `mod_google_tts`, `mod_ruby` | none shared | speech feed and read; run a script | Google, Ruby | none | not modelled |
| ebuilds, patches, init scripts, configuration | none | none | none | none | not modelled |

## 2. The modules

    AudioPipe        the websocket layer, with any client
      AudioFork      EXTENDS AudioPipe: the sessions and commands as its client
    AudioPipeProofs  EXTENDS AudioPipe
      AudioForkProofs EXTENDS AudioFork, AudioPipeProofs
    Transcribe       mod_google_transcribe
      TranscribeProofs EXTENDS Transcribe
    FrameRounds      what the detection of mod_avmd promises
      Avmd           mod_avmd; INSTANCEs FrameRounds
        AvmdProofs   EXTENDS Avmd
    Dialogflow       mod_dialogflow
      DialogflowProofs EXTENDS Dialogflow
    Amd              mod_amd
      AmdProofs      EXTENDS Amd
    Dial             mod_ytel_dial and mod_vm
      DialProofs     EXTENDS Dial
    MC...            the same modules with symmetry sets and bounds for TLC

### AudioPipe

`AudioPipe` is the *abstract specification* of the layer as well as its model:
`Client` is every client that obeys the interface (one connect per pipe,
anything else at any time), and `Service` is the service threads.

* `state` is m_state with "none" before the constructor and the value the freed
  memory keeps after it; `text`, `audio`, `closing` etc. are the buffers as sets;
  `freed` the pipes that were deleted.
* `pendingConnects/Disconnects/Writes` are the three static lists. A list that a
  thread has taken or walks is the thread's own part of the state.
* A caller's operation is cut where another thread can get between: the check of
  m_state (`SendAccepted`, `CloseAccepted`), the store and push (`SendStored`,
  `CloseStored`), the wake-up (`WakeUp`). A caller that checked an already
  deleted pipe reads what its memory held last, or the process is down
  (`Touch`).
* `EventWaitCancelled` begins a round of `LWS_CALLBACK_EVENT_WAIT_CANCELLED`;
  `TakeConnects`, `ConnectClient`, `TakeDisconnects`, `TakeWrites`,
  `RequestWritable` and `EndCancelled` are its steps in order. `Established`,
  `ConnectionError`, `Receive`, `Writeable` (with `WriteEof`, `WriteText`,
  `NoText`, `CloseOrWriteAudio`), `Closed` and `ClosedByFarEnd` are the other
  callbacks: the last two are CLOSED up to its first and from its second read of
  m_state, which no lock joins.
  `CallbackReturns` is the return of the notification the thread was in.
* `Links` and `ClientDies` are external: what libwebsockets does with a
  connection, and the end of the process.

### AudioFork

A fork is a `tech_pvt` and the one pipe it is made with, so a pipe names both.
`at[a]` says where a command, a session's thread or a service thread inside
`eventCallback` is; `pvt[a]` and `ap[a]` are the tech_pvt and pAudioPipe it holds
in local variables. `StartCapture`, `StartConnects`, `AddBug`/`AddBugFails`,
`PublishBug` are the command start; `Stop` and `CloseCallback` enter the cleanup,
whose steps are `CleanupLocked` (or `CleanupWaits`, `CleanupFaults`), `ClearBug`
(the private), `RemoveBug` (the bug; its CLOSE callback may enter a cleanup
inside the cleanup, and `outer` is where that returns to), `FinalTextAccepted`/`FinalTextReturns`/`FinalTextEnds`, `CloseStarts`,
`CleanupEnds`; `Frame*` is `fork_frame`; `EventCallback`, `Metadata*` and
`EventReturns` are `eventCallback`. `raced` and `overlapped` are histories: the
forks that were started while another start of the session, or the removal of its
bug, was under way, and those whose connections overlapped.

### Transcribe

One session, one bug name, any number of streams one after the other. `at[a]`
says where a command or the session's thread is; a command and the CLOSE
callback run the same cleanup steps, `CleanupLocks` (or `CleanupReturns`, the
race branch), `CleanupCloses` and `CleanupCalls` (writesDone, cut between the
test of m_writesDone and the call), `CleanupJoins`, `CleanupDestroys`,
`CleanupRemoves`. `Frame*` is `google_speech_frame`, with connect() cut between
setting the promise, writing the configuration and draining the buffer. The read
thread is `Reader*`. `promised`, `halfClosed`, `destroyed` and `late` are
history variables that count what was done to a stream; `raced` holds the streams
that were started while another command of the session ran.

### Dialogflow

A stream is a `cap_cb`; its read thread has the same name, because a read thread
whose call failed runs a stop like a command does (`HandleError`). `at[a]` is
where an actor is. A stop works on the stream the channel names when it begins
(`StopBegins`), not on the one that made it stop; its steps are `StopLocks`,
`StopCloses` (writesDone and the test of m_finished), `StopMarks`,
`StopFinishes`, `StopJoins`, `StopKills`, `StopClears`, `StopRemoves`,
`StopUnlocks`. `StopRemoves` enters the CLOSE callback, a stop inside the stop:
`outer` is the stream of the first and `after` where it all returns to. `Start`
to `PublishBug` are `start_capture`, which begins with a stop if something runs.
`halfClosed` and `late` are history.

### Avmd and FrameRounds

`FrameRounds` is the *abstract specification*: a frame is a round, in which each
detector without a verdict is handed the frame once and examines it once, and
the next one is inserted when nobody owes anything. `Avmd` has the flags
(`done` = flag_processing_done, `exit` = flag_should_exit), the mutex of the
session (`holder`), the two kinds of condition wait (`asleep` for
cond_detectors_done, the thread step "asleep" for cond_start_processing) and the
thread of every detector. Application, API command and hangup share `AddBug`,
`PublishBug`, `ClearPrivate`, `RemoveBug` and the steps of the close
(`CloseLocks`, `Await`, `CloseBegins`, `TellExit`, `JoinThread`, `ThreadsJoined`,
`UncountSession`); `after[a]` tells the close of a failed start, of a failed bug
and of the CLOSE callback apart. `LaunchThreads` may stop at any thread. `Frame*`,
`HandOver`, `AllHanded`, `Collect` are `avmd_process`; `Detector*` is
`avmd_detector_func`. Samples are counted in units of AVMD_P; what is in them is
not modelled, so a detector may find a beep in anything.

### Amd

`Analysed(h, noisy, t)` is `amd_function`: what a frame at time t makes of a
helper, with one operator per branch. `Frame` runs it for every bug on the
channel; `Report` and `Complete` are the rest of `amd_callback`, cut where the
waiting application can look. Time is in ms. `heard` keeps the frames, and the
property `ResultIsJustified` says in terms of them alone (runs of noise and
silence, their lengths and the silences between talks) when each result is
right: a second definition of the analysis, without its flags.

### Dial

Both applications in one module; `app` selects between them where they differ
(`Last`, `LetGo`, `Dialled`, `Finish`). `at` follows the code from the arguments
to the end; the caller and the peer may hang up between any two steps, and a peer
that is hung up and not locked is destroyed (`DestroyPeer`). `dialled` keeps the
positions of the attempts.

## 3. The runs

| Run | Instance | States | Question |
|---|---|---|---|
| `AudioPipe_threads` | 1 pipe, 2 service threads, 2 callers, 1 text | 64 k | order of notifications, connected once, deleted at the end, no lost wake-up, the inductive invariant |
| `AudioPipe_live` | 1 pipe, 1 thread, 1 caller, text and audio, fair | 18 k | connects are answered, closes complete, text and audio leave |
| `AudioFork_session` | 1 fork, 2 command threads, metadata and audio, stop, graceful shutdown, send_text | 2.1 M with symmetry | metadata before audio; the inductive invariant, which has the mutual exclusion of cleanups and frames and that a live channel names an attached bug |
| `AudioFork_restart` | 2 forks of one session, 2 command threads, stop, until the hangup | 3.0 M with symmetry | two bugs on a session only by a race; the named bug is attached; a fork keeps its pipe until that ended; no connection being made drops out of the list (one service thread) |
| `Transcribe_session` | 2 streams, 2 command threads, fair | 201 k | everything about Transcribe |
| `Avmd_session` | one session of the application with a plain and a lagged detector, one of the API command, fair | 450 k | Avmd implements FrameRounds; no thread left; the count; everything ends after a hangup; the inductive invariant |
| `Dialogflow_session` | 2 streams, 1 command thread, fair | 59 k | a stop keeps the read thread's contract; everything ends after a hangup; the inductive invariant |
| `Amd_call` | 2 detections on one channel, frames 1 ms apart, fair | 1.5 M | bounded analysis, justified results, the wait returns |
| `Dial_calls` | both applications, up to 10 numbers and 12 tries | 58 k | dialled in turn, peer released |

Three more runs end in a counterexample; each is a statement of a comment or of
`mod_audio_fork/README.md` that the code does not keep:

* `AudioFork_stop`: a stop during the connect closes nothing (`close()` returns
  when m_state is not CONNECTED); the connection is made and stays.
* `Avmd_frame`: "Process one frame of data with avmd algorithm", but a detector
  copies s->pos once, before its loop (`mod_avmd.new.c:2257`), while every frame
  moves s->pos on: from the second frame on the plain detectors examine the place
  of the first.
* `Dialogflow_contract`: "Our contract: while we are reading, cb and cb->streamer
  will not be deleted" (`google_glue.cpp:332`), but a start whose bug cannot be
  added deletes the streamer under its read thread (`mod_dialogflow.c:116`).

### Seen in the models, without a run of their own

Orders of events that the models have and the code has, so that no property of a
run can exclude them:

* A close() that finds the pipe CONNECTED and stores DISCONNECTING between the two
  reads of m_state in CLOSED (`audio_pipe.cpp:113`, `:117`) makes both tests fail:
  the session is told nothing, the pipe is deleted, and tech_pvt->pAudioPipe stays
  set. `NotificationOrder` and `DeletedAtTheEnd` say that this is the only way to
  be left untold.
* With two service threads and two pipes, which `mod_audio_fork/README.md:7`
  allows, `OpeningIsPending` is violated: a connect that one thread has taken and
  not yet given a wsi is dropped from pendingConnects by the clean-up scan of
  another (`audio_pipe.cpp:332`).
* The final text of a stop is stored after WRITEABLE looked for text and before it
  looked at m_state: the connection closes without it (`audio_pipe.cpp:226`).
* pAudioPipe is read, the service thread deletes the pipe, the pointer is used
  (`lws_glue.cpp:434`; `Touch` in AudioPipe).
* After a graceful shutdown WRITEABLE sends empty frames only
  (`audio_pipe.cpp:200`): text, audio and a later close never leave. The liveness
  properties of `AudioPipe_live` are about the other connections.
* `eventCallback` finds the fork by session (`lws_glue.cpp:163`), so the end of a
  stopped fork's connection takes the pipe of the fork started after it.
  `LostPipeIsOver` is about the forks whose connections overlapped with none.
* Two starts of one session at once both pass the check for a bug
  (`mod_audio_fork.c:77`; the same in `mod_google_transcribe.c:211`), and a start
  that runs between the clearing of the private and the removal of the bug has
  that bug's CLOSE callback clean up its own fork (`lws_glue.cpp:442`-`:444`).
  `OneBugPerChannel` and `OneStreamAttached` say that two bugs meet in no other way.
* "grpc crashes if we call this twice on a stream"
  (`mod_google_transcribe/google_glue.cpp:335`), but with single utterance the read
  thread and a cleanup can both call WritesDone.

Two deadlocks, which `HangupCompletes` of both modules excludes by name
(`Entangled`), so that TLC shows there is no other:

* Avmd: the start application holds s->mutex and waits for the globals mutex
  (`mod_avmd.new.c:1523`); the API command holds that and waits in bug_remove or
  bug_add for the frame, which waits for s->mutex.
* Dialogflow: the error handler of a read thread waits for the mutex of a stop
  that joins that read thread (`google_glue.cpp:422`, `:534`).

And, read off the models or the code while modelling:

* mod_audio_fork: the metadata of a fork goes to whatever fork the channel names
  at that time, or nowhere (`lws_glue.cpp:168`); two texts that wait are sent as
  one frame (`audio_pipe.cpp:523`); a second cleanup that waits for the fork mutex is never let in, since the first
  destroys it without unlocking (`lws_glue.cpp:462`); after CONNECT_FAIL nobody
  deletes the pipe.
* mod_google_transcribe: a stream whose bug is not added, or is named only after
  the CLOSE callback ran, is never ended (`mod_google_transcribe.c:274`, `:278`);
  with two command threads a cleanup can clear the private of a later bug
  (`google_glue.cpp:628`), and then the nested CLOSE destroys the resampler twice.
* mod_dialogflow: a stop clears the private of a later stream
  (`google_glue.cpp:540`), and a CLOSE callback stops whatever stream is named by
  then, so a stream nobody stops is left reading; the read thread of a session
  that is gone leaves its call unfinished.
* mod_avmd: sessions of the API command are counted out and never in
  (`mod_avmd.new.c:648`), and have no detectors, since their settings are not
  filled in; a stop application can find a session that was closed, for it reads
  the private before the bug is removed, and locks its mutex (`:1576`).
* mod_amd: the private "_amd_" is stored before the bug exists (`mod_amd.c:525`),
  so `voice_stop` finds nothing and a second detection starts beside the first;
  a result "max-intro" is never published; a talk from the first frame on is no
  talk, and ends in "silent-initial".
* mod_vm dials one past the end of both arrays (`mod_vm.c:193`, `:197`), and leaves
  a peer locked that it does not bridge (`mod_vm.c:213`).

### Bounds, and why they are enough

* Two service threads and two callers give every pair of positions of two
  threads in the same list, which is all the code distinguishes; more pipes only
  matter where a scan of one list meets another pipe (`AudioFork_restart`).
* `MaxQueued` bounds the texts that wait in one m_metadata: one shows a text that
  waits, two show texts that wait together.
* `Payloads` are the texts and "audio". A text is a name and m_metadata the
  sequence of those appended to it; audio is a flag. The lists are sets: a second
  entry of a pipe changes nothing that follows, and where the order of
  pendingConnects matters, `ahead` keeps it.
* `AudioFork_session` has one fork and everything that can happen to it;
  `AudioFork_restart` has two forks of a session and two command threads, which is
  what a race of starts, a start beside a removal and a late end of an earlier
  connection need. `WhileUp` ends that run with the hangup. A hangup is raced with
  everything in `AudioFork_session`; the theorems have both at once.
* `Transcribe_session` has two command threads and two streams. Two commands at once
  multiply everything else, so `SmallRaces` bounds them: while two commands run, and
  in whatever follows a start that raced, the session is up, no frame is in the
  middle, and both streams were opened without VAD and without single utterance.
  What one command after the other can do is not bounded. Without the bound all the
  invariants of the run were checked once (2.6 M states), and all of them are
  proved; what it does bound is the two liveness properties.
* `Avmd_session`: one detector of each kind, so that a round has one that examines
  and one that lags; one session of each origin, so that the count meets both. The
  circular buffer has one place there (`BufferSamples` = 1): no property of that
  run is about positions, and a larger one only multiplies states. `Avmd_frame`
  has a buffer of two frames, so that the second frame is at another place than
  the first.
* `Dialogflow_session`: two streams are what a stop needs to find another stream
  than the one it was about. Any number is proved.
* `Amd_call`: thresholds of 1 to 6 ms with a frame per ms stand for the
  configuration's; they keep the order of the defaults' roles, so that each branch
  is taken and each threshold is met exactly, missed by one, and passed. `Epoch` is
  past every threshold, as the time since 1970 is: the times that are 0 before the
  first noise make a difference that is larger than all of them.
* `Dial_calls`: ten numbers is the size of destArray; twelve tries go round the
  longest list more than once.
* CHECK_DEADLOCK is off everywhere: pipes, streams, sessions and calls are used
  once in the models, so every behaviour may end. That nothing hangs is what the
  liveness properties say.

### Fairness

A service thread loops in `lws_service` until the module is unloaded, and one call
serves the cancel pipe and every socket that is ready, so none of its duties can
be passed over for ever: they are strongly fair (`ServiceFairness`). A connection
attempt ends (timeout_secs is 10), and so does a close that was begun. A thread in
the middle of an operation, a command, a cleanup or a frame goes on unless it is
blocked (weak fairness). In Transcribe and Dialogflow the far end ends a call that
was half closed, and a session that hung up closes its bugs. Lock acquisition by a
cleanup in Transcribe is strongly fair, because the media thread takes the mutex
for the length of a frame again and again, and blocking mutexes let a waiter in.
A read thread of Transcribe goes on after its connect, its half-close and, once the
call was half closed, to the end of the loop. In Avmd, Dialogflow and Amd weak
fairness of whoever is in the middle of something is all there is: the callback,
each detector thread, each command, the waiting application. Dial has no liveness
property: that it ends would only say that the calls of FreeSWITCH return. No
fairness is assumed of commands, of hangup, of frames, of speech, or of responses.

## 4. What is proved

For every number of pipes, threads, sessions, callers, texts and streams.

`AudioPipeProofs`: `IInv` is inductive. It says of each pipe that its state,
its connection, its place in the lists and what the session was told agree
(`PipeAgrees`), of each thread what the round it is in has taken
(`ConnectsAgree`, `CallAgrees`), of each caller what it knows from its check
(`DoingAgrees`), and of each list that somebody was or will be woken for it.
Type correctness alone is not inductive for the order of notifications: what
CLOSED tells depends on nobody but the owner of a connection moving m_state to the
ended states, and `ClosedAgrees` says what its thread knows between its two reads
of m_state, when a close() may still store DISCONNECTING. From it follow `TypeOK`, `NotificationOrder`,
`ConnectedOnce`, `DeletedAtTheEnd` and `NoLostWakeup`. `OpeningIsPending` is
proved for one service thread (`OneServiceThread`), the default of
MOD_AUDIO_FORK_SERVICE_THREADS: `OpeningInv` says that a connection that is being
made is in pendingConnects with its wsi, and so is what the round in progress has
yet to connect; the scan of another connection's answer drops neither.

`AudioForkProofs`: AudioFork uses the layer by the calls AudioPipe allows, so `IInv`
holds there as well. `ForkInv` is inductive on top of it, and gives `MutexExcludes`
and `LiveBugIsAttached`. Three more invariants stand on these two:

* `GreetInv`, for `MetadataBeforeAudio` without any hypothesis. Nothing is sent
  before the m_callback of CONNECT_SUCCESS has returned, because both run on the
  connection's own thread (`Unsent`, `Mute`); metadata that was stored waits with
  no audio before it as long as the connection is open (`Greeted`); and a
  WRITEABLE that passed its text found none (`AudioAfter`).
* `LostInv`, for `LostPipeIsOver`: of two forks of one session whose connections did
  not overlap, one is over with its last callback returned (`InTurn`), so whatever
  notification takes the pipe of the other one is its own.
* `OneForkInv`, for `OneBugPerChannel` with any number of command threads: a start
  that raced with none finds no bug on the channel, no other start, no removal and
  no other such bug (`StartAlone`); a named bug that raced with none is named while
  no start and no other removal runs (`BugAlone`); and one that is on a live session
  is named, about to be, or being removed (`AttachedKnown`).

`TranscribeProofs`: `IInv` is inductive: what the life of a stream implies
(`StreamAgrees`), who holds which mutex (`HolderAgrees`), what a command and the
session's thread know (`CallerAgrees`, `MediaAgrees`). The core is the order
delete, remove the bug, unlock in the cleanup: a frame that got the mutex works
on a bug that is still on the session, so its stream was not deleted. It gives
`StreamerInUse`, `PromiseSetOnce`, `WritesDoneLast` and `NamedBugIsAttached`.
Two more invariants are about the commands that run beside each other, for any
number of threads that give them. `RaceInv`: while a start that raced with none is
under way no other command runs (`StartAlone`); of a named bug that raced with none
nobody but who waits for its own mutex has a cleanup to do (`NamedAlone`); and such
a bug on a live session is named, about to be, or being removed (`AttachedKnown`).
It gives `OneStreamAttached`. `DestroyedInv` says that from the cleanup that took
its private on, a stream is not named again and whoever waits for its mutex will
find no private (`PastIt`), and gives `ResamplerDestroyedOnce`.

`AvmdProofs`: `IInv` is inductive, for any number of sessions, detectors and API
threads. It says who can be where (`WhereAgrees`), at which steps s->mutex is held
(`MutexAgrees`), what has become of the session of who opens or closes it
(`LifeAgrees`), which threads a session has (`ThreadsAgree`), how far a loop over
the detectors has come (`LoopsAgree`), and which detectors are done outside of a
round (`RoundsAgree`). It gives `NoThreadLeft` and that a frame works on an open
session. With one more inductive fact, that the detectors of a session that failed
or was removed are done or told to exit, every step of Avmd maps to a step of
FrameRounds or a stutter: `ImplementsRounds`. `SessionsCounted` needs that the
counted sessions are a finite set at every moment, also if there are infinitely
many sessions to come (`CountInv`), and that a session is counted in while only
its start knows it (`StartsFirst`): so it enters the set once and leaves it once.

`DialogflowProofs`: `IInv` is inductive. The core is who holds which mutex when
stops nest (`MutexAgrees`: a stop inside a CLOSE callback holds two), that a stream
taken off the channel does not come back (`ClearAgrees`), and that m_finished or a
stop about to set it follows every half-close (`HalfCloseAgrees`), from which
`NoLateWrite` follows. `StopKeepsContract` is an action property from
`ThreadAgrees`: a thread that is no longer set was joined.

`DialProofs`: `IInv` is inductive: what the legs are at each step (`LegsAgree`) and
that both positions follow from the number of failed attempts (`TurnsAgree`). It
gives `DialledInTurn`, `PeerReleased` and that ytel_dial stays inside its lists.

`AmdProofs`: three inductive invariants, for any settings, times between the frames
and number of detections. `TypeInv`: the last noise is not in the future, so no time
that is added is negative. `BudgetInv`: a detection that listens has a frame to
come, and each frame past total_analysis_time added to end_session.
`KnowsInv`: each of the flags, times and counters of a helper is a fact about all
the frames it heard (`Knows`), which every frame of either kind keeps; the talks of
the new history are those of the old one and at most one more. That is the step of
an induction over the history, done along the behaviour: no induction over
sequences is needed. They give `TypeOK`, `AnalysisIsBounded` and `ResultIsJustified`.

The assumptions are those of the modules: None is none of the names, the kinds of
actors are disjoint, the actors include callers, sessions and service threads, the
sizes are natural numbers and positive where the code divides by or counts to them.
Some theorems ask for more, and TLC shows each of them false without it:

| Theorem | Asks for | Why the code may be used so, and what happens otherwise |
|---|---|---|
| `OpeningIsPendingHolds`, `ForkOpeningIsPending` | one service thread | the default (`mod_audio_fork/README.md:7`); with two, one thread drops what the other has taken and not yet given a wsi |
| `AnalysisAlwaysBounded` | TotalAnalysisTime not 0 | 5000 in `AMD/amd.conf.xml:12`; with 0, and silent_max_session 0, the first frame is one too many |
| `ResultAlwaysJustified` | NoiseMinLength not 0 | 120 in `AMD/amd.conf.xml:9`; with 0 one frame of noise is a talk at once, and max-intro is published |

Only model-checked are the nine liveness properties (`ConnectAnswered`,
`CloseCompletes`, `TextLeaves`, `AudioLeaves`, `CleanupCompletes`,
`HangupEndsStream`, the two `HangupCompletes`, `WaitReturns`): temporal proofs under
fairness, and ENABLED, are out of the prover's reach. Every invariant and action property of a passing run is stated by a theorem. What a recursive
function computes for every input would need an induction rule the provers cannot
instantiate; no property here rests on one.

## 5. Abstractions

* `bufferForSending` appends and pushes in one step: both are ordered before the
  wake-up and no thread can tell them apart.
* `nchild` is read and written without a lock in the add functions, so a
  wake-up may go to any thread.
* Freed memory reads as it was last, or the process is down; no new pipe takes the
  address of a deleted one.
* The audio mutex is held from the store of audio to the wake-up; a frame always
  has data.
* A session is located until it hangs up; frames may come until its bugs are
  removed; removing a bug waits for a READ callback. Destroying a locked mutex
  wakes nobody.
* `audio_paused`, `graceful_shutdown` and `buffer_overrun_notified` share a word;
  the race of their bits is not modelled.
* Avmd: a critical section under a detector's mutex is one step, and so is a look
  for a detector that is not done (while it looks, detectors only become done).
  Frames come on one thread other than the application's. The settings are not
  told apart.
* Dialogflow: Read returns when the far end has ended the call; a read thread that
  joins itself is refused by the system and goes on.
* Amd: a frame is noise or silence; the byte count total_time is counted in frames;
  time stands still during a frame. hangover and hangunder are 0 in the code.
* Dial: originate, playback, bridge and hangup are FreeSWITCH's; the time of a
  ringing peer is not modelled.
* Result JSON, request configuration, logging, module load and unload, the files
  of played audio and the prompt of `start_capture2` are left out.

## 6. Not modelled

* Buffers: the audio buffer of AudioPipe with its LWS_PRE offset and the share the
  resampler is offered (`audio_pipe.hpp:61`, `lws_glue.cpp:576`), the receive
  buffer with fragments (`audio_pipe.cpp:158`), SimpleBuffer's ring. They are
  sequential code behind a lock or on one thread.
* The audio files that mod_audio_fork and mod_dialogflow write and play, and the
  unload of the websocket layer (`deinitialize`, `audio_pipe.cpp:455`).
* mod_avmd: the estimation of amplitude and frequency, the configuration commands
  (set, load, reload, default, show), module load and shutdown.
* `mod_dialogflow/parser.cpp`: a translation of responses to JSON without state.
* `mod_google_tts`, `mod_ruby`: sequential glue without shared state.
* Ebuilds, patches, init scripts and configuration: no program of their own.

## 7. Plan

1. done: AudioPipe, AudioFork, Transcribe, Avmd with FrameRounds, Dialogflow, Amd,
   Dial, and the proofs named in section 4.
2. Buffers: the audio buffer's offsets and the fragments of a message, proved
   inside their limits; SimpleBuffer's ring against a queue.
3. Playout files of a session (service thread against cleanup) and the unload of
   the websocket layer.
4. An abstract gRPC call that Transcribe and Dialogflow both implement.
5. done: a theorem for every invariant and action property of the passing runs.
6. More theorems: that the deadlocks named in section 3 are the only ones (the
   safety part of the two `HangupCompletes` and of `CleanupCompletes`: whoever waits
   for a mutex or a join waits for somebody who can go on); what remains true with
   several service threads; the invariants of FrameRounds, carried over to Avmd by the refinement.
