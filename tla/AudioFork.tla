------------------------------ MODULE AudioFork ------------------------------
(***************************************************************************)
(* mod_audio_fork as a whole: the API commands, the media bug callback and *)
(* the hangup of each session (mod_audio_fork.c, lws_glue.cpp) on top of   *)
(* the websocket layer.  A fork is a tech_pvt and the one AudioPipe that   *)
(* fork_data_init makes with it, so both are named by the pipe.            *)
(*                                                                         *)
(* FreeSWITCH itself is external: switch_core_session_locate fails once    *)
(* the channel is hung up, the READ and CLOSE callbacks of a session's     *)
(* bugs run on the session's thread, and removing a bug waits for a READ   *)
(* callback of that session to return.                                     *)
(***************************************************************************)
EXTENDS AudioPipe

CONSTANTS
  Sessions,   \* the FreeSWITCH sessions, each with its thread
  Callers,    \* the threads that run uuid_audio_fork commands
  Commands    \* the commands they give, besides start

ASSUME CommandsAssumption ==
  Commands \subseteq {"stop", "send_text", "pause", "graceful-shutdown"}
ASSUME ActorsAssumption ==
  /\ Callers \union Sessions \union Threads \subseteq Actors
  /\ Callers \intersect Sessions = {}
  /\ (Callers \union Sessions) \intersect Threads = {}

VARIABLES
  up,         \* the session can be located
  bug,        \* the channel's private MY_BUG_NAME: the fork of that media bug
  attached,   \* the forks whose media bug is on their session
  owner,      \* sessionId of each fork
  ref,        \* tech_pvt->pAudioPipe is not nullptr
  mutex,      \* tech_pvt->mutex: "none", "free", "held" or "gone"
  muted,      \* which of audio_paused and graceful_shutdown of tech_pvt are set
  at,         \* where each actor is
  pvt,        \* the tech_pvt the actor works on
  ap,         \* the pAudioPipe it read from it
  final,      \* stop was given a final text
  taken,      \* the bug a cleanup found under the lock and has yet to remove
  outer,      \* the cleanup that waits for a CLOSE callback to return
  raced,      \* history: the forks started beside a start or beside a removal
  overlapped, \* history: the forks of one session whose connections overlapped
  greeted,    \* history: the pipes that got their own initial metadata
  sent        \* history: what each connection carried

history == <<greeted, sent>>
starts == <<raced, overlapped>>
channel == <<up, bug, attached, owner, starts>>
fork == <<ref, mutex, muted>>
local == <<at, pvt, ap, final, taken, outer>>
forkVars == <<channel, fork, local, history>>
allVars == <<vars, forkVars>>

Steps == {"idle", "start", "adding", "publish", "text", "sending", "graceful",
          "gracing", "lock", "waiting", "clearing", "removing", "final",
          "finalsending", "close", "closing", "frame", "meta", "metasending",
          "return"}

Mutes == {"audio_paused", "graceful_shutdown"}
NoCleanup == [pvt |-> None, ap |-> None, final |-> FALSE]

ForkTypeOK ==
  /\ TypeOK
  /\ up \in [Sessions -> BOOLEAN]
  /\ bug \in [Sessions -> Pipes \union {None}]
  /\ attached \in SUBSET Pipes
  /\ owner \in [Pipes -> Sessions \union {None}]
  /\ ref \in [Pipes -> BOOLEAN]
  /\ mutex \in [Pipes -> {"none", "free", "held", "gone"}]
  /\ muted \in [Pipes -> SUBSET Mutes]
  /\ at \in [Actors -> Steps]
  /\ pvt \in [Actors -> Pipes \union {None}]
  /\ ap \in [Actors -> Pipes \union {None}]
  /\ final \in [Actors -> BOOLEAN]
  /\ taken \in [Actors -> Pipes \union {None}]
  /\ outer \in [Actors -> [pvt : Pipes \union {None}, ap : Pipes \union {None},
                           final : BOOLEAN]]
  /\ raced \in SUBSET Pipes
  /\ overlapped \in SUBSET Pipes
  /\ greeted \in SUBSET Pipes
  /\ sent \in [Pipes -> SUBSET (Payloads \union {"audio"})]

ForkInit ==
  /\ Init
  /\ up = [s \in Sessions |-> TRUE]
  /\ bug = [s \in Sessions |-> None]
  /\ attached = {}
  /\ owner = [p \in Pipes |-> None]
  /\ ref = [p \in Pipes |-> FALSE]
  /\ mutex = [p \in Pipes |-> "none"]
  /\ muted = [p \in Pipes |-> {}]
  /\ at = [a \in Actors |-> "idle"]
  /\ pvt = [a \in Actors |-> None]
  /\ ap = [a \in Actors |-> None]
  /\ final = [a \in Actors |-> FALSE]
  /\ taken = [a \in Actors |-> None]
  /\ outer = [a \in Actors |-> NoCleanup]
  /\ raced = {}
  /\ overlapped = {}
  /\ greeted = {}
  /\ sent = [p \in Pipes |-> {}]

Goto(a, step) == at' = [at EXCEPT ![a] = step]
WorksOn(a, p, pipe, text_given) ==
  /\ pvt' = [pvt EXCEPT ![a] = p]
  /\ ap' = [ap EXCEPT ![a] = pipe]
  /\ final' = [final EXCEPT ![a] = text_given]
Done(a) ==
  Goto(a, "idle") /\ WorksOn(a, None, None, FALSE) /\ UNCHANGED <<taken, outer>>

\* Mutant: nobody looks whether the channel is forked.
Unforked_Unchecked(s) == TRUE

Unforked(s) == bug[s] = None

\* Mutant: the lock is taken from who holds it.
Locks_Held(p) ==
  mutex[p] \in {"free", "held"} /\ mutex' = [mutex EXCEPT ![p] = "held"]

Locks(p) == mutex[p] = "free" /\ mutex' = [mutex EXCEPT ![p] = "held"]

\* Mutant: the private is left on the channel.
ClearPrivate_Not(s) == UNCHANGED bug

ClearPrivate(s) == bug' = [bug EXCEPT ![s] = None]

\* switch_core_session_locate, and the command finds a bug on the channel.
Locates(c, s) == at[c] = "idle" /\ up[s] /\ bug[s] # None

\* m_state is read and is not CONNECTED: the operation returns.
Refuses(p) == p \notin freed /\ state[p] # "CONNECTED" /\ UNCHANGED vars
NotConnected(p) == Refuses(p) \/ StaleReturn(p)

-----------------------------------------------------------------------------
(* uuid_audio_fork start.                                                  *)

Starting(a) == at[a] \in {"start", "adding", "publish"}

\* A cleanup has found a bug and has yet to remove it, or runs the CLOSE
\* callback of the one it removed.
Removing(a) == at[a] \in {"clearing", "removing"} \/ outer[a] # NoCleanup

\* The connection of the pipe is over and its last callback has returned.
Ended(p) == told[p] \notin {<<>>, <<"CONNECT_SUCCESS">>}
Finished(p) == (Ended(p) \/ p \in freed) /\ \A t \in Threads : call[t].pipe # p

RivalStarts(s) ==
  {pvt[a] : a \in {b \in Actors : Starting(b) /\ owner[pvt[b]] = s}}
Unfinished(s) ==
  {q \in Pipes : state[q] # "none" /\ owner[q] = s /\ ~Finished(q)}

\* Histories: whom this start races with, whose connection is not over yet.
RecordsStart(s, p) ==
  /\ raced' = raced \union RivalStarts(s) \union
       IF RivalStarts(s) # {} \/ \E a \in Actors : Removing(a) /\ owner[pvt[a]] = s
         THEN {p} ELSE {}
  /\ overlapped' = overlapped \union Unfinished(s) \union
       IF Unfinished(s) # {} THEN {p} ELSE {}

\* start_capture up to fork_session_init: the connect is pushed here already.
StartCapture(c, s, p) ==
  /\ at[c] = "idle"
  /\ up[s]
  /\ Unforked(s)
  /\ Connect(c, p)
  /\ owner' = [owner EXCEPT ![p] = s]
  /\ ref' = [ref EXCEPT ![p] = TRUE]
  /\ mutex' = [mutex EXCEPT ![p] = "free"]
  /\ Goto(c, "start")
  /\ pvt' = [pvt EXCEPT ![c] = p]
  /\ RecordsStart(s, p)
  /\ UNCHANGED <<up, bug, attached, muted, ap, final, taken, outer, history>>

StartConnects(c) ==
  /\ at[c] = "start"
  /\ WakeUp(c)
  /\ Goto(c, "adding")
  /\ UNCHANGED <<channel, fork, pvt, ap, final, taken, outer, history>>

\* switch_core_media_bug_add.  When it fails the command returns at once.
AddBug(c) ==
  /\ at[c] = "adding"
  /\ up[owner[pvt[c]]]
  /\ attached' = attached \union {pvt[c]}
  /\ Goto(c, "publish")
  /\ UNCHANGED <<vars, up, bug, owner, starts, fork, pvt, ap, final, taken, outer,
                 history>>

AddBugFails(c) ==
  /\ at[c] = "adding"
  /\ Done(c)
  /\ UNCHANGED <<vars, channel, fork, history>>

\* switch_channel_set_private.
PublishBug(c) ==
  /\ at[c] = "publish"
  /\ bug' = [bug EXCEPT ![owner[pvt[c]]] = pvt[c]]
  /\ Done(c)
  /\ UNCHANGED <<vars, up, attached, owner, starts, fork, history>>

-----------------------------------------------------------------------------
(* uuid_audio_fork send_text, pause, resume, graceful-shutdown.            *)

\* fork_session_send_text reads pAudioPipe, then calls bufferForSending.
SendText(c, s) ==
  /\ "send_text" \in Commands
  /\ Locates(c, s)
  /\ ref[bug[s]]
  /\ Goto(c, "text")
  /\ pvt' = [pvt EXCEPT ![c] = bug[s]]
  /\ ap' = [ap EXCEPT ![c] = bug[s]]
  /\ UNCHANGED <<vars, channel, fork, final, taken, outer, history>>

SendTextAccepted(c) ==
  /\ at[c] = "text"
  /\ SendAccepted(c, ap[c], "text")
  /\ Goto(c, "sending")
  /\ UNCHANGED <<channel, fork, pvt, ap, final, taken, outer, history>>

SendTextReturns(c) ==
  /\ at[c] = "text"
  /\ NotConnected(ap[c])
  /\ Done(c)
  /\ UNCHANGED <<channel, fork, history>>

SendTextEnds(c) ==
  /\ at[c] = "sending"
  /\ WakeUp(c)
  /\ Done(c)
  /\ UNCHANGED <<channel, fork, history>>

\* fork_session_pauseresume.
PauseResume(c, s) ==
  /\ "pause" \in Commands
  /\ Locates(c, s)
  /\ \E marks \in {muted[bug[s]] \union {"audio_paused"},
                   muted[bug[s]] \ {"audio_paused"}} :
       muted' = [muted EXCEPT ![bug[s]] = marks]
  /\ UNCHANGED <<vars, channel, ref, mutex, local, history>>

\* fork_session_graceful_shutdown reads pAudioPipe after it has marked tech_pvt.
Graceful(c, s) ==
  /\ "graceful-shutdown" \in Commands
  /\ Locates(c, s)
  /\ muted' = [muted EXCEPT ![bug[s]] = @ \union {"graceful_shutdown"}]
  /\ IF ref[bug[s]]
       THEN Goto(c, "graceful") /\ ap' = [ap EXCEPT ![c] = bug[s]]
       ELSE UNCHANGED <<at, ap>>
  /\ UNCHANGED <<vars, channel, ref, mutex, pvt, final, taken, outer, history>>

GracefulGoesOn(c) ==
  /\ at[c] = "graceful"
  /\ GracefulShutdown(c, ap[c])
  /\ Goto(c, "gracing")
  /\ UNCHANGED <<channel, fork, pvt, ap, final, taken, outer, history>>

GracefulEnds(c) ==
  /\ at[c] = "gracing"
  /\ WakeUp(c)
  /\ Done(c)
  /\ UNCHANGED <<channel, fork, history>>

-----------------------------------------------------------------------------
(* fork_session_cleanup, by uuid_audio_fork stop and by ABC_TYPE_CLOSE.    *)

EnterCleanup(a, p, text_given) ==
  Goto(a, "lock") /\ WorksOn(a, p, IF ref[p] THEN p ELSE None, text_given)

Stop(c, s) ==
  /\ "stop" \in Commands
  /\ Locates(c, s)
  /\ \E text_given \in BOOLEAN :
       /\ text_given => "final" \in Payloads
       /\ EnterCleanup(c, bug[s], text_given)
  /\ UNCHANGED <<vars, channel, fork, taken, outer, history>>

Hangup(s) ==
  /\ up[s]
  /\ up' = [up EXCEPT ![s] = FALSE]
  /\ UNCHANGED <<vars, bug, attached, owner, starts, fork, local, history>>

(***************************************************************************)
(* The hangup removes the bugs of the session; the CLOSE callback of each  *)
(* cleans up the fork the channel names, whichever bug is being closed.    *)
(***************************************************************************)
CloseCallback(s, p) ==
  /\ at[s] = "idle"
  /\ ~up[s]
  /\ p \in attached
  /\ owner[p] = s
  /\ attached' = attached \ {p}
  /\ IF bug[s] # None
       THEN EnterCleanup(s, bug[s], FALSE)
       ELSE UNCHANGED <<at, pvt, ap, final>>
  /\ UNCHANGED <<vars, up, bug, owner, starts, fork, taken, outer, history>>

(***************************************************************************)
(* Under tech_pvt->mutex, which is never unlocked again, the private is    *)
(* read once more: it may name another fork by now, or none.               *)
(***************************************************************************)
TellAndClose(pipe, text_given) ==
  IF pipe # None /\ text_given THEN "final" ELSE "close"

CleanupLocked(a) ==
  LET found == bug[owner[pvt[a]]]
  IN  /\ at[a] \in {"lock", "waiting"}
      /\ Locks(pvt[a])
      /\ taken' = [taken EXCEPT ![a] = found]
      /\ Goto(a, IF found # None THEN "clearing" ELSE TellAndClose(ap[a], final[a]))
      /\ UNCHANGED <<vars, channel, ref, muted, pvt, ap, final, outer, history>>

\* channelIsClosing is 1 in a CLOSE callback, which removes no bug.
Removes(a) == a \in Callers /\ outer[a] = NoCleanup

ClearBug(a) ==
  /\ at[a] = "clearing"
  /\ ClearPrivate(owner[pvt[a]])
  /\ IF Removes(a)
       THEN Goto(a, "removing") /\ UNCHANGED taken
       ELSE /\ Goto(a, TellAndClose(ap[a], final[a]))
            /\ taken' = [taken EXCEPT ![a] = None]
  /\ UNCHANGED <<vars, up, attached, owner, starts, fork, pvt, ap, final, outer,
                 history>>

(***************************************************************************)
(* switch_core_media_bug_remove, which READ callbacks of the session hold  *)
(* off, and which does nothing when the hangup took the bug before.  The   *)
(* CLOSE callback of the bug runs inside it and returns when the private   *)
(* is NULL; the private of a fork that was started since is not, and it is *)
(* that fork which the callback cleans up, the first one's mutex held.     *)
(***************************************************************************)
RemoveBug(c) ==
  LET s == owner[pvt[c]]
  IN  /\ at[c] = "removing"
      /\ at[s] # "frame"
      /\ attached' = attached \ {taken[c]}
      /\ taken' = [taken EXCEPT ![c] = None]
      /\ IF taken[c] \in attached /\ bug[s] # None
           THEN /\ outer' = [outer EXCEPT ![c] =
                       [pvt |-> pvt[c], ap |-> ap[c], final |-> final[c]]]
                /\ EnterCleanup(c, bug[s], FALSE)
           ELSE /\ Goto(c, TellAndClose(ap[c], final[c]))
                /\ UNCHANGED <<pvt, ap, final, outer>>
      /\ UNCHANGED <<vars, up, bug, owner, starts, fork, history>>

(***************************************************************************)
(* Somebody holds the mutex.  One who waits for a frame gets it; one who   *)
(* waits for another cleanup does not, since destroying a mutex wakes      *)
(* nobody.                                                                 *)
(***************************************************************************)
CleanupWaits(a) ==
  /\ at[a] = "lock"
  /\ mutex[pvt[a]] = "held"
  /\ Goto(a, "waiting")
  /\ UNCHANGED <<vars, channel, fork, pvt, ap, final, taken, outer, history>>

\* The mutex was destroyed before, and its pointer is nullptr.
CleanupFaults(a) ==
  /\ at[a] = "lock"
  /\ mutex[pvt[a]] = "gone"
  /\ ClientDies
  /\ UNCHANGED forkVars

FinalTextAccepted(a) ==
  /\ at[a] = "final"
  /\ SendAccepted(a, ap[a], "final")
  /\ Goto(a, "finalsending")
  /\ UNCHANGED <<channel, fork, pvt, ap, final, taken, outer, history>>

FinalTextReturns(a) ==
  /\ at[a] = "final"
  /\ NotConnected(ap[a])
  /\ Goto(a, "close")
  /\ UNCHANGED <<channel, fork, pvt, ap, final, taken, outer, history>>

FinalTextEnds(a) ==
  /\ at[a] = "finalsending"
  /\ WakeUp(a)
  /\ Goto(a, "close")
  /\ UNCHANGED <<channel, fork, pvt, ap, final, taken, outer, history>>

CloseStarts(a) ==
  /\ at[a] = "close"
  /\ ap[a] # None
  /\ CloseAccepted(a, ap[a])
  /\ Goto(a, "closing")
  /\ UNCHANGED <<channel, fork, pvt, ap, final, taken, outer, history>>

\* The CLOSE callback has returned to the cleanup that removed its bug.
Resumes(a) ==
  LET o == outer[a]
  IN  /\ Goto(a, TellAndClose(o.ap, o.final))
      /\ WorksOn(a, o.pvt, o.ap, o.final)
      /\ outer' = [outer EXCEPT ![a] = NoCleanup]
      /\ UNCHANGED taken

\* close() has returned, or there is no pipe: destroy_tech_pvt.
CleanupEnds(a) ==
  /\ \/ at[a] = "closing" /\ WakeUp(a)
     \/ at[a] = "close" /\ ap[a] = None /\ UNCHANGED vars
     \/ at[a] = "close" /\ ap[a] # None /\ NotConnected(ap[a])
  /\ mutex' = [mutex EXCEPT ![pvt[a]] = "gone"]
  /\ IF outer[a] # NoCleanup THEN Resumes(a) ELSE Done(a)
  /\ UNCHANGED <<channel, ref, muted, history>>

-----------------------------------------------------------------------------
(* fork_frame, on the session's thread while its media flows.              *)

FrameGoesOn(s, p) ==
  /\ at[s] = "idle"
  /\ p \in attached
  /\ owner[p] = s
  /\ muted[p] = {}

\* The lock is got and the pipe is there and CONNECTED.
Frame(s, p) ==
  /\ FrameGoesOn(s, p)
  /\ Locks(p)
  /\ ref[p]
  /\ SendAccepted(s, p, "audio")
  /\ Goto(s, "frame")
  /\ pvt' = [pvt EXCEPT ![s] = p]
  /\ UNCHANGED <<channel, ref, muted, ap, final, taken, outer, history>>

\* getLwsState of a deleted pipe.
FrameStale(s, p) ==
  /\ FrameGoesOn(s, p)
  /\ mutex[p] = "free"
  /\ ref[p]
  /\ StaleReturn(p)
  /\ UNCHANGED forkVars

FrameFaults(s, p) ==
  /\ FrameGoesOn(s, p)
  /\ mutex[p] = "gone"
  /\ ClientDies
  /\ UNCHANGED forkVars

FrameEnds(s) ==
  /\ at[s] = "frame"
  /\ WakeUp(s)
  /\ mutex' = [mutex EXCEPT ![pvt[s]] = "free"]
  /\ Done(s)
  /\ UNCHANGED <<channel, ref, muted, history>>

-----------------------------------------------------------------------------
(* eventCallback, on the service thread.                                   *)

\* Mutant: CONNECT_SUCCESS falls through to the next case.
LosesPipe_FallsThrough(e) == e # "MESSAGE"

LosesPipe(e) ==
  e \in {"CONNECT_FAIL", "CONNECTION_DROPPED", "CONNECTION_CLOSED_GRACEFULLY"}

(***************************************************************************)
(* The session is located by its uuid and the fork is the one the channel  *)
(* names now, which need not be the fork of the pipe that called.          *)
(***************************************************************************)
EventCallback(t) ==
  LET e == call[t].event
      s == owner[call[t].pipe]
      q == bug[s]
      metadata == e = "CONNECT_SUCCESS" /\ "meta" \in Payloads
  IN  /\ call[t] # NoCall
      /\ at[t] = "idle"
      /\ IF up[s] /\ q # None
           THEN /\ ref' = IF LosesPipe(e) THEN [ref EXCEPT ![q] = FALSE] ELSE ref
                /\ Goto(t, IF metadata THEN "meta" ELSE "return")
                /\ pvt' = [pvt EXCEPT ![t] = q]
           ELSE Goto(t, "return") /\ UNCHANGED <<ref, pvt>>
      /\ UNCHANGED <<vars, channel, mutex, muted, ap, final, taken, outer, history>>

\* The initial metadata goes to that fork's pipe.
MetadataAccepted(t) ==
  /\ at[t] = "meta"
  /\ ref[pvt[t]]
  /\ SendAccepted(t, pvt[t], "meta")
  /\ Goto(t, "metasending")
  /\ UNCHANGED <<channel, fork, pvt, ap, final, taken, outer, history>>

MetadataReturns(t) ==
  /\ at[t] = "meta"
  /\ ref[pvt[t]]
  /\ NotConnected(pvt[t])
  /\ Goto(t, "return")
  /\ UNCHANGED <<channel, fork, pvt, ap, final, taken, outer, history>>

\* pAudioPipe is nullptr and is called all the same.
MetadataFaults(t) ==
  /\ at[t] = "meta"
  /\ ~ref[pvt[t]]
  /\ ClientDies
  /\ UNCHANGED forkVars

MetadataEnds(t) ==
  /\ at[t] = "metasending"
  /\ WakeUp(t)
  /\ Goto(t, "return")
  /\ UNCHANGED <<channel, fork, pvt, ap, final, taken, outer, history>>

EventReturns(t) ==
  /\ at[t] = "return"
  /\ CallbackReturns(t)
  /\ Done(t)
  /\ UNCHANGED <<channel, fork, history>>

-----------------------------------------------------------------------------
(* The store of whoever was accepted, and the service threads' own steps,  *)
(* with the history of what was stored and sent.                           *)

Stored(a) ==
  /\ \/ SendStored(a)
     \/ CloseStored(a)
  /\ greeted' = IF at[a] = "metasending"
                  THEN greeted \union ({call[a].pipe} \intersect {doing[a].pipe})
                  ELSE greeted
  /\ UNCHANGED <<channel, fork, local, sent>>

Sends(p, x) == sent' = [sent EXCEPT ![p] = @ \union x]

ServiceWrites(t, p) ==
  \/ (WriteEof(t, p) \/ NoText(t, p)) /\ UNCHANGED sent
  \/ WriteText(t, p) /\ IF link' = link
                          THEN Sends(p, {text[p][i] : i \in DOMAIN text[p]})
                          ELSE UNCHANGED sent
  \/ CloseOrWriteAudio(t, p) /\ IF audio[p] /\ ~audio'[p]
                                  THEN Sends(p, {"audio"})
                                  ELSE UNCHANGED sent

ServiceStep(t) ==
  \/ /\ \/ EventWaitCancelled(t)
        \/ \E p \in Pipes : \/ Established(t, p)
                            \/ ConnectionError(t, p)
                            \/ Receive(t, p)
                            \/ Closed(t, p)
                            \/ ClosedByFarEnd(t, p)
     /\ UNCHANGED sent
  \/ \E p \in Pipes : ServiceWrites(t, p)

PipeStep ==
  /\ \E t \in Threads : ServiceStep(t)
  /\ UNCHANGED <<channel, fork, local, greeted>>

Command(c) ==
  \/ \E s \in Sessions :
       \/ \E p \in Pipes : StartCapture(c, s, p)
       \/ SendText(c, s)
       \/ PauseResume(c, s)
       \/ Graceful(c, s)
       \/ Stop(c, s)

CommandGoesOn(c) ==
  \/ StartConnects(c)
  \/ AddBug(c)
  \/ AddBugFails(c)
  \/ PublishBug(c)
  \/ SendTextAccepted(c)
  \/ SendTextReturns(c)
  \/ SendTextEnds(c)
  \/ GracefulGoesOn(c)
  \/ GracefulEnds(c)

Cleanup(a) ==
  \/ CleanupLocked(a)
  \/ ClearBug(a)
  \/ RemoveBug(a)
  \/ CleanupWaits(a)
  \/ CleanupFaults(a)
  \/ FinalTextAccepted(a)
  \/ FinalTextReturns(a)
  \/ FinalTextEnds(a)
  \/ CloseStarts(a)
  \/ CleanupEnds(a)

Session(s) ==
  \/ Hangup(s)
  \/ FrameEnds(s)
  \/ \E p \in Pipes : \/ CloseCallback(s, p)
                      \/ Frame(s, p)
                      \/ FrameStale(s, p)
                      \/ FrameFaults(s, p)

Callback(t) ==
  \/ EventCallback(t)
  \/ MetadataAccepted(t)
  \/ MetadataReturns(t)
  \/ MetadataFaults(t)
  \/ MetadataEnds(t)
  \/ EventReturns(t)

ForkNext ==
  /\ fault # "down"
  /\ \/ \E c \in Callers : Command(c) \/ CommandGoesOn(c) \/ Cleanup(c)
     \/ \E s \in Sessions : Session(s) \/ Cleanup(s)
     \/ \E t \in Threads : Callback(t)
     \/ \E a \in Actors : Stored(a)
     \/ PipeStep

ForkSpec == ForkInit /\ [][ForkNext]_allVars

(***************************************************************************)
(* Fairness: the service threads', and a thread that is in the middle of a *)
(* command, of a cleanup, of a frame or of m_callback goes on unless it is *)
(* blocked.  No command is ever owed, nor a frame, nor a hangup.           *)
(***************************************************************************)
ForkFairness ==
  /\ ServiceFairness
  /\ \A a \in Actors : WF_allVars(Up(Stored(a)))
  /\ \A c \in Callers : WF_allVars(Up(CommandGoesOn(c) \/ Cleanup(c)))
  /\ \A s \in Sessions : WF_allVars(Up(FrameEnds(s) \/ Cleanup(s)))
  /\ \A t \in Threads : WF_allVars(Up(Callback(t)))

ForkFairSpec == ForkSpec /\ ForkFairness

-----------------------------------------------------------------------------
(* Properties.                                                             *)

(***************************************************************************)
(* A pipe whose own CONNECT_SUCCESS found the fork and stored the initial  *)
(* metadata sends no audio before that metadata, although frames may be    *)
(* buffered while the callback runs (eventCallback, WRITEABLE).            *)
(***************************************************************************)
MetadataBeforeAudio ==
  \A p \in greeted : "audio" \in sent[p] => "meta" \in sent[p]

(***************************************************************************)
(* At most one thread is between taking and destroying the mutex of a      *)
(* fork, be it a cleanup, one that waits for a CLOSE callback included, or *)
(* a frame, and none is there once it is destroyed (fork_session_cleanup,  *)
(* fork_frame).                                                            *)
(***************************************************************************)
Inside(a) ==
  at[a] \in {"clearing", "removing", "final", "finalsending", "close", "closing",
             "frame"}
Holds(a, p) == (Inside(a) /\ pvt[a] = p) \/ outer[a].pvt = p

MutexExcludes ==
  /\ \A a, b \in Actors, p \in Pipes : Holds(a, p) /\ Holds(b, p) => a = b
  /\ \A a \in Actors, p \in Pipes : Holds(a, p) => mutex[p] = "held"
  /\ \A a \in Actors : Inside(a) => pvt[a] # outer[a].pvt

(***************************************************************************)
(* start_capture refuses a channel that has a bug, and stop takes the bug  *)
(* off that the channel names: however commands, hangups and frames        *)
(* interleave, two bugs meet on a session only when a start ran beside     *)
(* another start of the session, between whose check and whose set nothing *)
(* is locked, or beside the removal of its old bug.                        *)
(***************************************************************************)
OneBugPerChannel ==
  \A p, q \in attached \ raced : owner[p] = owner[q] => p = q

(***************************************************************************)
(* While a session can be located, the bug its channel names is on the     *)
(* session: no command works on a bug that was removed, however starts and *)
(* stops race (start_capture, fork_session_cleanup).                       *)
(***************************************************************************)
LiveBugIsAttached ==
  \A s \in Sessions : up[s] /\ bug[s] # None => bug[s] \in attached

(***************************************************************************)
(* The inductive invariant behind the two: whom a fork and a bug belong    *)
(* to, and what an actor knows of the fork it works on.  A fork that is    *)
(* being started is named by no channel and by no other actor's start.     *)
(***************************************************************************)
PipeOwned(p) ==
  IF state[p] = "none" THEN mutex[p] = "none" ELSE owner[p] \in Sessions

BugOwned(s) ==
  bug[s] # None =>
    /\ owner[bug[s]] = s
    /\ state[bug[s]] # "none"
    /\ \A a \in Actors : Starting(a) => pvt[a] # bug[s]

ActorKnows(a) ==
  /\ at[a] \notin {"idle", "graceful", "gracing", "return"} =>
       pvt[a] \in Pipes /\ state[pvt[a]] # "none"
  /\ at[a] \in {"text", "sending", "graceful", "final", "finalsending", "closing"} =>
       ap[a] \in Pipes
  /\ Starting(a) => \A b \in Actors \ {a} : Starting(b) => pvt[b] # pvt[a]
  /\ at[a] = "publish" => ~up[owner[pvt[a]]] \/ pvt[a] \in attached

\* What a cleanup knows of the bug it found, and the one it waits in of the first.
RemovalKnows(a) ==
  /\ at[a] \in {"clearing", "removing"} =>
       /\ taken[a] \in Pipes /\ state[taken[a]] # "none"
       /\ owner[taken[a]] = owner[pvt[a]]
       /\ \A b \in Actors : Starting(b) => pvt[b] # taken[a]
  /\ at[a] = "removing" =>
       a \in Callers /\ outer[a] = NoCleanup /\ bug[owner[pvt[a]]] # taken[a]
  /\ outer[a] # NoCleanup =>
       /\ a \in Callers
       /\ at[a] \in {"lock", "waiting", "clearing", "close", "closing"} /\ ~final[a]
       /\ outer[a].pvt \in Pipes /\ state[outer[a].pvt] # "none"
       /\ owner[outer[a].pvt] = owner[pvt[a]]

ForkInv ==
  /\ ForkTypeOK
  /\ \A p \in Pipes : PipeOwned(p)
  /\ \A s \in Sessions : BugOwned(s)
  /\ \A a \in Actors : ActorKnows(a) /\ RemovalKnows(a)
  /\ MutexExcludes
  /\ LiveBugIsAttached

(***************************************************************************)
(* eventCallback clears pAudioPipe because the AudioPipe can no longer be  *)
(* accessed.  The fork it clears it in is the one the channel names then,  *)
(* so this is so only of a fork whose connection overlapped with that of   *)
(* no other fork of its session: such a fork loses its pipe after that     *)
(* pipe failed, ended or was deleted, whatever became of earlier forks.    *)
(***************************************************************************)
LostPipeIsOver ==
  \A p \in Pipes \ overlapped :
    state[p] # "none" /\ ~ref[p] => Ended(p) \/ p \in freed

-----------------------------------------------------------------------------
(* What the documentation says and the code does not keep.                 *)

\* README: stop closes the connection, or there never is one.
StopClosesConnection ==
  \A p \in Pipes :
    (\E c \in Callers : Inside(c) /\ pvt[c] = p) ~>
                         \/ link[p] = "closed"
                         \/ vhd[p] # None /\ wsi[p] = "null"
                         \/ fault = "down"

=============================================================================
