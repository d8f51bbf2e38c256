------------------------------ MODULE AudioPipe ------------------------------
(***************************************************************************)
(* The websocket layer of mod_audio_fork (audio_pipe.cpp): AudioPipe       *)
(* objects, the three lists the other threads leave work in, and the       *)
(* libwebsockets service threads that empty those lists and run            *)
(* lws_callback.  The client is any client: every actor may call any       *)
(* operation of a pipe it was given a pointer to, at any time, a deleted   *)
(* pipe included.  AudioFork is the client the module really has.          *)
(***************************************************************************)
EXTENDS Naturals, Sequences

CONSTANTS
  Pipes,      \* the AudioPipe objects one run can create
  Threads,    \* the lws service threads, one lws context each
  Actors,     \* whoever calls a pipe: API threads, media threads, service threads
  Payloads,   \* what clients send: texts, and "audio" if frames are sent
  MaxQueued,  \* bound: texts waiting in one m_metadata
  None        \* nullptr

\* What an actor does next in a call, besides storing a payload.
Calls == {"none", "connect", "close", "wake", "unlock"}

ASSUME ConstantsAssumption ==
  /\ None \notin Pipes \union Threads
  /\ Threads # {}
  /\ Payloads \intersect Calls = {}
  /\ MaxQueued \in Nat

VARIABLES
  state,              \* m_state of each pipe, "none" before the constructor
  vhd,                \* m_vhd: the context the pipe was connected in
  wsi,                \* m_wsi: "null" or "live"
  graceful,           \* m_gracefulShutdown
  text,               \* m_metadata: the texts appended and not yet written
  audio,              \* m_audio_buffer_write_offset > LWS_PRE
  freed,              \* the pipes that were deleted
  pendingConnects, pendingDisconnects, pendingWrites,
  ahead,              \* what was in pendingConnects when each pipe was pushed
  cancel,             \* lws_cancel_service was called on the context
  phase,              \* where the service thread is in lws_callback
  work,               \* the pipes the thread took out of a list
  call,               \* the notification whose m_callback the thread is in
  link,               \* libwebsockets' connection of each pipe
  wantWrite,          \* lws_callback_on_writable was called on it
  doing,              \* the call each actor is in: what it does next, and to whom
  told,               \* history: the connection notifications of each pipe
  fault               \* "none", "stale" after a use of a deleted pipe, "down"

lists == <<pendingConnects, ahead, pendingDisconnects, pendingWrites>>
vars == <<state, vhd, wsi, graceful, text, audio, freed, lists, cancel, phase,
          work, call, link, wantWrite, doing, told, fault>>

Texts == Payloads \ {"audio"}

LwsStates == {"IDLE", "CONNECTING", "CONNECTED", "FAILED", "DISCONNECTING",
              "DISCONNECTED"}
NotifyEvents == {"CONNECT_SUCCESS", "CONNECT_FAIL", "CONNECTION_DROPPED",
                 "CONNECTION_CLOSED_GRACEFULLY", "MESSAGE"}
Phases == {"poll", "connects", "disconnects", "writes", "writing", "closed"}
Links == {"none", "opening", "open", "closing", "broken", "closed"}

NoCall == [event |-> "none", pipe |-> None]
Nothing == [what |-> "none", pipe |-> None]

TypeOK ==
  /\ state \in [Pipes -> LwsStates \union {"none"}]
  /\ vhd \in [Pipes -> Threads \union {None}]
  /\ wsi \in [Pipes -> {"null", "live"}]
  /\ graceful \in [Pipes -> BOOLEAN]
  /\ text \in [Pipes -> Seq(Texts)]
  /\ audio \in [Pipes -> BOOLEAN]
  /\ freed \in SUBSET Pipes
  /\ pendingConnects \in SUBSET Pipes
  /\ ahead \in [Pipes -> SUBSET Pipes]
  /\ pendingDisconnects \in SUBSET Pipes
  /\ pendingWrites \in SUBSET Pipes
  /\ cancel \in [Threads -> BOOLEAN]
  /\ phase \in [Threads -> Phases]
  /\ work \in [Threads -> SUBSET Pipes]
  /\ call \in [Threads -> [event : NotifyEvents \union {"none"},
                           pipe  : Pipes \union {None}]]
  /\ link \in [Pipes -> Links]
  /\ wantWrite \in [Pipes -> BOOLEAN]
  /\ doing \in [Actors -> [what : Payloads \union Calls,
                           pipe : Pipes \union {None}]]
  /\ told \in [Pipes -> Seq(NotifyEvents)]
  /\ fault \in {"none", "stale", "down"}

Init ==
  /\ state = [p \in Pipes |-> "none"]
  /\ vhd = [p \in Pipes |-> None]
  /\ wsi = [p \in Pipes |-> "null"]
  /\ graceful = [p \in Pipes |-> FALSE]
  /\ text = [p \in Pipes |-> <<>>]
  /\ audio = [p \in Pipes |-> FALSE]
  /\ freed = {}
  /\ pendingConnects = {}
  /\ ahead = [p \in Pipes |-> {}]
  /\ pendingDisconnects = {}
  /\ pendingWrites = {}
  /\ cancel = [t \in Threads |-> FALSE]
  /\ phase = [t \in Threads |-> "poll"]
  /\ work = [t \in Threads |-> {}]
  /\ call = [t \in Threads |-> NoCall]
  /\ link = [p \in Pipes |-> "none"]
  /\ wantWrite = [p \in Pipes |-> FALSE]
  /\ doing = [a \in Actors |-> Nothing]
  /\ told = [p \in Pipes |-> <<>>]
  /\ fault = "none"

-----------------------------------------------------------------------------
(* Helpers.                                                                *)

\* Mutant: lws_cancel_service is not called.
Wake_Nobody(t) == UNCHANGED cancel

Wake(t) == cancel' = [cancel EXCEPT ![t] = TRUE]

\* m_audio_mutex is held by a media thread.
AudioLocked(p) == \E a \in Actors : doing[a] = [what |-> "unlock", pipe |-> p]

(***************************************************************************)
(* Reading or writing a deleted pipe is undefined: either the memory still *)
(* holds its last contents (m_state is then DISCONNECTED, stored just      *)
(* before delete, or what a late close() stored) or the process goes down. *)
(***************************************************************************)
Touch(ps) ==
  IF ps \intersect freed = {} THEN fault' = fault ELSE fault' \in {"stale", "down"}

\* The thread is in lws_service, between two callbacks.
Polling(t) == phase[t] = "poll" /\ call[t] = NoCall

Notify(t, p, e) ==
  /\ call' = [call EXCEPT ![t] = [event |-> e, pipe |-> p]]
  /\ told' = [told EXCEPT ![p] = Append(@, e)]

(***************************************************************************)
(* findAndRemovePendingConnect: the list is scanned up to the pipe of this *)
(* wsi, to its end when the pipe is not there, and every entry seen on the *)
(* way that has no wsi yet is dropped from the list.  A pipe is pushed     *)
(* once, at the back: what precedes it is what is left of ahead[p].        *)
(***************************************************************************)
InConnects(p) == p \in pendingConnects /\ state[p] = "CONNECTING"

Scanned(p) ==
  IF InConnects(p) THEN {p} \union (ahead[p] \intersect pendingConnects)
                   ELSE pendingConnects

\* Mutant: the scan does not stop at the pipe it looks for.
AfterFind_ScansAll(p) == {q \in pendingConnects : q # p /\ wsi[q] = "live"}

AfterFind(p) ==
  {q \in pendingConnects : ~(InConnects(p) /\ q = p)
                           /\ ~(q \in Scanned(p) /\ wsi[q] = "null")}

-----------------------------------------------------------------------------
(* What the other threads call.                                            *)

(***************************************************************************)
(* An operation that queues work is two or three steps of its caller:      *)
(* m_state is compared with CONNECTED without a lock; then the store and   *)
(* the push; then, the list unlocked, lws_cancel_service.  Other threads   *)
(* run in between, and may close the pipe or delete it.                    *)
(***************************************************************************)
Begins(a, step, p) ==
  /\ doing[a] = Nothing
  /\ doing' = [doing EXCEPT ![a] = [what |-> step, pipe |-> p]]

\* Mutant: the call ends at the push.
Continues_NoWakeUp(a, step) == doing' = [doing EXCEPT ![a] = Nothing]

Continues(a, step) == doing' = [doing EXCEPT ![a].what = step]

\* new AudioPipe, connect() and the push of addPendingConnect.
Connect(a, p) ==
  /\ state[p] = "none"
  /\ state' = [state EXCEPT ![p] = "IDLE"]
  /\ pendingConnects' = pendingConnects \union {p}
  /\ ahead' = [ahead EXCEPT ![p] = pendingConnects]
  /\ Begins(a, "connect", p)
  /\ UNCHANGED <<vhd, wsi, graceful, text, audio, freed, pendingDisconnects,
                 pendingWrites, cancel, phase, work, call, link, wantWrite,
                 told, fault>>

\* bufferForSending of text x, or fork_frame for "audio", finds it CONNECTED.
SendAccepted(a, p, x) ==
  /\ x \in Payloads
  /\ p \notin freed
  /\ state[p] = "CONNECTED"
  /\ x # "audio" => Len(text[p]) < MaxQueued
  /\ Begins(a, x, p)
  /\ UNCHANGED <<state, vhd, wsi, graceful, text, audio, freed, lists, cancel,
                 phase, work, call, link, wantWrite, told, fault>>

\* close() finds it CONNECTED.
CloseAccepted(a, p) ==
  /\ p \notin freed
  /\ state[p] = "CONNECTED"
  /\ Begins(a, "close", p)
  /\ UNCHANGED <<state, vhd, wsi, graceful, text, audio, freed, lists, cancel,
                 phase, work, call, link, wantWrite, told, fault>>

\* Any operation that finds m_state not CONNECTED in a deleted pipe and returns.
StaleReturn(p) ==
  /\ p \in freed
  /\ Touch({p})
  /\ UNCHANGED <<state, vhd, wsi, graceful, text, audio, freed, lists, cancel,
                 phase, work, call, link, wantWrite, doing, told>>

\* Mutant: frames go where texts go.
Buffer_AsText(p, x) ==
  text' = [text EXCEPT ![p] = Append(@, x)] /\ UNCHANGED audio

Buffer(p, x) ==
  IF x = "audio"
    THEN audio' = [audio EXCEPT ![p] = TRUE] /\ UNCHANGED text
    ELSE text' = [text EXCEPT ![p] = Append(@, x)] /\ UNCHANGED audio

\* Append under the text or audio mutex, and the push of addPendingWrite; the
\* audio mutex is kept until unlockAudioBuffer has woken the service thread.
SendStored(a) ==
  LET p == doing[a].pipe
      x == doing[a].what
  IN  /\ x \in Payloads
      /\ Touch({p})
      /\ IF p \in freed THEN UNCHANGED <<text, audio>> ELSE Buffer(p, x)
      /\ pendingWrites' = pendingWrites \union {p}
      /\ Continues(a, IF x = "audio" THEN "unlock" ELSE "wake")
      /\ UNCHANGED <<state, vhd, wsi, graceful, freed, pendingConnects, ahead,
                     pendingDisconnects, cancel, phase, work, call, link,
                     wantWrite, told>>

\* addPendingDisconnect up to its push: DISCONNECTING is stored whatever
\* m_state has become, in a deleted pipe as well.
CloseStored(a) ==
  LET p == doing[a].pipe
  IN  /\ doing[a].what = "close"
      /\ Touch({p})
      /\ state' = [state EXCEPT ![p] = "DISCONNECTING"]
      /\ pendingDisconnects' = pendingDisconnects \union {p}
      /\ Continues(a, "wake")
      /\ UNCHANGED <<vhd, wsi, graceful, text, audio, freed, pendingConnects,
                     ahead, pendingWrites, cancel, phase, work, call, link,
                     wantWrite, told>>

\* do_graceful_shutdown() looks at no state.
GracefulShutdown(a, p) ==
  /\ state[p] # "none"
  /\ Touch({p})
  /\ graceful' = [graceful EXCEPT ![p] = TRUE]
  /\ pendingWrites' = pendingWrites \union {p}
  /\ Begins(a, "wake", p)
  /\ UNCHANGED <<state, vhd, wsi, text, audio, freed, pendingConnects, ahead,
                 pendingDisconnects, cancel, phase, work, call, link,
                 wantWrite, told>>

(***************************************************************************)
(* lws_cancel_service at the end of the three add functions.  nchild++ is  *)
(* not synchronised, so any context may be the one a connect wakes; the    *)
(* other two read m_vhd, which is nullptr before connect_client.           *)
(***************************************************************************)
WakeUp(a) ==
  LET p == doing[a].pipe
  IN  /\ \/ doing[a].what = "connect" /\ fault' = fault /\ \E t \in Threads : Wake(t)
         \/ doing[a].what \in {"wake", "unlock"} /\ vhd[p] # None
            /\ Touch({p}) /\ Wake(vhd[p])
         \/ doing[a].what \in {"wake", "unlock"} /\ vhd[p] = None
            /\ fault' = "down" /\ UNCHANGED cancel
      /\ doing' = [doing EXCEPT ![a] = Nothing]
      /\ UNCHANGED <<state, vhd, wsi, graceful, text, audio, freed, lists,
                     phase, work, call, link, wantWrite, told>>

\* The client brings the process down by a fault of its own.
ClientDies ==
  /\ fault' = "down"
  /\ UNCHANGED <<state, vhd, wsi, graceful, text, audio, freed, lists, cancel,
                 phase, work, call, link, wantWrite, doing, told>>

-----------------------------------------------------------------------------
(* LWS_CALLBACK_EVENT_WAIT_CANCELLED: the three lists, one after another.  *)
(* Each is taken under its mutex and worked off after it is released.      *)

\* Mutant: m_state is not looked at.
ToConnect_All == pendingConnects

ToConnect == {p \in pendingConnects : state[p] = "IDLE"}

\* Mutant: the pipes that are taken stay IDLE.
MarkConnecting_Not(ps) == UNCHANGED state

MarkConnecting(ps) ==
  state' = [p \in Pipes |-> IF p \in ps THEN "CONNECTING" ELSE state[p]]

\* processPendingConnects, under mutex_connects; the entries stay in the list.
TakeConnects(t) ==
  /\ Polling(t)
  /\ cancel[t]
  /\ cancel' = [cancel EXCEPT ![t] = FALSE]
  /\ phase' = [phase EXCEPT ![t] = "connects"]
  /\ work' = [work EXCEPT ![t] = ToConnect]
  /\ MarkConnecting(ToConnect)
  /\ UNCHANGED <<vhd, wsi, graceful, text, audio, freed, lists, call, link,
                 wantWrite, doing, told, fault>>

(***************************************************************************)
(* connect_client.  lws_client_connect_via_info either starts a connection *)
(* and stores its wsi, or reports the failure through                      *)
(* LWS_CALLBACK_CLIENT_CONNECTION_ERROR before it returns NULL, or returns *)
(* NULL without a callback.                                                *)
(***************************************************************************)
ConnectStarts(t, p) ==
  /\ link' = [link EXCEPT ![p] = "opening"]
  /\ wsi' = [wsi EXCEPT ![p] = "live"]
  /\ UNCHANGED <<pendingConnects, call, told>>
  /\ state' = [state EXCEPT ![p] = "CONNECTING"]

\* Mutant: the failed return is reported as well.
ConnectRefused_ToldTwice(t, p) ==
  /\ pendingConnects' = AfterFind(p)
  /\ link' = [link EXCEPT ![p] = "closed"]
  /\ state' = [state EXCEPT ![p] = "FAILED"]
  /\ call' = [call EXCEPT ![t] = [event |-> "CONNECT_FAIL", pipe |-> p]]
  /\ told' = [told EXCEPT ![p] = @ \o <<"CONNECT_FAIL", "CONNECT_FAIL">>]
  /\ UNCHANGED wsi

ConnectRefused(t, p) ==
  /\ pendingConnects' = AfterFind(p)
  /\ link' = [link EXCEPT ![p] = "closed"]
  /\ UNCHANGED wsi
  /\ IF InConnects(p)
       THEN /\ state' = [state EXCEPT ![p] = "FAILED"]
            /\ Notify(t, p, "CONNECT_FAIL")
       ELSE /\ state' = [state EXCEPT ![p] = "CONNECTING"]
            /\ UNCHANGED <<call, told>>

ConnectReturnsNull(t, p) ==
  /\ state' = [state EXCEPT ![p] = "CONNECTING"]
  /\ UNCHANGED <<link, wsi, pendingConnects, call, told>>

ConnectClient(t, p) ==
  /\ phase[t] = "connects"
  /\ call[t] = NoCall
  /\ p \in work[t]
  /\ ahead[p] \intersect work[t] = {}          \* in the order of the list
  /\ work' = [work EXCEPT ![t] = @ \ {p}]
  /\ vhd' = [vhd EXCEPT ![p] = t]
  /\ \/ ConnectStarts(t, p)
     \/ ConnectRefused(t, p)
     \/ ConnectReturnsNull(t, p)
  /\ UNCHANGED <<graceful, text, audio, freed, ahead, pendingDisconnects,
                 pendingWrites, cancel, phase, wantWrite, doing, fault>>

\* processPendingDisconnects, under mutex_disconnects.
TakeDisconnects(t) ==
  /\ phase[t] = "connects"
  /\ call[t] = NoCall
  /\ work[t] = {}
  /\ phase' = [phase EXCEPT ![t] = "disconnects"]
  /\ work' = [work EXCEPT ![t] =
                {p \in pendingDisconnects : state[p] = "DISCONNECTING"}]
  /\ pendingDisconnects' = {}
  /\ Touch(pendingDisconnects)
  /\ UNCHANGED <<state, vhd, wsi, graceful, text, audio, freed,
                 pendingConnects, ahead, pendingWrites, cancel, call, link,
                 wantWrite, doing, told>>

\* processPendingWrites, under mutex_writes.
TakeWrites(t) ==
  /\ phase[t] = "disconnects"
  /\ work[t] = {}
  /\ phase' = [phase EXCEPT ![t] = "writes"]
  /\ work' = [work EXCEPT ![t] =
                {p \in pendingWrites : state[p] = "CONNECTED"}]
  /\ pendingWrites' = {}
  /\ Touch(pendingWrites)
  /\ UNCHANGED <<state, vhd, wsi, graceful, text, audio, freed,
                 pendingConnects, ahead, pendingDisconnects, cancel, call, link,
                 wantWrite, doing, told>>

\* lws_callback_on_writable for one pipe of the list that was taken.
RequestWritable(t, p) ==
  /\ phase[t] \in {"disconnects", "writes"}
  /\ p \in work[t]
  /\ work' = [work EXCEPT ![t] = @ \ {p}]
  /\ Touch({p})
  /\ wantWrite' = [wantWrite EXCEPT ![p] = p \notin freed]
  /\ UNCHANGED <<state, vhd, wsi, graceful, text, audio, freed, lists, cancel,
                 phase, call, link, doing, told>>

EndCancelled(t) ==
  /\ phase[t] = "writes"
  /\ work[t] = {}
  /\ phase' = [phase EXCEPT ![t] = "poll"]
  /\ UNCHANGED <<state, vhd, wsi, graceful, text, audio, freed, lists, cancel,
                 work, call, link, wantWrite, doing, told, fault>>

-----------------------------------------------------------------------------
(* The other reasons lws_callback is called for.                           *)

(***************************************************************************)
(* LWS_CALLBACK_CLIENT_ESTABLISHED.  When the pipe is no longer in         *)
(* pendingConnects the error branch dereferences the NULL it was given.    *)
(***************************************************************************)
Established(t, p) ==
  /\ Polling(t)
  /\ vhd[p] = t
  /\ link[p] = "opening"
  /\ pendingConnects' = AfterFind(p)
  /\ IF InConnects(p)
       THEN /\ link' = [link EXCEPT ![p] = "open"]
            /\ state' = [state EXCEPT ![p] = "CONNECTED"]
            /\ Notify(t, p, "CONNECT_SUCCESS")
            /\ UNCHANGED fault
       ELSE fault' = "down" /\ UNCHANGED <<link, state, call, told>>
  /\ UNCHANGED <<vhd, wsi, graceful, text, audio, freed, ahead,
                 pendingDisconnects, pendingWrites, cancel, phase, work,
                 wantWrite, doing>>

\* LWS_CALLBACK_CLIENT_CONNECTION_ERROR of a connection that was being made.
ConnectionError(t, p) ==
  /\ Polling(t)
  /\ vhd[p] = t
  /\ link[p] = "opening"
  /\ link' = [link EXCEPT ![p] = "closed"]
  /\ pendingConnects' = AfterFind(p)
  /\ IF InConnects(p)
       THEN /\ state' = [state EXCEPT ![p] = "FAILED"]
            /\ Notify(t, p, "CONNECT_FAIL")
       ELSE UNCHANGED <<state, call, told>>
  /\ UNCHANGED <<vhd, wsi, graceful, text, audio, freed, ahead,
                 pendingDisconnects, pendingWrites, cancel, phase, work,
                 wantWrite, doing, fault>>

\* LWS_CALLBACK_CLIENT_RECEIVE of the last fragment of a text message.
Receive(t, p) ==
  /\ Polling(t)
  /\ vhd[p] = t
  /\ link[p] = "open"
  /\ call' = [call EXCEPT ![t] = [event |-> "MESSAGE", pipe |-> p]]
  /\ UNCHANGED <<state, vhd, wsi, graceful, text, audio, freed, lists, cancel,
                 phase, work, link, wantWrite, doing, told, fault>>

\* Mutant: buffered audio goes before text.
HasText_AfterAudio(p) == text[p] # <<>> /\ ~audio[p]

HasText(p) == text[p] # <<>>

Writable(t, p) ==
  /\ Polling(t)
  /\ vhd[p] = t
  /\ link[p] = "open"
  /\ wantWrite[p]

(***************************************************************************)
(* LWS_CALLBACK_CLIENT_WRITEABLE during a graceful shutdown: an empty      *)
(* binary frame and nothing else, whatever text waits and whatever m_state *)
(* asks for.                                                               *)
(***************************************************************************)
WriteEof(t, p) ==
  /\ Writable(t, p)
  /\ graceful[p]
  /\ ~AudioLocked(p)
  /\ wantWrite' = [wantWrite EXCEPT ![p] = FALSE]
  /\ UNCHANGED <<state, vhd, wsi, graceful, text, audio, freed, lists, cancel,
                 phase, work, call, link, doing, told, fault>>

\* All the text that waits, as one frame; a short write gives the connection up.
WriteText(t, p) ==
  /\ Writable(t, p)
  /\ ~graceful[p]
  /\ HasText(p)
  /\ text' = [text EXCEPT ![p] = <<>>]
  /\ \/ UNCHANGED <<link, wantWrite>>
     \/ /\ link' = [link EXCEPT ![p] = "broken"]
        /\ wantWrite' = [wantWrite EXCEPT ![p] = FALSE]
  /\ UNCHANGED <<state, vhd, wsi, graceful, audio, freed, lists, cancel,
                 phase, work, call, doing, told, fault>>

\* No text: m_text_mutex is released before m_state is looked at.
NoText(t, p) ==
  /\ Writable(t, p)
  /\ ~graceful[p]
  /\ ~HasText(p)
  /\ wantWrite' = [wantWrite EXCEPT ![p] = FALSE]
  /\ phase' = [phase EXCEPT ![t] = "writing"]
  /\ work' = [work EXCEPT ![t] = {p}]
  /\ UNCHANGED <<state, vhd, wsi, graceful, text, audio, freed, lists, cancel,
                 call, link, doing, told, fault>>

\* The rest of WRITEABLE: close when DISCONNECTING, else send the buffered audio.
CloseOrWriteAudio(t, p) ==
  /\ phase[t] = "writing"
  /\ p \in work[t]
  /\ phase' = [phase EXCEPT ![t] = "poll"]
  /\ work' = [work EXCEPT ![t] = {}]
  /\ IF state[p] = "DISCONNECTING"
       THEN link' = [link EXCEPT ![p] = "closing"] /\ UNCHANGED audio
       ELSE /\ ~AudioLocked(p)
            /\ audio' = [audio EXCEPT ![p] = FALSE]
            /\ UNCHANGED link
  /\ UNCHANGED <<state, vhd, wsi, graceful, text, freed, lists, cancel, call,
                 wantWrite, doing, told, fault>>

(***************************************************************************)
(* LWS_CALLBACK_CLIENT_CLOSED, which reads m_state twice and with no lock: *)
(* is it DISCONNECTING, and if not, is it CONNECTED?  The far end may      *)
(* close an open connection at any time.                                   *)
(***************************************************************************)
Closed(t, p) ==
  /\ Polling(t)
  /\ vhd[p] = t
  /\ link[p] \in {"open", "closing", "broken"}
  /\ link' = [link EXCEPT ![p] = "closed"]
  /\ IF state[p] = "DISCONNECTING"
       THEN /\ Notify(t, p, "CONNECTION_CLOSED_GRACEFULLY")
            /\ UNCHANGED <<phase, work>>
       ELSE /\ phase' = [phase EXCEPT ![t] = "closed"]
            /\ work' = [work EXCEPT ![t] = {p}]
            /\ UNCHANGED <<call, told>>
  /\ UNCHANGED <<state, vhd, wsi, graceful, text, audio, freed, lists, cancel,
                 wantWrite, doing, fault>>

Deletes(p) ==
  /\ freed' = freed \union {p}
  /\ state' = [state EXCEPT ![p] = "DISCONNECTED"]

(***************************************************************************)
(* The second read.  A close() that stored DISCONNECTING after the first   *)
(* one fails both tests: the pipe is deleted and its session told nothing. *)
(***************************************************************************)
ClosedByFarEnd(t, p) ==
  /\ phase[t] = "closed"
  /\ p \in work[t]
  /\ phase' = [phase EXCEPT ![t] = "poll"]
  /\ work' = [work EXCEPT ![t] = {}]
  /\ IF state[p] = "CONNECTED"
       THEN Notify(t, p, "CONNECTION_DROPPED") /\ UNCHANGED <<freed, state>>
       ELSE Deletes(p) /\ UNCHANGED <<call, told>>
  /\ UNCHANGED <<vhd, wsi, graceful, text, audio, lists, cancel, link,
                 wantWrite, doing, fault>>

\* Mutant: a failed connect deletes the pipe as well.
Ends_OnFailure(e) ==
  e \in {"CONNECTION_DROPPED", "CONNECTION_CLOSED_GRACEFULLY", "CONNECT_FAIL"}

Ends(e) == e \in {"CONNECTION_DROPPED", "CONNECTION_CLOSED_GRACEFULLY"}

(***************************************************************************)
(* m_callback returns.  After a CLOSED the pipe is deleted; after a failed *)
(* connect it is not.                                                      *)
(***************************************************************************)
CallbackReturns(t) ==
  /\ call[t] # NoCall
  /\ call' = [call EXCEPT ![t] = NoCall]
  /\ IF Ends(call[t].event) THEN Deletes(call[t].pipe) ELSE UNCHANGED <<freed, state>>
  /\ UNCHANGED <<vhd, wsi, graceful, text, audio, lists, cancel, phase, work,
                 link, wantWrite, doing, told, fault>>

-----------------------------------------------------------------------------
EventWaitCancelled(t) ==
  \/ TakeConnects(t)
  \/ TakeDisconnects(t)
  \/ TakeWrites(t)
  \/ EndCancelled(t)
  \/ \E p \in Pipes : ConnectClient(t, p) \/ RequestWritable(t, p)

Writeable(t, p) ==
  \/ WriteEof(t, p)
  \/ WriteText(t, p)
  \/ NoText(t, p)

Service(t) ==
  \/ EventWaitCancelled(t)
  \/ CallbackReturns(t)
  \/ \E p \in Pipes :
       \/ Established(t, p)
       \/ ConnectionError(t, p)
       \/ Receive(t, p)
       \/ Writeable(t, p)
       \/ CloseOrWriteAudio(t, p)
       \/ Closed(t, p)
       \/ ClosedByFarEnd(t, p)

CallGoesOn(a) ==
  \/ SendStored(a)
  \/ CloseStored(a)
  \/ WakeUp(a)

Client ==
  \/ ClientDies
  \/ \E p \in Pipes : StaleReturn(p)
  \/ \E a \in Actors :
       \/ CallGoesOn(a)
       \/ \E p \in Pipes :
            \/ Connect(a, p)
            \/ CloseAccepted(a, p)
            \/ GracefulShutdown(a, p)
            \/ \E x \in Payloads : SendAccepted(a, p, x)

Next == fault # "down" /\ (Client \/ \E t \in Threads : Service(t))

Spec == Init /\ [][Next]_vars

(***************************************************************************)
(* Fairness.  A service thread loops in lws_service until the module is    *)
(* unloaded, and one lws_service call serves every socket that is ready    *)
(* and the cancel pipe: none of a thread's duties can be passed over for   *)
(* ever.  A connection attempt ends (timeout_secs is 10), and so does a    *)
(* close that was begun.  A call that was begun goes on, and the audio     *)
(* mutex, free between two frames, is got in the end.  Nothing is assumed  *)
(* of the far end, nor of the clients' wish to call anything.              *)
(***************************************************************************)
Up(A) == fault # "down" /\ A

ServiceFairness ==
  \A t \in Threads :
    /\ SF_vars(Up(EventWaitCancelled(t)))
    /\ WF_vars(Up(CallbackReturns(t)))
    /\ \A p \in Pipes :
         /\ SF_vars(Up(Established(t, p) \/ ConnectionError(t, p)))
         /\ SF_vars(Up(Writeable(t, p)))
         /\ SF_vars(Up(CloseOrWriteAudio(t, p)))
         /\ SF_vars(Up(link[p] # "open" /\ Closed(t, p)))
         /\ WF_vars(Up(ClosedByFarEnd(t, p)))

FairSpec ==
  Spec /\ ServiceFairness /\ \A a \in Actors : WF_vars(Up(CallGoesOn(a)))

-----------------------------------------------------------------------------
(* Properties.                                                             *)

(***************************************************************************)
(* What a session is told of its connection is one of: nothing, connected, *)
(* failed, connected and then dropped, connected and then closed.          *)
(***************************************************************************)
Untold == <<>>
Refused == <<"CONNECT_FAIL">>
Connected == <<"CONNECT_SUCCESS">>
Over == {<<"CONNECT_SUCCESS", "CONNECTION_DROPPED">>,
         <<"CONNECT_SUCCESS", "CONNECTION_CLOSED_GRACEFULLY">>}
Stories == {Untold, Refused, Connected} \union Over

\* The thread is in CLOSED of this pipe, between the two reads of m_state.
InClosed(t, p) == phase[t] = "closed" /\ p \in work[t]

(***************************************************************************)
(* However threads and calls interleave, no notification is repeated or    *)
(* out of order, and the story of a connection that is over lacks its end  *)
(* only while CLOSED has yet to tell it or once the pipe was deleted       *)
(* (lws_callback; for the deleted ones see DeletedAtTheEnd).               *)
(***************************************************************************)
NotificationOrder ==
  \A p \in Pipes :
    /\ told[p] \in Stories
    /\ told[p] = Connected /\ link[p] = "closed" =>
         p \in freed \/ \E t \in Threads : InClosed(t, p)

(***************************************************************************)
(* connect_client asserts m_vhd == nullptr: no two service threads, and no *)
(* two rounds of one thread, ever pick up the same pending connect.        *)
(***************************************************************************)
ConnectedOnce ==
  \A t \in Threads, p \in Pipes :
    phase[t] = "connects" /\ p \in work[t] =>
      /\ vhd[p] = None
      /\ \A u \in Threads \ {t} : phase[u] = "connects" => p \notin work[u]

(***************************************************************************)
(* A pipe is deleted when its connection is over, no callback for it runs, *)
(* and its session was told of the end; it was not told in one case only:  *)
(* a close() that had found the pipe CONNECTED ran into CLOSED.            *)
(***************************************************************************)
Deleted(p) == p \in freed' \ freed

DeletedAtTheEnd ==
  [][\A p \in Pipes : Deleted(p) =>
       /\ link[p] = "closed"
       /\ \/ told[p] \in Over
          \/ told[p] = Connected /\ state[p] = "DISCONNECTING"
       /\ \A t \in Threads : call'[t].pipe # p]_vars

(***************************************************************************)
(* Work left in a list is never forgotten: some thread was woken for it    *)
(* after it was pushed, or has yet to take that list in its present round, *)
(* or the caller that pushed last has yet to wake one.                     *)
(***************************************************************************)
NoLostWakeup ==
  fault # "down" =>
    /\ (\E p \in pendingConnects : state[p] = "IDLE") =>
         \/ \E t \in Threads : cancel[t]
         \/ \E a \in Actors : doing[a].what = "connect"
    /\ pendingDisconnects # {} =>
         \/ \E t \in Threads : cancel[t] \/ phase[t] = "connects"
         \/ \E a \in Actors : doing[a].what = "wake"
    /\ pendingWrites # {} =>
         \/ \E t \in Threads : cancel[t] \/ phase[t] \in {"connects", "disconnects"}
         \/ \E a \in Actors : doing[a].what \in {"wake", "unlock"}

(***************************************************************************)
(* While a connection is being made its pipe stays in pendingConnects,     *)
(* where LWS_CALLBACK_CLIENT_ESTABLISHED looks for it.  True with one      *)
(* service thread; with more, one thread drops the entries another has     *)
(* taken and not yet given a wsi.                                          *)
(***************************************************************************)
OpeningIsPending ==
  \A p \in Pipes : link[p] = "opening" => InConnects(p)

(***************************************************************************)
(* The inductive invariant: how m_state, the socket and what was told      *)
(* agree for one pipe, and what a thread or a caller knows of the pipes it *)
(* holds between two of its steps, the two reads of CLOSED among them.     *)
(***************************************************************************)
PipeAgrees(p) ==
  /\ told[p] \in Stories
  /\ state[p] \in {"none", "IDLE", "CONNECTING"} <=> told[p] = Untold
  /\ state[p] = "FAILED" <=> told[p] = Refused
  /\ state[p] \in {"none", "IDLE"} => vhd[p] = None /\ link[p] = "none"
  /\ link[p] = "opening" => state[p] = "CONNECTING"
  /\ link[p] \in {"open", "closing", "broken"} => told[p] = Connected
  /\ told[p] # Untold \/ link[p] # "none" => vhd[p] \in Threads
  /\ state[p] = "DISCONNECTED" => p \in freed
  /\ p \in freed => state[p] \in {"DISCONNECTED", "DISCONNECTING"}
  /\ p \in freed => link[p] = "closed" /\ told[p] \in Over \union {Connected}

ConnectsAgree(t) ==
  phase[t] = "connects" =>
    \A p \in work[t] :
      /\ state[p] = "CONNECTING" /\ vhd[p] = None /\ link[p] = "none"
      /\ \A u \in Threads \ {t} : phase[u] = "connects" => p \notin work[u]

WritingAgrees(t) ==
  phase[t] = "writing" =>
    call[t] = NoCall /\ \A p \in work[t] : vhd[p] = t /\ link[p] = "open"

ClosedAgrees(t) ==
  phase[t] = "closed" =>
    /\ call[t] = NoCall
    /\ \A p, q \in work[t] : p = q
    /\ \A p \in work[t] :
         /\ vhd[p] = t /\ link[p] = "closed" /\ told[p] = Connected
         /\ p \notin freed

CallAgrees(t) ==
  call[t] # NoCall =>
    /\ call[t].pipe \in Pipes
    /\ call[t].event # "none"
    /\ vhd[call[t].pipe] = t
    /\ call[t].pipe \notin freed
    /\ call[t].event \in {"CONNECT_SUCCESS", "MESSAGE"} =>
         link[call[t].pipe] = "open"
    /\ call[t].event = "CONNECT_FAIL" => state[call[t].pipe] = "FAILED"
    /\ Ends(call[t].event) =>
         link[call[t].pipe] = "closed" /\ told[call[t].pipe] \in Over

DoingAgrees(a) ==
  LET p == doing[a].pipe
  IN  /\ doing[a].what # "none" => p \in Pipes
      /\ doing[a].what \in Payloads \union {"unlock", "close"} =>
           told[p] \in Over \union {Connected}

Agreement ==
  /\ TypeOK
  /\ \A p \in Pipes : PipeAgrees(p)
  /\ \A t \in Threads : ConnectsAgree(t) /\ WritingAgrees(t) /\ CallAgrees(t)
  /\ \A a \in Actors : DoingAgrees(a)
  /\ NoLostWakeup

IInv ==
  /\ Agreement
  /\ \A t \in Threads : ClosedAgrees(t)
  /\ NotificationOrder

\* A requested connection gets an answer, unless lws returned no wsi and
\* made no callback (processPendingConnects, ESTABLISHED, CONNECTION_ERROR).
ConnectAnswered ==
  \A p \in Pipes :
    state[p] = "IDLE" ~> \/ told[p] # <<>>
                         \/ vhd[p] # None /\ wsi[p] = "null"
                         \/ fault = "down"

\* close() leads to the end of the connection and of the pipe; a graceful
\* shutdown, whose WRITEABLE never looks at m_state, is the exception.
CloseCompletes ==
  \A p \in Pipes :
    state[p] = "DISCONNECTING" ~> p \in freed \/ graceful[p] \/ fault = "down"

\* Stored text is written or the connection ends, with the same exception.
TextLeaves ==
  \A p \in Pipes :
    text[p] # <<>> ~> \/ text[p] = <<>> \/ link[p] = "closed" \/ graceful[p]
                      \/ fault = "down"

\* Buffered audio is written unless text keeps coming, which goes first.
AudioLeaves ==
  \A p \in Pipes :
    audio[p] ~> \/ ~audio[p] \/ text[p] # <<>> \/ link[p] = "closed"
                \/ graceful[p] \/ fault = "down"

=============================================================================
