--------------------------- MODULE AudioForkProofs ---------------------------
(***************************************************************************)
(* Proofs about AudioFork, for any number of pipes, service threads,       *)
(* sessions and callers: the module uses the websocket layer only by the   *)
(* calls AudioPipe allows, so IInv holds here, and ForkInv is inductive.   *)
(* On top of them stand which bugs meet on a session (OneForkInv), how a   *)
(* fork loses its pipe (LostInv) and the order of the initial metadata and *)
(* the audio (GreetInv).                                                   *)
(***************************************************************************)
EXTENDS AudioFork, AudioPipeProofs

(***************************************************************************)
(* Only new AudioPipe makes a pipe exist: a pipe has a state before a step *)
(* of the service threads, or a store of a caller, iff it has one after.   *)
(***************************************************************************)
LEMMA NoPipeAppears ==
  ASSUME IInv, NEW p \in Pipes, NEW t \in Threads, NEW a \in Actors,
         Service(t) \/ SendStored(a) \/ CloseStored(a)
  PROVE  state'[p] = "none" <=> state[p] = "none"
<1>0. /\ TypeOK /\ \A q \in Pipes : PipeAgrees(q)
      /\ ConnectsAgree(t) /\ CallAgrees(t) /\ ClosedAgrees(t) /\ DoingAgrees(a)
  BY DEF IInv, Agreement
<1>1. CASE TakeConnects(t)
  BY <1>1 DEF TakeConnects, MarkConnecting, ToConnect
<1>2. CASE \E q \in Pipes : ConnectClient(t, q)
  <2>1. PICK q \in Pipes : ConnectClient(t, q)
    BY <1>2
  <2>2. state[q] = "CONNECTING"
    BY <1>0, <2>1 DEF ConnectClient, ConnectsAgree
  <2> QED BY <1>0, <2>1, <2>2
          DEF ConnectClient, ConnectStarts, ConnectRefused, ConnectReturnsNull, TypeOK
<1>3. CASE \E q \in Pipes : Established(t, q) \/ ConnectionError(t, q)
  <2>1. PICK q \in Pipes : Established(t, q) \/ ConnectionError(t, q)
    BY <1>3
  <2> QED BY <1>0, <2>1 DEF Established, ConnectionError, InConnects, TypeOK
<1>4. CASE CallbackReturns(t)
  <2>1. Ends(call[t].event) =>
          call[t].pipe \in Pipes /\ state[call[t].pipe] # "none"
    BY <1>0, <1>4, Tellings DEF CallbackReturns, CallAgrees, PipeAgrees
  <2> QED BY <1>0, <1>4, <2>1 DEF CallbackReturns, Deletes, TypeOK
<1>5. CASE CloseStored(a)
  <2>1. doing[a].pipe \in Pipes /\ state[doing[a].pipe] # "none"
    BY <1>0, <1>5, Tellings DEF CloseStored, DoingAgrees, PipeAgrees
  <2> QED BY <1>0, <1>5, <2>1 DEF CloseStored, TypeOK
<1>6. CASE \E q \in Pipes : ClosedByFarEnd(t, q)
  <2>1. PICK q \in Pipes : ClosedByFarEnd(t, q)
    BY <1>6
  <2>2. state[q] # "none"
    BY <1>0, <2>1, Tellings DEF ClosedByFarEnd, ClosedAgrees, PipeAgrees
  <2> QED BY <1>0, <2>1, <2>2 DEF ClosedByFarEnd, Deletes, TypeOK
<1>7. CASE UNCHANGED state
  BY <1>7
<1> QED
  BY <1>1, <1>2, <1>3, <1>4, <1>5, <1>6, <1>7
     DEF Service, EventWaitCancelled, TakeDisconnects, TakeWrites, EndCancelled,
         RequestWritable, Receive, Writeable, WriteEof, WriteText, NoText,
         CloseOrWriteAudio, Closed, SendStored

-----------------------------------------------------------------------------
(* AudioFork uses the websocket layer as AudioPipe lets any client use it. *)

LEMMA ReturnsIsPipeStep ==
  ASSUME fault # "down", NEW p \in Pipes, NotConnected(p)
  PROVE  [Next]_vars
  BY DEF NotConnected, Refuses, Next, Client

LEMMA ForkNextIsNext ==
  ASSUME ForkInv, ForkNext
  PROVE  [Next]_vars
<1>0. /\ fault # "down"
      /\ \A a \in Actors : ActorKnows(a)
      /\ \A c \in Callers : c \in Actors
      /\ \A s \in Sessions : s \in Actors
      /\ \A t \in Threads : t \in Actors
      /\ bug \in [Sessions -> Pipes \union {None}] /\ ap \in [Actors -> Pipes \union {None}]
  BY ActorsAssumption DEF ForkInv, ForkTypeOK, ForkNext
<1>1. ASSUME NEW c \in Callers, Command(c) PROVE [Next]_vars
  <2>1. ASSUME NEW s \in Sessions, NEW p \in Pipes, StartCapture(c, s, p)
        PROVE  [Next]_vars
    BY <1>0, <2>1 DEF StartCapture, Next, Client
  <2> QED BY <1>1, <2>1 DEF Command, SendText, PauseResume, Graceful, Stop
<1>2. ASSUME NEW c \in Callers, CommandGoesOn(c) PROVE [Next]_vars
  <2>1. CASE WakeUp(c)
    BY <1>0, <2>1 DEF Next, Client, CallGoesOn
  <2>2. CASE SendTextAccepted(c) \/ SendTextReturns(c)
    BY <1>0, <2>2, ReturnsIsPipeStep
       DEF SendTextAccepted, SendTextReturns, ActorKnows, SendAccepted, Next, Client
  <2>3. CASE GracefulGoesOn(c)
    BY <1>0, <2>3 DEF GracefulGoesOn, ActorKnows, Next, Client
  <2> QED BY <1>2, <2>1, <2>2, <2>3
          DEF CommandGoesOn, StartConnects, AddBug, AddBugFails, PublishBug,
              SendTextEnds, GracefulEnds
<1>3. ASSUME NEW a \in Actors, Cleanup(a) PROVE [Next]_vars
  <2>1. CASE WakeUp(a) \/ ClientDies
    BY <1>0, <2>1 DEF Next, Client, CallGoesOn
  <2>2. CASE FinalTextAccepted(a) \/ FinalTextReturns(a)
    BY <1>0, <2>2, ReturnsIsPipeStep
       DEF FinalTextAccepted, FinalTextReturns, ActorKnows, SendAccepted, Next, Client
  <2>3. CASE CloseStarts(a)
    BY <1>0, <2>3 DEF CloseStarts, Next, Client
  <2>4. ASSUME ap[a] # None, NotConnected(ap[a]) PROVE [Next]_vars
    BY <1>0, <2>4, ReturnsIsPipeStep
  <2> QED BY <1>3, <2>1, <2>2, <2>3, <2>4
          DEF Cleanup, CleanupLocked, ClearBug, RemoveBug, CleanupWaits, CleanupFaults,
              FinalTextEnds, CleanupEnds
<1>4. ASSUME NEW s \in Sessions, Session(s) PROVE [Next]_vars
  <2>1. CASE WakeUp(s) \/ ClientDies
    BY <1>0, <2>1 DEF Next, Client, CallGoesOn
  <2>2. ASSUME NEW p \in Pipes, Frame(s, p) \/ FrameStale(s, p) PROVE [Next]_vars
    BY <1>0, <2>2 DEF Frame, FrameStale, SendAccepted, Next, Client
  <2> QED BY <1>4, <2>1, <2>2 DEF Session, Hangup, FrameEnds, CloseCallback, FrameFaults
<1>5. ASSUME NEW t \in Threads, Callback(t) PROVE [Next]_vars
  <2>1. CASE WakeUp(t) \/ ClientDies
    BY <1>0, <2>1 DEF Next, Client, CallGoesOn
  <2>2. CASE MetadataAccepted(t) \/ MetadataReturns(t)
    BY <1>0, <2>2, ReturnsIsPipeStep
       DEF MetadataAccepted, MetadataReturns, ActorKnows, SendAccepted, Next, Client
  <2>3. CASE CallbackReturns(t)
    BY <1>0, <2>3 DEF Next, Service
  <2> QED BY <1>5, <2>1, <2>2, <2>3
          DEF Callback, EventCallback, MetadataFaults, MetadataEnds, EventReturns
<1>6. ASSUME NEW a \in Actors, Stored(a) PROVE [Next]_vars
  BY <1>0, <1>6 DEF Stored, Next, Client, CallGoesOn
<1>7. CASE PipeStep
  BY <1>0, <1>7 DEF PipeStep, ServiceStep, ServiceWrites, Next, Service, Writeable
<1> QED BY <1>0, <1>1, <1>2, <1>3, <1>4, <1>5, <1>6, <1>7 DEF ForkNext

-----------------------------------------------------------------------------
(* Steps that move one actor and leave the channels and the locks alone.   *)

Moves(a) ==
  /\ UNCHANGED <<channel, mutex, taken, outer>>
  /\ ref' \in [Pipes -> BOOLEAN] /\ muted' \in [Pipes -> SUBSET Mutes]
  /\ at' \in [Actors -> Steps]
  /\ pvt' \in [Actors -> Pipes \union {None}]
  /\ ap' \in [Actors -> Pipes \union {None}]
  /\ final' \in [Actors -> BOOLEAN]
  /\ \A b \in Actors \ {a} : /\ at'[b] = at[b] /\ pvt'[b] = pvt[b]
                              /\ ap'[b] = ap[b] /\ final'[b] = final[b]

\* A removal stays as it is, and so does a cleanup that waits for another.
RemovalStays(a) ==
  /\ at'[a] \in {"clearing", "removing"} => at'[a] = at[a] /\ pvt'[a] = pvt[a]
  /\ outer[a] # NoCleanup =>
       /\ at'[a] \in {"lock", "waiting", "clearing", "close", "closing"}
       /\ pvt'[a] = pvt[a] /\ final'[a] = final[a]

LEMMA MovesKeeps ==
  ASSUME ForkInv, TypeOK', NEW a \in Actors, Moves(a),
         \A p \in Pipes : state'[p] = "none" <=> state[p] = "none",
         greeted' \in SUBSET Pipes,
         sent' \in [Pipes -> SUBSET (Payloads \union {"audio"})],
         at'[a] \notin {"idle", "graceful", "gracing", "return"} =>
           pvt'[a] \in Pipes /\ state[pvt'[a]] # "none",
         at'[a] \in {"text", "sending", "graceful", "final", "finalsending", "closing"} =>
           ap'[a] \in Pipes,
         RemovalStays(a),
         Starting(a)' => Starting(a) /\ pvt'[a] = pvt[a],
         at'[a] = "publish" => at[a] = "publish",
         Inside(a)' => Inside(a) /\ pvt'[a] = pvt[a]
  PROVE  ForkInv'
<1>0. /\ ForkTypeOK /\ MutexExcludes /\ LiveBugIsAttached
      /\ \A p \in Pipes : PipeOwned(p)
      /\ \A s \in Sessions : BugOwned(s)
      /\ \A b \in Actors : ActorKnows(b) /\ RemovalKnows(b)
  BY DEF ForkInv
<1>1. ForkTypeOK'
  BY <1>0 DEF ForkTypeOK, Moves, channel, starts
<1>2. ASSUME NEW p \in Pipes PROVE PipeOwned(p)'
  BY <1>0 DEF PipeOwned, Moves, channel
<1>3. ASSUME NEW s \in Sessions PROVE BugOwned(s)'
  <2>1. bug[s] # None => bug[s] \in Pipes
    BY <1>0 DEF ForkTypeOK
  <2>2. \A b \in Actors : Starting(b)' => Starting(b) /\ pvt'[b] = pvt[b]
    BY DEF Moves, Starting
  <2> QED BY <1>0, <2>1, <2>2 DEF BugOwned, Moves, channel
<1>4. ASSUME NEW b \in Actors PROVE ActorKnows(b)'
  <2>1. \A c \in Actors : Starting(c)' => Starting(c) /\ pvt'[c] = pvt[c]
    BY DEF Moves, Starting
  <2>2. CASE b = a
    <3>1. owner' = owner /\ up' = up /\ attached' = attached
      BY DEF Moves, channel
    <3>2. at'[a] = "publish" => Starting(a) /\ pvt'[a] = pvt[a]
      BY DEF Starting
    <3> QED BY <1>0, <2>1, <2>2, <3>1, <3>2 DEF ActorKnows, Moves
  <2>3. CASE b # a
    BY <1>0, <2>1, <2>3 DEF ActorKnows, Moves, channel, Starting
  <2> QED BY <2>2, <2>3
<1>5. ASSUME NEW b \in Actors PROVE RemovalKnows(b)'
  <2>1. /\ \A c \in Actors : Starting(c)' => Starting(c) /\ pvt'[c] = pvt[c]
        /\ UNCHANGED <<owner, bug, taken, outer>>
    BY DEF Moves, Starting, channel
  <2>2. RemovalStays(b)
    BY <1>0 DEF Moves, RemovalStays, RemovalKnows
  <2> QED BY <1>0, <2>1, <2>2 DEF RemovalKnows, RemovalStays
<1>6. MutexExcludes'
  <2>1. /\ \A b \in Actors : Inside(b)' => Inside(b) /\ pvt'[b] = pvt[b]
        /\ UNCHANGED <<mutex, outer>>
    BY DEF Moves, Inside
  <2> QED BY <1>0, <2>1 DEF MutexExcludes, Holds
<1>7. LiveBugIsAttached'
  BY <1>0 DEF LiveBugIsAttached, Moves, channel
<1> QED BY <1>1, <1>2, <1>3, <1>4, <1>5, <1>6, <1>7 DEF ForkInv

(***************************************************************************)
(* What a caller does in a command after it has begun, before a cleanup.   *)
(***************************************************************************)
LEMMA CommandMoves ==
  ASSUME ForkInv, TypeOK', NEW c \in Callers,
         \/ StartConnects(c) \/ AddBugFails(c)
         \/ SendTextAccepted(c) \/ SendTextReturns(c) \/ SendTextEnds(c)
         \/ GracefulGoesOn(c) \/ GracefulEnds(c)
  PROVE  ForkInv'
<1>0. c \in Actors /\ ForkTypeOK /\ ActorKnows(c) /\ RemovalKnows(c)
  BY ActorsAssumption DEF ForkInv
<1>1. Moves(c) /\ UNCHANGED <<history, state>>
  <2>1. CASE StartConnects(c) \/ AddBugFails(c) \/ GracefulGoesOn(c) \/ GracefulEnds(c)
    BY <1>0, <2>1 DEF Moves, ForkTypeOK, Steps, channel, fork, history, Goto, Done, WorksOn,
       StartConnects, AddBugFails, GracefulGoesOn, GracefulEnds, GracefulShutdown, WakeUp,
       StaleReturn, vars
  <2>2. CASE SendTextAccepted(c)
    BY <1>0, <2>2 DEF Moves, ForkTypeOK, Steps, channel, fork, history, Goto,
       SendTextAccepted, SendAccepted
  <2>3. CASE SendTextReturns(c)
    BY <1>0, <2>3 DEF Moves, ForkTypeOK, Steps, channel, fork, history, Goto, Done, WorksOn,
       SendTextReturns, NotConnected, Refuses, StaleReturn, vars
  <2>4. CASE SendTextEnds(c)
    BY <1>0, <2>4 DEF Moves, ForkTypeOK, Steps, channel, fork, history, Goto, Done, WorksOn,
       SendTextEnds, WakeUp
  <2> QED BY <2>1, <2>2, <2>3, <2>4
<1>2. /\ at[c] \in {"start", "adding", "text", "sending", "graceful", "gracing"}
      /\ at'[c] \in {"adding", "sending", "gracing", "idle"}
      /\ at'[c] = "adding" => at[c] = "start"
      /\ at'[c] = "sending" => at[c] = "text"
      /\ at'[c] # "idle" => pvt' = pvt /\ ap' = ap
  BY <1>0 DEF ForkTypeOK, Goto, Done, StartConnects, AddBugFails,
     SendTextAccepted, SendTextReturns, SendTextEnds, GracefulGoesOn, GracefulEnds
<1>3. RemovalStays(c)
  BY <1>0, <1>2 DEF RemovalStays, RemovalKnows
<1> QED BY <1>0, <1>1, <1>2, <1>3, MovesKeeps
        DEF ForkTypeOK, history, ActorKnows, Starting, Inside

LEMMA CommandBeginsMoves ==
  ASSUME ForkInv, TypeOK', NEW c \in Callers, NEW s \in Sessions,
         SendText(c, s) \/ PauseResume(c, s) \/ Graceful(c, s) \/ Stop(c, s)
  PROVE  ForkInv'
<1>0. c \in Actors /\ ForkTypeOK /\ ActorKnows(c) /\ RemovalKnows(c) /\ BugOwned(s)
  BY ActorsAssumption DEF ForkInv
<1>1. bug[s] \in Pipes /\ state[bug[s]] # "none" /\ at[c] = "idle"
  BY <1>0 DEF ForkTypeOK, BugOwned, SendText, PauseResume, Graceful, Stop, Locates
<1>2. Moves(c) /\ UNCHANGED <<history, state>>
  <2>1. CASE SendText(c, s)
    BY <1>0, <1>1, <2>1 DEF Moves, ForkTypeOK, Steps, channel, fork, history, Goto,
       SendText, vars
  <2>2. CASE PauseResume(c, s)
    <3>1. PICK marks \in {muted[bug[s]] \union {"audio_paused"},
                          muted[bug[s]] \ {"audio_paused"}} :
            muted' = [muted EXCEPT ![bug[s]] = marks]
      BY <2>2 DEF PauseResume
    <3>2. marks \in SUBSET Mutes
      BY <1>0, <1>1 DEF ForkTypeOK, Mutes
    <3>3. muted' \in [Pipes -> SUBSET Mutes]
      BY <1>0, <3>1, <3>2 DEF ForkTypeOK
    <3> QED BY <1>0, <2>2, <3>3 DEF Moves, ForkTypeOK, channel, local, history, PauseResume, vars
  <2>3. CASE Graceful(c, s)
    <3>1. muted' \in [Pipes -> SUBSET Mutes]
      <4>1. muted[bug[s]] \union {"graceful_shutdown"} \in SUBSET Mutes
        BY <1>0, <1>1 DEF ForkTypeOK, Mutes
      <4>2. muted' = [muted EXCEPT ![bug[s]] = muted[bug[s]] \union {"graceful_shutdown"}]
        BY <2>3 DEF Graceful
      <4> QED BY <1>0, <4>1, <4>2 DEF ForkTypeOK
    <3>2. /\ at' \in [Actors -> Steps] /\ ap' \in [Actors -> Pipes \union {None}]
          /\ \A b \in Actors \ {c} : at'[b] = at[b] /\ ap'[b] = ap[b]
      <4>1. \/ UNCHANGED <<at, ap>>
            \/ at' = [at EXCEPT ![c] = "graceful"] /\ ap' = [ap EXCEPT ![c] = bug[s]]
        BY <2>3 DEF Graceful, Goto
      <4> QED BY <1>0, <1>1, <4>1 DEF ForkTypeOK, Steps
    <3> QED BY <1>0, <2>3, <3>1, <3>2 DEF Moves, ForkTypeOK, channel, history, Graceful, vars
  <2>4. CASE Stop(c, s)
    <3>1. PICK g \in BOOLEAN : EnterCleanup(c, bug[s], g)
      BY <2>4 DEF Stop
    <3>2. final' \in [Actors -> BOOLEAN] /\ \A b \in Actors \ {c} : final'[b] = final[b]
      BY <1>0, <3>1 DEF EnterCleanup, WorksOn, ForkTypeOK
    <3>3. UNCHANGED <<channel, fork, taken, outer, history, state>>
      BY <2>4 DEF Stop, vars
    <3> QED BY <1>0, <1>1, <3>1, <3>2, <3>3
            DEF Moves, ForkTypeOK, Steps, channel, fork, Goto, EnterCleanup, WorksOn
  <2> QED BY <2>1, <2>2, <2>3, <2>4
<1>3. /\ at'[c] \in {"text", "idle", "graceful", "lock"}
      /\ at'[c] \in {"text", "lock"} => pvt'[c] = bug[s]
      /\ at'[c] \in {"text", "graceful"} => ap'[c] = bug[s]
  BY <1>0, <1>1 DEF ForkTypeOK, Goto, SendText, PauseResume, Graceful, Stop,
     EnterCleanup, WorksOn, local
<1>4. RemovalStays(c)
  BY <1>0, <1>1, <1>3 DEF RemovalStays, RemovalKnows
<1> QED BY <1>0, <1>1, <1>2, <1>3, <1>4, MovesKeeps
        DEF ForkTypeOK, history, Starting, Inside

LEMMA CleanupMoves ==
  ASSUME ForkInv, TypeOK', NEW a \in Actors,
         \/ CleanupWaits(a) \/ CleanupFaults(a) \/ FinalTextAccepted(a)
         \/ FinalTextReturns(a) \/ FinalTextEnds(a) \/ CloseStarts(a)
  PROVE  ForkInv'
<1>0. ForkTypeOK /\ ActorKnows(a) /\ RemovalKnows(a)
  BY DEF ForkInv
<1>1. Moves(a) /\ UNCHANGED <<history, state, pvt, ap, final>>
  <2>1. CASE CleanupWaits(a) \/ CleanupFaults(a) \/ CloseStarts(a)
    BY <1>0, <2>1 DEF Moves, ForkTypeOK, Steps, channel, fork, local, history, forkVars, Goto,
       CleanupWaits, CleanupFaults, CloseStarts, ClientDies, CloseAccepted, vars
  <2>2. CASE FinalTextAccepted(a) \/ FinalTextReturns(a) \/ FinalTextEnds(a)
    BY <1>0, <2>2 DEF Moves, ForkTypeOK, Steps, channel, fork, history, Goto,
       FinalTextAccepted, FinalTextReturns, FinalTextEnds, WakeUp, SendAccepted,
       NotConnected, Refuses, StaleReturn, vars
  <2> QED BY <2>1, <2>2
<1>2. /\ at[a] \in {"lock", "final", "finalsending", "close"}
      /\ at'[a] \in {"lock", "waiting", "finalsending", "close", "closing"}
      /\ at'[a] = "finalsending" => at[a] = "final"
      /\ at'[a] = "closing" => ap[a] # None
      /\ at[a] = "lock" => at'[a] \in {"lock", "waiting"}
  BY <1>0 DEF ForkTypeOK, Goto, CleanupWaits, CleanupFaults, FinalTextAccepted,
     FinalTextReturns, FinalTextEnds, CloseStarts, forkVars, local
<1>3. RemovalStays(a)
  BY <1>0, <1>1, <1>2 DEF RemovalStays, RemovalKnows
<1> QED BY <1>0, <1>1, <1>2, <1>3, MovesKeeps
        DEF ForkTypeOK, history, ActorKnows, Starting, Inside

LEMMA SessionMoves ==
  ASSUME ForkInv, TypeOK', NEW s \in Sessions, NEW p \in Pipes,
         FrameStale(s, p) \/ FrameFaults(s, p)
  PROVE  ForkInv'
<1>0. s \in Actors /\ ForkTypeOK /\ RemovalKnows(s)
  BY ActorsAssumption DEF ForkInv
<1>1. Moves(s) /\ UNCHANGED <<history, state, at, pvt, ap>>
  BY <1>0 DEF Moves, ForkTypeOK, channel, fork, local, history, forkVars,
     FrameStale, FrameFaults, ClientDies, StaleReturn
<1>2. at[s] = "idle"
  BY DEF FrameStale, FrameFaults, FrameGoesOn
<1>3. RemovalStays(s)
  BY <1>0, <1>1, <1>2 DEF RemovalStays, RemovalKnows
<1> QED BY <1>0, <1>1, <1>2, <1>3, MovesKeeps DEF ForkTypeOK, history, Starting, Inside

LEMMA CallbackMoves ==
  ASSUME IInv, ForkInv, TypeOK', NEW t \in Threads, Callback(t)
  PROVE  ForkInv'
<1>0. /\ t \in Actors /\ ForkTypeOK /\ ActorKnows(t) /\ RemovalKnows(t) /\ CallAgrees(t)
      /\ \A p \in Pipes : PipeAgrees(p) /\ PipeOwned(p)
      /\ \A s \in Sessions : BugOwned(s)
  BY ActorsAssumption DEF IInv, Agreement, ForkInv
<1>1. CASE EventCallback(t)
  <2> DEFINE q == bug[owner[call[t].pipe]]
  <2>1. call[t].pipe \in Pipes /\ owner[call[t].pipe] \in Sessions
    BY <1>0, <1>1, ConstantsAssumption
       DEF EventCallback, CallAgrees, PipeAgrees, PipeOwned
  <2>2. q # None => q \in Pipes /\ state[q] # "none"
    BY <1>0, <2>1 DEF ForkTypeOK, BugOwned
  <2>3. UNCHANGED <<history, state>> /\ at[t] = "idle" /\ at'[t] \in {"meta", "return"}
    BY <1>0, <1>1 DEF EventCallback, ForkTypeOK, Goto, vars
  <2>6. at'[t] = "meta" => pvt'[t] \in Pipes /\ state[pvt'[t]] # "none"
    <3>1. ASSUME at'[t] = "meta" PROVE q # None /\ pvt'[t] = q
      BY <1>0, <1>1, <3>1 DEF EventCallback, ForkTypeOK, Goto
    <3> QED BY <2>2, <3>1
  <2>4. Moves(t)
    <3>1. /\ UNCHANGED <<channel, mutex, muted, ap, final, taken, outer>>
          /\ ref' \in [Pipes -> BOOLEAN]
      BY <1>0, <1>1 DEF EventCallback, ForkTypeOK, channel
    <3>2. /\ at' \in [Actors -> Steps] /\ pvt' \in [Actors -> Pipes \union {None}]
          /\ \A b \in Actors \ {t} : at'[b] = at[b] /\ pvt'[b] = pvt[b]
      <4>1. Goto(t, "meta") \/ Goto(t, "return")
        BY <1>1 DEF EventCallback
      <4>2. pvt' = pvt \/ (q # None /\ pvt' = [pvt EXCEPT ![t] = q])
        BY <1>1 DEF EventCallback
      <4>3. /\ at' \in [Actors -> Steps]
            /\ \A b \in Actors \ {t} : at'[b] = at[b]
        BY <1>0, <4>1 DEF ForkTypeOK, Steps, Goto
      <4>4. /\ pvt' \in [Actors -> Pipes \union {None}]
            /\ \A b \in Actors \ {t} : pvt'[b] = pvt[b]
        <5> HIDE DEF q
        <5> QED BY <1>0, <2>2, <4>2 DEF ForkTypeOK
      <4> QED BY <4>3, <4>4
    <3> QED BY <1>0, <3>1, <3>2 DEF Moves, ForkTypeOK
  <2>5. ~Starting(t)' /\ ~Inside(t)' /\ RemovalStays(t)
    BY <1>0, <2>3 DEF Starting, Inside, RemovalStays, RemovalKnows
  <2> QED BY <1>0, <2>3, <2>4, <2>5, <2>6, MovesKeeps DEF ForkTypeOK, history
<1>2. CASE \/ MetadataAccepted(t) \/ MetadataReturns(t) \/ MetadataFaults(t)
           \/ MetadataEnds(t)
  <2>1. Moves(t) /\ UNCHANGED <<history, state, pvt, ap>>
    BY <1>0, <1>2 DEF Moves, ForkTypeOK, Steps, channel, fork, local, history,
       forkVars, Goto, MetadataAccepted, MetadataReturns, MetadataFaults,
       MetadataEnds, ClientDies, WakeUp, SendAccepted, NotConnected, Refuses,
       StaleReturn, vars
  <2>2. /\ at[t] \in {"meta", "metasending"}
        /\ at'[t] \in {"meta", "metasending", "return"}
    BY <1>0, <1>2 DEF ForkTypeOK, Goto, MetadataAccepted, MetadataReturns,
       MetadataFaults, MetadataEnds, forkVars, local
  <2>3. RemovalStays(t)
    BY <1>0, <2>2 DEF RemovalStays, RemovalKnows
  <2> QED BY <1>0, <2>1, <2>2, <2>3, MovesKeeps
          DEF ForkTypeOK, history, ActorKnows, Starting, Inside
<1>3. CASE EventReturns(t)
  <2>1. \A p \in Pipes : state'[p] = "none" <=> state[p] = "none"
    BY <1>0, <1>3, NoPipeAppears DEF EventReturns, Service
  <2>2. Moves(t) /\ UNCHANGED history /\ at[t] = "return" /\ at'[t] = "idle"
    BY <1>0, <1>3 DEF Moves, ForkTypeOK, Steps, channel, fork, history, Goto, Done, WorksOn,
       EventReturns
  <2>3. RemovalStays(t)
    BY <1>0, <2>2 DEF RemovalStays, RemovalKnows
  <2> QED BY <1>0, <2>1, <2>2, <2>3, MovesKeeps DEF ForkTypeOK, history, Starting, Inside
<1> QED BY <1>1, <1>2, <1>3 DEF Callback

(***************************************************************************)
(* Steps of the service threads, and the stores, move nobody here.         *)
(***************************************************************************)
LEMMA PipeStepMoves ==
  ASSUME IInv, ForkInv, TypeOK', PipeStep \/ \E a \in Actors : Stored(a)
  PROVE  ForkInv'
<1>0. /\ ForkTypeOK /\ TypeOK /\ Threads # {} /\ Threads \subseteq Actors
      /\ \A a \in Actors : ActorKnows(a) /\ RemovalKnows(a) /\ DoingAgrees(a)
  BY ConstantsAssumption, ActorsAssumption DEF ForkInv, IInv, Agreement
<1>1. PICK a \in Actors, t \in Threads :
        Service(t) \/ SendStored(a) \/ CloseStored(a)
  BY <1>0 DEF PipeStep, ServiceStep, ServiceWrites, Service, Writeable, Stored
<1>2. \A p \in Pipes : state'[p] = "none" <=> state[p] = "none"
  BY <1>1, NoPipeAppears
<1>3. UNCHANGED <<channel, fork, local>>
  BY DEF PipeStep, Stored
<1>4. greeted' \in SUBSET Pipes
  <2>1. CASE PipeStep
    BY <1>0, <2>1 DEF PipeStep, ForkTypeOK
  <2>2. CASE \E b \in Actors : Stored(b)
    <3>1. PICK b \in Actors : Stored(b)
      BY <2>2
    <3>2. doing[b].pipe \in Pipes
      BY <1>0, <3>1, ConstantsAssumption
         DEF Stored, SendStored, CloseStored, DoingAgrees, Calls
    <3> QED BY <1>0, <3>1, <3>2 DEF Stored, ForkTypeOK, ActorKnows
  <2> QED BY <2>1, <2>2
<1>5. sent' \in [Pipes -> SUBSET (Payloads \union {"audio"})]
  <2>1. CASE UNCHANGED sent
    BY <1>0, <2>1 DEF ForkTypeOK
  <2>2. ASSUME NEW p \in Pipes, NEW x \in SUBSET (Payloads \union {"audio"}), Sends(p, x)
        PROVE  sent' \in [Pipes -> SUBSET (Payloads \union {"audio"})]
    BY <1>0, <2>2 DEF Sends, ForkTypeOK
  <2>3. ASSUME NEW p \in Pipes
        PROVE  {text[p][i] : i \in DOMAIN text[p]} \subseteq Payloads
    BY <1>0 DEF TypeOK, Texts
  <2> QED BY <1>0, <2>1, <2>2, <2>3
          DEF PipeStep, ServiceStep, ServiceWrites, Stored
<1>6. Moves(a)
  BY <1>0, <1>3 DEF Moves, ForkTypeOK, channel, fork, local
<1>7. UNCHANGED <<at, pvt, ap, final, outer>> /\ ActorKnows(a) /\ RemovalKnows(a)
  BY <1>0, <1>3 DEF local
<1>8. RemovalStays(a)
  BY <1>7 DEF RemovalStays, RemovalKnows
<1> QED BY <1>2, <1>4, <1>5, <1>6, <1>7, <1>8, MovesKeeps DEF ActorKnows, Starting, Inside

-----------------------------------------------------------------------------
(* Steps that change what a channel, a bug or a lock is.                   *)

LEMMA StartCaptureKeeps ==
  ASSUME ForkInv, TypeOK', NEW c \in Callers, NEW s \in Sessions, NEW p \in Pipes,
         StartCapture(c, s, p)
  PROVE  ForkInv'
<1>0. /\ c \in Actors /\ ForkTypeOK /\ TypeOK /\ MutexExcludes /\ LiveBugIsAttached
      /\ \A q \in Pipes : PipeOwned(q)
      /\ \A r \in Sessions : BugOwned(r)
      /\ \A b \in Actors : ActorKnows(b) /\ RemovalKnows(b)
      /\ None \notin Pipes
  BY ConstantsAssumption, ActorsAssumption DEF ForkInv, ForkTypeOK
<1>1. /\ at[c] = "idle" /\ state[p] = "none" /\ mutex[p] = "none" /\ outer[c] = NoCleanup
      /\ UNCHANGED <<up, bug, attached, ap, final, taken, outer>>
  BY <1>0 DEF StartCapture, Connect, PipeOwned, RemovalKnows
<1>2. /\ state'[p] = "IDLE" /\ \A q \in Pipes \ {p} : state'[q] = state[q]
      /\ owner'[p] = s /\ \A q \in Pipes \ {p} : owner'[q] = owner[q]
      /\ mutex'[p] = "free" /\ \A q \in Pipes \ {p} : mutex'[q] = mutex[q]
      /\ at'[c] = "start" /\ pvt'[c] = p
      /\ \A a \in Actors \ {c} : at'[a] = at[a] /\ pvt'[a] = pvt[a]
  BY <1>0 DEF StartCapture, Connect, Goto, ForkTypeOK, TypeOK
<1>3. /\ \A a \in Actors \ {c} :
           at[a] \notin {"idle", "graceful", "gracing", "return"} => pvt[a] # p
      /\ \A a \in Actors : outer[a].pvt # p
      /\ \A a \in Actors : at[a] \in {"clearing", "removing"} => taken[a] # p
  BY <1>0, <1>1 DEF ActorKnows, RemovalKnows, NoCleanup
<1>4. ForkTypeOK'
  <2>1. raced' \in SUBSET Pipes /\ overlapped' \in SUBSET Pipes
    <3>1. RivalStarts(s) \subseteq Pipes /\ Unfinished(s) \subseteq Pipes
      BY <1>0 DEF RivalStarts, Unfinished, Starting, ActorKnows
    <3> QED BY <1>0, <3>1 DEF StartCapture, RecordsStart, ForkTypeOK
  <2> QED BY <1>0, <2>1 DEF StartCapture, Goto, Steps, ForkTypeOK, history
<1>5. ASSUME NEW q \in Pipes PROVE PipeOwned(q)'
  BY <1>0, <1>2 DEF PipeOwned
<1>6. ASSUME NEW r \in Sessions PROVE BugOwned(r)'
  <2>1. bug[r] # None => bug[r] \in Pipes /\ bug[r] # p
    BY <1>0, <1>1 DEF BugOwned, ForkTypeOK
  <2> QED BY <1>0, <1>1, <1>2, <2>1 DEF BugOwned, Starting
<1>7. ASSUME NEW a \in Actors PROVE ActorKnows(a)'
  <2>1. CASE a = c
    BY <1>2, <1>3, <2>1 DEF ActorKnows, Starting
  <2>2. CASE a # c
    BY <1>0, <1>1, <1>2, <1>3, <2>2 DEF ActorKnows, Starting
  <2> QED BY <2>1, <2>2
<1>8. ASSUME NEW a \in Actors PROVE RemovalKnows(a)'
  <2>1. CASE a = c
    BY <1>1, <1>2, <2>1 DEF RemovalKnows
  <2>2. CASE a # c
    <3>1. /\ at[a] \in {"clearing", "removing"} \/ outer[a] # NoCleanup =>
               pvt[a] \in Pipes /\ pvt[a] # p
          /\ at[a] \in {"clearing", "removing"} => taken[a] # p
          /\ outer[a].pvt # p
      BY <1>0, <1>3, <2>2 DEF ActorKnows, RemovalKnows
    <3>2. at[a] \in {"clearing", "removing"} =>
            \A b \in Actors : Starting(b)' => pvt'[b] # taken'[a]
      BY <1>0, <1>1, <1>2, <2>2, <3>1 DEF RemovalKnows, Starting
    <3> QED BY <1>0, <1>1, <1>2, <2>2, <3>1, <3>2 DEF RemovalKnows
  <2> QED BY <2>1, <2>2
<1>9. MutexExcludes'
  <2>1. /\ ~Inside(c)' /\ \A a \in Actors : Inside(a)' => Inside(a) /\ pvt'[a] = pvt[a]
        /\ \A a \in Actors, q \in Pipes : Holds(a, q)' => Holds(a, q)
        /\ \A a \in Actors : ~Holds(a, p)
    BY <1>0, <1>1, <1>2, <1>3 DEF Inside, Holds
  <2> QED BY <1>0, <1>1, <1>2, <2>1 DEF MutexExcludes
<1>10. LiveBugIsAttached'
  BY <1>0, <1>1 DEF LiveBugIsAttached
<1> QED BY <1>4, <1>5, <1>6, <1>7, <1>8, <1>9, <1>10 DEF ForkInv

LEMMA BugAddedKeeps ==
  ASSUME ForkInv, TypeOK', NEW c \in Callers, AddBug(c) \/ PublishBug(c)
  PROVE  ForkInv'
<1>0. /\ c \in Actors /\ ForkTypeOK /\ TypeOK /\ MutexExcludes /\ LiveBugIsAttached
      /\ \A q \in Pipes : PipeOwned(q)
      /\ \A r \in Sessions : BugOwned(r)
      /\ \A b \in Actors : ActorKnows(b) /\ RemovalKnows(b)
      /\ None \notin Pipes
  BY ConstantsAssumption, ActorsAssumption DEF ForkInv, ForkTypeOK
<1>1. /\ UNCHANGED <<state, up, owner, mutex, taken, outer>>
      /\ \A a \in Actors \ {c} : /\ at'[a] = at[a] /\ pvt'[a] = pvt[a]
                                /\ ap'[a] = ap[a] /\ final'[a] = final[a]
      /\ pvt[c] \in Pipes /\ state[pvt[c]] # "none" /\ owner[pvt[c]] \in Sessions
      /\ Starting(c) /\ outer[c] = NoCleanup
      /\ at'[c] \in {"publish", "idle"}
      /\ at'[c] = "publish" => pvt'[c] = pvt[c]
  <2>1. at[c] \in {"adding", "publish"}
    BY DEF AddBug, PublishBug
  <2>2. /\ pvt[c] \in Pipes /\ state[pvt[c]] # "none" /\ owner[pvt[c]] \in Sessions
        /\ Starting(c) /\ outer[c] = NoCleanup
    BY <1>0, <2>1 DEF Starting, ActorKnows, PipeOwned, RemovalKnows
  <2> QED BY <1>0, <2>2 DEF AddBug, PublishBug, Goto, Done, WorksOn, ForkTypeOK, fork, vars
<1>2. /\ attached \subseteq attached'
      /\ at'[c] = "publish" => pvt[c] \in attached'
      /\ \A r \in Sessions : bug'[r] # bug[r] =>
           /\ bug'[r] = pvt[c] /\ r = owner[pvt[c]] /\ at'[c] = "idle"
           /\ ~up[r] \/ pvt[c] \in attached'
  <2>1. CASE AddBug(c)
    BY <1>0, <1>1, <2>1 DEF AddBug, Goto, ForkTypeOK
  <2>2. CASE PublishBug(c)
    <3>1. ~up[owner[pvt[c]]] \/ pvt[c] \in attached
      BY <1>0, <2>2 DEF PublishBug, ActorKnows
    <3>2. at'[c] = "idle" /\ attached' = attached
      BY <1>0, <2>2 DEF PublishBug, Goto, Done, ForkTypeOK
    <3>3. \A r \in Sessions : bug'[r] # bug[r] => bug'[r] = pvt[c] /\ r = owner[pvt[c]]
      BY <1>0, <2>2 DEF PublishBug, ForkTypeOK
    <3> QED BY <3>1, <3>2, <3>3
  <2> QED BY <2>1, <2>2
<1>3. ForkTypeOK'
  <2>1. CASE AddBug(c)
    BY <1>0, <1>1, <2>1 DEF AddBug, Goto, Steps, ForkTypeOK, fork, starts, history
  <2>2. CASE PublishBug(c)
    BY <1>0, <1>1, <2>2 DEF PublishBug, Done, WorksOn, Goto, Steps, ForkTypeOK, fork, starts,
       history
  <2> QED BY <2>1, <2>2
<1>4. ASSUME NEW q \in Pipes PROVE PipeOwned(q)'
  BY <1>0, <1>1 DEF PipeOwned
<1>5. ASSUME NEW r \in Sessions PROVE BugOwned(r)'
  <2>1. CASE bug'[r] = bug[r]
    BY <1>0, <1>1, <2>1 DEF BugOwned, Starting
  <2>2. CASE bug'[r] # bug[r]
    BY <1>0, <1>1, <1>2, <2>2 DEF BugOwned, Starting, ActorKnows
  <2> QED BY <2>1, <2>2
<1>6. ASSUME NEW a \in Actors PROVE ActorKnows(a)'
  <2>1. CASE a = c
    BY <1>0, <1>1, <1>2, <2>1 DEF ActorKnows, Starting
  <2>2. CASE a # c
    BY <1>0, <1>1, <1>2, <2>2 DEF ActorKnows, Starting
  <2> QED BY <2>1, <2>2
<1>7. ASSUME NEW a \in Actors PROVE RemovalKnows(a)'
  <2>1. CASE a = c
    BY <1>1, <2>1 DEF RemovalKnows
  <2>2. CASE a # c
    <3>1. \A b \in Actors : Starting(b)' => Starting(b) /\ pvt'[b] = pvt[b]
      BY <1>1 DEF Starting
    <3>2. at[a] = "removing" => owner[pvt[a]] \in Sessions /\ taken[a] # pvt[c]
      BY <1>0, <1>1 DEF ActorKnows, PipeOwned, RemovalKnows
    <3> QED BY <1>0, <1>1, <1>2, <2>2, <3>1, <3>2 DEF RemovalKnows
  <2> QED BY <2>1, <2>2
<1>8. MutexExcludes'
  <2>1. \A a \in Actors : Inside(a)' => Inside(a) /\ pvt'[a] = pvt[a]
    BY <1>1 DEF Inside
  <2> QED BY <1>0, <1>1, <2>1 DEF MutexExcludes, Holds
<1>9. LiveBugIsAttached'
  BY <1>0, <1>1, <1>2 DEF LiveBugIsAttached
<1> QED BY <1>3, <1>4, <1>5, <1>6, <1>7, <1>8, <1>9 DEF ForkInv

LEMMA HangupKeeps ==
  ASSUME ForkInv, TypeOK', NEW s \in Sessions, Hangup(s)
  PROVE  ForkInv'
<1>0. /\ ForkTypeOK /\ TypeOK /\ MutexExcludes /\ LiveBugIsAttached
      /\ \A q \in Pipes : PipeOwned(q)
      /\ \A r \in Sessions : BugOwned(r)
      /\ \A b \in Actors : ActorKnows(b) /\ RemovalKnows(b)
      /\ None \notin Pipes
  BY ConstantsAssumption DEF ForkInv, ForkTypeOK
<1>1. /\ UNCHANGED <<state, bug, attached, owner, ref, mutex, muted, local>>
      /\ \A r \in Sessions : up'[r] => up[r]
  BY <1>0 DEF Hangup, fork, vars, ForkTypeOK
<1>2. UNCHANGED <<at, pvt, ap, final, taken, outer>>
  BY <1>1 DEF local
<1>3. ForkTypeOK'
  BY <1>0, <1>2 DEF Hangup, ForkTypeOK, fork, starts, history
<1>4. ASSUME NEW p \in Pipes PROVE PipeOwned(p)'
  BY <1>0, <1>1 DEF PipeOwned
<1>5. ASSUME NEW r \in Sessions PROVE BugOwned(r)'
  BY <1>0, <1>1, <1>2 DEF BugOwned, Starting
<1>6. ASSUME NEW b \in Actors PROVE ActorKnows(b)' /\ RemovalKnows(b)'
  <2>1. at[b] = "publish" => owner[pvt[b]] \in Sessions
    BY <1>0 DEF ActorKnows, PipeOwned
  <2>2. ActorKnows(b)'
    BY <1>0, <1>1, <1>2, <2>1 DEF ActorKnows, Starting
  <2>3. RemovalKnows(b)'
    BY <1>0, <1>1, <1>2 DEF RemovalKnows, Starting
  <2> QED BY <2>2, <2>3
<1>7. MutexExcludes' /\ LiveBugIsAttached'
  BY <1>0, <1>1, <1>2 DEF MutexExcludes, Holds, Inside, LiveBugIsAttached
<1> QED BY <1>3, <1>4, <1>5, <1>6, <1>7 DEF ForkInv

LEMMA CloseCallbackKeeps ==
  ASSUME ForkInv, TypeOK', NEW s \in Sessions, NEW p \in Pipes, CloseCallback(s, p)
  PROVE  ForkInv'
<1>0. /\ ForkTypeOK /\ TypeOK /\ MutexExcludes /\ LiveBugIsAttached
      /\ \A q \in Pipes : PipeOwned(q)
      /\ \A r \in Sessions : BugOwned(r)
      /\ \A b \in Actors : ActorKnows(b) /\ RemovalKnows(b)
      /\ None \notin Pipes
  BY ConstantsAssumption DEF ForkInv, ForkTypeOK
<1>1. /\ s \in Actors /\ at[s] = "idle" /\ ~up[s] /\ owner[p] = s /\ outer[s] = NoCleanup
      /\ UNCHANGED <<state, up, bug, owner, ref, mutex, muted, taken, outer>>
      /\ attached' = attached \ {p}
  BY <1>0, ActorsAssumption DEF CloseCallback, RemovalKnows, fork, vars
<1>2. /\ at'[s] \in {"idle", "lock"}
      /\ at'[s] = "lock" => pvt'[s] \in Pipes /\ state[pvt'[s]] # "none"
      /\ \A b \in Actors \ {s} : /\ at'[b] = at[b] /\ pvt'[b] = pvt[b]
                                /\ ap'[b] = ap[b] /\ final'[b] = final[b]
  <2>1. CASE bug[s] # None
    <3>1. bug[s] \in Pipes /\ state[bug[s]] # "none"
      BY <1>0, <2>1 DEF ForkTypeOK, BugOwned
    <3> QED BY <1>0, <1>1, <2>1, <3>1
            DEF CloseCallback, EnterCleanup, WorksOn, Goto, ForkTypeOK
  <2>2. CASE bug[s] = None
    BY <1>1, <2>2 DEF CloseCallback
  <2> QED BY <2>1, <2>2
<1>3. ForkTypeOK'
  <2>1. CASE bug[s] # None
    <3>1. bug[s] \in Pipes
      BY <1>0, <2>1 DEF ForkTypeOK
    <3>2. /\ ap' \in [Actors -> Pipes \union {None}]
          /\ pvt' \in [Actors -> Pipes \union {None}]
          /\ at' \in [Actors -> Steps] /\ final' \in [Actors -> BOOLEAN]
      <4>1. /\ at' = [at EXCEPT ![s] = "lock"]
            /\ pvt' = [pvt EXCEPT ![s] = bug[s]]
            /\ ap' = [ap EXCEPT ![s] = IF ref[bug[s]] THEN bug[s] ELSE None]
            /\ final' = [final EXCEPT ![s] = FALSE]
        BY <2>1 DEF CloseCallback, EnterCleanup, WorksOn, Goto
      <4>2. "lock" \in Steps
        BY DEF Steps
      <4> QED BY <1>0, <3>1, <4>1, <4>2 DEF ForkTypeOK
    <3> QED BY <1>0, <1>1, <3>2 DEF CloseCallback, ForkTypeOK, starts, history
  <2>2. CASE bug[s] = None
    BY <1>0, <1>1, <2>2 DEF CloseCallback, ForkTypeOK, starts, history
  <2> QED BY <2>1, <2>2
<1>4. ASSUME NEW q \in Pipes PROVE PipeOwned(q)'
  BY <1>0, <1>1 DEF PipeOwned
<1>5. \A b \in Actors : Starting(b)' => b # s /\ Starting(b)
  BY <1>2 DEF Starting
<1>6. ASSUME NEW r \in Sessions PROVE BugOwned(r)'
  BY <1>0, <1>1, <1>2, <1>5 DEF BugOwned
<1>7. ASSUME NEW b \in Actors PROVE ActorKnows(b)'
  BY <1>0, <1>1, <1>2 DEF ActorKnows, Starting
<1>8. ASSUME NEW b \in Actors PROVE RemovalKnows(b)'
  <2>1. CASE b = s
    BY <1>1, <1>2, <2>1 DEF RemovalKnows
  <2>2. CASE b # s
    BY <1>0, <1>1, <1>2, <1>5, <2>2 DEF RemovalKnows
  <2> QED BY <2>1, <2>2
<1>9. MutexExcludes'
  <2>1. \A a \in Actors : Inside(a)' => Inside(a) /\ pvt'[a] = pvt[a]
    BY <1>2 DEF Inside
  <2> QED BY <1>0, <1>1, <2>1 DEF MutexExcludes, Holds
<1>10. LiveBugIsAttached'
  BY <1>0, <1>1 DEF LiveBugIsAttached, BugOwned
<1> QED BY <1>3, <1>4, <1>6, <1>7, <1>8, <1>9, <1>10 DEF ForkInv

-----------------------------------------------------------------------------
(* A cleanup.                                                              *)

LEMMA CleanupLockedKeeps ==
  ASSUME ForkInv, TypeOK', NEW a \in Actors, CleanupLocked(a)
  PROVE  ForkInv'
<1>0. /\ ForkTypeOK /\ TypeOK /\ MutexExcludes /\ LiveBugIsAttached
      /\ \A q \in Pipes : PipeOwned(q)
      /\ \A r \in Sessions : BugOwned(r)
      /\ \A b \in Actors : ActorKnows(b) /\ RemovalKnows(b)
      /\ None \notin Pipes
  BY ConstantsAssumption DEF ForkInv, ForkTypeOK
<1> DEFINE s == owner[pvt[a]]
           found == bug[s]
<1>1. /\ at[a] \in {"lock", "waiting"}
      /\ pvt[a] \in Pipes /\ state[pvt[a]] # "none" /\ s \in Sessions
      /\ UNCHANGED <<state, up, bug, attached, owner, ref, muted, pvt, ap, final, outer>>
  BY <1>0 DEF CleanupLocked, ActorKnows, PipeOwned, vars, channel
<1>2. /\ mutex[pvt[a]] = "free" /\ mutex'[pvt[a]] = "held"
      /\ \A q \in Pipes \ {pvt[a]} : mutex'[q] = mutex[q]
      /\ \A b \in Actors \ {a} : at'[b] = at[b] /\ taken'[b] = taken[b]
      /\ taken'[a] = found
      /\ at'[a] \in {"clearing", "final", "close"}
      /\ at'[a] = "clearing" => found # None
      /\ at'[a] = "final" => ap[a] # None /\ final[a]
  BY <1>0, <1>1 DEF CleanupLocked, Locks, Goto, TellAndClose, ForkTypeOK
<1>3. ForkTypeOK'
  <2>1. found \in Pipes \union {None}
    BY <1>0, <1>1 DEF ForkTypeOK
  <2>2. /\ taken' \in [Actors -> Pipes \union {None}] /\ at' \in [Actors -> Steps]
        /\ mutex' \in [Pipes -> {"none", "free", "held", "gone"}]
    BY <1>0, <1>1, <2>1 DEF CleanupLocked, Locks, Goto, TellAndClose, Steps, ForkTypeOK
  <2> QED BY <1>0, <1>1, <2>2 DEF CleanupLocked, ForkTypeOK, channel, starts, history
<1>4. ASSUME NEW q \in Pipes PROVE PipeOwned(q)'
  BY <1>0, <1>1, <1>2 DEF PipeOwned
<1>5. \A b \in Actors : Starting(b)' => b # a /\ Starting(b)
  BY <1>2 DEF Starting
<1>6. ASSUME NEW r \in Sessions PROVE BugOwned(r)'
  BY <1>0, <1>1, <1>5 DEF BugOwned
<1>7. ASSUME NEW b \in Actors PROVE ActorKnows(b)'
  <2>1. CASE b = a
    <3>1. ap[a] \in Pipes \union {None} /\ ~Starting(a)'
      BY <1>0, <1>2 DEF ForkTypeOK, Starting
    <3> QED BY <1>1, <1>2, <2>1, <3>1 DEF ActorKnows
  <2>2. CASE b # a
    BY <1>0, <1>1, <1>2, <1>5, <2>2 DEF ActorKnows
  <2> QED BY <2>1, <2>2
<1>8. ASSUME NEW b \in Actors PROVE RemovalKnows(b)'
  <2>1. CASE b = a
    <3>1. found # None => /\ found \in Pipes /\ state[found] # "none"
                          /\ owner[found] = s
                          /\ \A d \in Actors : Starting(d) => pvt[d] # found
      BY <1>0, <1>1 DEF BugOwned, ForkTypeOK
    <3>2. at'[a] # "removing" /\ (outer[a] # NoCleanup => at'[a] # "final")
      BY <1>0, <1>2 DEF RemovalKnows
    <3>3. at'[a] = "clearing" =>
            /\ taken'[a] \in Pipes /\ state'[taken'[a]] # "none"
            /\ owner'[taken'[a]] = owner'[pvt'[a]]
            /\ \A d \in Actors : Starting(d)' => pvt'[d] # taken'[a]
      BY <1>1, <1>2, <1>5, <3>1
    <3>4. outer'[a] # NoCleanup =>
            /\ a \in Callers
            /\ at'[a] \in {"clearing", "close"} /\ ~final'[a]
            /\ outer'[a].pvt \in Pipes /\ state'[outer'[a].pvt] # "none"
            /\ owner'[outer'[a].pvt] = owner'[pvt'[a]]
      BY <1>0, <1>1, <1>2, <3>2 DEF RemovalKnows
    <3> QED BY <2>1, <3>2, <3>3, <3>4 DEF RemovalKnows
  <2>2. CASE b # a
    BY <1>0, <1>1, <1>2, <1>5, <2>2 DEF RemovalKnows
  <2> QED BY <2>1, <2>2
<1>9. MutexExcludes'
  <2>1. \A b \in Actors : ~Holds(b, pvt[a])
    BY <1>0, <1>1, <1>2 DEF MutexExcludes
  <2>2. \A b \in Actors, q \in Pipes : Holds(b, q)' => Holds(b, q) \/ (b = a /\ q = pvt[a])
    BY <1>1, <1>2 DEF Holds, Inside
  <2>3. \A b \in Actors : Inside(b)' => Inside(b) \/ b = a
    BY <1>2 DEF Inside
  <2>4. outer[a].pvt # pvt[a]
    BY <2>1 DEF Holds
  <2>5. ASSUME NEW b \in Actors, NEW q \in Pipes, Holds(b, q)'
        PROVE  /\ mutex'[q] = "held"
               /\ \A d \in Actors : Holds(d, q)' => b = d
    BY <1>0, <1>1, <1>2, <2>1, <2>2, <2>5 DEF MutexExcludes
  <2>6. ASSUME NEW b \in Actors, Inside(b)' PROVE pvt'[b] # outer'[b].pvt
    BY <1>0, <1>1, <2>3, <2>4, <2>6 DEF MutexExcludes
  <2> QED BY <2>5, <2>6 DEF MutexExcludes
<1>10. LiveBugIsAttached'
  BY <1>0, <1>1 DEF LiveBugIsAttached
<1> QED BY <1>3, <1>4, <1>6, <1>7, <1>8, <1>9, <1>10 DEF ForkInv

LEMMA ClearBugKeeps ==
  ASSUME ForkInv, TypeOK', NEW a \in Actors, ClearBug(a)
  PROVE  ForkInv'
<1>0. /\ ForkTypeOK /\ TypeOK /\ MutexExcludes /\ LiveBugIsAttached
      /\ \A q \in Pipes : PipeOwned(q)
      /\ \A r \in Sessions : BugOwned(r)
      /\ \A b \in Actors : ActorKnows(b) /\ RemovalKnows(b)
      /\ None \notin Pipes
  BY ConstantsAssumption DEF ForkInv, ForkTypeOK
<1> DEFINE s == owner[pvt[a]]
<1>1. /\ at[a] = "clearing"
      /\ pvt[a] \in Pipes /\ state[pvt[a]] # "none" /\ s \in Sessions
      /\ UNCHANGED <<state, up, attached, owner, mutex, ref, muted, pvt, ap, final, outer>>
  BY <1>0 DEF ClearBug, ActorKnows, PipeOwned, vars, fork
<1>2. /\ bug'[s] = None /\ \A r \in Sessions \ {s} : bug'[r] = bug[r]
      /\ \A b \in Actors \ {a} : at'[b] = at[b] /\ taken'[b] = taken[b]
      /\ at'[a] \in {"removing", "final", "close"}
      /\ at'[a] = "removing" => Removes(a) /\ taken'[a] = taken[a]
      /\ at'[a] = "final" => ap[a] # None /\ final[a]
  BY <1>0, <1>1 DEF ClearBug, ClearPrivate, Goto, TellAndClose, ForkTypeOK
<1>3. ForkTypeOK'
  <2>1. /\ taken' \in [Actors -> Pipes \union {None}] /\ at' \in [Actors -> Steps]
        /\ bug' \in [Sessions -> Pipes \union {None}]
    BY <1>0, <1>1 DEF ClearBug, ClearPrivate, Goto, TellAndClose, Steps, ForkTypeOK
  <2> QED BY <1>0, <1>1, <2>1 DEF ClearBug, ForkTypeOK, starts, history
<1>4. ASSUME NEW q \in Pipes PROVE PipeOwned(q)'
  BY <1>0, <1>1 DEF PipeOwned
<1>5. \A b \in Actors : Starting(b)' => b # a /\ Starting(b)
  BY <1>2 DEF Starting
<1>6. ASSUME NEW r \in Sessions PROVE BugOwned(r)'
  BY <1>0, <1>1, <1>2, <1>5 DEF BugOwned
<1>7. ASSUME NEW b \in Actors PROVE ActorKnows(b)'
  <2>1. CASE b = a
    <3>1. ap[a] \in Pipes \union {None} /\ ~Starting(a)'
      BY <1>0, <1>2 DEF ForkTypeOK, Starting
    <3> QED BY <1>1, <1>2, <2>1, <3>1 DEF ActorKnows
  <2>2. CASE b # a
    BY <1>0, <1>1, <1>2, <1>5, <2>2 DEF ActorKnows
  <2> QED BY <2>1, <2>2
<1>8. ASSUME NEW b \in Actors PROVE RemovalKnows(b)'
  <2>1. CASE b = a
    <3>1. at'[a] = "removing" => a \in Callers /\ outer[a] = NoCleanup
      BY <1>2 DEF Removes
    <3>2. outer[a] # NoCleanup => at'[a] = "close"
      BY <1>0, <1>2, <3>1 DEF RemovalKnows
    <3>3. taken[a] \in Pipes /\ bug'[s] = None
      BY <1>0, <1>1, <1>2 DEF RemovalKnows
    <3>4. at'[a] # "clearing" /\ (outer'[a] # NoCleanup => RemovalKnows(a))
      BY <1>0, <1>2
    <3> QED BY <1>0, <1>1, <1>2, <1>5, <2>1, <3>1, <3>2, <3>3, <3>4 DEF RemovalKnows
  <2>2. CASE b # a
    <3>1. at[b] = "removing" => owner[pvt[b]] \in Sessions
      BY <1>0 DEF ActorKnows, PipeOwned
    <3>2. at[b] = "removing" => bug'[owner[pvt[b]]] # taken[b]
      BY <1>0, <1>2, <3>1 DEF RemovalKnows
    <3> QED BY <1>0, <1>1, <1>2, <1>5, <2>2, <3>2 DEF RemovalKnows
  <2> QED BY <2>1, <2>2
<1>9. MutexExcludes'
  <2>1. \A b \in Actors : Inside(b)' => Inside(b)
    BY <1>1, <1>2 DEF Inside
  <2> QED BY <1>0, <1>1, <2>1 DEF MutexExcludes, Holds
<1>10. LiveBugIsAttached'
  BY <1>0, <1>1, <1>2 DEF LiveBugIsAttached
<1> QED BY <1>3, <1>4, <1>6, <1>7, <1>8, <1>9, <1>10 DEF ForkInv

\* The bug is off; a CLOSE callback may find that another fork has the private.
Nested(c) ==
  LET s == owner[pvt[c]]
  IN  /\ bug[s] # None
      /\ outer' = [outer EXCEPT ![c] = [pvt |-> pvt[c], ap |-> ap[c], final |-> final[c]]]
      /\ EnterCleanup(c, bug[s], FALSE)

LEMMA RemoveBugKeeps ==
  ASSUME ForkInv, TypeOK', NEW a \in Actors, RemoveBug(a)
  PROVE  ForkInv'
<1>0. /\ ForkTypeOK /\ TypeOK /\ MutexExcludes /\ LiveBugIsAttached
      /\ \A q \in Pipes : PipeOwned(q)
      /\ \A r \in Sessions : BugOwned(r)
      /\ \A b \in Actors : ActorKnows(b) /\ RemovalKnows(b)
      /\ None \notin Pipes
  BY ConstantsAssumption DEF ForkInv, ForkTypeOK
<1> DEFINE s == owner[pvt[a]]
<1>1. /\ at[a] = "removing" /\ a \in Callers /\ outer[a] = NoCleanup
      /\ pvt[a] \in Pipes /\ state[pvt[a]] # "none" /\ s \in Sessions
      /\ taken[a] \in Pipes /\ owner[taken[a]] = s /\ bug[s] # taken[a]
      /\ attached' = attached \ {taken[a]}
      /\ UNCHANGED <<state, up, bug, owner, mutex, ref, muted>>
  BY <1>0 DEF RemoveBug, ActorKnows, RemovalKnows, PipeOwned, vars, fork
<1>2. /\ \A b \in Actors \ {a} : /\ at'[b] = at[b] /\ taken'[b] = taken[b]
                                /\ pvt'[b] = pvt[b] /\ ap'[b] = ap[b]
                                /\ final'[b] = final[b] /\ outer'[b] = outer[b]
      /\ \/ /\ at'[a] = "lock" /\ bug[s] # None /\ pvt'[a] = bug[s] /\ ~final'[a]
            /\ outer'[a].pvt = pvt[a]
         \/ /\ UNCHANGED <<pvt, ap, final, outer>>
            /\ at'[a] \in {"final", "close"}
            /\ at'[a] = "final" => ap[a] # None
      /\ ForkTypeOK'
  <2>1. taken' = [taken EXCEPT ![a] = None]
    BY DEF RemoveBug
  <2>2. CASE Nested(a)
    <3>1. bug[s] \in Pipes
      BY <1>0, <1>1, <2>2 DEF Nested, ForkTypeOK
    <3>2. /\ outer' = [outer EXCEPT ![a] = [pvt |-> pvt[a], ap |-> ap[a], final |-> final[a]]]
          /\ at' = [at EXCEPT ![a] = "lock"]
          /\ pvt' = [pvt EXCEPT ![a] = bug[s]]
          /\ ap' = [ap EXCEPT ![a] = IF ref[bug[s]] THEN bug[s] ELSE None]
          /\ final' = [final EXCEPT ![a] = FALSE]
      BY <2>2 DEF Nested, EnterCleanup, WorksOn, Goto
    <3>3. "lock" \in Steps
      BY DEF Steps
    <3>4. [pvt |-> pvt[a], ap |-> ap[a], final |-> final[a]] \in
            [pvt : Pipes \union {None}, ap : Pipes \union {None}, final : BOOLEAN]
      BY <1>0 DEF ForkTypeOK
    <3>5. /\ outer' \in [Actors -> [pvt : Pipes \union {None}, ap : Pipes \union {None},
                                     final : BOOLEAN]]
          /\ outer'[a] = [pvt |-> pvt[a], ap |-> ap[a], final |-> final[a]]
          /\ \A b \in Actors \ {a} : outer'[b] = outer[b]
      BY <1>0, <3>2, <3>4 DEF ForkTypeOK
    <3>6. /\ at' \in [Actors -> Steps] /\ pvt' \in [Actors -> Pipes \union {None}]
          /\ ap' \in [Actors -> Pipes \union {None}] /\ final' \in [Actors -> BOOLEAN]
          /\ taken' \in [Actors -> Pipes \union {None}]
      BY <1>0, <2>1, <3>1, <3>2, <3>3 DEF ForkTypeOK
    <3>7. ForkTypeOK'
      BY <1>0, <1>1, <3>5, <3>6 DEF RemoveBug, ForkTypeOK, starts, history, fork, vars
    <3>8. \A b \in Actors \ {a} : /\ at'[b] = at[b] /\ taken'[b] = taken[b]
                                /\ pvt'[b] = pvt[b] /\ ap'[b] = ap[b]
                                /\ final'[b] = final[b]
      BY <1>0, <2>1, <3>2 DEF ForkTypeOK
    <3>9. at'[a] = "lock" /\ pvt'[a] = bug[s] /\ ~final'[a] /\ outer'[a].pvt = pvt[a]
      BY <1>0, <3>2, <3>5 DEF ForkTypeOK
    <3> QED BY <2>2, <3>5, <3>7, <3>8, <3>9 DEF Nested
  <2>3. CASE Goto(a, TellAndClose(ap[a], final[a])) /\ UNCHANGED <<pvt, ap, final, outer>>
    BY <1>0, <1>1, <2>1, <2>3
       DEF RemoveBug, Goto, TellAndClose, Steps, ForkTypeOK, starts, history, fork, vars
  <2> QED BY <2>2, <2>3 DEF RemoveBug, Nested
<1>3. ASSUME NEW q \in Pipes PROVE PipeOwned(q)'
  BY <1>0, <1>1 DEF PipeOwned
<1>4. \A b \in Actors : Starting(b)' => b # a /\ Starting(b)
  BY <1>2 DEF Starting
<1>5. bug[s] # None => bug[s] \in Pipes /\ state[bug[s]] # "none" /\ owner[bug[s]] = s
  BY <1>0, <1>1 DEF BugOwned, ForkTypeOK
<1>6. ASSUME NEW r \in Sessions PROVE BugOwned(r)'
  BY <1>0, <1>1, <1>2, <1>4 DEF BugOwned
<1>7. ASSUME NEW b \in Actors PROVE ActorKnows(b)'
  <2>1. CASE b = a
    <3>1. ap[a] \in Pipes \union {None} /\ ~Starting(a)'
      BY <1>0, <1>4 DEF ForkTypeOK
    <3> QED BY <1>1, <1>2, <1>5, <2>1, <3>1 DEF ActorKnows
  <2>2. CASE b # a
    <3>1. at[b] = "publish" => pvt[b] # taken[a]
      BY <1>0, <1>1 DEF RemovalKnows, Starting
    <3> QED BY <1>0, <1>1, <1>2, <1>4, <2>2, <3>1 DEF ActorKnows
  <2> QED BY <2>1, <2>2
<1>8. ASSUME NEW b \in Actors PROVE RemovalKnows(b)'
  <2>1. CASE b = a
    <3>1. at'[a] \notin {"clearing", "removing"}
      BY <1>2
    <3>2. outer'[a] # NoCleanup =>
            /\ at'[a] = "lock" /\ ~final'[a] /\ outer'[a].pvt = pvt[a] /\ pvt'[a] = bug[s]
            /\ bug[s] # None
      BY <1>1, <1>2
    <3> QED BY <1>1, <1>5, <2>1, <3>1, <3>2 DEF RemovalKnows
  <2>2. CASE b # a
    BY <1>0, <1>1, <1>2, <1>4, <2>2 DEF RemovalKnows
  <2> QED BY <2>1, <2>2
<1>9. MutexExcludes'
  <2>1. Holds(a, pvt[a]) /\ Inside(a)
    BY <1>1 DEF Holds, Inside
  <2>2. \A b \in Actors, q \in Pipes : Holds(b, q)' => Holds(b, q)
    BY <1>1, <1>2, <2>1 DEF Holds, Inside, NoCleanup
  <2>3. ASSUME NEW b \in Actors, Inside(b)' PROVE pvt'[b] # outer'[b].pvt
    <3>1. CASE b = a
      BY <1>0, <1>1, <1>2, <2>1, <2>3, <3>1 DEF MutexExcludes, Inside
    <3>2. CASE b # a
      BY <1>0, <1>2, <2>3, <3>2 DEF MutexExcludes, Inside
    <3> QED BY <3>1, <3>2
  <2>4. \A b, d \in Actors, q \in Pipes : Holds(b, q)' /\ Holds(d, q)' => b = d
    BY <1>0, <2>2 DEF MutexExcludes
  <2>5. \A b \in Actors, q \in Pipes : Holds(b, q)' => mutex'[q] = "held"
    BY <1>0, <1>1, <2>2 DEF MutexExcludes
  <2> QED BY <2>3, <2>4, <2>5 DEF MutexExcludes
<1>10. LiveBugIsAttached'
  BY <1>0, <1>1 DEF LiveBugIsAttached, BugOwned
<1> QED BY <1>2, <1>3, <1>6, <1>7, <1>8, <1>9, <1>10 DEF ForkInv

(***************************************************************************)
(* The mutex is got for a frame, given back, or destroyed by a cleanup;    *)
(* one that waited for a CLOSE callback then goes on.                      *)
(***************************************************************************)
LEMMA MutexStepKeeps ==
  ASSUME ForkInv, TypeOK', NEW a \in Actors, NEW p \in Pipes, NEW m \in {"free", "held", "gone"},
         \/ /\ at[a] = "idle" /\ at'[a] = "frame" /\ UNCHANGED outer
            /\ mutex[p] = "free" /\ m = "held" /\ pvt'[a] = p
         \/ /\ Inside(a) /\ pvt[a] = p /\ at'[a] = "idle" /\ m # "held"
            /\ outer[a] = NoCleanup /\ UNCHANGED outer
         \/ /\ Inside(a) /\ pvt[a] = p /\ m # "held"
            /\ outer[a] # NoCleanup /\ outer' = [outer EXCEPT ![a] = NoCleanup]
            /\ pvt'[a] = outer[a].pvt
            /\ at'[a] = "close" \/ (at'[a] = "final" /\ ap'[a] # None),
         mutex' = [mutex EXCEPT ![p] = m], state[p] # "none",
         UNCHANGED <<channel, state, ref, muted, taken, history>>,
         at' \in [Actors -> Steps], pvt' \in [Actors -> Pipes \union {None}],
         ap' \in [Actors -> Pipes \union {None}], final' \in [Actors -> BOOLEAN],
         \A b \in Actors \ {a} : /\ at'[b] = at[b] /\ pvt'[b] = pvt[b]
                              /\ ap'[b] = ap[b] /\ final'[b] = final[b]
  PROVE  ForkInv'
<1>0. /\ ForkTypeOK /\ TypeOK /\ MutexExcludes /\ LiveBugIsAttached
      /\ \A q \in Pipes : PipeOwned(q)
      /\ \A r \in Sessions : BugOwned(r)
      /\ \A b \in Actors : ActorKnows(b) /\ RemovalKnows(b)
      /\ None \notin Pipes
  BY ConstantsAssumption DEF ForkInv, ForkTypeOK
<1>1. /\ mutex' \in [Pipes -> {"none", "free", "held", "gone"}]
      /\ mutex'[p] = m /\ \A q \in Pipes \ {p} : mutex'[q] = mutex[q]
      /\ UNCHANGED <<up, bug, attached, owner, raced, overlapped, greeted, sent>>
  BY <1>0 DEF ForkTypeOK, channel, starts, history
<1>2. /\ \A b \in Actors \ {a} : outer'[b] = outer[b]
      /\ outer'[a] = NoCleanup
      /\ outer' \in [Actors -> [pvt : Pipes \union {None}, ap : Pipes \union {None},
                                final : BOOLEAN]]
  <2>1. at[a] = "idle" => outer[a] = NoCleanup
    BY <1>0 DEF RemovalKnows
  <2>2. NoCleanup \in [pvt : Pipes \union {None}, ap : Pipes \union {None}, final : BOOLEAN]
    BY DEF NoCleanup
  <2>3. (outer' = outer /\ outer[a] = NoCleanup) \/ outer' = [outer EXCEPT ![a] = NoCleanup]
    BY <2>1
  <2>4. outer \in [Actors -> [pvt : Pipes \union {None}, ap : Pipes \union {None},
                             final : BOOLEAN]]
    BY <1>0 DEF ForkTypeOK
  <2> QED BY <2>2, <2>3, <2>4
<1>3. ForkTypeOK'
  BY <1>0, <1>1, <1>2 DEF ForkTypeOK
<1>4. ASSUME NEW q \in Pipes PROVE PipeOwned(q)'
  BY <1>0, <1>1 DEF PipeOwned
<1>5. \A b \in Actors : Starting(b)' => b # a /\ Starting(b)
  BY DEF Starting
<1>6. ASSUME NEW r \in Sessions PROVE BugOwned(r)'
  BY <1>0, <1>1, <1>5 DEF BugOwned
<1>7. ASSUME NEW b \in Actors PROVE ActorKnows(b)'
  <2>1. CASE b = a
    <3>1. outer[a] # NoCleanup => outer[a].pvt \in Pipes /\ state[outer[a].pvt] # "none"
      BY <1>0 DEF RemovalKnows
    <3>2. ap'[a] \in Pipes \union {None}
      OBVIOUS
    <3>3. ~Starting(a)' /\ at'[a] \in {"idle", "frame", "close", "final"}
      BY DEF Starting
    <3> QED BY <1>0, <2>1, <3>1, <3>2, <3>3 DEF ActorKnows
  <2>2. CASE b # a
    BY <1>0, <1>1, <1>5, <2>2 DEF ActorKnows
  <2> QED BY <2>1, <2>2
<1>8. ASSUME NEW b \in Actors PROVE RemovalKnows(b)'
  <2>1. CASE b = a
    BY <1>2, <2>1 DEF RemovalKnows
  <2>2. CASE b # a
    BY <1>0, <1>1, <1>2, <1>5, <2>2 DEF RemovalKnows
  <2> QED BY <2>1, <2>2
<1>9. MutexExcludes'
  <2>1. CASE at[a] = "idle" /\ at'[a] = "frame"
    <3>1. /\ mutex[p] = "free" /\ m = "held" /\ pvt'[a] = p
          /\ \A b \in Actors : ~Holds(b, p)
      BY <1>0, <2>1 DEF MutexExcludes, Inside
    <3>2. \A b \in Actors, q \in Pipes : Holds(b, q)' => Holds(b, q) \/ (b = a /\ q = p)
      BY <1>2, <3>1 DEF Holds, Inside, NoCleanup
    <3>3. ASSUME NEW b \in Actors, Inside(b)' PROVE pvt'[b] # outer'[b].pvt
      BY <1>0, <1>2, <3>1, <3>3 DEF MutexExcludes, Inside, NoCleanup
    <3>4. ASSUME NEW b \in Actors, NEW q \in Pipes, Holds(b, q)'
          PROVE  /\ mutex'[q] = "held"
                 /\ \A d \in Actors : Holds(d, q)' => b = d
      BY <1>0, <1>1, <3>1, <3>2, <3>4 DEF MutexExcludes
    <3> QED BY <3>3, <3>4 DEF MutexExcludes
  <2>2. CASE Inside(a)
    <3>1. /\ pvt[a] = p /\ Holds(a, p) /\ outer[a].pvt # p
      BY <1>0, <2>2 DEF Holds, MutexExcludes, Inside
    <3>2. \A b \in Actors, q \in Pipes : Holds(b, q)' => Holds(b, q) /\ q # p
      <4>1. ASSUME NEW q \in Pipes, Holds(a, q)' PROVE Holds(a, q) /\ q # p
        BY <1>0, <1>2, <2>2, <3>1, <4>1 DEF Holds, Inside, NoCleanup
      <4>2. ASSUME NEW b \in Actors \ {a}, NEW q \in Pipes, Holds(b, q)'
            PROVE  Holds(b, q) /\ q # p
        <5>1. Holds(b, q)
          BY <1>2, <4>2 DEF Holds, Inside
        <5> QED BY <1>0, <3>1, <4>2, <5>1 DEF MutexExcludes
      <4> QED BY <4>1, <4>2
    <3>3. ASSUME NEW b \in Actors, Inside(b)' PROVE pvt'[b] # outer'[b].pvt
      <4>1. CASE b = a
        <5>1. outer[a] # NoCleanup /\ pvt'[a] = outer[a].pvt
          BY <2>2, <3>3, <4>1 DEF Inside
        <5>2. outer[a].pvt \in Pipes
          BY <1>0, <5>1 DEF RemovalKnows
        <5>3. outer'[a].pvt = None
          BY <1>2 DEF NoCleanup
        <5> QED BY <1>0, <4>1, <5>1, <5>2, <5>3
      <4>2. CASE b # a
        BY <1>0, <1>2, <3>3, <4>2 DEF MutexExcludes, Inside
      <4> QED BY <4>1, <4>2
    <3>4. ASSUME NEW b \in Actors, NEW q \in Pipes, Holds(b, q)'
          PROVE  /\ mutex'[q] = "held"
                 /\ \A d \in Actors : Holds(d, q)' => b = d
      BY <1>0, <1>1, <3>2, <3>4 DEF MutexExcludes
    <3> QED BY <3>3, <3>4 DEF MutexExcludes
  <2> QED BY <2>1, <2>2
<1>10. LiveBugIsAttached'
  BY <1>0, <1>1 DEF LiveBugIsAttached
<1> QED BY <1>3, <1>4, <1>6, <1>7, <1>8, <1>9, <1>10 DEF ForkInv

LEMMA FrameKeeps ==
  ASSUME ForkInv, TypeOK', NEW s \in Sessions,
         FrameEnds(s) \/ \E p \in Pipes : Frame(s, p)
  PROVE  ForkInv'
<1>0. s \in Actors /\ ForkTypeOK /\ ActorKnows(s) /\ RemovalKnows(s)
  BY ActorsAssumption DEF ForkInv
<1>1. ASSUME NEW p \in Pipes, Frame(s, p) PROVE ForkInv'
  <2>1. /\ at[s] = "idle" /\ at'[s] = "frame" /\ pvt'[s] = p
        /\ mutex[p] = "free" /\ mutex' = [mutex EXCEPT ![p] = "held"]
        /\ state[p] # "none"
        /\ UNCHANGED <<channel, state, ref, muted, taken, outer, history>>
    BY <1>0, <1>1
       DEF Frame, FrameGoesOn, Locks, SendAccepted, Goto, ForkTypeOK
  <2>2. /\ at' \in [Actors -> Steps] /\ pvt' \in [Actors -> Pipes \union {None}]
        /\ ap' \in [Actors -> Pipes \union {None}] /\ final' \in [Actors -> BOOLEAN]
        /\ \A b \in Actors \ {s} : /\ at'[b] = at[b] /\ pvt'[b] = pvt[b]
                                 /\ ap'[b] = ap[b] /\ final'[b] = final[b]
    BY <1>0, <1>1 DEF Frame, Goto, Steps, ForkTypeOK
  <2> QED BY <1>0, <2>1, <2>2, MutexStepKeeps
<1>2. CASE FrameEnds(s)
  <2>1. /\ Inside(s) /\ pvt[s] \in Pipes /\ state[pvt[s]] # "none" /\ at'[s] = "idle"
        /\ mutex' = [mutex EXCEPT ![pvt[s]] = "free"] /\ outer[s] = NoCleanup
        /\ UNCHANGED <<channel, state, ref, muted, taken, outer, history>>
    BY <1>0, <1>2
       DEF FrameEnds, WakeUp, Inside, Done, Goto, ForkTypeOK, ActorKnows, RemovalKnows
  <2>2. /\ at' \in [Actors -> Steps] /\ pvt' \in [Actors -> Pipes \union {None}]
        /\ ap' \in [Actors -> Pipes \union {None}] /\ final' \in [Actors -> BOOLEAN]
        /\ \A b \in Actors \ {s} : /\ at'[b] = at[b] /\ pvt'[b] = pvt[b]
                                 /\ ap'[b] = ap[b] /\ final'[b] = final[b]
    BY <1>0, <1>2 DEF FrameEnds, Done, WorksOn, Goto, Steps, ForkTypeOK
  <2> QED BY <1>0, <2>1, <2>2, MutexStepKeeps
<1> QED BY <1>1, <1>2

LEMMA CleanupEndsKeeps ==
  ASSUME ForkInv, TypeOK', NEW a \in Actors, CleanupEnds(a)
  PROVE  ForkInv'
<1>0. ForkTypeOK /\ ActorKnows(a) /\ RemovalKnows(a)
  BY DEF ForkInv
<1>1. /\ Inside(a) /\ pvt[a] \in Pipes /\ state[pvt[a]] # "none"
      /\ mutex' = [mutex EXCEPT ![pvt[a]] = "gone"]
      /\ UNCHANGED <<channel, state, ref, muted, taken, history>>
  <2>1. at[a] \in {"close", "closing"}
    BY DEF CleanupEnds
  <2>2. UNCHANGED state
    BY DEF CleanupEnds, WakeUp, NotConnected, Refuses, StaleReturn, vars
  <2> QED BY <1>0, <2>1, <2>2 DEF CleanupEnds, Resumes, Done, Inside, ActorKnows
<1>2. CASE outer[a] = NoCleanup
  <2>1. at'[a] = "idle" /\ UNCHANGED outer
    BY <1>0, <1>2 DEF CleanupEnds, Done, Goto, ForkTypeOK
  <2>2. /\ at' \in [Actors -> Steps] /\ pvt' \in [Actors -> Pipes \union {None}]
        /\ ap' \in [Actors -> Pipes \union {None}] /\ final' \in [Actors -> BOOLEAN]
        /\ \A b \in Actors \ {a} : /\ at'[b] = at[b] /\ pvt'[b] = pvt[b]
                                 /\ ap'[b] = ap[b] /\ final'[b] = final[b]
    <3>1. Done(a)
      BY <1>2 DEF CleanupEnds
    <3> QED BY <1>0, <3>1 DEF Done, WorksOn, Goto, Steps, ForkTypeOK
  <2> QED BY <1>0, <1>1, <1>2, <2>1, <2>2, MutexStepKeeps
<1>3. CASE outer[a] # NoCleanup
  <2>1. Resumes(a)
    BY <1>3 DEF CleanupEnds
  <2>2. outer[a] \in [pvt : Pipes \union {None}, ap : Pipes \union {None}, final : BOOLEAN]
    BY <1>0 DEF ForkTypeOK
  <2>3. /\ outer' = [outer EXCEPT ![a] = NoCleanup] /\ pvt'[a] = outer[a].pvt
        /\ at'[a] = "close" \/ (at'[a] = "final" /\ ap'[a] # None)
    BY <1>0, <2>1 DEF Resumes, TellAndClose, WorksOn, Goto, ForkTypeOK
  <2>4. /\ at' \in [Actors -> Steps] /\ pvt' \in [Actors -> Pipes \union {None}]
        /\ ap' \in [Actors -> Pipes \union {None}] /\ final' \in [Actors -> BOOLEAN]
        /\ \A b \in Actors \ {a} : /\ at'[b] = at[b] /\ pvt'[b] = pvt[b]
                                 /\ ap'[b] = ap[b] /\ final'[b] = final[b]
    BY <1>0, <2>1, <2>2 DEF Resumes, TellAndClose, WorksOn, Goto, Steps, ForkTypeOK
  <2> QED BY <1>0, <1>1, <1>3, <2>3, <2>4, MutexStepKeeps
<1> QED BY <1>2, <1>3

-----------------------------------------------------------------------------
(* The theorems.                                                           *)

LEMMA ForkNextKeeps ==
  ASSUME IInv, ForkInv, [ForkNext]_allVars
  PROVE  IInv' /\ ForkInv'
<1>1. CASE UNCHANGED allVars
  <2>1. UNCHANGED vars /\ UNCHANGED forkVars
    BY <1>1 DEF allVars
  <2>2. IInv' /\ TypeOK'
    <3>1. IInv'
      BY <2>1, NextKeeps
    <3> QED BY <3>1 DEF IInv, Agreement
  <2>3. /\ UNCHANGED <<state, up, bug, attached, owner, ref, mutex, muted>>
        /\ UNCHANGED <<at, pvt, ap, final, taken, outer, raced, overlapped, greeted, sent>>
    BY <2>1 DEF vars, forkVars, channel, starts, fork, local, history
  <2>4. ForkTypeOK'
    BY <2>2, <2>3 DEF ForkInv, ForkTypeOK
  <2>5. ForkInv'
    BY <2>3, <2>4 DEF ForkInv, PipeOwned, BugOwned, ActorKnows, RemovalKnows,
       Starting, MutexExcludes, Holds, Inside, LiveBugIsAttached
  <2> QED BY <2>2, <2>5
<1>2. CASE ForkNext
  <2>1. IInv' /\ TypeOK'
    <3>1. IInv'
      BY <1>2, ForkNextIsNext, NextKeeps
    <3> QED BY <3>1 DEF IInv, Agreement
  <2>2. ASSUME NEW c \in Callers, Command(c) \/ CommandGoesOn(c) PROVE ForkInv'
    BY <2>1, <2>2, StartCaptureKeeps, CommandBeginsMoves, CommandMoves, BugAddedKeeps
       DEF Command, CommandGoesOn
  <2>3. ASSUME NEW a \in Actors, Cleanup(a) PROVE ForkInv'
    BY <2>1, <2>3, CleanupMoves, CleanupLockedKeeps, ClearBugKeeps, RemoveBugKeeps,
       CleanupEndsKeeps DEF Cleanup
  <2>4. ASSUME NEW s \in Sessions, Session(s) PROVE ForkInv'
    BY <2>1, <2>4, HangupKeeps, CloseCallbackKeeps, FrameKeeps, SessionMoves DEF Session
  <2>5. ASSUME NEW t \in Threads, Callback(t) PROVE ForkInv'
    BY <2>1, <2>5, CallbackMoves
  <2>6. CASE PipeStep \/ \E a \in Actors : Stored(a)
    BY <2>1, <2>6, PipeStepMoves
  <2> QED BY <1>2, <2>1, <2>2, <2>3, <2>4, <2>5, <2>6, ActorsAssumption DEF ForkNext
<1> QED BY <1>1, <1>2

LEMMA ForkInitHolds ==
  ASSUME ForkInit PROVE IInv /\ ForkInv
<1>1. IInv
  BY InitHolds DEF ForkInit
<1>2. ForkTypeOK
  BY <1>1 DEF IInv, Agreement, ForkInit, ForkTypeOK, Steps, NoCleanup
<1> QED BY <1>1, <1>2, ConstantsAssumption
        DEF ForkInit, Init, ForkInv, PipeOwned, BugOwned, ActorKnows, RemovalKnows,
            Starting, MutexExcludes, Holds, NoCleanup, Inside, LiveBugIsAttached

\* Both invariants hold of every behaviour of the module.
THEOREM ForkInvHolds == ForkSpec => [](IInv /\ ForkInv)
<1>1. ForkInit => IInv /\ ForkInv
  BY ForkInitHolds
<1>2. IInv /\ ForkInv /\ [ForkNext]_allVars => (IInv /\ ForkInv)'
  BY ForkNextKeeps
<1> QED BY <1>1, <1>2, PTL DEF ForkSpec

\* The module uses the websocket layer as AudioPipe lets any client use it.
LEMMA ForkSpecIsSpec == ForkSpec => Spec
<1>1. ForkInit => Init
  BY DEF ForkInit
<1>2. IInv /\ ForkInv /\ [ForkNext]_allVars => [Next]_vars
  <2>1. ASSUME UNCHANGED allVars PROVE UNCHANGED vars
    BY <2>1 DEF allVars
  <2> QED BY <2>1, ForkNextIsNext
<1> QED BY <1>1, <1>2, ForkInvHolds, PTL DEF ForkSpec, Spec

\* Cleanups and frames exclude each other on a fork's mutex, which nobody holds
\* once it is destroyed (fork_session_cleanup, fork_frame).
THEOREM MutexExcludesHolds == ForkSpec => []MutexExcludes
<1>1. IInv /\ ForkInv => MutexExcludes
  BY DEF ForkInv
<1> QED BY <1>1, ForkInvHolds, PTL

\* A command never finds on a live channel a bug that was removed, however many
\* callers start and stop forks on it.
THEOREM LiveBugIsAttachedHolds == ForkSpec => []LiveBugIsAttached
<1>1. IInv /\ ForkInv => LiveBugIsAttached
  BY DEF ForkInv
<1> QED BY <1>1, ForkInvHolds, PTL

\* With one service thread a connection that is being made stays in
\* pendingConnects, whatever the sessions do (lws_callback, ESTABLISHED).
THEOREM ForkOpeningIsPending ==
  ASSUME OneServiceThread
  PROVE  ForkSpec => []OpeningIsPending
BY ForkSpecIsSpec, OpeningIsPendingHolds, PTL

\* What the proofs below need of the two invariants they stand on.
LEMMA ForkParts ==
  ASSUME IInv, ForkInv
  PROVE  /\ ForkTypeOK /\ TypeOK /\ MutexExcludes /\ LiveBugIsAttached
         /\ \A p \in Pipes : PipeAgrees(p) /\ PipeOwned(p)
         /\ \A s \in Sessions : BugOwned(s)
         /\ \A a \in Actors : ActorKnows(a) /\ RemovalKnows(a) /\ DoingAgrees(a)
         /\ \A t \in Threads : /\ CallAgrees(t) /\ WritingAgrees(t)
                              /\ ConnectsAgree(t) /\ ClosedAgrees(t)
         /\ Callers \subseteq Actors /\ Sessions \subseteq Actors /\ Threads \subseteq Actors
         /\ None \notin Pipes
  BY ConstantsAssumption, ActorsAssumption DEF IInv, Agreement, ForkInv, ForkTypeOK

-----------------------------------------------------------------------------
(* Which bugs meet on a session.                                           *)

(***************************************************************************)
(* A start that raced with none finds no bug on the channel, no other      *)
(* start, no removal, and, until the hangup, no bug on the session that    *)
(* raced with none but its own.                                            *)
(***************************************************************************)
StartAlone(a) ==
  LET s == owner[pvt[a]]
  IN  Starting(a) /\ pvt[a] \notin raced =>
        /\ bug[s] = None
        /\ \A b \in Actors \ {a} : Starting(b) => owner[pvt[b]] # s
        /\ \A b \in Actors : Removing(b) => owner[pvt[b]] # s
        /\ up[s] => \A q \in attached \ raced : owner[q] = s => q = pvt[a]

\* A bug that raced with none is named while no start runs, nor another's removal.
BugAlone(s) ==
  bug[s] # None /\ bug[s] \notin raced =>
    \A a \in Actors :
      /\ Starting(a) => owner[pvt[a]] # s
      /\ Removing(a) /\ owner[pvt[a]] = s =>
           at[a] = "clearing" /\ outer[a] = NoCleanup /\ taken[a] = bug[s]

\* Until the hangup its channel names it, or a start is about to, or it is removed.
AttachedKnown(q) ==
  /\ state[q] # "none"
  /\ up[owner[q]] /\ q \notin raced =>
       \/ bug[owner[q]] = q
       \/ \E a \in Actors : at[a] = "publish" /\ pvt[a] = q
       \/ \E a \in Actors : at[a] = "removing" /\ taken[a] = q

\* A session's own thread cleans up when it is hung up.
ClosesAfterHangup(s) ==
  at[s] \in {"lock", "waiting", "clearing"} => ~up[owner[pvt[s]]]

\* The inductive invariant of the bugs on a session.
OneForkInv ==
  /\ OneBugPerChannel
  /\ \A a \in Actors : StartAlone(a)
  /\ \A s \in Sessions : BugAlone(s) /\ ClosesAfterHangup(s)
  /\ \A q \in attached : AttachedKnown(q)

\* The session of a fork that is being started or cleaned up, or has a bug.
LEMMA OwnersAreSessions ==
  ASSUME IInv, ForkInv, OneForkInv
  PROVE  /\ \A a \in Actors :
              Starting(a) \/ Removing(a) \/ at[a] \in {"lock", "waiting"} =>
                pvt[a] \in Pipes /\ state[pvt[a]] # "none" /\ owner[pvt[a]] \in Sessions
         /\ \A q \in attached :
              q \in Pipes /\ state[q] # "none" /\ owner[q] \in Sessions
         /\ \A s \in Sessions :
              bug[s] # None => bug[s] \in Pipes /\ state[bug[s]] # "none" /\ owner[bug[s]] = s
<1>0. /\ ForkTypeOK /\ \A p \in Pipes : PipeOwned(p)
      /\ \A s \in Sessions : BugOwned(s)
      /\ \A a \in Actors : ActorKnows(a) /\ RemovalKnows(a)
  BY ForkParts
<1>1. ASSUME NEW a \in Actors,
             Starting(a) \/ Removing(a) \/ at[a] \in {"lock", "waiting"}
      PROVE  pvt[a] \in Pipes /\ state[pvt[a]] # "none" /\ owner[pvt[a]] \in Sessions
  <2>1. at[a] \notin {"idle", "graceful", "gracing", "return"}
    BY <1>0, <1>1 DEF Starting, Removing, RemovalKnows
  <2> QED BY <1>0, <2>1 DEF ActorKnows, PipeOwned
<1>2. ASSUME NEW q \in attached
      PROVE  q \in Pipes /\ state[q] # "none" /\ owner[q] \in Sessions
  BY <1>0 DEF ForkTypeOK, OneForkInv, AttachedKnown, PipeOwned
<1>3. ASSUME NEW s \in Sessions, bug[s] # None
      PROVE  bug[s] \in Pipes /\ state[bug[s]] # "none" /\ owner[bug[s]] = s
  BY <1>0, <1>3 DEF ForkTypeOK, BugOwned
<1> QED BY <1>1, <1>2, <1>3

(***************************************************************************)
(* A step of one actor that names no bug and puts none on a session, and   *)
(* after which the actor starts and removes at most what it did before.    *)
(***************************************************************************)
Aside(a) ==
  /\ UNCHANGED <<bug, owner, raced>>
  /\ attached' \subseteq attached
  /\ \A s \in Sessions : up'[s] => up[s]
  /\ \A b \in Actors \ {a} : /\ at'[b] = at[b] /\ pvt'[b] = pvt[b]
                              /\ taken'[b] = taken[b] /\ outer'[b] = outer[b]
  /\ Starting(a)' => Starting(a) /\ pvt'[a] = pvt[a]
  /\ Removing(a)' => Removing(a) /\ owner[pvt'[a]] = owner[pvt[a]]
  /\ Removing(a)' /\ at[a] = "clearing" /\ outer[a] = NoCleanup =>
       at'[a] = "clearing" /\ outer'[a] = NoCleanup /\ taken'[a] = taken[a]
  /\ at[a] = "publish" => at'[a] = "publish" /\ pvt'[a] = pvt[a]
  /\ at[a] = "removing" => \/ at'[a] = "removing" /\ taken'[a] = taken[a]
                           \/ taken[a] \notin attached'
  /\ at'[a] \in {"lock", "waiting", "clearing"} /\ a \in Sessions => ~up'[owner[pvt'[a]]]

LEMMA AsideKeepsOneFork ==
  ASSUME IInv, ForkInv, OneForkInv, NEW a \in Actors, Aside(a),
         \A p \in Pipes : state'[p] = "none" <=> state[p] = "none"
  PROVE  OneForkInv'
<1>0. /\ UNCHANGED <<bug, owner, raced>> /\ attached' \subseteq attached
      /\ \A b \in Actors : Starting(b)' => Starting(b) /\ pvt'[b] = pvt[b]
      /\ \A b \in Actors : Removing(b)' => Removing(b) /\ owner[pvt'[b]] = owner[pvt[b]]
  BY DEF Aside, Starting, Removing
<1>1. OneBugPerChannel'
  BY <1>0 DEF OneForkInv, OneBugPerChannel
<1>2. ASSUME NEW b \in Actors PROVE StartAlone(b)'
  <2>1. SUFFICES ASSUME Starting(b)', pvt'[b] \notin raced'
                 PROVE  StartAlone(b)'
    BY DEF StartAlone
  <2>2. /\ Starting(b) /\ pvt'[b] = pvt[b] /\ pvt[b] \notin raced
        /\ owner[pvt[b]] \in Sessions
    BY <1>0, <2>1, OwnersAreSessions
  <2>3. StartAlone(b)
    BY DEF OneForkInv
  <2> QED BY <1>0, <2>2, <2>3 DEF StartAlone, Aside
<1>3. ASSUME NEW s \in Sessions PROVE BugAlone(s)'
  <2>1. SUFFICES ASSUME bug[s] # None, bug[s] \notin raced, NEW b \in Actors
                 PROVE  /\ Starting(b)' => owner[pvt'[b]] # s
                        /\ Removing(b)' /\ owner[pvt'[b]] = s =>
                             at'[b] = "clearing" /\ outer'[b] = NoCleanup /\ taken'[b] = bug[s]
    BY <1>0 DEF BugAlone
  <2>2. /\ Starting(b) => owner[pvt[b]] # s
        /\ Removing(b) /\ owner[pvt[b]] = s =>
             at[b] = "clearing" /\ outer[b] = NoCleanup /\ taken[b] = bug[s]
    BY <2>1 DEF OneForkInv, BugAlone
  <2> QED BY <1>0, <2>2 DEF Aside
<1>4. ASSUME NEW s \in Sessions PROVE ClosesAfterHangup(s)'
  <2>1. s \in Actors /\ (at[s] \in {"lock", "waiting", "clearing"} => owner[pvt[s]] \in Sessions)
    BY ForkParts, OwnersAreSessions DEF Removing
  <2>2. CASE s = a
    BY <1>0, <2>2 DEF Aside, ClosesAfterHangup
  <2>3. CASE s # a
    BY <1>0, <2>1, <2>3 DEF Aside, ClosesAfterHangup, OneForkInv
  <2> QED BY <2>2, <2>3
<1>5. ASSUME NEW q \in attached' PROVE AttachedKnown(q)'
  <2>1. q \in attached /\ AttachedKnown(q) /\ q \in Pipes /\ owner[q] \in Sessions
    BY <1>0, OwnersAreSessions DEF OneForkInv
  <2>2. ASSUME NEW b \in Actors, at[b] = "publish", pvt[b] = q
        PROVE  at'[b] = "publish" /\ pvt'[b] = q
    BY <2>2 DEF Aside
  <2>3. ASSUME NEW b \in Actors, at[b] = "removing", taken[b] = q
        PROVE  at'[b] = "removing" /\ taken'[b] = q
    BY <2>3 DEF Aside
  <2>4. up'[owner[q]] => up[owner[q]]
    BY <2>1 DEF Aside
  <2> QED BY <1>0, <2>1, <2>2, <2>3, <2>4 DEF AttachedKnown
<1> QED BY <1>1, <1>2, <1>3, <1>4, <1>5 DEF OneForkInv

\* What a caller does besides starting.
LEMMA CommandKeepsOneFork ==
  ASSUME IInv, ForkInv, OneForkInv, NEW c \in Callers,
         \/ StartConnects(c) \/ AddBugFails(c)
         \/ SendTextAccepted(c) \/ SendTextReturns(c) \/ SendTextEnds(c)
         \/ GracefulGoesOn(c) \/ GracefulEnds(c)
         \/ \E s \in Sessions :
              SendText(c, s) \/ PauseResume(c, s) \/ Graceful(c, s) \/ Stop(c, s)
  PROVE  OneForkInv'
<1>0. /\ c \in Actors /\ ForkTypeOK /\ RemovalKnows(c) /\ c \notin Sessions
  BY ForkParts, ActorsAssumption
<1>1. UNCHANGED <<channel, taken, outer, state>>
  BY DEF StartConnects, AddBugFails, SendTextAccepted, SendTextReturns, SendTextEnds,
     GracefulGoesOn, GracefulEnds, GracefulShutdown, WakeUp, SendAccepted, NotConnected,
     Refuses, StaleReturn, vars, Done, SendText, PauseResume, Graceful, Stop, local
<1>2. \A b \in Actors \ {c} : at'[b] = at[b] /\ pvt'[b] = pvt[b]
  <2>1. ASSUME NEW s \in Sessions,
               SendText(c, s) \/ PauseResume(c, s) \/ Graceful(c, s) \/ Stop(c, s)
        PROVE  \A b \in Actors \ {c} : at'[b] = at[b] /\ pvt'[b] = pvt[b]
    BY <1>0, <2>1 DEF ForkTypeOK, Goto, SendText, PauseResume, Graceful, Stop,
       EnterCleanup, WorksOn, local
  <2> QED BY <1>0, <2>1 DEF ForkTypeOK, Goto, Done, WorksOn, StartConnects, AddBugFails,
          SendTextAccepted, SendTextReturns, SendTextEnds, GracefulGoesOn, GracefulEnds
<1>3. /\ at[c] \in {"start", "adding", "text", "sending", "graceful", "gracing", "idle"}
      /\ at'[c] \in {"adding", "text", "sending", "graceful", "gracing", "idle", "lock"}
      /\ Starting(c)' => Starting(c) /\ pvt'[c] = pvt[c]
  <2>1. ASSUME NEW s \in Sessions,
               SendText(c, s) \/ PauseResume(c, s) \/ Graceful(c, s) \/ Stop(c, s)
        PROVE  /\ at[c] = "idle" /\ at'[c] \in {"idle", "text", "graceful", "lock"}
    BY <1>0, <2>1 DEF ForkTypeOK, Goto, SendText, PauseResume, Graceful, Stop,
       EnterCleanup, Locates, local
  <2> QED BY <1>0, <2>1 DEF ForkTypeOK, Starting, Goto, Done, StartConnects, AddBugFails,
          SendTextAccepted, SendTextReturns, SendTextEnds, GracefulGoesOn, GracefulEnds
<1>4. outer[c] = NoCleanup
  BY <1>0, <1>3 DEF RemovalKnows
<1>5. UNCHANGED <<up, bug, attached, owner, raced>>
  BY <1>1 DEF channel, starts
<1>6. Aside(c)
  BY <1>0, <1>1, <1>2, <1>3, <1>4, <1>5 DEF Aside, Removing
<1> QED BY <1>0, <1>1, <1>6, AsideKeepsOneFork

\* What a cleanup does besides taking the private.
LEMMA CleanupKeepsOneFork ==
  ASSUME IInv, ForkInv, OneForkInv, NEW a \in Actors,
         \/ CleanupWaits(a) \/ CleanupFaults(a) \/ FinalTextAccepted(a)
         \/ FinalTextReturns(a) \/ FinalTextEnds(a) \/ CloseStarts(a)
  PROVE  OneForkInv'
<1>0. ForkTypeOK /\ RemovalKnows(a) /\ Sessions \subseteq Actors
  BY ForkParts
<1>1. UNCHANGED <<channel, taken, outer, pvt, state>>
  BY DEF CleanupWaits, CleanupFaults, FinalTextAccepted, FinalTextReturns, FinalTextEnds,
     CloseStarts, ClientDies, WakeUp, SendAccepted, CloseAccepted,
     NotConnected, Refuses, StaleReturn, forkVars, local, vars
<1>2. /\ \A b \in Actors \ {a} : at'[b] = at[b]
      /\ at[a] \in {"lock", "final", "finalsending", "close"}
      /\ at'[a] \in {"lock", "waiting", "finalsending", "close", "closing"}
      /\ at'[a] \in {"lock", "waiting"} => at[a] = "lock"
  BY <1>0 DEF ForkTypeOK, Goto, CleanupWaits, CleanupFaults,
     FinalTextAccepted, FinalTextReturns, FinalTextEnds, CloseStarts,
     forkVars, local
<1>3. UNCHANGED <<up, bug, attached, owner, raced>>
  BY <1>1 DEF channel, starts
<1>4. at'[a] \in {"lock", "waiting", "clearing"} /\ a \in Sessions => ~up[owner[pvt[a]]]
  BY <1>2 DEF OneForkInv, ClosesAfterHangup
<1>5. Aside(a)
  BY <1>0, <1>1, <1>2, <1>3, <1>4 DEF Aside, Removing, Starting
<1> QED BY <1>1, <1>5, AsideKeepsOneFork

\* A cleanup ends, and one that waited for it goes on.
LEMMA CleanupEndsKeepsOneFork ==
  ASSUME IInv, ForkInv, OneForkInv, NEW a \in Actors, CleanupEnds(a)
  PROVE  OneForkInv'
<1>0. ForkTypeOK /\ RemovalKnows(a)
  BY ForkParts
<1>1. /\ UNCHANGED <<channel, taken, state>> /\ at[a] \in {"close", "closing"}
  BY DEF CleanupEnds, Resumes, Done, WakeUp, NotConnected, Refuses, StaleReturn, vars
<1>2. /\ \A b \in Actors \ {a} : at'[b] = at[b] /\ pvt'[b] = pvt[b] /\ outer'[b] = outer[b]
      /\ at'[a] \in {"idle", "final", "close"} /\ outer'[a] = NoCleanup
  <2>1. CASE outer[a] = NoCleanup
    <3>1. Done(a)
      BY <2>1 DEF CleanupEnds
    <3> QED BY <1>0, <2>1, <3>1 DEF Done, WorksOn, Goto, ForkTypeOK
  <2>2. CASE outer[a] # NoCleanup
    <3>1. Resumes(a)
      BY <2>2 DEF CleanupEnds
    <3> QED BY <1>0, <3>1 DEF Resumes, TellAndClose, WorksOn, Goto, ForkTypeOK
  <2> QED BY <2>1, <2>2
<1>3. UNCHANGED <<up, bug, attached, owner, raced>>
  BY <1>1 DEF channel, starts
<1>4. Aside(a)
  BY <1>0, <1>1, <1>2, <1>3 DEF Aside, Removing, Starting
<1> QED BY <1>1, <1>4, AsideKeepsOneFork

\* The bug is off the session, whoever took it off.
LEMMA RemoveBugKeepsOneFork ==
  ASSUME IInv, ForkInv, OneForkInv, NEW a \in Actors, RemoveBug(a)
  PROVE  OneForkInv'
<1>0. /\ ForkTypeOK /\ RemovalKnows(a) /\ Removing(a) /\ owner[pvt[a]] \in Sessions
  BY ForkParts, OwnersAreSessions DEF RemoveBug, Removing
<1>1. /\ at[a] = "removing" /\ attached' = attached \ {taken[a]}
      /\ UNCHANGED <<up, bug, owner, raced, state>>
      /\ \A b \in Actors \ {a} : taken'[b] = taken[b]
  BY <1>0 DEF RemoveBug, starts, vars, ForkTypeOK
<1>2. a \notin Sessions
  BY <1>0, <1>1, ActorsAssumption DEF RemovalKnows
<1>3. /\ \A b \in Actors \ {a} : at'[b] = at[b] /\ pvt'[b] = pvt[b] /\ outer'[b] = outer[b]
      /\ at'[a] \in {"lock", "final", "close"}
      /\ owner[pvt'[a]] = owner[pvt[a]]
  <2>1. CASE taken[a] \in attached /\ bug[owner[pvt[a]]] # None
    <3>1. /\ \E o : outer' = [outer EXCEPT ![a] = o]
          /\ EnterCleanup(a, bug[owner[pvt[a]]], FALSE)
      BY <2>1 DEF RemoveBug
    <3>2. owner[bug[owner[pvt[a]]]] = owner[pvt[a]]
      BY <1>0, <2>1, OwnersAreSessions
    <3> QED BY <1>0, <3>1, <3>2 DEF EnterCleanup, WorksOn, Goto, ForkTypeOK
  <2>2. CASE ~(taken[a] \in attached /\ bug[owner[pvt[a]]] # None)
    <3>1. Goto(a, TellAndClose(ap[a], final[a])) /\ UNCHANGED <<pvt, ap, final, outer>>
      BY <2>2 DEF RemoveBug
    <3> QED BY <1>0, <3>1 DEF TellAndClose, Goto, ForkTypeOK
  <2> QED BY <2>1, <2>2
<1>4. Aside(a)
  BY <1>0, <1>1, <1>2, <1>3 DEF Aside, Starting
<1> QED BY <1>1, <1>4, AsideKeepsOneFork

\* Frames, m_callback, the websocket layer and the stores.
LEMMA RestKeepsOneFork ==
  ASSUME IInv, ForkInv, OneForkInv,
         \/ \E s \in Sessions : \/ FrameEnds(s)
                                \/ \E p \in Pipes : Frame(s, p) \/ FrameStale(s, p)
                                                    \/ FrameFaults(s, p)
         \/ \E t \in Threads : Callback(t)
         \/ \E a \in Actors : Stored(a)
         \/ PipeStep
  PROVE  OneForkInv'
<1>0. /\ ForkTypeOK /\ Sessions \subseteq Actors /\ Threads \subseteq Actors
      /\ Threads # {} /\ \A a \in Actors : RemovalKnows(a)
  BY ForkParts, ConstantsAssumption
<1>1. ASSUME NEW s \in Sessions,
             \/ FrameEnds(s)
             \/ \E p \in Pipes : Frame(s, p) \/ FrameStale(s, p) \/ FrameFaults(s, p)
      PROVE  OneForkInv'
  <2>1. UNCHANGED <<channel, taken, outer, state>>
    BY <1>1 DEF FrameEnds, Frame, FrameStale, FrameFaults, WakeUp, SendAccepted,
       StaleReturn, ClientDies, Done, forkVars, local
  <2>2. /\ \A b \in Actors \ {s} : at'[b] = at[b] /\ pvt'[b] = pvt[b]
        /\ at[s] \in {"idle", "frame"} /\ at'[s] \in {"idle", "frame"}
    BY <1>0, <1>1 DEF ForkTypeOK, Goto, Done, WorksOn, FrameEnds, Frame, FrameGoesOn,
       FrameStale, FrameFaults, forkVars, local
  <2>3. UNCHANGED <<up, bug, attached, owner, raced>> /\ outer[s] = NoCleanup
    BY <1>0, <2>1, <2>2 DEF channel, starts, RemovalKnows
  <2>4. s \in Actors /\ Aside(s)
    BY <1>0, <2>1, <2>2, <2>3 DEF Aside, Starting, Removing
  <2> QED BY <2>1, <2>4, AsideKeepsOneFork
<1>2. ASSUME NEW t \in Threads, Callback(t) PROVE OneForkInv'
  <2>1. UNCHANGED <<channel, taken, outer>>
    BY <1>2 DEF Callback, EventCallback, MetadataAccepted, MetadataReturns, MetadataFaults,
       MetadataEnds, EventReturns, Done, forkVars, local
  <2>2. ASSUME NEW p \in Pipes PROVE state'[p] = "none" <=> state[p] = "none"
    <3>1. CASE EventReturns(t)
      BY <1>0, <3>1, NoPipeAppears DEF EventReturns, Service
    <3>2. CASE EventCallback(t) \/ MetadataAccepted(t) \/ MetadataReturns(t)
               \/ MetadataFaults(t) \/ MetadataEnds(t)
      <4>1. state' = state
        BY <3>2 DEF EventCallback, MetadataAccepted, MetadataReturns, MetadataFaults,
           MetadataEnds, SendAccepted, NotConnected, Refuses, StaleReturn, ClientDies,
           WakeUp, vars
      <4> QED BY <4>1
    <3> QED BY <1>2, <3>1, <3>2 DEF Callback
  <2>3. /\ \A b \in Actors \ {t} : at'[b] = at[b] /\ pvt'[b] = pvt[b]
        /\ at[t] \in {"idle", "meta", "metasending", "return"}
        /\ at'[t] \in {"idle", "meta", "metasending", "return"}
    BY <1>0, <1>2 DEF ForkTypeOK, Goto, Done, WorksOn, Callback, EventCallback,
       MetadataAccepted, MetadataReturns, MetadataFaults, MetadataEnds, EventReturns,
       forkVars, local
  <2>4. UNCHANGED <<up, bug, attached, owner, raced>> /\ outer[t] = NoCleanup
    BY <1>0, <2>1, <2>3 DEF channel, starts, RemovalKnows
  <2>5. t \in Actors /\ Aside(t)
    BY <1>0, <2>1, <2>3, <2>4 DEF Aside, Starting, Removing
  <2> QED BY <2>2, <2>5, AsideKeepsOneFork
<1>3. ASSUME PipeStep \/ \E a \in Actors : Stored(a) PROVE OneForkInv'
  <2>1. PICK a \in Actors, t \in Threads : Service(t) \/ SendStored(a) \/ CloseStored(a)
    BY <1>0, <1>3 DEF PipeStep, ServiceStep, ServiceWrites, Service, Writeable, Stored
  <2>2. \A p \in Pipes : state'[p] = "none" <=> state[p] = "none"
    BY <2>1, NoPipeAppears
  <2>3. UNCHANGED <<up, bug, attached, owner, raced, at, pvt, taken, outer>>
    BY <1>3 DEF PipeStep, Stored, local, channel, starts
  <2>4. t \notin Sessions /\ t \in Actors
    BY <1>0, ActorsAssumption
  <2>5. Aside(t)
    BY <2>3, <2>4 DEF Aside, Starting, Removing
  <2> QED BY <2>2, <2>4, <2>5, AsideKeepsOneFork
<1> QED BY <1>1, <1>2, <1>3

\* After the hangup nothing is asked of what is still attached.
LEMMA HangupKeepsOneFork ==
  ASSUME IInv, ForkInv, OneForkInv, NEW s \in Sessions,
         Hangup(s) \/ \E p \in Pipes : CloseCallback(s, p)
  PROVE  OneForkInv'
<1>0. ForkTypeOK /\ s \in Actors /\ RemovalKnows(s)
  BY ForkParts
<1>1. CASE Hangup(s)
  <2>1. UNCHANGED <<state, bug, attached, owner, raced, at, pvt, taken, outer>>
    BY <1>1 DEF Hangup, local, vars, starts
  <2>2. \A r \in Sessions : up'[r] => up[r]
    BY <1>0, <1>1 DEF Hangup, ForkTypeOK
  <2>3. at[s] \in {"lock", "waiting", "clearing"} => ~up'[owner[pvt[s]]]
    BY <2>2, OwnersAreSessions, <1>0 DEF OneForkInv, ClosesAfterHangup, Removing
  <2>4. Aside(s)
    BY <2>1, <2>2, <2>3 DEF Aside, Starting, Removing
  <2> QED BY <1>0, <2>1, <2>4, AsideKeepsOneFork
<1>2. ASSUME NEW p \in Pipes, CloseCallback(s, p) PROVE OneForkInv'
  <2>1. /\ UNCHANGED <<state, up, bug, owner, raced, taken, outer>>
        /\ attached' = attached \ {p} /\ ~up[s] /\ at[s] = "idle"
    BY <1>2 DEF CloseCallback, vars, starts
  <2>2. /\ \A b \in Actors \ {s} : at'[b] = at[b] /\ pvt'[b] = pvt[b]
        /\ at'[s] \in {"idle", "lock"}
        /\ at'[s] = "lock" => bug[s] # None /\ pvt'[s] = bug[s]
    BY <1>0, <1>2, <2>1 DEF CloseCallback, EnterCleanup, WorksOn, Goto, local, ForkTypeOK
  <2>3. at'[s] = "lock" => ~up[owner[pvt'[s]]]
    BY <2>1, <2>2, OwnersAreSessions
  <2>4. outer[s] = NoCleanup
    BY <1>0, <2>1 DEF RemovalKnows
  <2>5. Aside(s)
    BY <1>0, <2>1, <2>2, <2>3, <2>4 DEF Aside, Starting, Removing
  <2> QED BY <1>0, <2>1, <2>5, AsideKeepsOneFork
<1> QED BY <1>1, <1>2

\* start_capture finds the channel without a bug.
LEMMA StartKeepsOneFork ==
  ASSUME IInv, ForkInv, OneForkInv,
         NEW c \in Callers, NEW s \in Sessions, NEW p \in Pipes, StartCapture(c, s, p)
  PROVE  OneForkInv'
<1>0. /\ c \in Actors /\ ForkTypeOK /\ TypeOK /\ RemovalKnows(c)
  BY ForkParts
<1>1. /\ at[c] = "idle" /\ state[p] = "none" /\ bug[s] = None /\ outer[c] = NoCleanup
      /\ UNCHANGED <<up, bug, attached, taken, outer>>
  BY <1>0 DEF StartCapture, Connect, Unforked, RemovalKnows
<1>2. /\ state'[p] = "IDLE" /\ \A q \in Pipes \ {p} : state'[q] = state[q]
      /\ owner'[p] = s /\ \A q \in Pipes \ {p} : owner'[q] = owner[q]
      /\ at'[c] = "start" /\ pvt'[c] = p
      /\ \A a \in Actors \ {c} : at'[a] = at[a] /\ pvt'[a] = pvt[a]
  BY <1>0 DEF StartCapture, Connect, Goto, ForkTypeOK, TypeOK
<1>3. /\ raced \subseteq raced' /\ RivalStarts(s) \subseteq raced'
      /\ p \notin raced' => RivalStarts(s) = {} /\ \A a \in Actors : Removing(a) => owner[pvt[a]] # s
  BY DEF StartCapture, RecordsStart
<1>4. ASSUME NEW a \in Actors \ {c}
      PROVE  /\ Starting(a)' <=> Starting(a)
             /\ Removing(a)' <=> Removing(a)
             /\ Starting(a) \/ Removing(a) \/ at[a] \in {"lock", "waiting"} =>
                  owner'[pvt[a]] = owner[pvt[a]] /\ owner[pvt[a]] \in Sessions
             /\ Starting(a) /\ owner[pvt[a]] = s => pvt[a] \in raced'
  <2>1. /\ Starting(a)' <=> Starting(a)
        /\ Removing(a)' <=> Removing(a)
    BY <1>1, <1>2 DEF Starting, Removing
  <2>2. Starting(a) \/ Removing(a) \/ at[a] \in {"lock", "waiting"} =>
          owner'[pvt[a]] = owner[pvt[a]] /\ owner[pvt[a]] \in Sessions
    BY <1>1, <1>2, OwnersAreSessions
  <2>3. Starting(a) /\ owner[pvt[a]] = s => pvt[a] \in raced'
    BY <1>3 DEF RivalStarts
  <2> QED BY <2>1, <2>2, <2>3
<1>5. ~Removing(c) /\ ~Removing(c)' /\ Starting(c)'
  BY <1>1, <1>2 DEF Removing, Starting
<1>6. \A q \in attached : q # p /\ owner'[q] = owner[q] /\ owner[q] \in Sessions
  BY <1>1, <1>2, OwnersAreSessions
<1>7. OneBugPerChannel'
  BY <1>1, <1>3, <1>6 DEF OneForkInv, OneBugPerChannel
<1>8. ASSUME NEW a \in Actors PROVE StartAlone(a)'
  <2>1. CASE a = c
    <3>1. SUFFICES ASSUME p \notin raced' PROVE StartAlone(c)'
      BY <1>2, <2>1 DEF StartAlone
    <3>2. \A b \in Actors \ {c} : Starting(b) => owner[pvt[b]] # s
      BY <1>3, <3>1 DEF RivalStarts
    <3>3. \A b \in Actors : Removing(b) => owner[pvt[b]] # s
      BY <1>3, <3>1
    <3>4. ASSUME up[s], NEW q \in attached \ raced, owner[q] = s PROVE FALSE
      <4>1. \/ \E b \in Actors : at[b] = "publish" /\ pvt[b] = q
            \/ \E b \in Actors : at[b] = "removing" /\ taken[b] = q
        <5>1. q \in Pipes /\ None \notin Pipes /\ AttachedKnown(q)
          BY <3>4, OwnersAreSessions, ForkParts DEF OneForkInv
        <5> QED BY <1>1, <3>4, <5>1 DEF AttachedKnown
      <4>2. ASSUME NEW b \in Actors, at[b] = "publish", pvt[b] = q PROVE FALSE
        BY <1>1, <3>2, <3>4, <4>2 DEF Starting
      <4>3. ASSUME NEW b \in Actors, at[b] = "removing", taken[b] = q PROVE FALSE
        <5>1. Removing(b) /\ owner[pvt[b]] = s
          BY <3>4, <4>3, ForkParts DEF Removing, RemovalKnows
        <5> QED BY <3>3, <5>1
      <4> QED BY <4>1, <4>2, <4>3
    <3>5. bug'[s] = None /\ up'[s] = up[s]
      BY <1>1
    <3>6. \A b \in Actors \ {c} : Starting(b)' => owner'[pvt'[b]] # s
      BY <1>2, <1>4, <3>2
    <3>7. \A b \in Actors : Removing(b)' => owner'[pvt'[b]] # s
      BY <1>2, <1>4, <1>5, <3>3
    <3>8. up'[s] => \A q \in attached' \ raced' : owner'[q] # s
      BY <1>1, <1>3, <1>6, <3>4, <3>5
    <3> QED BY <1>2, <3>5, <3>6, <3>7, <3>8 DEF StartAlone
  <2>2. CASE a # c
    <3>1. SUFFICES ASSUME Starting(a), pvt[a] \notin raced' PROVE StartAlone(a)'
      BY <1>2, <1>4, <2>2 DEF StartAlone
    <3>2. StartAlone(a) /\ pvt[a] \notin raced /\ owner[pvt[a]] # s
      BY <1>3, <1>4, <2>2, <3>1 DEF OneForkInv
    <3>3. owner'[pvt'[a]] = owner[pvt[a]] /\ pvt'[a] = pvt[a]
      BY <1>2, <1>4, <2>2, <3>1
    <3>4. \A b \in Actors \ {a} : Starting(b)' => owner'[pvt'[b]] # owner[pvt[a]]
      BY <1>2, <1>4, <3>1, <3>2 DEF StartAlone
    <3>5. \A b \in Actors : Removing(b)' => owner'[pvt'[b]] # owner[pvt[a]]
      BY <1>2, <1>4, <1>5, <3>1, <3>2 DEF StartAlone
    <3>6. up[owner[pvt[a]]] =>
            \A q \in attached \ raced' : owner'[q] = owner[pvt[a]] => q = pvt[a]
      BY <1>3, <1>6, <3>1, <3>2 DEF StartAlone
    <3>7. bug[owner[pvt[a]]] = None
      BY <3>1, <3>2 DEF StartAlone
    <3> QED BY <1>1, <3>3, <3>4, <3>5, <3>6, <3>7 DEF StartAlone
  <2> QED BY <2>1, <2>2
<1>9. ASSUME NEW r \in Sessions PROVE BugAlone(r)'
  <2>1. CASE r = s
    BY <1>1, <2>1 DEF BugAlone
  <2>2. CASE r # s
    <3>1. SUFFICES ASSUME bug[r] # None, bug[r] \notin raced' PROVE BugAlone(r)'
      BY <1>1 DEF BugAlone
    <3>2. BugAlone(r) /\ bug[r] \notin raced
      BY <1>3, <3>1 DEF OneForkInv
    <3>3. ASSUME NEW a \in Actors
          PROVE  /\ Starting(a)' => owner'[pvt'[a]] # r
                 /\ Removing(a)' /\ owner'[pvt'[a]] = r =>
                      at'[a] = "clearing" /\ outer[a] = NoCleanup /\ taken[a] = bug[r]
      <4>1. CASE a = c
        BY <1>2, <1>5, <2>2, <4>1
      <4>2. CASE a # c
        BY <1>2, <1>4, <3>1, <3>2, <4>2 DEF BugAlone
      <4> QED BY <4>1, <4>2
    <3> QED BY <1>1, <3>3 DEF BugAlone
  <2> QED BY <2>1, <2>2
<1>10. ASSUME NEW r \in Sessions PROVE ClosesAfterHangup(r)'
  <2>1. r # c /\ r \in Actors
    BY ActorsAssumption
  <2>2. at[r] \in {"lock", "waiting", "clearing"} => owner'[pvt[r]] = owner[pvt[r]]
    BY <1>4, <2>1 DEF Removing
  <2> QED BY <1>1, <1>2, <2>1, <2>2 DEF OneForkInv, ClosesAfterHangup
<1>11. ASSUME NEW q \in attached' PROVE AttachedKnown(q)'
  <2>1. q \in attached /\ q # p /\ AttachedKnown(q) /\ owner'[q] = owner[q] /\ state'[q] = state[q]
    BY <1>1, <1>2, <1>6, OwnersAreSessions DEF OneForkInv
  <2>2. \A a \in Actors : at[a] = "publish" \/ at[a] = "removing" =>
          at'[a] = at[a] /\ pvt'[a] = pvt[a]
    BY <1>1, <1>2
  <2> QED BY <1>1, <1>3, <2>1, <2>2 DEF AttachedKnown
<1> QED BY <1>7, <1>8, <1>9, <1>10, <1>11 DEF OneForkInv

\* The new bug is alone on the session if its start raced with none.
LEMMA AddBugKeepsOneFork ==
  ASSUME IInv, ForkInv, OneForkInv, NEW c \in Callers, AddBug(c)
  PROVE  OneForkInv'
<1> DEFINE s == owner[pvt[c]]
<1>0. /\ c \in Actors /\ ForkTypeOK /\ RemovalKnows(c) /\ StartAlone(c)
  BY ForkParts DEF OneForkInv
<1>1. /\ at[c] = "adding" /\ up[s] /\ attached' = attached \union {pvt[c]}
      /\ at'[c] = "publish" /\ \A a \in Actors \ {c} : at'[a] = at[a]
      /\ UNCHANGED <<state, up, bug, owner, raced, pvt, taken, outer>>
  BY <1>0 DEF AddBug, Goto, ForkTypeOK, vars, starts
<1>2. Starting(c) /\ pvt[c] \in Pipes /\ state[pvt[c]] # "none" /\ s \in Sessions
  BY <1>0, <1>1, OwnersAreSessions DEF Starting
<1>3. \A a \in Actors : /\ Starting(a)' <=> Starting(a)
                        /\ Removing(a)' <=> Removing(a)
  BY <1>1 DEF Starting, Removing
<1>4. OneBugPerChannel'
  BY <1>0, <1>1, <1>2 DEF OneForkInv, OneBugPerChannel, StartAlone
<1>5. ASSUME NEW a \in Actors PROVE StartAlone(a)'
  <2>1. SUFFICES ASSUME Starting(a), pvt[a] \notin raced PROVE StartAlone(a)'
    BY <1>1, <1>3 DEF StartAlone
  <2>2. StartAlone(a)
    BY DEF OneForkInv
  <2>3. a # c => owner[pvt[a]] # s
    BY <1>2, <2>1, <2>2, <1>0 DEF StartAlone
  <2> HIDE DEF s
  <2>4. up[owner[pvt[a]]] =>
          \A q \in attached' \ raced : owner[q] = owner[pvt[a]] => q = pvt[a]
    BY <1>1, <2>1, <2>2, <2>3 DEF StartAlone, s
  <2> QED BY <1>1, <1>3, <2>1, <2>2, <2>4 DEF StartAlone
<1>6. ASSUME NEW r \in Sessions PROVE BugAlone(r)'
  <2>1. BugAlone(r)
    BY DEF OneForkInv
  <2>2. \A a \in Actors : at[a] = "clearing" => at'[a] = "clearing"
    BY <1>1
  <2> QED BY <1>1, <1>3, <2>1, <2>2 DEF BugAlone
<1>7. ASSUME NEW r \in Sessions PROVE ClosesAfterHangup(r)'
  <2>1. r # c /\ r \in Actors
    BY ActorsAssumption
  <2> QED BY <1>1, <2>1 DEF OneForkInv, ClosesAfterHangup
<1>8. ASSUME NEW q \in attached' PROVE AttachedKnown(q)'
  <2>1. CASE q = pvt[c]
    BY <1>0, <1>1, <1>2, <2>1 DEF AttachedKnown
  <2>2. CASE q # pvt[c]
    <3>1. AttachedKnown(q)
      BY <1>1, <2>2 DEF OneForkInv
    <3>2. \A a \in Actors : at[a] = "publish" \/ at[a] = "removing" => at'[a] = at[a]
      BY <1>1
    <3> QED BY <1>1, <3>1, <3>2 DEF AttachedKnown
  <2> QED BY <2>1, <2>2
<1> QED BY <1>4, <1>5, <1>6, <1>7, <1>8 DEF OneForkInv

\* The channel names the bug that is on the session.
LEMMA PublishKeepsOneFork ==
  ASSUME IInv, ForkInv, OneForkInv, NEW c \in Callers, PublishBug(c)
  PROVE  OneForkInv'
<1> DEFINE s == owner[pvt[c]]
<1>0. /\ c \in Actors /\ ForkTypeOK /\ RemovalKnows(c) /\ StartAlone(c)
  BY ForkParts DEF OneForkInv
<1>1. /\ at[c] = "publish" /\ at'[c] = "idle" /\ outer[c] = NoCleanup
      /\ \A a \in Actors \ {c} : at'[a] = at[a] /\ pvt'[a] = pvt[a]
      /\ UNCHANGED <<state, up, attached, owner, raced, taken, outer>>
  BY <1>0 DEF PublishBug, Done, WorksOn, Goto, ForkTypeOK, vars, starts, RemovalKnows
<1>2. Starting(c) /\ pvt[c] \in Pipes /\ s \in Sessions
  BY <1>0, <1>1, OwnersAreSessions DEF Starting
<1>3. bug'[s] = pvt[c] /\ \A r \in Sessions \ {s} : bug'[r] = bug[r]
  BY <1>0, <1>2 DEF PublishBug, ForkTypeOK
<1>4. /\ \A a \in Actors \ {c} : /\ Starting(a)' <=> Starting(a)
                                 /\ Removing(a)' <=> Removing(a)
      /\ ~Starting(c)' /\ ~Removing(c)'
  BY <1>1 DEF Starting, Removing
<1>5. OneBugPerChannel'
  BY <1>1 DEF OneForkInv, OneBugPerChannel
<1>6. ASSUME NEW a \in Actors PROVE StartAlone(a)'
  <2>1. SUFFICES ASSUME a # c, Starting(a), pvt[a] \notin raced PROVE StartAlone(a)'
    BY <1>1, <1>4 DEF StartAlone
  <2>2. StartAlone(a) /\ owner[pvt[a]] # s /\ owner[pvt[a]] \in Sessions
    BY <1>0, <1>2, <2>1, OwnersAreSessions DEF StartAlone, OneForkInv
  <2>3. bug'[owner[pvt[a]]] = bug[owner[pvt[a]]] /\ pvt'[a] = pvt[a]
    BY <1>1, <1>3, <2>1, <2>2
  <2>4. /\ \A b \in Actors \ {a} : Starting(b)' => owner[pvt'[b]] # owner[pvt[a]]
        /\ \A b \in Actors : Removing(b)' => owner[pvt'[b]] # owner[pvt[a]]
    BY <1>1, <1>4, <2>1, <2>2 DEF StartAlone
  <2>5. up[owner[pvt[a]]] =>
          \A q \in attached \ raced : owner[q] = owner[pvt[a]] => q = pvt[a]
    BY <2>1, <2>2 DEF StartAlone
  <2>6. bug[owner[pvt[a]]] = None
    BY <2>1, <2>2 DEF StartAlone
  <2> QED BY <1>1, <2>3, <2>4, <2>5, <2>6 DEF StartAlone
<1>7. ASSUME NEW r \in Sessions PROVE BugAlone(r)'
  <2>1. CASE r = s
    <3>1. SUFFICES ASSUME pvt[c] \notin raced PROVE BugAlone(r)'
      BY <1>1, <1>3, <2>1 DEF BugAlone
    <3>2. /\ \A b \in Actors \ {c} : Starting(b) => owner[pvt[b]] # s
          /\ \A b \in Actors : Removing(b) => owner[pvt[b]] # s
      BY <1>0, <1>2, <3>1 DEF StartAlone
    <3>3. /\ \A b \in Actors : Starting(b)' => owner[pvt'[b]] # s
          /\ \A b \in Actors : Removing(b)' => owner[pvt'[b]] # s
      BY <1>1, <1>4, <3>2
    <3> QED BY <1>1, <2>1, <3>3 DEF BugAlone
  <2>2. CASE r # s
    <3>1. BugAlone(r) /\ bug'[r] = bug[r]
      BY <1>3, <2>2 DEF OneForkInv
    <3>2. \A a \in Actors \ {c} : at[a] = "clearing" => at'[a] = "clearing"
      BY <1>1
    <3> QED BY <1>1, <1>4, <3>1, <3>2 DEF BugAlone
  <2> QED BY <2>1, <2>2
<1>8. ASSUME NEW r \in Sessions PROVE ClosesAfterHangup(r)'
  <2>1. r # c /\ r \in Actors
    BY ActorsAssumption
  <2> QED BY <1>1, <2>1 DEF OneForkInv, ClosesAfterHangup
<1>9. ASSUME NEW q \in attached' PROVE AttachedKnown(q)'
  <2>1. AttachedKnown(q) /\ state[q] # "none" /\ owner[q] \in Sessions
    BY <1>1, OwnersAreSessions DEF OneForkInv
  <2>2. SUFFICES ASSUME up[owner[q]], q \notin raced PROVE AttachedKnown(q)'
    BY <1>1, <2>1 DEF AttachedKnown
  <2>3. CASE bug[owner[q]] = q
    <3>1. owner[q] # s
      BY <1>0, <1>1, <1>2, <2>2, <2>3, OwnersAreSessions, ForkParts
         DEF OneForkInv, BugAlone, ForkTypeOK
    <3>2. bug'[owner[q]] = q
      BY <1>3, <2>1, <2>3, <3>1
    <3> QED BY <1>1, <2>1, <3>2 DEF AttachedKnown
  <2>4. ASSUME NEW b \in Actors, at[b] = "publish", pvt[b] = q PROVE AttachedKnown(q)'
    <3>1. CASE b = c
      BY <1>1, <1>3, <2>1, <2>4, <3>1 DEF AttachedKnown
    <3>2. CASE b # c
      BY <1>1, <2>1, <2>4, <3>2 DEF AttachedKnown
    <3> QED BY <3>1, <3>2
  <2>5. ASSUME NEW b \in Actors, at[b] = "removing", taken[b] = q PROVE AttachedKnown(q)'
    <3>1. b # c
      BY <1>1, <2>5
    <3> QED BY <1>1, <2>1, <2>5, <3>1 DEF AttachedKnown
  <2> QED BY <2>1, <2>2, <2>3, <2>4, <2>5 DEF AttachedKnown
<1> QED BY <1>5, <1>6, <1>7, <1>8, <1>9 DEF OneForkInv

\* A cleanup finds the bug the channel names; it begins to remove it.
LEMMA CleanupLockedKeepsOneFork ==
  ASSUME IInv, ForkInv, OneForkInv,
         NEW a \in Callers \union Sessions, CleanupLocked(a)
  PROVE  OneForkInv'
<1> DEFINE s == owner[pvt[a]]
<1>0. ForkTypeOK /\ Sessions \subseteq Actors /\ a \in Actors /\ RemovalKnows(a)
  BY ForkParts
<1>1. /\ at[a] \in {"lock", "waiting"}
      /\ UNCHANGED <<state, up, bug, attached, owner, raced, pvt, outer>>
      /\ taken' = [taken EXCEPT ![a] = bug[s]]
      /\ Goto(a, IF bug[s] # None THEN "clearing" ELSE TellAndClose(ap[a], final[a]))
  BY DEF CleanupLocked, channel, starts, vars
<1>2. s \in Sessions
  BY <1>0, <1>1, OwnersAreSessions
<1>3. /\ at'[a] \in {"clearing", "final", "close"}
      /\ at'[a] = "clearing" => bug[s] # None
      /\ taken'[a] = bug[s]
      /\ \A b \in Actors \ {a} : at'[b] = at[b] /\ taken'[b] = taken[b]
  BY <1>0, <1>1 DEF Goto, TellAndClose, ForkTypeOK
<1>4. /\ \A b \in Actors : Starting(b)' <=> Starting(b)
      /\ \A b \in Actors \ {a} : Removing(b)' <=> Removing(b)
      /\ Removing(a)' => bug[s] # None \/ Removing(a)
  BY <1>1, <1>3 DEF Starting, Removing
<1>5. OneBugPerChannel'
  BY <1>1 DEF OneForkInv, OneBugPerChannel
<1>6. ASSUME NEW b \in Actors PROVE StartAlone(b)'
  <2>1. SUFFICES ASSUME Starting(b), pvt[b] \notin raced PROVE StartAlone(b)'
    BY <1>1, <1>4 DEF StartAlone
  <2>2. StartAlone(b)
    BY DEF OneForkInv
  <2>3. Removing(a)' => owner[pvt[a]] # owner[pvt[b]]
    BY <1>0, <1>4, <2>1, <2>2 DEF StartAlone
  <2> QED BY <1>1, <1>4, <2>1, <2>2, <2>3 DEF StartAlone
<1>7. ASSUME NEW r \in Sessions PROVE BugAlone(r)'
  <2>1. SUFFICES ASSUME bug[r] # None, bug[r] \notin raced PROVE BugAlone(r)'
    BY <1>1 DEF BugAlone
  <2>2. BugAlone(r)
    BY DEF OneForkInv
  <2>3. \A b \in Actors : Starting(b)' => owner[pvt[b]] # r
    BY <1>4, <2>1, <2>2 DEF BugAlone
  <2>4. ASSUME NEW b \in Actors \ {a}, Removing(b)', owner[pvt[b]] = r
        PROVE  at'[b] = "clearing" /\ outer'[b] = NoCleanup /\ taken'[b] = bug[r]
    BY <1>1, <1>3, <1>4, <2>1, <2>2, <2>4 DEF BugAlone
  <2>5. ASSUME Removing(a)', owner[pvt[a]] = r
        PROVE  at'[a] = "clearing" /\ outer'[a] = NoCleanup /\ taken'[a] = bug[r]
    <3>1. ~Removing(a)
      BY <1>0, <1>1, <2>1, <2>2, <2>5 DEF BugAlone
    <3> QED BY <1>1, <1>3, <2>5, <3>1 DEF Removing
  <2>6. \A b \in Actors : Removing(b)' /\ owner[pvt[b]] = r =>
          at'[b] = "clearing" /\ outer'[b] = NoCleanup /\ taken'[b] = bug[r]
    BY <2>4, <2>5
  <2> QED BY <1>1, <2>3, <2>6 DEF BugAlone
<1>8. ASSUME NEW r \in Sessions PROVE ClosesAfterHangup(r)'
  BY <1>0, <1>1, <1>3 DEF OneForkInv, ClosesAfterHangup
<1>9. ASSUME NEW q \in attached' PROVE AttachedKnown(q)'
  <2>1. AttachedKnown(q)
    BY <1>1 DEF OneForkInv
  <2>2. \A b \in Actors : at[b] = "publish" \/ at[b] = "removing" =>
          at'[b] = at[b] /\ taken'[b] = taken[b]
    BY <1>1, <1>3
  <2> QED BY <1>1, <2>1, <2>2 DEF AttachedKnown
<1> QED BY <1>5, <1>6, <1>7, <1>8, <1>9 DEF OneForkInv

\* The private is cleared: the bug it named is the one to be removed, or it raced.
LEMMA ClearBugKeepsOneFork ==
  ASSUME IInv, ForkInv, OneForkInv,
         NEW a \in Callers \union Sessions, ClearBug(a)
  PROVE  OneForkInv'
<1> DEFINE s == owner[pvt[a]]
<1>0. ForkTypeOK /\ Sessions \subseteq Actors /\ a \in Actors /\ RemovalKnows(a)
  BY ForkParts
<1>1. /\ at[a] = "clearing" /\ ClearPrivate(s)
      /\ UNCHANGED <<state, up, attached, owner, raced, pvt, outer>>
  BY DEF ClearBug, starts, vars
<1>2. Removing(a) /\ s \in Sessions
  BY <1>0, <1>1, OwnersAreSessions DEF Removing
<1>3. bug'[s] = None /\ \A r \in Sessions \ {s} : bug'[r] = bug[r]
  BY <1>0, <1>1, <1>2 DEF ClearPrivate, ForkTypeOK
<1>4. /\ at'[a] \in {"removing", "final", "close"}
      /\ Removes(a) => at'[a] = "removing" /\ taken'[a] = taken[a]
      /\ ~Removes(a) => at'[a] # "removing"
      /\ \A b \in Actors \ {a} : at'[b] = at[b] /\ taken'[b] = taken[b]
  <2>1. CASE Removes(a)
    <3>1. Goto(a, "removing") /\ UNCHANGED taken
      BY <2>1 DEF ClearBug
    <3> QED BY <1>0, <2>1, <3>1 DEF Goto, ForkTypeOK
  <2>2. CASE ~Removes(a)
    <3>1. /\ Goto(a, TellAndClose(ap[a], final[a]))
          /\ taken' = [taken EXCEPT ![a] = None]
      BY <2>2 DEF ClearBug
    <3> QED BY <1>0, <2>2, <3>1 DEF Goto, TellAndClose, ForkTypeOK
  <2> QED BY <2>1, <2>2
<1>5. /\ \A b \in Actors : Starting(b)' <=> Starting(b)
      /\ \A b \in Actors : Removing(b)' => Removing(b)
  BY <1>1, <1>2, <1>4 DEF Starting, Removing
<1>6. OneBugPerChannel'
  BY <1>1 DEF OneForkInv, OneBugPerChannel
<1>7. ASSUME NEW b \in Actors PROVE StartAlone(b)'
  <2>1. SUFFICES ASSUME Starting(b), pvt[b] \notin raced PROVE StartAlone(b)'
    BY <1>1, <1>5 DEF StartAlone
  <2>2. StartAlone(b) /\ owner[pvt[b]] \in Sessions
    BY <2>1, OwnersAreSessions DEF OneForkInv
  <2>3. bug'[owner[pvt[b]]] = None
    BY <1>3, <2>1, <2>2 DEF StartAlone
  <2> QED BY <1>1, <1>5, <2>1, <2>2, <2>3 DEF StartAlone
<1>8. ASSUME NEW r \in Sessions PROVE BugAlone(r)'
  <2>1. CASE r = s
    BY <1>3, <2>1 DEF BugAlone
  <2>2. CASE r # s
    <3>1. BugAlone(r) /\ bug'[r] = bug[r]
      BY <1>3, <2>2 DEF OneForkInv
    <3>2. \A b \in Actors : owner[pvt[b]] = r => b # a
      BY <2>2
    <3> QED BY <1>1, <1>4, <1>5, <3>1, <3>2 DEF BugAlone
  <2> QED BY <2>1, <2>2
<1>9. ASSUME NEW r \in Sessions PROVE ClosesAfterHangup(r)'
  BY <1>0, <1>1, <1>4 DEF OneForkInv, ClosesAfterHangup
<1>10. ASSUME NEW q \in attached' PROVE AttachedKnown(q)'
  <2>1. AttachedKnown(q) /\ state[q] # "none" /\ owner[q] \in Sessions /\ q \in Pipes
    BY <1>1, OwnersAreSessions DEF OneForkInv
  <2>2. SUFFICES ASSUME up[owner[q]], q \notin raced PROVE AttachedKnown(q)'
    BY <1>1, <2>1 DEF AttachedKnown
  <2>3. CASE bug[owner[q]] = q /\ owner[q] = s
    <3>1. None \notin Pipes /\ BugAlone(s)
      BY <1>2, ForkParts DEF OneForkInv
    <3>2. outer[a] = NoCleanup /\ taken[a] = q
      BY <1>0, <1>2, <2>1, <2>2, <2>3, <3>1 DEF BugAlone
    <3>3. a \notin Sessions
      BY <1>1, <2>2, <2>3 DEF OneForkInv, ClosesAfterHangup
    <3>4. at'[a] = "removing" /\ taken'[a] = q
      BY <1>4, <3>2, <3>3 DEF Removes
    <3> QED BY <1>0, <1>1, <2>1, <3>4 DEF AttachedKnown
  <2>4. CASE bug[owner[q]] = q /\ owner[q] # s
    BY <1>1, <1>3, <2>1, <2>4 DEF AttachedKnown
  <2>5. ASSUME NEW b \in Actors,
               \/ at[b] = "publish" /\ pvt[b] = q
               \/ at[b] = "removing" /\ taken[b] = q
        PROVE  AttachedKnown(q)'
    <3>1. b # a
      BY <1>1, <2>5
    <3>2. at'[b] = at[b] /\ taken'[b] = taken[b] /\ pvt'[b] = pvt[b]
      BY <1>1, <1>4, <3>1
    <3> QED BY <1>1, <2>1, <2>5, <3>2 DEF AttachedKnown
  <2> QED BY <2>1, <2>2, <2>3, <2>4, <2>5 DEF AttachedKnown
<1> QED BY <1>6, <1>7, <1>8, <1>9, <1>10 DEF OneForkInv

\* Any step.
LEMMA OneForkKeeps ==
  ASSUME IInv, ForkInv, OneForkInv, [ForkNext]_allVars
  PROVE  OneForkInv'
<1>0. Callers \subseteq Actors /\ Sessions \subseteq Actors
  BY ForkParts
<1>1. CASE UNCHANGED allVars
  <2>1. UNCHANGED <<state, up, bug, attached, owner, raced, at, pvt, taken, outer>>
    BY <1>1 DEF allVars, vars, forkVars, channel, starts, local
  <2> QED BY <2>1 DEF OneForkInv, OneBugPerChannel, StartAlone, Starting, Removing, BugAlone,
          AttachedKnown, ClosesAfterHangup
<1>2. ASSUME NEW c \in Callers, Command(c) \/ CommandGoesOn(c) PROVE OneForkInv'
  <2>1. ASSUME NEW s \in Sessions,
               \/ SendText(c, s) \/ PauseResume(c, s) \/ Graceful(c, s) \/ Stop(c, s)
               \/ \E p \in Pipes : StartCapture(c, s, p)
        PROVE  OneForkInv'
    BY <2>1, CommandKeepsOneFork, StartKeepsOneFork
  <2>2. CASE AddBug(c) \/ PublishBug(c)
    BY <2>2, AddBugKeepsOneFork, PublishKeepsOneFork
  <2>3. CASE \/ StartConnects(c) \/ AddBugFails(c) \/ SendTextAccepted(c)
             \/ SendTextReturns(c) \/ SendTextEnds(c) \/ GracefulGoesOn(c) \/ GracefulEnds(c)
    BY <2>3, CommandKeepsOneFork
  <2> QED BY <1>2, <2>1, <2>2, <2>3 DEF Command, CommandGoesOn
<1>3. ASSUME NEW a \in Callers \union Sessions, Cleanup(a) PROVE OneForkInv'
  <2>1. CASE CleanupLocked(a) \/ ClearBug(a)
    BY <2>1, CleanupLockedKeepsOneFork, ClearBugKeepsOneFork
  <2>2. CASE RemoveBug(a) \/ CleanupEnds(a)
    BY <1>0, <2>2, RemoveBugKeepsOneFork, CleanupEndsKeepsOneFork
  <2>3. CASE \/ CleanupWaits(a) \/ CleanupFaults(a) \/ FinalTextAccepted(a)
             \/ FinalTextReturns(a) \/ FinalTextEnds(a) \/ CloseStarts(a)
    BY <1>0, <2>3, CleanupKeepsOneFork
  <2> QED BY <1>3, <2>1, <2>2, <2>3 DEF Cleanup
<1>4. ASSUME NEW s \in Sessions, Session(s) PROVE OneForkInv'
  BY <1>4, HangupKeepsOneFork, RestKeepsOneFork DEF Session
<1>5. CASE \/ \E t \in Threads : Callback(t)
           \/ \E a \in Actors : Stored(a)
           \/ PipeStep
  BY <1>5, RestKeepsOneFork
<1> QED BY <1>1, <1>2, <1>3, <1>4, <1>5 DEF ForkNext

(***************************************************************************)
(* However many threads give commands, and whenever the hangup comes, two  *)
(* bugs meet on a session only if a start of theirs ran beside another     *)
(* start of the session or beside a removal of its old bug (start_capture, *)
(* fork_session_cleanup).                                                  *)
(***************************************************************************)
THEOREM OneBugPerChannelHolds == ForkSpec => []OneBugPerChannel
<1>1. ForkInit => OneForkInv
  BY ActorsAssumption
     DEF ForkInit, OneForkInv, OneBugPerChannel, StartAlone, Starting, BugAlone,
         AttachedKnown, ClosesAfterHangup
<1>2. IInv /\ ForkInv /\ OneForkInv /\ [ForkNext]_allVars => OneForkInv'
  BY OneForkKeeps
<1>3. OneForkInv => OneBugPerChannel
  BY DEF OneForkInv
<1> QED BY <1>1, <1>2, <1>3, ForkInvHolds, PTL DEF ForkSpec

-----------------------------------------------------------------------------
(* A fork loses its pipe.                                                  *)

\* The connection of the pipe is over, though m_callback may tell it still.
IsOver(p) == Ended(p) \/ p \in freed

(***************************************************************************)
(* Of two forks of one session whose connections did not overlap, one is   *)
(* over with its last callback returned.                                   *)
(***************************************************************************)
InTurn ==
  \A p \in Pipes \ overlapped, q \in Pipes :
    p # q /\ state[p] # "none" /\ state[q] # "none" /\ owner[p] = owner[q] =>
      Finished(p) \/ Finished(q)

\* The inductive invariant of the lost pipes.
LostInv == InTurn /\ LostPipeIsOver

\* A notification is of a connection that is not over.
LEMMA NotifiesTheLiving ==
  ASSUME IInv, NEW p \in Pipes, IsOver(p), NEW t \in Threads, NEW q \in Pipes,
         told[q] \in {Untold, Connected}, q \notin freed
  PROVE  q # p
  BY DEF IsOver, Ended, Untold, Connected

\* The end of a connection is for good, and so is the return of its last callback.
LEMMA OverStays ==
  ASSUME IInv, [Next]_vars, NEW p \in Pipes, IsOver(p)
  PROVE  IsOver(p)' /\ (Finished(p) => Finished(p)')
<1>0. /\ TypeOK /\ \A q \in Pipes : PipeAgrees(q)
      /\ \A t \in Threads : ConnectsAgree(t) /\ ClosedAgrees(t) /\ CallAgrees(t)
  BY DEF IInv, Agreement
<1> DEFINE Quiet == /\ told'[p] = told[p] /\ freed \subseteq freed'
                    /\ \A t \in Threads : call'[t].pipe = p => call[t].pipe = p
<1>1. SUFFICES Quiet
  BY DEF IsOver, Ended, Finished
<1>2. ASSUME NEW t \in Threads, NEW q \in Pipes, NEW e \in NotifyEvents, Notify(t, q, e),
             told[q] \in {Untold, Connected}, q \notin freed, freed' = freed
      PROVE  Quiet
  <2>1. q # p
    BY <1>2, NotifiesTheLiving
  <2> QED BY <1>0, <1>2, <2>1 DEF Notify, TypeOK
<1>3. ASSUME UNCHANGED <<told, call, freed>> PROVE Quiet
  BY <1>3
<1>4. ASSUME NEW t \in Threads, NEW q \in Pipes, ConnectClient(t, q)
      PROVE  Quiet
  <2>1. told[q] = Untold /\ q \notin freed
    BY <1>0, <1>4 DEF ConnectClient, ConnectsAgree, PipeAgrees
  <2>2. \/ Notify(t, q, "CONNECT_FAIL") \/ UNCHANGED <<told, call>>
    BY <1>4 DEF ConnectClient, ConnectStarts, ConnectRefused, ConnectReturnsNull
  <2>3. freed' = freed
    BY <1>4 DEF ConnectClient
  <2> QED BY <1>2, <1>3, <2>1, <2>2, <2>3 DEF NotifyEvents
<1>5. ASSUME NEW t \in Threads, NEW q \in Pipes, Established(t, q) \/ ConnectionError(t, q)
      PROVE  Quiet
  <2>1. InConnects(q) => told[q] = Untold /\ q \notin freed
    BY <1>0 DEF InConnects, PipeAgrees
  <2>2. \/ InConnects(q) /\ (Notify(t, q, "CONNECT_FAIL") \/ Notify(t, q, "CONNECT_SUCCESS"))
        \/ UNCHANGED <<told, call>>
    BY <1>5 DEF Established, ConnectionError
  <2>3. freed' = freed
    BY <1>5 DEF Established, ConnectionError
  <2> QED BY <1>2, <1>3, <2>1, <2>2, <2>3 DEF NotifyEvents
<1>6. ASSUME NEW t \in Threads, NEW q \in Pipes, Closed(t, q)
      PROVE  Quiet
  <2>1. told[q] = Connected /\ q \notin freed
    BY <1>0, <1>6 DEF Closed, PipeAgrees
  <2> QED BY <1>2, <1>3, <1>6, <2>1 DEF Closed, NotifyEvents
<1>7. ASSUME NEW t \in Threads, NEW q \in Pipes, ClosedByFarEnd(t, q)
      PROVE  Quiet
  <2>1. told[q] = Connected /\ q \notin freed
    BY <1>0, <1>7 DEF ClosedByFarEnd, ClosedAgrees
  <2>2. CASE Deletes(q) /\ UNCHANGED <<call, told>>
    BY <2>2 DEF Deletes
  <2>3. CASE Notify(t, q, "CONNECTION_DROPPED") /\ freed' = freed
    BY <1>2, <2>1, <2>3 DEF NotifyEvents
  <2> QED BY <1>7, <2>2, <2>3 DEF ClosedByFarEnd
<1>8. ASSUME NEW t \in Threads, NEW q \in Pipes, Receive(t, q)
      PROVE  Quiet
  <2>1. told[q] = Connected /\ q \notin freed
    BY <1>0, <1>8 DEF Receive, PipeAgrees
  <2>2. q # p
    BY <2>1, NotifiesTheLiving
  <2> QED BY <1>0, <1>8, <2>2 DEF Receive, TypeOK
<1>9. ASSUME NEW t \in Threads, CallbackReturns(t)
      PROVE  Quiet
  <2>1. told' = told /\ freed \subseteq freed' /\ call' = [call EXCEPT ![t] = NoCall]
    BY <1>9 DEF CallbackReturns, Deletes
  <2>2. NoCall.pipe # p
    BY ConstantsAssumption DEF NoCall
  <2> QED BY <1>0, <2>1, <2>2 DEF TypeOK
<1>10. CASE UNCHANGED vars
  BY <1>3, <1>10 DEF vars
<1>11. CASE Client
  <2>1. ASSUME NEW a \in Actors, CallGoesOn(a)
        PROVE  UNCHANGED <<told, call, freed>>
    BY <2>1 DEF CallGoesOn, SendStored, CloseStored, WakeUp
  <2>2. ASSUME NEW a \in Actors, NEW q \in Pipes,
               \/ Connect(a, q) \/ CloseAccepted(a, q) \/ GracefulShutdown(a, q)
               \/ \E x \in Payloads : SendAccepted(a, q, x)
        PROVE  UNCHANGED <<told, call, freed>>
    BY <2>2 DEF Connect, CloseAccepted, GracefulShutdown, SendAccepted
  <2>3. UNCHANGED <<told, call, freed>>
    BY <1>11, <2>1, <2>2 DEF Client, ClientDies, StaleReturn
  <2> QED BY <1>3, <2>3
<1>12. ASSUME NEW t \in Threads, Service(t) PROVE Quiet
  BY <1>3, <1>4, <1>5, <1>6, <1>7, <1>8, <1>9, <1>12
     DEF Service, EventWaitCancelled, TakeConnects, TakeDisconnects, TakeWrites, EndCancelled,
         RequestWritable, Writeable, WriteEof, WriteText, NoText, CloseOrWriteAudio
<1> QED BY <1>10, <1>11, <1>12 DEF Next

\* Which steps make forks, and which clear pAudioPipe.
LEMMA ForkSteps ==
  ASSUME IInv, ForkInv, [ForkNext]_allVars
  PROVE  \/ \E c \in Callers, s \in Sessions, p \in Pipes : StartCapture(c, s, p)
         \/ /\ \A p \in Pipes : state'[p] = "none" <=> state[p] = "none"
            /\ owner' = owner /\ overlapped' = overlapped
            /\ ref' = ref \/ \E t \in Threads : EventCallback(t)
<1>0. Threads \subseteq Actors /\ Threads # {} /\ Actors # {}
  BY ForkParts, ConstantsAssumption
<1> DEFINE Same == \A p \in Pipes : state'[p] = "none" <=> state[p] = "none"
<1>1. CASE UNCHANGED allVars
  BY <1>1 DEF allVars, vars, forkVars, channel, starts, fork
<1>2. ASSUME NEW c \in Callers, NEW s \in Sessions,
             SendText(c, s) \/ PauseResume(c, s) \/ Graceful(c, s) \/ Stop(c, s)
      PROVE  UNCHANGED <<state, owner, overlapped, ref>>
  BY <1>2 DEF SendText, PauseResume, Graceful, Stop, channel, starts, fork, vars
<1>3. ASSUME NEW c \in Callers, CommandGoesOn(c)
      PROVE  UNCHANGED <<state, owner, overlapped, ref>>
  BY <1>3 DEF CommandGoesOn, StartConnects, AddBug, AddBugFails, PublishBug,
     SendTextAccepted, SendTextReturns, SendTextEnds, GracefulGoesOn, GracefulShutdown,
     GracefulEnds, WakeUp, SendAccepted, NotConnected, Refuses, StaleReturn, channel, starts,
     fork, vars
<1>4. ASSUME NEW a, Cleanup(a) PROVE UNCHANGED <<state, owner, overlapped, ref>>
  <2>1. CASE CleanupLocked(a) \/ ClearBug(a) \/ RemoveBug(a)
    BY <2>1 DEF CleanupLocked, ClearBug, RemoveBug, channel, starts, fork, vars
  <2>2. CASE CleanupWaits(a) \/ CleanupFaults(a) \/ CloseStarts(a) \/ CleanupEnds(a)
    BY <2>2 DEF CleanupWaits, CleanupFaults, CloseStarts, CleanupEnds, ClientDies, WakeUp,
       CloseAccepted, NotConnected, Refuses, StaleReturn, forkVars, channel, starts, fork, vars
  <2>3. CASE FinalTextAccepted(a) \/ FinalTextReturns(a) \/ FinalTextEnds(a)
    BY <2>3 DEF FinalTextAccepted, FinalTextReturns, FinalTextEnds, WakeUp, SendAccepted,
       NotConnected, Refuses, StaleReturn, channel, starts, fork, vars
  <2> QED BY <1>4, <2>1, <2>2, <2>3 DEF Cleanup
<1>5. ASSUME NEW s \in Sessions, Session(s) PROVE UNCHANGED <<state, owner, overlapped, ref>>
  BY <1>5 DEF Session, Hangup, FrameEnds, CloseCallback, Frame, FrameStale, FrameFaults,
     WakeUp, SendAccepted, StaleReturn, ClientDies, forkVars, channel, starts, fork, vars
<1>6. ASSUME NEW t \in Threads, Callback(t), ~EventReturns(t)
      PROVE  UNCHANGED <<state, owner, overlapped>> /\ (ref' = ref \/ EventCallback(t))
  BY <1>6 DEF Callback, EventCallback, MetadataAccepted, MetadataReturns, MetadataFaults,
     MetadataEnds, WakeUp, SendAccepted, NotConnected, Refuses, StaleReturn, ClientDies,
     forkVars, channel, starts, fork, vars
<1>7. ASSUME \/ \E t \in Threads : EventReturns(t)
             \/ PipeStep \/ \E a \in Actors : Stored(a)
      PROVE  Same /\ UNCHANGED <<owner, overlapped, ref>>
  <2>1. PICK a \in Actors, t \in Threads : Service(t) \/ SendStored(a) \/ CloseStored(a)
    BY <1>0, <1>7 DEF PipeStep, ServiceStep, ServiceWrites, Service, Writeable, Stored,
       EventReturns
  <2>2. Same
    BY <2>1, NoPipeAppears
  <2> QED BY <1>7, <2>2 DEF PipeStep, Stored, EventReturns, channel, starts, fork
<1> QED BY <1>1, <1>2, <1>3, <1>4, <1>5, <1>6, <1>7 DEF ForkNext, Command

\* The start of a fork records the forks of its session that are not over.
LEMMA StartKeepsLost ==
  ASSUME IInv, ForkInv, LostInv, NEW c \in Callers, NEW s \in Sessions, NEW r \in Pipes,
         StartCapture(c, s, r)
  PROVE  LostInv'
<1>0. ForkTypeOK /\ TypeOK
  BY ForkParts
<1>1. /\ state[r] = "none" /\ \A p \in Pipes \ {r} : state'[p] = state[p]
      /\ ref'[r] = TRUE /\ \A p \in Pipes \ {r} : ref'[p] = ref[p]
      /\ owner'[r] = s /\ \A p \in Pipes \ {r} : owner'[p] = owner[p]
      /\ UNCHANGED <<told, call, freed>>
  BY <1>0 DEF StartCapture, Connect, TypeOK, ForkTypeOK
<1>2. /\ overlapped \subseteq overlapped' /\ Unfinished(s) \subseteq overlapped'
      /\ r \notin overlapped' => Unfinished(s) = {}
  BY DEF StartCapture, RecordsStart
<1>3. /\ \A p \in Pipes : Finished(p) => Finished(p)'
      /\ \A p \in Pipes : IsOver(p) => IsOver(p)'
  BY <1>1 DEF Finished, IsOver, Ended
<1>4. ASSUME NEW p \in Pipes \ overlapped', NEW q \in Pipes, p # q,
             state'[p] # "none", state'[q] # "none", owner'[p] = owner'[q]
      PROVE  Finished(p)' \/ Finished(q)'
  <2>1. CASE p # r /\ q # r
    BY <1>1, <1>2, <1>3, <1>4, <2>1 DEF LostInv, InTurn
  <2>2. CASE q = r
    <3>1. p \notin Unfinished(s) /\ state[p] # "none" /\ owner[p] = s
      BY <1>1, <1>2, <1>4, <2>2
    <3> QED BY <1>3, <3>1 DEF Unfinished
  <2>3. CASE p = r
    <3>1. q \notin Unfinished(s) /\ state[q] # "none" /\ owner[q] = s
      BY <1>1, <1>2, <1>4, <2>3
    <3> QED BY <1>3, <3>1 DEF Unfinished
  <2> QED BY <2>1, <2>2, <2>3
<1>5. ASSUME NEW p \in Pipes \ overlapped', state'[p] # "none", ~ref'[p]
      PROVE  IsOver(p)'
  <2>1. p # r /\ p \notin overlapped /\ state[p] # "none" /\ ~ref[p]
    BY <1>1, <1>2, <1>5
  <2> QED BY <1>3, <2>1 DEF LostInv, LostPipeIsOver, IsOver
<1> QED BY <1>4, <1>5 DEF LostInv, InTurn, LostPipeIsOver, IsOver

\* eventCallback clears the pointer of a fork of the pipe's own session.
LEMMA LostKeeps ==
  ASSUME IInv, ForkInv, LostInv, [ForkNext]_allVars
  PROVE  LostInv'
<1>0. /\ ForkTypeOK /\ TypeOK /\ None \notin Pipes
      /\ \A p \in Pipes : PipeAgrees(p) /\ PipeOwned(p)
      /\ \A s \in Sessions : BugOwned(s)
      /\ \A t \in Threads : CallAgrees(t)
  BY ForkParts
<1>1. ASSUME NEW p \in Pipes, IsOver(p) PROVE IsOver(p)' /\ (Finished(p) => Finished(p)')
  <2>1. [Next]_vars
    BY ForkNextIsNext DEF allVars
  <2> QED BY <1>1, <2>1, OverStays
<1>2. \A p \in Pipes : Finished(p) => IsOver(p)
  BY DEF Finished, IsOver
<1>3. ASSUME \A p \in Pipes : state'[p] = "none" <=> state[p] = "none",
             owner' = owner, overlapped' = overlapped
      PROVE  InTurn'
  <2> SUFFICES ASSUME NEW p \in Pipes \ overlapped, NEW q \in Pipes, p # q,
                      state[p] # "none", state[q] # "none", owner[p] = owner[q]
               PROVE  Finished(p)' \/ Finished(q)'
    BY <1>3 DEF InTurn
  <2> QED BY <1>1, <1>2 DEF LostInv, InTurn
<1>4. ASSUME \A p \in Pipes : state'[p] = "none" <=> state[p] = "none",
             overlapped' = overlapped, ref' = ref
      PROVE  LostPipeIsOver'
  <2> SUFFICES ASSUME NEW p \in Pipes \ overlapped, state[p] # "none", ~ref[p]
               PROVE  IsOver(p)'
    BY <1>4 DEF LostPipeIsOver, IsOver
  <2> QED BY <1>1 DEF LostInv, LostPipeIsOver, IsOver
<1>5. ASSUME NEW t \in Threads, EventCallback(t), ref' # ref,
             \A p \in Pipes : state'[p] = "none" <=> state[p] = "none",
             overlapped' = overlapped
      PROVE  LostPipeIsOver'
  <2> DEFINE x == call[t].pipe
             q == bug[owner[x]]
  <2>1. x \in Pipes /\ owner[x] \in Sessions /\ state[x] # "none" /\ IsOver(x)
    <3>1. call[t] # NoCall /\ LosesPipe(call[t].event)
      BY <1>5 DEF EventCallback
    <3>2. /\ x \in Pipes /\ vhd[x] = t
          /\ told[x] \in Over \union {Refused}
      BY <1>0, <3>1 DEF CallAgrees, LosesPipe, Ends, PipeAgrees
    <3>3. told[x] \notin {Untold, Connected}
      BY <3>2, Tellings
    <3>4. state[x] # "none"
      BY <1>0, <3>2, <3>3 DEF PipeAgrees
    <3> QED BY <1>0, <3>2, <3>3, <3>4 DEF PipeOwned, IsOver, Ended, Untold, Connected
  <2>2. /\ q \in Pipes /\ owner[q] = owner[x] /\ state[q] # "none"
        /\ \A r \in Pipes \ {q} : ref'[r] = ref[r]
    BY <1>0, <1>5, <2>1 DEF EventCallback, BugOwned, ForkTypeOK
  <2>3. q \in overlapped \/ IsOver(q)
    <3>1. CASE q = x
      BY <2>1, <3>1
    <3>2. CASE q # x
      <4>1. ~Finished(x)
        BY DEF Finished
      <4>2. q \notin overlapped => Finished(q) \/ Finished(x)
        BY <2>1, <2>2, <3>2 DEF LostInv, InTurn
      <4> QED BY <1>2, <2>2, <4>1, <4>2
    <3> QED BY <3>1, <3>2
  <2> SUFFICES ASSUME NEW r \in Pipes \ overlapped, state[r] # "none", ~ref'[r]
               PROVE  IsOver(r)'
    BY <1>5 DEF LostPipeIsOver, IsOver
  <2>4. CASE r = q
    BY <1>1, <2>2, <2>3, <2>4
  <2>5. CASE r # q
    BY <1>1, <2>2, <2>5 DEF LostInv, LostPipeIsOver, IsOver
  <2> QED BY <2>4, <2>5
<1> QED BY <1>3, <1>4, <1>5, ForkSteps, StartKeepsLost DEF LostInv

(***************************************************************************)
(* A fork whose connection overlapped with that of no other fork of its    *)
(* session loses its pipe only after that pipe failed, ended or was        *)
(* deleted, for any number of forks, sessions and threads (eventCallback). *)
(***************************************************************************)
THEOREM LostPipeIsOverHolds == ForkSpec => []LostPipeIsOver
<1>1. ForkInit => LostInv
  BY DEF ForkInit, Init, LostInv, InTurn, LostPipeIsOver
<1>2. IInv /\ ForkInv /\ LostInv /\ [ForkNext]_allVars => LostInv'
  BY LostKeeps
<1>3. LostInv => LostPipeIsOver
  BY DEF LostInv
<1> QED BY <1>1, <1>2, <1>3, ForkInvHolds, PTL DEF ForkSpec

-----------------------------------------------------------------------------
(* The initial metadata goes first.                                        *)

\* A thread that sends the metadata is in m_callback of CONNECT_SUCCESS.
Greeting(a) ==
  /\ at[a] \in {"meta", "metasending"} =>
       a \in Threads /\ call[a].event = "CONNECT_SUCCESS"
  /\ at[a] = "metasending" => doing[a].what \in {"meta", "wake"}

\* Nothing is sent before that m_callback has returned.
Unsent(t) == call[t].event = "CONNECT_SUCCESS" => sent[call[t].pipe] = {}

\* A pipe that was never connected has sent nothing.
Mute(p) == told[p] \in {Untold, Refused} => sent[p] = {}

\* Metadata that was stored and not yet sent waits with no audio before it.
Greeted(p) ==
  p \in greeted =>
    /\ told[p] # Untold
    /\ \/ "meta" \in sent[p]
       \/ /\ "audio" \notin sent[p]
          /\ link[p] = "open" => \E i \in DOMAIN text[p] : text[p][i] = "meta"

\* WRITEABLE goes on to the audio only when no text waited.
AudioAfter(t) ==
  phase[t] = "writing" => \A p \in work[t] \intersect greeted : "meta" \in sent[p]

\* The inductive invariant of the initial metadata.
GreetInv ==
  /\ \A a \in Actors : Greeting(a)
  /\ \A t \in Threads : Unsent(t) /\ AudioAfter(t)
  /\ \A p \in Pipes : Mute(p) /\ Greeted(p)

\* Steps of the commands, the sessions and m_callback: they send nothing.
LEMMA ClientKeepsGreet ==
  ASSUME IInv, GreetInv, NEW a \in Actors,
         UNCHANGED <<text, told, link, phase, work, greeted, sent>>,
         \A b \in Actors \ {a} : at'[b] = at[b] /\ doing'[b] = doing[b],
         \/ call' = call
         \/ a \in Threads /\ call' = [call EXCEPT ![a] = NoCall]
            /\ at'[a] \notin {"meta", "metasending"},
         at'[a] = "meta" =>
           \/ at[a] = "meta"
           \/ a \in Threads /\ call[a].event = "CONNECT_SUCCESS",
         at'[a] = "metasending" =>
           at[a] \in {"meta", "metasending"} /\ doing'[a].what \in {"meta", "wake"}
  PROVE  GreetInv'
<1>0. TypeOK
  BY DEF IInv, Agreement
<1>1. ASSUME NEW t \in Threads
      PROVE  call'[t] = call[t] \/ (t = a /\ call'[t].event = "none")
  <2>1. DOMAIN call = Threads /\ NoCall.event = "none"
    BY <1>0 DEF TypeOK, NoCall
  <2> QED BY <2>1
<1>2. ASSUME NEW b \in Actors PROVE Greeting(b)'
  <2>1. CASE b = a
    BY <1>1, <2>1 DEF GreetInv, Greeting
  <2>2. CASE b # a
    BY <1>1, <2>2 DEF GreetInv, Greeting
  <2> QED BY <2>1, <2>2
<1>3. ASSUME NEW t \in Threads PROVE Unsent(t)' /\ AudioAfter(t)'
  BY <1>1 DEF GreetInv, Unsent, AudioAfter
<1>4. ASSUME NEW p \in Pipes PROVE Mute(p)' /\ Greeted(p)'
  BY DEF GreetInv, Mute, Greeted
<1> QED BY <1>2, <1>3, <1>4 DEF GreetInv

\* A text or audio is stored; the metadata is, while its pipe has sent nothing.
LEMMA StoredKeepsGreet ==
  ASSUME IInv, ForkInv, GreetInv, NEW a \in Actors, Stored(a)
  PROVE  GreetInv'
<1>0. /\ TypeOK /\ ForkTypeOK /\ Threads \subseteq Actors
      /\ \A p \in Pipes : PipeAgrees(p)
      /\ \A t \in Threads : CallAgrees(t) /\ WritingAgrees(t)
      /\ DoingAgrees(a) /\ Payloads \intersect Calls = {}
  BY ForkParts, ConstantsAssumption
<1>1. /\ UNCHANGED <<call, told, link, phase, work, at, sent>>
      /\ \A b \in Actors \ {a} : doing'[b] = doing[b]
      /\ doing'[a].what \in {"wake", "unlock"}
      /\ doing[a].what = "meta" => doing'[a].what = "wake"
  BY <1>0 DEF Stored, SendStored, CloseStored, Continues, TypeOK, local
<1>2. /\ \A p \in Pipes : \A i \in DOMAIN text[p] :
           i \in DOMAIN text'[p] /\ text'[p][i] = text[p][i]
      /\ SendStored(a) /\ doing[a].what = "meta" /\ doing[a].pipe \notin freed =>
           \E i \in DOMAIN text'[doing[a].pipe] : text'[doing[a].pipe][i] = "meta"
  <2>1. ASSUME NEW p \in Pipes, NEW x \in Texts, text' = [text EXCEPT ![p] = Append(@, x)]
        PROVE  /\ \A q \in Pipes : \A i \in DOMAIN text[q] :
                     i \in DOMAIN text'[q] /\ text'[q][i] = text[q][i]
               /\ \E i \in DOMAIN text'[p] : text'[p][i] = x
    <3>1. text[p] \in Seq(Texts) /\ text'[p] = Append(text[p], x)
          /\ \A q \in Pipes \ {p} : text'[q] = text[q]
      BY <1>0, <2>1 DEF TypeOK
    <3>2. /\ Len(text'[p]) = Len(text[p]) + 1 /\ DOMAIN text'[p] = 1 .. Len(text[p]) + 1
          /\ text'[p][Len(text[p]) + 1] = x
          /\ \A i \in 1 .. Len(text[p]) : text'[p][i] = text[p][i]
          /\ DOMAIN text[p] = 1 .. Len(text[p]) /\ Len(text[p]) \in Nat
      BY <3>1
    <3>3. Len(text[p]) + 1 \in DOMAIN text'[p]
      BY <3>2
    <3>4. \A i \in DOMAIN text[p] : i \in DOMAIN text'[p] /\ text'[p][i] = text[p][i]
      BY <3>2
    <3> QED BY <3>1, <3>2, <3>3, <3>4
  <2>2. CASE /\ UNCHANGED text
             /\ ~(SendStored(a) /\ doing[a].what = "meta" /\ doing[a].pipe \notin freed)
    BY <2>2
  <2>3. CASE SendStored(a) /\ doing[a].what # "audio" /\ doing[a].pipe \notin freed
    <3>1. doing[a].what \in Payloads /\ doing[a].what # "none"
      BY <1>0, <2>3 DEF SendStored, Calls
    <3>2. /\ doing[a].pipe \in Pipes /\ doing[a].what \in Texts
          /\ text' = [text EXCEPT ![doing[a].pipe] = Append(@, doing[a].what)]
      BY <1>0, <2>3, <3>1 DEF SendStored, Buffer, DoingAgrees, Texts
    <3>3. /\ \A q \in Pipes : \A i \in DOMAIN text[q] :
                i \in DOMAIN text'[q] /\ text'[q][i] = text[q][i]
          /\ \E i \in DOMAIN text'[doing[a].pipe] : text'[doing[a].pipe][i] = doing[a].what
      BY <2>1, <3>2
    <3> QED BY <3>3
  <2>4. CASE SendStored(a) /\ (doing[a].what = "audio" \/ doing[a].pipe \in freed)
    BY <2>2, <2>4 DEF SendStored, Buffer
  <2>5. CASE CloseStored(a)
    <3>1. UNCHANGED text /\ doing[a].what = "close"
      BY <2>5 DEF CloseStored
    <3> QED BY <2>2, <3>1
  <2> QED BY <2>3, <2>4, <2>5 DEF Stored
<1>3. ASSUME NEW p \in Pipes, p \in greeted', p \notin greeted
      PROVE  /\ a \in Threads /\ call[a].event = "CONNECT_SUCCESS" /\ call[a].pipe = p
             /\ sent[p] = {} /\ told[p] = Connected /\ vhd[p] = a
             /\ \E i \in DOMAIN text'[p] : text'[p][i] = "meta"
  <2>1. at[a] = "metasending" /\ p = call[a].pipe /\ p = doing[a].pipe
    BY <1>3 DEF Stored
  <2>2. /\ a \in Threads /\ call[a].event = "CONNECT_SUCCESS"
        /\ doing[a].what \in {"meta", "wake"}
    BY <2>1 DEF GreetInv, Greeting
  <2>3. SendStored(a) /\ doing[a].what = "meta"
    BY <1>0, <2>2 DEF Stored, SendStored, CloseStored, Calls
  <2>4. p \notin freed /\ link[p] = "open" /\ vhd[p] = a
    <3>1. call[a] # NoCall
      BY <2>2 DEF NoCall
    <3> QED BY <1>0, <2>1, <2>2, <3>1 DEF CallAgrees
  <2>5. told[p] = Connected /\ sent[p] = {}
    BY <1>0, <2>1, <2>2, <2>4 DEF PipeAgrees, GreetInv, Unsent
  <2> QED BY <1>2, <2>1, <2>2, <2>3, <2>4, <2>5
<1>4. ASSUME NEW b \in Actors PROVE Greeting(b)'
  <2>1. at[a] = "metasending" => doing[a].what = "meta"
    BY <1>0 DEF GreetInv, Greeting, Stored, SendStored, CloseStored, Calls
  <2> QED BY <1>1, <2>1 DEF GreetInv, Greeting
<1>5. ASSUME NEW t \in Threads PROVE Unsent(t)' /\ AudioAfter(t)'
  <2>1. Unsent(t)'
    BY <1>1 DEF GreetInv, Unsent
  <2>2. ASSUME phase[t] = "writing", NEW p \in work[t], p \in greeted'
        PROVE  "meta" \in sent[p]
    <3>1. CASE p \in greeted
      BY <2>2, <3>1 DEF GreetInv, AudioAfter
    <3>2. CASE p \notin greeted
      <4>1. p \in Pipes /\ vhd[p] = t /\ call[t] = NoCall
        BY <1>0, <2>2 DEF WritingAgrees, TypeOK
      <4>2. call[t].event = "CONNECT_SUCCESS"
        BY <1>3, <2>2, <3>2, <4>1
      <4> QED BY <4>1, <4>2 DEF NoCall
    <3> QED BY <3>1, <3>2
  <2> QED BY <1>1, <2>1, <2>2 DEF AudioAfter
<1>6. ASSUME NEW p \in Pipes PROVE Mute(p)' /\ Greeted(p)'
  <2>1. Mute(p)'
    BY <1>1 DEF GreetInv, Mute
  <2>2. ASSUME p \in greeted PROVE Greeted(p)'
    <3>1. Greeted(p)
      BY DEF GreetInv
    <3>2. (\E i \in DOMAIN text[p] : text[p][i] = "meta")
            => \E i \in DOMAIN text'[p] : text'[p][i] = "meta"
      BY <1>2
    <3> QED BY <1>1, <2>2, <3>1, <3>2 DEF Greeted
  <2>3. ASSUME p \in greeted', p \notin greeted PROVE Greeted(p)'
    <3>1. /\ sent[p] = {} /\ told[p] = Connected /\ Untold # Connected
          /\ \E i \in DOMAIN text'[p] : text'[p][i] = "meta"
      BY <1>3, <2>3, Tellings
    <3> QED BY <1>1, <3>1 DEF Greeted
  <2> QED BY <2>1, <2>2, <2>3 DEF Greeted
<1> QED BY <1>4, <1>5, <1>6 DEF GreetInv

\* A service step that sends nothing; of the notifications it may begin,
\* CONNECT_SUCCESS is the first of its pipe.
Silent(u) ==
  /\ UNCHANGED <<at, doing, text, greeted, sent>>
  /\ \A t \in Threads \ {u} : call'[t] = call[t]
  /\ \A t \in Threads : phase'[t] = "writing" =>
       \/ phase[t] = "writing" /\ work'[t] = work[t]
       \/ \A p \in work'[t] : p \in Pipes /\ link[p] = "open" /\ text[p] = <<>>
  /\ \/ call'[u] = call[u]
     \/ /\ call[u] = NoCall
        /\ call'[u].event = "CONNECT_SUCCESS" =>
             call'[u].pipe \in Pipes /\ told[call'[u].pipe] = Untold
  /\ \A p \in Pipes : \/ told'[p] = told[p]
                      \/ told'[p] \in Over
                      \/ told[p] = Untold /\ told'[p] # Untold
  /\ \A p \in Pipes : link'[p] = "open" => link[p] = "open" \/ told[p] = Untold

\* A connection that opens, fails, ends or takes its turn keeps the order.
LEMMA SilentKeepsGreet ==
  ASSUME IInv, GreetInv, NEW u \in Threads, Silent(u)
  PROVE  GreetInv'
<1>0. TypeOK
  BY DEF IInv, Agreement
<1>1. ASSUME NEW a \in Actors PROVE Greeting(a)'
  BY DEF Silent, GreetInv, Greeting, NoCall
<1>2. ASSUME NEW t \in Threads PROVE Unsent(t)'
  <2>1. CASE call'[t] = call[t]
    BY <2>1 DEF Silent, GreetInv, Unsent
  <2>2. CASE call'[t] # call[t]
    BY <2>2 DEF Silent, GreetInv, Unsent, Mute
  <2> QED BY <2>1, <2>2
<1>3. ASSUME NEW t \in Threads PROVE AudioAfter(t)'
  <2>1. ASSUME NEW p \in Pipes, link[p] = "open", text[p] = <<>>, p \in greeted
        PROVE  "meta" \in sent[p]
    <3>1. DOMAIN text[p] = {}
      BY <2>1
    <3> QED BY <2>1, <3>1 DEF GreetInv, Greeted
  <2> QED BY <2>1 DEF Silent, GreetInv, AudioAfter
<1>4. ASSUME NEW p \in Pipes PROVE Mute(p)' /\ Greeted(p)'
  <2>1. Mute(p)'
    <3>1. told'[p] \in {Untold, Refused} => told[p] \in {Untold, Refused}
      BY Tellings DEF Silent
    <3> QED BY <3>1 DEF Silent, GreetInv, Mute
  <2>2. Greeted(p)'
    <3>1. told[p] # Untold => told'[p] # Untold /\ (link'[p] = "open" => link[p] = "open")
      BY Tellings DEF Silent
    <3> QED BY <3>1 DEF Silent, GreetInv, Greeted
  <2> QED BY <2>1, <2>2
<1> QED BY <1>1, <1>2, <1>3, <1>4 DEF GreetInv

\* WRITEABLE sends on an open connection that is in no m_callback.
LEMMA SendingKeepsGreet ==
  ASSUME IInv, GreetInv, NEW u \in Threads, NEW p \in Pipes,
         vhd[p] = u, link[p] = "open", call[u] = NoCall,
         UNCHANGED <<at, doing, call, told, greeted>>,
         \A q \in Pipes \ {p} : text'[q] = text[q] /\ link'[q] = link[q] /\ sent'[q] = sent[q],
         sent[p] \subseteq sent'[p],
         p \in greeted =>
           \/ "meta" \in sent'[p]
           \/ link'[p] # "open" /\ sent'[p] = sent[p],
         \A t \in Threads : phase'[t] = "writing" => phase[t] = "writing" /\ work'[t] = work[t]
  PROVE  GreetInv'
<1>0. /\ TypeOK /\ PipeAgrees(p)
      /\ \A t \in Threads : CallAgrees(t)
  BY DEF IInv, Agreement
<1>1. \A q \in Pipes : sent[q] \subseteq sent'[q]
  OBVIOUS
<1>2. ASSUME NEW a \in Actors PROVE Greeting(a)'
  BY DEF GreetInv, Greeting
<1>3. ASSUME NEW t \in Threads PROVE Unsent(t)'
  <2>1. ASSUME call[t].event = "CONNECT_SUCCESS"
        PROVE  call[t].pipe \in Pipes \ {p}
    <3>1. call[t] # NoCall
      BY <2>1 DEF NoCall
    <3> QED BY <1>0, <3>1 DEF CallAgrees
  <2> QED BY <2>1 DEF GreetInv, Unsent
<1>4. ASSUME NEW t \in Threads PROVE AudioAfter(t)'
  <2>1. work[t] \subseteq Pipes
    BY <1>0 DEF TypeOK
  <2> QED BY <1>1, <2>1 DEF GreetInv, AudioAfter
<1>5. ASSUME NEW q \in Pipes PROVE Mute(q)' /\ Greeted(q)'
  <2>1. CASE q = p
    <3>1. told[p] = Connected
      BY <1>0 DEF PipeAgrees
    <3>2. Mute(p)'
      BY <3>1, Tellings DEF Mute
    <3>3. Greeted(p)'
      BY <3>1, Tellings DEF GreetInv, Greeted
    <3> QED BY <2>1, <3>2, <3>3
  <2>2. CASE q # p
    BY <2>2 DEF GreetInv, Mute, Greeted
  <2> QED BY <2>1, <2>2
<1> QED BY <1>2, <1>3, <1>4, <1>5 DEF GreetInv

\* The steps of a service thread outside of m_callback.
LEMMA ServiceKeepsGreet ==
  ASSUME IInv, ForkInv, GreetInv, NEW u \in Threads, ServiceStep(u),
         UNCHANGED <<local, greeted>>
  PROVE  GreetInv'
<1>0. /\ TypeOK /\ ForkTypeOK
      /\ \A p \in Pipes : PipeAgrees(p)
      /\ \A t \in Threads : CallAgrees(t) /\ WritingAgrees(t) /\ ConnectsAgree(t) /\ ClosedAgrees(t)
  BY ForkParts
<1>1. UNCHANGED <<at, greeted>>
  BY DEF local
<1>2. CASE UNCHANGED sent /\ \/ TakeConnects(u) \/ TakeDisconnects(u) \/ TakeWrites(u)
                             \/ EndCancelled(u)
                             \/ \E p \in Pipes : RequestWritable(u, p) \/ WriteEof(u, p)
                                                 \/ NoText(u, p)
  <2>1. UNCHANGED <<doing, text, call, told, link>>
    BY <1>2 DEF TakeConnects, TakeDisconnects, TakeWrites, EndCancelled, RequestWritable,
       WriteEof, NoText
  <2>2. ASSUME NEW t \in Threads, phase'[t] = "writing"
        PROVE  \/ phase[t] = "writing" /\ work'[t] = work[t]
               \/ \A p \in work'[t] : p \in Pipes /\ link[p] = "open" /\ text[p] = <<>>
    <3>1. CASE TakeConnects(u) \/ TakeDisconnects(u) \/ TakeWrites(u) \/ EndCancelled(u)
      BY <1>0, <2>2, <3>1 DEF TakeConnects, TakeDisconnects, TakeWrites, EndCancelled, TypeOK
    <3>2. CASE \E p \in Pipes : RequestWritable(u, p) \/ WriteEof(u, p)
      BY <1>0, <2>2, <3>2 DEF RequestWritable, WriteEof, TypeOK
    <3>3. CASE \E p \in Pipes : NoText(u, p)
      BY <1>0, <2>2, <3>3 DEF NoText, Writable, HasText, TypeOK
    <3> QED BY <1>2, <3>1, <3>2, <3>3
  <2> QED BY <1>1, <1>2, <2>1, <2>2, SilentKeepsGreet DEF Silent
<1>3. ASSUME NEW p \in Pipes, NEW e \in NotifyEvents, Notify(u, p, e), call[u] = NoCall,
             e = "CONNECT_SUCCESS" => told[p] = Untold,
             told[p] = Untold \/ Append(told[p], e) \in Over,
             Append(told[p], e) # Untold,
             \A q \in Pipes : link'[q] = "open" => link[q] = "open" \/ told[q] = Untold,
             \A t \in Threads : phase'[t] = "writing" => phase[t] = "writing" /\ work'[t] = work[t],
             UNCHANGED <<doing, text, sent>>
      PROVE  GreetInv'
  <2>1. /\ told'[p] = Append(told[p], e)
        /\ \A q \in Pipes \ {p} : told'[q] = told[q]
        /\ call'[u] = [event |-> e, pipe |-> p]
        /\ \A t \in Threads \ {u} : call'[t] = call[t]
    BY <1>0, <1>3, Notified
  <2>2. call'[u].event = e /\ call'[u].pipe = p
    BY <2>1
  <2>3. \A q \in Pipes : \/ told'[q] = told[q]
                         \/ told'[q] \in Over
                         \/ told[q] = Untold /\ told'[q] # Untold
    BY <1>3, <2>1
  <2> QED BY <1>1, <1>3, <2>1, <2>2, <2>3, SilentKeepsGreet DEF Silent
<1>4. ASSUME NEW p \in Pipes, UNCHANGED sent,
             \/ ConnectClient(u, p) \/ Established(u, p) \/ ConnectionError(u, p)
             \/ Receive(u, p) \/ Closed(u, p) \/ ClosedByFarEnd(u, p)
      PROVE  GreetInv'
  <2>1. /\ UNCHANGED <<doing, text>>
        /\ call[u] = NoCall
        /\ \A t \in Threads : phase'[t] = "writing" => phase[t] = "writing" /\ work'[t] = work[t]
    <3>1. CASE Closed(u, p) \/ ClosedByFarEnd(u, p)
      <4>1. \/ UNCHANGED <<phase, work>>
            \/ phase' = [phase EXCEPT ![u] = "closed"] /\ work' = [work EXCEPT ![u] = {p}]
            \/ phase' = [phase EXCEPT ![u] = "poll"] /\ work' = [work EXCEPT ![u] = {}]
        BY <3>1 DEF Closed, ClosedByFarEnd
      <4>2. UNCHANGED <<doing, text>> /\ call[u] = NoCall
        BY <1>0, <3>1 DEF Closed, ClosedByFarEnd, ClosedAgrees, Polling
      <4> QED BY <1>0, <4>1, <4>2 DEF TypeOK
    <3>2. CASE ConnectClient(u, p) \/ Established(u, p) \/ ConnectionError(u, p) \/ Receive(u, p)
      BY <1>0, <3>2 DEF ConnectClient, Established, ConnectionError, Receive, Polling, TypeOK
    <3> QED BY <1>4, <3>1, <3>2
  <2>2. ASSUME NEW q \in Pipes, link'[q] = "open" PROVE link[q] = "open" \/ told[q] = Untold
    <3>1. CASE ConnectClient(u, p)
      BY <1>0, <2>2, <3>1
      DEF ConnectClient, ConnectStarts, ConnectRefused, ConnectReturnsNull, TypeOK
    <3>2. CASE Established(u, p)
      BY <1>0, <2>2, <3>2 DEF Established, InConnects, PipeAgrees, TypeOK
    <3>3. CASE \/ ConnectionError(u, p) \/ Receive(u, p)
               \/ Closed(u, p) \/ ClosedByFarEnd(u, p)
      BY <1>0, <2>2, <3>3 DEF ConnectionError, Receive, Closed, ClosedByFarEnd, TypeOK
    <3> QED BY <1>4, <3>1, <3>2, <3>3
  <2>3. CASE UNCHANGED <<call, told>>
    BY <1>1, <1>4, <2>1, <2>2, <2>3, SilentKeepsGreet DEF Silent
  <2>4. CASE Receive(u, p)
    <3>1. /\ told' = told /\ call'[u].event = "MESSAGE"
          /\ \A t \in Threads \ {u} : call'[t] = call[t]
      BY <1>0, <2>4 DEF Receive, TypeOK
    <3> QED BY <1>1, <1>4, <2>1, <2>2, <3>1, SilentKeepsGreet DEF Silent
  <2>5. CASE /\ told[p] = Untold
             /\ Notify(u, p, "CONNECT_FAIL") \/ Notify(u, p, "CONNECT_SUCCESS")
    BY <1>3, <1>4, <2>1, <2>2, <2>5, Tellings DEF NotifyEvents
  <2>6. CASE Closed(u, p) \/ ClosedByFarEnd(u, p)
    <3>1. told[p] = Connected
      BY <1>0, <2>6 DEF Closed, ClosedByFarEnd, ClosedAgrees, PipeAgrees
    <3>2. \/ Notify(u, p, "CONNECTION_CLOSED_GRACEFULLY")
          \/ Notify(u, p, "CONNECTION_DROPPED")
          \/ UNCHANGED <<call, told>>
      BY <2>6 DEF Closed, ClosedByFarEnd
    <3> QED BY <1>3, <1>4, <2>1, <2>2, <2>3, <3>1, <3>2, Tellings DEF NotifyEvents
  <2>7. ConnectClient(u, p) => state[p] = "CONNECTING"
    BY <1>0 DEF ConnectClient, ConnectsAgree
  <2>8. state[p] = "CONNECTING" => told[p] = Untold
    BY <1>0 DEF PipeAgrees
  <2>9. CASE ConnectClient(u, p)
    BY <2>3, <2>5, <2>7, <2>8, <2>9
    DEF ConnectClient, ConnectStarts, ConnectRefused, ConnectReturnsNull
  <2>10. CASE Established(u, p) \/ ConnectionError(u, p)
    BY <2>3, <2>5, <2>8, <2>10 DEF Established, ConnectionError, InConnects
  <2> QED BY <1>4, <2>4, <2>6, <2>9, <2>10
<1>5. ASSUME NEW p \in Pipes, WriteText(u, p),
             IF link' = link THEN Sends(p, {text[p][i] : i \in DOMAIN text[p]})
                             ELSE UNCHANGED sent
      PROVE  GreetInv'
  <2>1. /\ vhd[p] = u /\ link[p] = "open" /\ call[u] = NoCall
        /\ UNCHANGED <<doing, call, told, phase, work>>
        /\ \A q \in Pipes \ {p} : text'[q] = text[q] /\ link'[q] = link[q]
    BY <1>0, <1>5 DEF WriteText, Writable, Polling, TypeOK
  <2>2. CASE link' = link
    <3>1. /\ sent'[p] = sent[p] \union {text[p][i] : i \in DOMAIN text[p]}
          /\ \A q \in Pipes \ {p} : sent'[q] = sent[q]
      BY <1>0, <1>5, <2>2 DEF Sends, ForkTypeOK
    <3>2. p \in greeted => "meta" \in sent'[p]
      BY <2>1, <3>1 DEF GreetInv, Greeted
    <3> QED BY <1>1, <2>1, <3>1, <3>2, SendingKeepsGreet
  <2>3. CASE link' # link
    <3>1. link'[p] # "open" /\ sent' = sent
      BY <1>0, <1>5, <2>3 DEF WriteText, TypeOK
    <3> QED BY <1>1, <2>1, <3>1, SendingKeepsGreet
  <2> QED BY <2>2, <2>3
<1>6. ASSUME NEW p \in Pipes, CloseOrWriteAudio(u, p), Sends(p, {"audio"}) \/ UNCHANGED sent
      PROVE  GreetInv'
  <2>1. /\ phase[u] = "writing" /\ p \in work[u]
        /\ vhd[p] = u /\ link[p] = "open" /\ call[u] = NoCall
        /\ UNCHANGED <<doing, call, told, text>>
        /\ \A q \in Pipes \ {p} : link'[q] = link[q]
        /\ \A t \in Threads : phase'[t] = "writing" => phase[t] = "writing" /\ work'[t] = work[t]
    BY <1>0, <1>6 DEF CloseOrWriteAudio, WritingAgrees, TypeOK
  <2>2. /\ sent[p] \subseteq sent'[p]
        /\ \A q \in Pipes \ {p} : sent'[q] = sent[q]
    BY <1>0, <1>6 DEF Sends, ForkTypeOK
  <2>3. p \in greeted => "meta" \in sent'[p]
    BY <2>1, <2>2 DEF GreetInv, AudioAfter
  <2> QED BY <1>1, <2>1, <2>2, <2>3, SendingKeepsGreet
<1> QED BY <1>2, <1>4, <1>5, <1>6 DEF ServiceStep, EventWaitCancelled, ServiceWrites

\* What ClientKeepsGreet asks of a step.
Apart(a) ==
  /\ UNCHANGED <<text, told, link, phase, work, greeted, sent>>
  /\ \A b \in Actors \ {a} : at'[b] = at[b] /\ doing'[b] = doing[b]

\* Commands, cleanups and the sessions' own steps.
LEMMA CommandKeepsGreet ==
  ASSUME IInv, ForkInv, GreetInv, NEW a \in Actors,
         \/ Command(a) \/ CommandGoesOn(a) \/ Cleanup(a)
         \/ a \in Sessions /\ Session(a)
  PROVE  GreetInv'
<1>0. TypeOK /\ ForkTypeOK
  BY ForkParts
<1>1. CASE \E s \in Sessions : \/ \E p \in Pipes : StartCapture(a, s, p)
                               \/ SendText(a, s) \/ PauseResume(a, s)
                               \/ Graceful(a, s) \/ Stop(a, s)
  <2>1. Apart(a) /\ call' = call
    BY <1>0, <1>1 DEF Apart, TypeOK, ForkTypeOK, StartCapture, Connect, Begins, SendText,
       PauseResume, Graceful, Stop, EnterCleanup, Goto, history, local, vars
  <2>2. /\ at'[a] \in {"idle", "start", "text", "graceful", "lock"}
    BY <1>0, <1>1 DEF ForkTypeOK, StartCapture, SendText, PauseResume, Graceful, Stop,
       EnterCleanup, Locates, Goto, local
  <2> QED BY <2>1, <2>2, ClientKeepsGreet DEF Apart
<1>2. CASE CommandGoesOn(a)
  <2>1. Apart(a) /\ call' = call
    <3>1. CASE StartConnects(a) \/ SendTextEnds(a) \/ GracefulEnds(a)
      <4>1. UNCHANGED <<text, told, link, phase, work, call, history>>
        BY <3>1 DEF StartConnects, SendTextEnds, GracefulEnds, WakeUp
      <4>2. doing' = [doing EXCEPT ![a] = Nothing]
        BY <3>1 DEF StartConnects, SendTextEnds, GracefulEnds, WakeUp
      <4>3. at' = [at EXCEPT ![a] = "adding"] \/ at' = [at EXCEPT ![a] = "idle"]
        BY <3>1 DEF StartConnects, SendTextEnds, GracefulEnds, Goto, Done
      <4> QED BY <1>0, <4>1, <4>2, <4>3 DEF Apart, TypeOK, ForkTypeOK, history
    <3>2. CASE AddBug(a) \/ AddBugFails(a) \/ PublishBug(a)
      BY <1>0, <3>2 DEF Apart, ForkTypeOK, AddBug, AddBugFails, PublishBug, Goto, Done,
         history, vars
    <3>3. CASE SendTextAccepted(a) \/ GracefulGoesOn(a)
      BY <1>0, <3>3 DEF Apart, TypeOK, ForkTypeOK, SendTextAccepted, GracefulGoesOn,
         GracefulShutdown, SendAccepted, Begins, Goto, history
    <3>4. CASE SendTextReturns(a)
      BY <1>0, <3>4 DEF Apart, ForkTypeOK, SendTextReturns, NotConnected, Refuses,
         StaleReturn, Goto, Done, history, vars
    <3> QED BY <1>2, <3>1, <3>2, <3>3, <3>4 DEF CommandGoesOn
  <2>2. at'[a] \in {"idle", "adding", "publish", "sending", "gracing"}
    BY <1>0, <1>2 DEF ForkTypeOK, CommandGoesOn, StartConnects, AddBug, AddBugFails,
       PublishBug, SendTextAccepted, SendTextReturns, SendTextEnds, GracefulGoesOn,
       GracefulEnds, Goto, Done
  <2> QED BY <2>1, <2>2, ClientKeepsGreet DEF Apart
<1>3. CASE Cleanup(a)
  <2>1. Apart(a) /\ call' = call
    <3>1. CASE CleanupLocked(a) \/ ClearBug(a) \/ CleanupWaits(a) \/ CleanupFaults(a)
               \/ CloseStarts(a)
      BY <1>0, <3>1 DEF Apart, TypeOK, ForkTypeOK, CleanupLocked, ClearBug, CleanupWaits,
         CleanupFaults, CloseStarts, ClientDies, CloseAccepted, Begins, Goto, forkVars, local,
         history, vars
    <3>2. CASE RemoveBug(a)
      BY <1>0, <3>2 DEF Apart, ForkTypeOK, RemoveBug, EnterCleanup, Goto, history, vars
    <3>3. CASE FinalTextAccepted(a) \/ FinalTextReturns(a) \/ FinalTextEnds(a)
      BY <1>0, <3>3 DEF Apart, TypeOK, ForkTypeOK, FinalTextAccepted, FinalTextReturns,
         FinalTextEnds, WakeUp, SendAccepted, Begins, NotConnected, Refuses, StaleReturn, Goto,
         history, vars
    <3>4. CASE CleanupEnds(a)
      BY <1>0, <3>4 DEF Apart, TypeOK, ForkTypeOK, CleanupEnds, Resumes, WakeUp, NotConnected,
         Refuses, StaleReturn, Goto, Done, history, vars
    <3> QED BY <1>3, <3>1, <3>2, <3>3, <3>4 DEF Cleanup
  <2>2. at'[a] \notin {"meta", "metasending"}
    <3>1. CASE CleanupLocked(a) \/ ClearBug(a)
      BY <1>0, <3>1 DEF ForkTypeOK, CleanupLocked, ClearBug, TellAndClose, Goto
    <3>3. CASE RemoveBug(a)
      BY <1>0, <3>3 DEF ForkTypeOK, RemoveBug, EnterCleanup, TellAndClose, Goto
    <3>4. CASE CleanupEnds(a)
      BY <1>0, <3>4 DEF ForkTypeOK, CleanupEnds, Resumes, TellAndClose, Goto, Done
    <3>2. CASE \/ CleanupWaits(a) \/ CleanupFaults(a) \/ FinalTextAccepted(a)
               \/ FinalTextReturns(a) \/ FinalTextEnds(a) \/ CloseStarts(a)
      BY <1>0, <3>2 DEF ForkTypeOK, CleanupWaits, CleanupFaults, FinalTextAccepted,
         FinalTextReturns, FinalTextEnds, CloseStarts, Goto, forkVars, local
    <3> QED BY <1>3, <3>1, <3>2, <3>3, <3>4 DEF Cleanup
  <2> QED BY <2>1, <2>2, ClientKeepsGreet DEF Apart
<1>4. CASE a \in Sessions /\ Hangup(a)
  <2>1. Apart(a) /\ UNCHANGED <<call, at, doing>>
    BY <1>4 DEF Apart, Hangup, local, history, vars
  <2> QED BY <2>1, ClientKeepsGreet DEF Apart, GreetInv, Greeting
<1>5. CASE \/ FrameEnds(a)
           \/ \E p \in Pipes : \/ CloseCallback(a, p) \/ Frame(a, p)
                               \/ FrameStale(a, p) \/ FrameFaults(a, p)
  <2>1. Apart(a) /\ call' = call
    <3>1. CASE FrameEnds(a)
      BY <1>0, <3>1 DEF Apart, TypeOK, ForkTypeOK, FrameEnds, WakeUp, Goto, Done, history
    <3>2. CASE \E p \in Pipes : CloseCallback(a, p)
      <4>1. UNCHANGED <<vars, history>>
        BY <3>2 DEF CloseCallback
      <4>2. UNCHANGED at \/ at' = [at EXCEPT ![a] = "lock"]
        BY <3>2 DEF CloseCallback, EnterCleanup, Goto
      <4> QED BY <1>0, <4>1, <4>2 DEF Apart, ForkTypeOK, history, vars
    <3>3. CASE \E p \in Pipes : Frame(a, p)
      BY <1>0, <3>3 DEF Apart, TypeOK, ForkTypeOK, Frame, SendAccepted, Begins, Goto, history
    <3>4. CASE \E p \in Pipes : FrameStale(a, p) \/ FrameFaults(a, p)
      BY <3>4 DEF Apart, FrameStale, FrameFaults, ClientDies, StaleReturn, forkVars, local,
         history
    <3> QED BY <1>5, <3>1, <3>2, <3>3, <3>4
  <2>2. at'[a] \in {"idle", "lock", "frame"}
    <3>1. CASE \E p \in Pipes : CloseCallback(a, p)
      <4>1. at[a] = "idle" /\ (UNCHANGED at \/ at' = [at EXCEPT ![a] = "lock"])
        BY <3>1 DEF CloseCallback, EnterCleanup, Goto
      <4> QED BY <1>0, <4>1 DEF ForkTypeOK
    <3>2. CASE FrameEnds(a) \/ \E p \in Pipes : Frame(a, p)
      BY <1>0, <3>2 DEF ForkTypeOK, FrameEnds, Frame, Goto, Done
    <3>3. CASE \E p \in Pipes : FrameStale(a, p) \/ FrameFaults(a, p)
      BY <3>3 DEF FrameStale, FrameFaults, FrameGoesOn, forkVars, local
    <3> QED BY <1>5, <3>1, <3>2, <3>3
  <2> QED BY <2>1, <2>2, ClientKeepsGreet DEF Apart
<1> QED BY <1>1, <1>2, <1>3, <1>4, <1>5 DEF Command, Session

\* m_callback.
LEMMA CallbackKeepsGreet ==
  ASSUME IInv, ForkInv, GreetInv, NEW t \in Threads, Callback(t)
  PROVE  GreetInv'
<1>0. TypeOK /\ ForkTypeOK /\ t \in Actors /\ Payloads \intersect Calls = {}
  BY ForkParts, ConstantsAssumption
<1>1. CASE EventCallback(t)
  <2>1. Apart(t) /\ call' = call
    BY <1>0, <1>1 DEF Apart, ForkTypeOK, EventCallback, Goto, history, vars
  <2>2. /\ at'[t] \in {"meta", "return"}
        /\ at'[t] = "meta" => call[t].event = "CONNECT_SUCCESS"
    BY <1>0, <1>1 DEF ForkTypeOK, EventCallback, Goto
  <2> QED BY <1>0, <2>1, <2>2, ClientKeepsGreet DEF Apart
<1>2. CASE MetadataAccepted(t)
  <2>1. Apart(t) /\ call' = call
    BY <1>0, <1>2 DEF Apart, TypeOK, ForkTypeOK, MetadataAccepted, SendAccepted, Begins, Goto,
       history
  <2>2. at[t] = "meta" /\ at'[t] = "metasending" /\ doing'[t].what = "meta"
    BY <1>0, <1>2 DEF TypeOK, ForkTypeOK, MetadataAccepted, SendAccepted, Begins, Goto
  <2> QED BY <1>0, <2>1, <2>2, ClientKeepsGreet DEF Apart
<1>3. CASE MetadataReturns(t) \/ MetadataEnds(t)
  <2>1. Apart(t) /\ call' = call /\ at'[t] = "return"
    BY <1>0, <1>3 DEF Apart, TypeOK, ForkTypeOK, MetadataReturns, MetadataEnds, WakeUp,
       NotConnected, Refuses, StaleReturn, Goto, history, vars
  <2> QED BY <1>0, <2>1, ClientKeepsGreet DEF Apart
<1>4. CASE MetadataFaults(t)
  <2>1. Apart(t) /\ call' = call /\ at'[t] = "meta" /\ at[t] = "meta"
    BY <1>0, <1>4 DEF Apart, MetadataFaults, ClientDies, forkVars, local, history
  <2> QED BY <1>0, <2>1, ClientKeepsGreet DEF Apart
<1>5. CASE EventReturns(t)
  <2>1. /\ Apart(t) /\ at'[t] = "idle"
        /\ call' = [call EXCEPT ![t] = NoCall]
    BY <1>0, <1>5 DEF Apart, ForkTypeOK, EventReturns, CallbackReturns, Done, Goto, history
  <2> QED BY <1>0, <2>1, ClientKeepsGreet DEF Apart
<1> QED BY <1>1, <1>2, <1>3, <1>4, <1>5 DEF Callback

\* Any step.
LEMMA GreetKeeps ==
  ASSUME IInv, ForkInv, GreetInv, [ForkNext]_allVars
  PROVE  GreetInv'
<1>0. Callers \subseteq Actors /\ Sessions \subseteq Actors
  BY ForkParts
<1>1. CASE UNCHANGED allVars
  <2>1. UNCHANGED <<at, doing, call, phase, work, told, link, text, greeted, sent>>
    BY <1>1 DEF allVars, vars, forkVars, local, history
  <2> QED BY <2>1 DEF GreetInv, Greeting, Unsent, AudioAfter, Mute, Greeted
<1>2. CASE PipeStep
  BY <1>2, ServiceKeepsGreet DEF PipeStep
<1> QED BY <1>0, <1>1, <1>2, CommandKeepsGreet, CallbackKeepsGreet, StoredKeepsGreet
        DEF ForkNext

(***************************************************************************)
(* A pipe whose CONNECT_SUCCESS stored the initial metadata in it sends no *)
(* audio before: WRITEABLE comes after m_callback, and takes text first.   *)
(***************************************************************************)
THEOREM MetadataBeforeAudioHolds == ForkSpec => []MetadataBeforeAudio
<1>1. ForkInit => GreetInv
  BY DEF ForkInit, Init, GreetInv, Greeting, Unsent, AudioAfter, Mute, Greeted, NoCall
<1>2. IInv /\ ForkInv /\ GreetInv /\ [ForkNext]_allVars => GreetInv'
  BY GreetKeeps
<1>3. IInv /\ ForkInv /\ GreetInv => MetadataBeforeAudio
  <2> SUFFICES ASSUME ForkInv, GreetInv PROVE MetadataBeforeAudio
    OBVIOUS
  <2>1. greeted \subseteq Pipes
    BY DEF ForkInv, ForkTypeOK
  <2> QED BY <2>1 DEF GreetInv, Greeted, MetadataBeforeAudio
<1> QED BY <1>1, <1>2, <1>3, ForkInvHolds, PTL DEF ForkSpec

=============================================================================
