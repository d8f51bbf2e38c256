--------------------------- MODULE TranscribeProofs ---------------------------
(***************************************************************************)
(* Proofs about Transcribe, for any number of streams and callers: IInv is *)
(* inductive, and what follows from it.  One lemma per action, and in it   *)
(* one step per part of the invariant.  The last two sections are about    *)
(* the commands that run beside each other: which bugs are on the session, *)
(* and which cleanup destroys a resampler.                                 *)
(***************************************************************************)
EXTENDS Transcribe, TLAPS

\* The session's thread is an actor and no caller; None is nobody.
LEMMA NamesFacts ==
  /\ Media \in Actors /\ None \notin Actors /\ None \notin Streams
  /\ \A c \in Callers : c \in Actors /\ c # Media
  /\ \A a \in Actors : a \in Callers \/ a = Media
  BY NamesAssumption DEF Actors

\* What the invariant consists of, for the lemmas to cite.
LEMMA Parts ==
  IInv => /\ TypeOK /\ MediaAgrees /\ NamedBugIsAttached
          /\ \A r \in Streams : StreamAgrees(r)
          /\ \A b \in Actors : HolderAgrees(b)
          /\ \A d \in Callers : CallerAgrees(d)
          /\ \A b \in Actors : at[b] \notin {"idle", "start"} => cur[b] \in Streams
  BY DEF IInv, HolderAgrees

(***************************************************************************)
(* Who has a stream's mutex is alone with it.                              *)
(***************************************************************************)
LEMMA HoldsAlone ==
  ASSUME IInv, NEW a \in Actors, NEW b \in Actors, Holds(a), Holds(b), cur[a] = cur[b]
  PROVE  a = b
  BY DEF IInv, HolderAgrees

-----------------------------------------------------------------------------
(* The steps of a command before its cleanup.                              *)

(***************************************************************************)
(* A start step is the caller's own business: the stream it makes is known *)
(* to nobody else.                                                         *)
(***************************************************************************)
LEMMA StartStreamKeeps ==
  ASSUME IInv, NEW c \in Callers, NEW s \in Streams, StartStream(c, s)
  PROVE  IInv'
<1>0. alone' = alone /\ raced' \subseteq Streams
  BY Parts DEF StartStream, TypeOK
<1>1. /\ at[c] = "start" /\ streamer[s] = "none" /\ Fresh(s)
      /\ UNCHANGED <<channel, gotEnd, writesDone, holder, halfClosed, destroyed, late>>
      /\ streamer' = [streamer EXCEPT ![s] = "live"]
      /\ reader' = [reader EXCEPT ![s] = "waiting"]
      /\ at' = [at EXCEPT ![c] = "adding"]
      /\ cur' = [cur EXCEPT ![c] = s]
      /\ after' = [after EXCEPT ![c] = "idle"]
  BY Parts DEF StartStream, NewStream, GotoOn, StreamAgrees
<1>2. /\ \A r \in Streams \ {s} :
           /\ vad'[r] = vad[r] /\ single'[r] = single[r]
           /\ connected'[r] = connected[r] /\ promised'[r] = promised[r]
      /\ promised'[s] <= 1 /\ (promised'[s] = 1 => connected'[s])
      /\ vad' \in [Streams -> BOOLEAN] /\ single' \in [Streams -> BOOLEAN]
      /\ connected' \in [Streams -> BOOLEAN] /\ promised' \in [Streams -> 0..2]
  <2>1. PICK v \in BOOLEAN, one \in BOOLEAN :
          /\ vad' = [vad EXCEPT ![s] = v]
          /\ single' = [single EXCEPT ![s] = one]
          /\ connected' = [connected EXCEPT ![s] = ~v]
          /\ promised' = IF v THEN promised ELSE Once(promised, s)
    BY DEF StartStream
  <2>2. promised[s] = 0 /\ promised \in [Streams -> 0..2]
    BY Parts, <1>1 DEF TypeOK, Fresh
  <2>3. CASE v
    BY Parts, <2>1, <2>2, <2>3 DEF TypeOK
  <2>4. CASE ~v
    <3>1. promised' = [promised EXCEPT ![s] = 1]
      BY <2>1, <2>2, <2>4 DEF Once
    <3>2. connected' = [connected EXCEPT ![s] = TRUE]
      BY <2>1, <2>4
    <3>3. vad' \in [Streams -> BOOLEAN] /\ single' \in [Streams -> BOOLEAN]
      BY Parts, <2>1 DEF TypeOK
    <3> QED BY Parts, <2>1, <2>2, <3>1, <3>2, <3>3 DEF TypeOK
  <2> QED BY <2>3, <2>4
<1>3. TypeOK'
  BY Parts, <1>0, <1>1, <1>2, NamesFacts
     DEF TypeOK, channel, StartSteps, Readers
<1>4. ASSUME NEW r \in Streams PROVE StreamAgrees(r)'
  BY Parts, <1>1, <1>2, NamesFacts DEF StreamAgrees, Fresh, Ending, TypeOK, channel
<1>5. ASSUME NEW a \in Actors PROVE HolderAgrees(a)'
  BY Parts, <1>1, <1>2, NamesFacts DEF HolderAgrees, Holds, TypeOK, channel, Fresh
<1>6. ASSUME NEW b \in Callers PROVE CallerAgrees(b)'
  BY Parts, <1>1, NamesFacts
     DEF CallerAgrees, Holds, TypeOK, channel, Fresh, FrameSteps, CleanupSteps
<1>7. MediaAgrees' /\ NamedBugIsAttached'
  BY Parts, <1>1, NamesFacts
     DEF MediaAgrees, NamedBugIsAttached, channel, TypeOK, Fresh, FrameSteps, CleanupSteps
<1> QED BY <1>3, <1>4, <1>5, <1>6, <1>7 DEF IInv

(***************************************************************************)
(* A caller that begins a command, or ends one with nothing done.          *)
(***************************************************************************)
LEMMA CommandKeeps ==
  ASSUME IInv, NEW c \in Callers,
         Start(c) \/ Stop(c) \/ StartFails(c) \/ AddBugFails(c)
  PROVE  IInv'
<1>0. alone' \in Callers \union {None} /\ raced' \subseteq Streams
  BY Parts, NamesFacts DEF Start, Stop, StartFails, AddBugFails, BesideStarts, commands, TypeOK
<1>1. /\ UNCHANGED <<stream, channel, reader, history>>
      /\ at[c] \in {"idle", "start", "adding"}
      /\ \E step \in {"idle", "start", "lock"}, s \in Streams \union {None},
            ret \in {"idle", "start"} :
           /\ at' = [at EXCEPT ![c] = step]
           /\ cur' = [cur EXCEPT ![c] = s]
           /\ after' = [after EXCEPT ![c] = ret]
           /\ step = "lock" => s \in Streams
           /\ s = bug \/ s = None \/ s = cur[c]
           /\ step # "lock" => s = None \/ (at[c] = "idle" /\ s = cur[c])
  BY Parts, NamesFacts DEF Start, Stop, StartFails, AddBugFails, Goto, GotoOn, Leave,
     Previous, TypeOK
<1>2. TypeOK'
  BY Parts, <1>0, <1>1, NamesFacts
     DEF TypeOK, stream, channel, history, StartSteps, CleanupSteps, FrameSteps
<1>3. ASSUME NEW r \in Streams PROVE StreamAgrees(r)'
  BY Parts, <1>1, NamesFacts
     DEF StreamAgrees, Fresh, Ending, TypeOK, stream, channel, history
<1>4. ASSUME NEW b \in Actors PROVE HolderAgrees(b)'
  BY Parts, <1>1, NamesFacts DEF HolderAgrees, Holds, TypeOK, stream, channel, history
<1>5. ASSUME NEW d \in Callers PROVE CallerAgrees(d)'
  <2>1. at[d] \in {"adding", "publish"} => cur[d] \in Streams
    BY Parts, NamesFacts DEF HolderAgrees
  <2>2. CASE d = c
    BY Parts, <1>1, <2>2, NamesFacts
       DEF CallerAgrees, Holds, TypeOK, FrameSteps, CleanupSteps
  <2>3. CASE d # c
    BY Parts, <1>1, <2>1, <2>3, NamesFacts
       DEF CallerAgrees, Holds, TypeOK, stream, channel, FrameSteps
  <2> QED BY <2>2, <2>3
<1>6. MediaAgrees' /\ NamedBugIsAttached'
  BY Parts, <1>1, NamesFacts
     DEF MediaAgrees, NamedBugIsAttached, TypeOK, stream, channel, history,
         StartSteps, CleanupSteps, FrameSteps
<1> QED BY <1>2, <1>3, <1>4, <1>5, <1>6 DEF IInv

(***************************************************************************)
(* start puts the bug on the session, and names it.                        *)
(***************************************************************************)
LEMMA AddBugKeeps ==
  ASSUME IInv, NEW c \in Callers, AddBug(c)
  PROVE  IInv'
<1>0. UNCHANGED <<alone, raced>>
  BY DEF commands, AddBug
<1>1. /\ UNCHANGED <<stream, reader, history, up, bug, cur, after>>
      /\ at[c] = "adding" /\ up /\ cur[c] \in Streams /\ streamer[cur[c]] = "live"
      /\ attached' = attached \union {cur[c]}
      /\ at' = [at EXCEPT ![c] = "publish"]
  BY Parts, NamesFacts DEF AddBug, Goto, CallerAgrees
<1>2. TypeOK'
  BY Parts, <1>0, <1>1, NamesFacts DEF TypeOK, stream, history, StartSteps
<1>3. ASSUME NEW r \in Streams PROVE StreamAgrees(r)'
  BY Parts, <1>1, NamesFacts DEF StreamAgrees, Fresh, Ending, TypeOK, stream, history
<1>4. ASSUME NEW b \in Actors PROVE HolderAgrees(b)'
  BY Parts, <1>1, NamesFacts DEF HolderAgrees, Holds, TypeOK, stream, history
<1>5. ASSUME NEW d \in Callers PROVE CallerAgrees(d)'
  BY Parts, <1>1, NamesFacts
     DEF CallerAgrees, Holds, TypeOK, stream, FrameSteps, CleanupSteps
<1>6. MediaAgrees' /\ NamedBugIsAttached'
  BY Parts, <1>1, NamesFacts
     DEF MediaAgrees, NamedBugIsAttached, TypeOK, stream, FrameSteps, CleanupSteps
<1> QED BY <1>2, <1>3, <1>4, <1>5, <1>6 DEF IInv

\* The channel names the new bug, which is on the session or hung up.
LEMMA PublishBugKeeps ==
  ASSUME IInv, NEW c \in Callers, PublishBug(c)
  PROVE  IInv'
<1>0. UNCHANGED <<alone, raced>>
  BY DEF commands, PublishBug
<1>1. /\ UNCHANGED <<stream, reader, history, up, attached>>
      /\ at[c] = "publish" /\ cur[c] \in Streams
      /\ ~up \/ cur[c] \in attached
      /\ bug' = cur[c]
      /\ at' = [at EXCEPT ![c] = "idle"]
      /\ cur' = [cur EXCEPT ![c] = None]
      /\ after' = [after EXCEPT ![c] = "idle"]
  BY Parts, NamesFacts DEF PublishBug, Leave, GotoOn, CallerAgrees
<1>2. TypeOK'
  BY Parts, <1>0, <1>1, NamesFacts DEF TypeOK, stream, history
<1>3. ASSUME NEW r \in Streams PROVE StreamAgrees(r)'
  BY Parts, <1>1, NamesFacts DEF StreamAgrees, Fresh, Ending, TypeOK, stream, history
<1>4. ASSUME NEW b \in Actors PROVE HolderAgrees(b)'
  BY Parts, <1>1, NamesFacts DEF HolderAgrees, Holds, TypeOK, stream, history
<1>5. ASSUME NEW d \in Callers PROVE CallerAgrees(d)'
  BY Parts, <1>1, NamesFacts
     DEF CallerAgrees, Holds, TypeOK, stream, FrameSteps, CleanupSteps
<1>6. MediaAgrees' /\ NamedBugIsAttached'
  BY Parts, <1>1, NamesFacts
     DEF MediaAgrees, NamedBugIsAttached, TypeOK, stream, FrameSteps, CleanupSteps
<1> QED BY <1>2, <1>3, <1>4, <1>5, <1>6 DEF IInv

(***************************************************************************)
(* The session hangs up and closes its bugs.                               *)
(***************************************************************************)
LEMMA HangupKeeps ==
  ASSUME IInv, Hangup
  PROVE  IInv'
<1>0. UNCHANGED <<alone, raced>>
  BY DEF commands, Hangup
<1>1. /\ UNCHANGED <<stream, reader, history, bug, attached, where>>
      /\ up' = FALSE
  BY DEF Hangup
<1>2. TypeOK'
  BY Parts, <1>0, <1>1, NamesFacts DEF TypeOK, stream, history, where
<1>3. ASSUME NEW r \in Streams PROVE StreamAgrees(r)'
  BY Parts, <1>1, NamesFacts
     DEF StreamAgrees, Fresh, Ending, TypeOK, stream, history, where
<1>4. ASSUME NEW b \in Actors PROVE HolderAgrees(b)'
  BY Parts, <1>1, NamesFacts DEF HolderAgrees, Holds, TypeOK, stream, history, where
<1>5. ASSUME NEW d \in Callers PROVE CallerAgrees(d)'
  BY Parts, <1>1, NamesFacts DEF CallerAgrees, Holds, TypeOK, stream, where
<1>6. MediaAgrees' /\ NamedBugIsAttached'
  BY Parts, <1>1, NamesFacts
     DEF MediaAgrees, NamedBugIsAttached, TypeOK, stream, where
<1> QED BY <1>2, <1>3, <1>4, <1>5, <1>6 DEF IInv

\* A bug is taken off the session, and its cleanup begins.
LEMMA CloseCallbackKeeps ==
  ASSUME IInv, NEW s \in Streams, CloseCallback(s)
  PROVE  IInv'
<1>0. UNCHANGED <<alone, raced>>
  BY DEF commands, CloseCallback
<1>1. /\ UNCHANGED <<stream, reader, history, up, bug>>
      /\ at[Media] = "idle" /\ ~up /\ s \in attached
      /\ attached' = attached \ {s}
      /\ at' = [at EXCEPT ![Media] = "lock"]
      /\ cur' = [cur EXCEPT ![Media] = s]
      /\ after' = [after EXCEPT ![Media] = "idle"]
  BY DEF CloseCallback, OnClose, GotoOn
<1>2. TypeOK'
  BY Parts, <1>0, <1>1, NamesFacts DEF TypeOK, stream, history, CleanupSteps
<1>3. ASSUME NEW r \in Streams PROVE StreamAgrees(r)'
  BY Parts, <1>1, NamesFacts DEF StreamAgrees, Fresh, Ending, TypeOK, stream, history
<1>4. ASSUME NEW b \in Actors PROVE HolderAgrees(b)'
  BY Parts, <1>1, NamesFacts DEF HolderAgrees, Holds, TypeOK, stream, history
<1>5. ASSUME NEW d \in Callers PROVE CallerAgrees(d)'
  BY Parts, <1>1, NamesFacts
     DEF CallerAgrees, Holds, TypeOK, stream, FrameSteps, CleanupSteps
<1>6. MediaAgrees' /\ NamedBugIsAttached'
  BY Parts, <1>1, NamesFacts
     DEF MediaAgrees, NamedBugIsAttached, TypeOK, stream, FrameSteps, CleanupSteps
<1> QED BY <1>2, <1>3, <1>4, <1>5, <1>6 DEF IInv

-----------------------------------------------------------------------------
(* The steps of a cleanup: each knows that it has the mutex.               *)

\* The race branch: nothing was done.
LEMMA CleanupReturnsKeeps ==
  ASSUME IInv, NEW a \in Actors, CleanupReturns(a)
  PROVE  IInv'
<1>0. UNCHANGED <<alone, raced>>
  BY DEF commands, CleanupReturns
<1>1. /\ UNCHANGED <<stream, channel, reader, history>>
      /\ at[a] = "lock"
      /\ after[a] \in {"idle", "start"} /\ (a = Media => after[a] = "idle")
      /\ at' = [at EXCEPT ![a] = after[a]]
      /\ cur' = [cur EXCEPT ![a] = None]
      /\ after' = [after EXCEPT ![a] = "idle"]
  BY Parts DEF CleanupReturns, Leave, GotoOn, TypeOK, MediaAgrees
<1>2. TypeOK'
  BY Parts, <1>0, <1>1, NamesFacts DEF TypeOK, stream, channel, history, StartSteps
<1>3. ASSUME NEW r \in Streams PROVE StreamAgrees(r)'
  BY Parts, <1>1, NamesFacts
     DEF StreamAgrees, Fresh, Ending, TypeOK, stream, channel, history
<1>4. ASSUME NEW b \in Actors PROVE HolderAgrees(b)'
  BY Parts, <1>1, NamesFacts DEF HolderAgrees, Holds, TypeOK, stream, history
<1>5. ASSUME NEW d \in Callers PROVE CallerAgrees(d)'
  BY Parts, <1>1, NamesFacts
     DEF CallerAgrees, Holds, TypeOK, stream, channel, FrameSteps, CleanupSteps
<1>6. MediaAgrees' /\ NamedBugIsAttached'
  BY Parts, <1>1, NamesFacts
     DEF MediaAgrees, NamedBugIsAttached, TypeOK, stream, channel, FrameSteps,
         CleanupSteps
<1> QED BY <1>2, <1>3, <1>4, <1>5, <1>6 DEF IInv

\* The mutex was free: nobody else is inside.
LEMMA CleanupLocksKeeps ==
  ASSUME IInv, NEW a \in Actors, CleanupLocks(a)
  PROVE  IInv'
<1>0. UNCHANGED <<alone, raced>>
  BY DEF commands, CleanupLocks
<1>1. /\ UNCHANGED <<up, attached, streamer, vad, single, gotEnd, connected,
                     writesDone, reader, history, cur, after>>
      /\ at[a] = "lock" /\ cur[a] \in Streams
      /\ holder[cur[a]] = None
      /\ holder' = [holder EXCEPT ![cur[a]] = a]
      /\ bug' = None
      /\ at' = [at EXCEPT ![a] = "closing"]
  BY Parts DEF CleanupLocks, Locks, ClearPrivate, Goto
<1>2. TypeOK'
  <2>1. at' \in [Actors -> {"idle"} \union FrameSteps \union CleanupSteps \union StartSteps]
    BY Parts, <1>1 DEF TypeOK, CleanupSteps
  <2>2. holder' \in [Streams -> Actors \union {None}]
    BY Parts, <1>1 DEF TypeOK
  <2> QED BY Parts, <1>0, <1>1, <2>1, <2>2 DEF TypeOK, history
<1>3. ASSUME NEW r \in Streams PROVE StreamAgrees(r)'
  BY Parts, <1>1, NamesFacts DEF StreamAgrees, Fresh, Ending, TypeOK, history
<1>4. ASSUME NEW b \in Actors PROVE HolderAgrees(b)'
  BY Parts, <1>1, NamesFacts DEF HolderAgrees, Holds, TypeOK, history
<1>5. ASSUME NEW d \in Callers PROVE CallerAgrees(d)'
  BY Parts, <1>1, NamesFacts DEF CallerAgrees, Holds, TypeOK, FrameSteps, CleanupSteps
<1>6. MediaAgrees' /\ NamedBugIsAttached'
  BY Parts, <1>1, NamesFacts
     DEF MediaAgrees, NamedBugIsAttached, TypeOK, FrameSteps, CleanupSteps
<1> QED BY <1>2, <1>3, <1>4, <1>5, <1>6 DEF IInv

\* A stream that is live and not connected was not promised anything yet.
LEMMA CleanupClosesKeeps ==
  ASSUME IInv, NEW a \in Actors, CleanupCloses(a)
  PROVE  IInv'
<1>0. UNCHANGED <<alone, raced>>
  BY DEF commands, CleanupCloses
<1>1. \A b \in Actors \ {a} : Holds(b) => cur[b] # cur[a]
  BY Parts, NamesFacts, HoldsAlone DEF Holds, CleanupCloses
<1>2. /\ UNCHANGED <<stream, channel, reader, halfClosed, destroyed, late, cur, after>>
      /\ at[a] = "closing" /\ cur[a] \in Streams
      /\ \E step \in {"destroying", "joining", "calling"} :
           /\ at' = [at EXCEPT ![a] = step]
           /\ step # "destroying" => streamer[cur[a]] = "live"
           /\ step = "calling" => halfClosed[cur[a]] = 0
           /\ \/ promised' = promised
              \/ /\ promised' = [promised EXCEPT ![cur[a]] = 1]
                 /\ step = "joining"
  <2>1. CASE streamer[cur[a]] = "live" /\ NotConnected(cur[a])
    <3>1. promised[cur[a]] = 0
      BY Parts, <2>1, <1>1
         DEF CleanupCloses, StreamAgrees, Ending, Holds, NotConnected, TypeOK
    <3>2. promised' = Once(promised, cur[a]) /\ at' = [at EXCEPT ![a] = "joining"]
      BY <2>1 DEF CleanupCloses, Cancel, Goto
    <3> QED BY Parts, <2>1, <3>1, <3>2 DEF CleanupCloses, Goto, Once, TypeOK
  <2>2. CASE ~(streamer[cur[a]] = "live" /\ NotConnected(cur[a]))
    <3>1. at[a] = "closing" /\ cur[a] \in Streams
      BY Parts DEF CleanupCloses
    <3>2. ~writesDone[cur[a]] => halfClosed[cur[a]] = 0
      BY Parts, <3>1 DEF StreamAgrees, TypeOK
    <3> QED BY Parts, <2>2, <3>1, <3>2 DEF CleanupCloses, Goto
  <2> QED BY <2>1, <2>2
<1>3. TypeOK'
  BY Parts, <1>0, <1>2, <1>1, NamesFacts DEF TypeOK, stream, channel, CleanupSteps
<1>4. ASSUME NEW r \in Streams PROVE StreamAgrees(r)'
  BY Parts, <1>2, <1>1, NamesFacts
     DEF StreamAgrees, Fresh, Ending, TypeOK, stream, channel
<1>5. ASSUME NEW b \in Actors PROVE HolderAgrees(b)'
  BY Parts, <1>2, <1>1, NamesFacts DEF HolderAgrees, Holds, TypeOK, stream
<1>6. ASSUME NEW d \in Callers PROVE CallerAgrees(d)'
  BY Parts, <1>2, <1>1, NamesFacts
     DEF CallerAgrees, Holds, TypeOK, FrameSteps, CleanupSteps, stream, channel
<1>7. MediaAgrees' /\ NamedBugIsAttached'
  BY Parts, <1>2, <1>1, NamesFacts
     DEF MediaAgrees, NamedBugIsAttached, TypeOK, FrameSteps, CleanupSteps, stream,
         channel
<1> QED BY <1>3, <1>4, <1>5, <1>6, <1>7 DEF IInv

\* The call of WritesDone.
LEMMA CleanupCallsKeeps ==
  ASSUME IInv, NEW a \in Actors, CleanupCalls(a)
  PROVE  IInv'
<1>0. UNCHANGED <<alone, raced>>
  BY DEF commands, CleanupCalls
<1>1. /\ UNCHANGED <<channel, streamer, vad, single, gotEnd, connected, holder,
                     reader, promised, destroyed, late, cur, after>>
      /\ at[a] = "calling" /\ cur[a] \in Streams /\ streamer[cur[a]] = "live"
      /\ ~single[cur[a]] => halfClosed[cur[a]] = 0
      /\ halfClosed' = Once(halfClosed, cur[a])
      /\ writesDone' = [writesDone EXCEPT ![cur[a]] = TRUE]
      /\ at' = [at EXCEPT ![a] = "joining"]
  BY Parts DEF CleanupCalls, Goto, HolderAgrees
<1>2. \A b \in Actors \ {a} : Holds(b) => cur[b] # cur[a]
  BY Parts, <1>1, NamesFacts, HoldsAlone DEF Holds
<1>3. TypeOK'
  BY Parts, <1>0, <1>1, <1>2, NamesFacts DEF TypeOK, Once, channel, CleanupSteps
<1>4. ASSUME NEW r \in Streams PROVE StreamAgrees(r)'
  BY Parts, <1>1, <1>2, NamesFacts
     DEF StreamAgrees, Fresh, Ending, TypeOK, Once, channel
<1>5. ASSUME NEW b \in Actors PROVE HolderAgrees(b)'
  BY Parts, <1>1, <1>2, NamesFacts DEF HolderAgrees, Holds, TypeOK, Once
<1>6. ASSUME NEW d \in Callers PROVE CallerAgrees(d)'
  BY Parts, <1>1, <1>2, NamesFacts
     DEF CallerAgrees, Holds, TypeOK, FrameSteps, CleanupSteps, channel
<1>7. MediaAgrees' /\ NamedBugIsAttached'
  BY Parts, <1>1, <1>2, NamesFacts
     DEF MediaAgrees, NamedBugIsAttached, TypeOK, FrameSteps, CleanupSteps, channel
<1> QED BY <1>3, <1>4, <1>5, <1>6, <1>7 DEF IInv

\* The delete: who could use the stream would have to hold the mutex.
LEMMA CleanupJoinsKeeps ==
  ASSUME IInv, NEW a \in Actors, CleanupJoins(a)
  PROVE  IInv'
<1>0. UNCHANGED <<alone, raced>>
  BY DEF commands, CleanupJoins
<1>1. /\ UNCHANGED <<channel, vad, single, gotEnd, connected, writesDone, holder,
                     reader, history, cur, after>>
      /\ at[a] = "joining" /\ cur[a] \in Streams /\ streamer[cur[a]] = "live"
      /\ reader[cur[a]] = "exited"
      /\ streamer' = [streamer EXCEPT ![cur[a]] = "deleted"]
      /\ at' = [at EXCEPT ![a] = "destroying"]
      /\ a = Media => cur[a] \notin attached
  BY Parts DEF CleanupJoins, Joined, Goto, HolderAgrees, MediaAgrees, CleanupSteps
<1>2. \A b \in Actors \ {a} : Holds(b) => cur[b] # cur[a]
  BY Parts, <1>1, NamesFacts, HoldsAlone DEF Holds
<1>3. TypeOK'
  BY Parts, <1>0, <1>1, <1>2, NamesFacts DEF TypeOK, history, channel, CleanupSteps
<1>4. ASSUME NEW r \in Streams PROVE StreamAgrees(r)'
  BY Parts, <1>1, <1>2, NamesFacts
     DEF StreamAgrees, Fresh, Ending, TypeOK, history, channel
<1>5. ASSUME NEW b \in Actors PROVE HolderAgrees(b)'
  BY Parts, <1>1, <1>2, NamesFacts DEF HolderAgrees, Holds, TypeOK, history
<1>6. ASSUME NEW d \in Callers PROVE CallerAgrees(d)'
  BY Parts, <1>1, <1>2, NamesFacts
     DEF CallerAgrees, Holds, TypeOK, FrameSteps, CleanupSteps, channel
<1>7. MediaAgrees' /\ NamedBugIsAttached'
  BY Parts, <1>1, <1>2, NamesFacts
     DEF MediaAgrees, NamedBugIsAttached, Holds, TypeOK, FrameSteps, CleanupSteps,
         channel
<1> QED BY <1>3, <1>4, <1>5, <1>6, <1>7 DEF IInv

\* The resampler and the VAD.
LEMMA CleanupDestroysKeeps ==
  ASSUME IInv, NEW a \in Actors, CleanupDestroys(a)
  PROVE  IInv'
<1>0. UNCHANGED <<alone, raced>>
  BY DEF commands, CleanupDestroys
<1>1. /\ UNCHANGED <<channel, streamer, single, gotEnd, connected, writesDone,
                     holder, reader, promised, halfClosed, late, cur, after>>
      /\ at[a] = "destroying" /\ cur[a] \in Streams
      /\ destroyed' = Once(destroyed, cur[a])
      /\ vad' = [vad EXCEPT ![cur[a]] = FALSE]
      /\ at' = [at EXCEPT ![a] = "removing"]
  BY Parts DEF CleanupDestroys, Goto
<1>2. TypeOK'
  BY Parts, <1>0, <1>1, NamesFacts DEF TypeOK, Once, channel, CleanupSteps
<1>3. ASSUME NEW r \in Streams PROVE StreamAgrees(r)'
  BY Parts, <1>1, NamesFacts DEF StreamAgrees, Fresh, Ending, TypeOK, channel
<1>4. ASSUME NEW b \in Actors PROVE HolderAgrees(b)'
  BY Parts, <1>1, NamesFacts DEF HolderAgrees, Holds, TypeOK
<1>5. ASSUME NEW d \in Callers PROVE CallerAgrees(d)'
  BY Parts, <1>1, NamesFacts
     DEF CallerAgrees, Holds, TypeOK, FrameSteps, CleanupSteps, channel
<1>6. MediaAgrees' /\ NamedBugIsAttached'
  BY Parts, <1>1, NamesFacts
     DEF MediaAgrees, NamedBugIsAttached, TypeOK, FrameSteps, CleanupSteps, channel
<1> QED BY <1>2, <1>3, <1>4, <1>5, <1>6 DEF IInv

\* The bug leaves the session before the mutex is free again.
LEMMA CleanupRemovesKeeps ==
  ASSUME IInv, NEW a \in Actors, CleanupRemoves(a)
  PROVE  IInv'
<1>0. UNCHANGED <<alone, raced>>
  BY DEF commands, CleanupRemoves
<1>1. /\ UNCHANGED <<up, streamer, vad, single, gotEnd, connected, writesDone,
                     reader, promised, halfClosed, late>>
      /\ at[a] = "removing" /\ cur[a] \in Streams
      /\ a # Media => at[Media] \notin FrameSteps /\ attached' = attached \ {cur[a]}
                     /\ bug # cur[a]
      /\ a = Media => attached' = attached /\ after[a] = "idle"
      /\ bug' = bug \/ bug' = None
      /\ destroyed' = destroyed \/ destroyed' = Once(destroyed, cur[a])
      /\ holder' = [holder EXCEPT ![cur[a]] = None]
      /\ after[a] \in {"idle", "start"}
      /\ at' = [at EXCEPT ![a] = after[a]]
      /\ cur' = [cur EXCEPT ![a] = None]
      /\ after' = [after EXCEPT ![a] = "idle"]
  BY Parts, NamesFacts
     DEF CleanupRemoves, Leave, GotoOn, Unlocks, ClearPrivate, TypeOK, MediaAgrees,
     CallerAgrees, Holds, CleanupSteps
<1>2. \A b \in Actors \ {a} : Holds(b) => cur[b] # cur[a]
  BY Parts, <1>1, NamesFacts, HoldsAlone DEF Holds
<1>3. TypeOK'
  <2>1. destroyed' \in [Streams -> 0..2]
    BY Parts, <1>1 DEF TypeOK, Once
  <2>2. holder' \in [Streams -> Actors \union {None}]
    BY Parts, <1>1 DEF TypeOK
  <2>3. at' \in [Actors -> {"idle"} \union FrameSteps \union CleanupSteps \union StartSteps]
    BY Parts, <1>1 DEF TypeOK, StartSteps
  <2>4. attached' \subseteq Streams /\ bug' \in Streams \union {None}
    BY Parts, <1>1 DEF TypeOK
  <2> QED BY Parts, <1>0, <1>1, <2>1, <2>2, <2>3, <2>4 DEF TypeOK
<1>4. ASSUME NEW r \in Streams PROVE StreamAgrees(r)'
  BY Parts, <1>1, <1>2, NamesFacts DEF StreamAgrees, Fresh, Ending, TypeOK
<1>5. ASSUME NEW b \in Actors PROVE HolderAgrees(b)'
  BY Parts, <1>1, <1>2, NamesFacts DEF HolderAgrees, Holds, TypeOK
<1>6. ASSUME NEW d \in Callers PROVE CallerAgrees(d)'
  BY Parts, <1>1, <1>2, NamesFacts
     DEF CallerAgrees, Holds, TypeOK, FrameSteps, CleanupSteps
<1>7. MediaAgrees' /\ NamedBugIsAttached'
  BY Parts, <1>1, <1>2, NamesFacts
     DEF MediaAgrees, NamedBugIsAttached, TypeOK, FrameSteps, CleanupSteps
<1> QED BY <1>3, <1>4, <1>5, <1>6, <1>7 DEF IInv

-----------------------------------------------------------------------------
(* The steps of a frame.                                                   *)

\* A frame that begins, or is refused the mutex.
LEMMA FrameWalks ==
  ASSUME IInv, FrameRefused \/ \E s \in Streams : FrameBegins(s)
  PROVE  IInv'
<1>0. UNCHANGED <<alone, raced>>
  BY DEF commands, FrameRefused, FrameBegins
<1>1. /\ UNCHANGED <<stream, channel, reader, history>>
      /\ at[Media] \in {"idle", "frame"}
      /\ \E step \in {"idle", "frame"}, s \in Streams \union {None} :
           /\ at' = [at EXCEPT ![Media] = step]
           /\ cur' = [cur EXCEPT ![Media] = s]
           /\ after' = [after EXCEPT ![Media] = "idle"]
           /\ step = "frame" => s \in Streams
           /\ s # None => s \in attached
  BY Parts DEF FrameRefused, FrameBegins, Leave, GotoOn
<1>2. TypeOK'
  BY Parts, <1>0, <1>1, NamesFacts DEF TypeOK, stream, channel, history, FrameSteps
<1>3. ASSUME NEW r \in Streams PROVE StreamAgrees(r)'
  BY Parts, <1>1, NamesFacts
     DEF StreamAgrees, Fresh, Ending, TypeOK, stream, channel, history
<1>4. ASSUME NEW b \in Actors PROVE HolderAgrees(b)'
  BY Parts, <1>1, NamesFacts DEF HolderAgrees, Holds, TypeOK, stream, history
<1>5. ASSUME NEW d \in Callers PROVE CallerAgrees(d)'
  BY Parts, <1>1, NamesFacts
     DEF CallerAgrees, Holds, TypeOK, stream, channel, FrameSteps, CleanupSteps
<1>6. MediaAgrees' /\ NamedBugIsAttached'
  BY Parts, <1>1, NamesFacts
     DEF MediaAgrees, NamedBugIsAttached, TypeOK, stream, channel, FrameSteps,
         CleanupSteps
<1> QED BY <1>2, <1>3, <1>4, <1>5, <1>6 DEF IInv

\* The mutex was free and the bug is on the session: the stream is live.
LEMMA FrameLocksKeeps ==
  ASSUME IInv, FrameLocks
  PROVE  IInv'
<1>0. UNCHANGED <<alone, raced>>
  BY DEF commands, FrameLocks
<1>1. /\ UNCHANGED <<streamer, vad, single, gotEnd, connected, writesDone,
                     channel, reader, history, cur, after>>
      /\ at[Media] = "frame" /\ cur[Media] \in Streams /\ cur[Media] \in attached
      /\ holder[cur[Media]] = None
      /\ holder' = [holder EXCEPT ![cur[Media]] = Media]
      /\ at' = [at EXCEPT ![Media] = "locked"]
  BY Parts, NamesFacts DEF FrameLocks, Locks, Goto, MediaAgrees, FrameSteps
<1>2. streamer[cur[Media]] = "live"
  <2>1. streamer[cur[Media]] # "none"
    BY Parts, <1>1 DEF StreamAgrees, Fresh
  <2>2. streamer[cur[Media]] # "deleted"
    BY Parts, <1>1, NamesFacts DEF StreamAgrees, HolderAgrees, Holds
  <2> QED BY Parts, <1>1, <2>1, <2>2 DEF TypeOK
<1>3. TypeOK'
  BY Parts, <1>0, <1>1, <1>2, NamesFacts DEF TypeOK, channel, history, FrameSteps
<1>4. ASSUME NEW r \in Streams PROVE StreamAgrees(r)'
  BY Parts, <1>1, <1>2, NamesFacts
     DEF StreamAgrees, Fresh, Ending, TypeOK, channel, history
<1>5. ASSUME NEW b \in Actors PROVE HolderAgrees(b)'
  BY Parts, <1>1, <1>2, NamesFacts DEF HolderAgrees, Holds, TypeOK, history
<1>6. ASSUME NEW d \in Callers PROVE CallerAgrees(d)'
  BY Parts, <1>1, <1>2, NamesFacts
     DEF CallerAgrees, Holds, TypeOK, channel, FrameSteps, CleanupSteps
<1>7. MediaAgrees' /\ NamedBugIsAttached'
  BY Parts, <1>1, <1>2, NamesFacts
     DEF MediaAgrees, NamedBugIsAttached, TypeOK, channel, FrameSteps, CleanupSteps
<1> QED BY <1>3, <1>4, <1>5, <1>6, <1>7 DEF IInv

\* connect(): nobody has set the promise of a stream that is live and not
\* connected while a frame has its mutex.
LEMMA FrameConnectsKeeps ==
  ASSUME IInv, FrameConnects
  PROVE  IInv'
<1>0. UNCHANGED <<alone, raced>>
  BY DEF commands, FrameConnects
<1>1. /\ UNCHANGED <<streamer, vad, single, gotEnd, writesDone, holder, channel,
                     reader, halfClosed, destroyed, late, cur, after>>
      /\ at[Media] = "locked" /\ cur[Media] \in Streams /\ cur[Media] \in attached
      /\ streamer[cur[Media]] = "live" /\ ~connected[cur[Media]]
      /\ connected' = [connected EXCEPT ![cur[Media]] = TRUE]
      /\ promised' = Once(promised, cur[Media])
      /\ at' = [at EXCEPT ![Media] = "config"]
  BY Parts, NamesFacts DEF FrameConnects, Goto, MediaAgrees, FrameSteps
<1>2. \A b \in Actors \ {Media} : Holds(b) => cur[b] # cur[Media]
  BY Parts, <1>1, NamesFacts, HoldsAlone DEF Holds
<1>3. promised' = [promised EXCEPT ![cur[Media]] = 1]
  <2>1. promised[cur[Media]] = 0
    BY Parts, <1>1, <1>2, NamesFacts DEF StreamAgrees, Ending, Holds, TypeOK
  <2> QED BY Parts, <1>1, <2>1 DEF Once, TypeOK
<1>4. TypeOK'
  BY Parts, <1>0, <1>1, <1>2, <1>3, NamesFacts DEF TypeOK, channel, FrameSteps
<1>5. ASSUME NEW r \in Streams PROVE StreamAgrees(r)'
  BY Parts, <1>1, <1>2, <1>3, NamesFacts
     DEF StreamAgrees, Fresh, Ending, TypeOK, channel
<1>6. ASSUME NEW b \in Actors PROVE HolderAgrees(b)'
  BY Parts, <1>1, <1>2, <1>3, NamesFacts DEF HolderAgrees, Holds, TypeOK
<1>7. ASSUME NEW d \in Callers PROVE CallerAgrees(d)'
  BY Parts, <1>1, <1>2, <1>3, NamesFacts
     DEF CallerAgrees, Holds, TypeOK, channel, FrameSteps, CleanupSteps
<1>8. MediaAgrees' /\ NamedBugIsAttached'
  BY Parts, <1>1, <1>2, <1>3, NamesFacts
     DEF MediaAgrees, NamedBugIsAttached, TypeOK, channel, FrameSteps, CleanupSteps
<1> QED BY <1>4, <1>5, <1>6, <1>7, <1>8 DEF IInv

(***************************************************************************)
(* What a frame writes, it writes to a stream that nobody is ending.       *)
(***************************************************************************)
LEMMA FrameWritesKeeps ==
  ASSUME IInv, FrameConfigures \/ FrameDrains \/ FrameWrites
  PROVE  IInv'
<1>0. UNCHANGED <<alone, raced>>
  BY DEF commands, FrameConfigures, FrameDrains, FrameWrites
<1>1. /\ UNCHANGED <<stream, channel, reader, promised, halfClosed, destroyed, cur, after>>
      /\ at[Media] \in {"locked", "config", "draining"}
      /\ cur[Media] \in Streams /\ cur[Media] \in attached
      /\ streamer[cur[Media]] = "live"
      /\ Writes(cur[Media]) \/ UNCHANGED late
      /\ \E step \in {"locked", "draining"} : at' = [at EXCEPT ![Media] = step]
  BY Parts, NamesFacts
     DEF FrameConfigures, FrameDrains, FrameWrites, Goto, where, MediaAgrees, FrameSteps, TypeOK
<1>2. \A b \in Actors \ {Media} : Holds(b) => cur[b] # cur[Media]
  BY Parts, <1>1, NamesFacts, HoldsAlone DEF Holds
<1>3. /\ late' \in [Streams -> BOOLEAN]
      /\ \A r \in Streams : ~single[r] => ~late'[r]
      /\ \A r \in Streams : r # cur[Media] => late'[r] = late[r]
  <2>1. ~single[cur[Media]] => halfClosed[cur[Media]] = 0
    BY Parts, <1>1, <1>2, NamesFacts DEF StreamAgrees, Ending, Holds, TypeOK
  <2> QED BY Parts, <1>1, <2>1 DEF Writes, TypeOK, StreamAgrees
<1>4. TypeOK'
  BY Parts, <1>0, <1>1, <1>2, <1>3, NamesFacts DEF TypeOK, stream, channel, FrameSteps
<1>5. ASSUME NEW r \in Streams PROVE StreamAgrees(r)'
  BY Parts, <1>1, <1>2, <1>3, NamesFacts
     DEF StreamAgrees, Fresh, Ending, TypeOK, stream, channel
<1>6. ASSUME NEW b \in Actors PROVE HolderAgrees(b)'
  BY Parts, <1>1, <1>2, <1>3, NamesFacts DEF HolderAgrees, Holds, TypeOK, stream
<1>7. ASSUME NEW d \in Callers PROVE CallerAgrees(d)'
  BY Parts, <1>1, <1>2, <1>3, NamesFacts
     DEF CallerAgrees, Holds, TypeOK, stream, channel, FrameSteps, CleanupSteps
<1>8. MediaAgrees' /\ NamedBugIsAttached'
  BY Parts, <1>1, <1>2, <1>3, NamesFacts
     DEF MediaAgrees, NamedBugIsAttached, TypeOK, stream, channel, FrameSteps,
         CleanupSteps
<1> QED BY <1>4, <1>5, <1>6, <1>7, <1>8 DEF IInv

\* The unlock.
LEMMA FrameEndsKeeps ==
  ASSUME IInv, FrameEnds
  PROVE  IInv'
<1>0. UNCHANGED <<alone, raced>>
  BY DEF commands, FrameEnds
<1>1. /\ UNCHANGED <<streamer, vad, single, gotEnd, connected, writesDone,
                     channel, reader, history>>
      /\ at[Media] = "locked" /\ cur[Media] \in Streams
      /\ holder' = [holder EXCEPT ![cur[Media]] = None]
      /\ at' = [at EXCEPT ![Media] = "idle"]
      /\ cur' = [cur EXCEPT ![Media] = None]
      /\ after' = [after EXCEPT ![Media] = "idle"]
  BY Parts, NamesFacts DEF FrameEnds, Unlocks, Leave, GotoOn
<1>2. \A b \in Actors \ {Media} : Holds(b) => cur[b] # cur[Media]
  BY Parts, <1>1, NamesFacts, HoldsAlone DEF Holds
<1>3. TypeOK'
  BY Parts, <1>0, <1>1, <1>2, NamesFacts DEF TypeOK, channel, history
<1>4. ASSUME NEW r \in Streams PROVE StreamAgrees(r)'
  BY Parts, <1>1, <1>2, NamesFacts
     DEF StreamAgrees, Fresh, Ending, TypeOK, channel, history
<1>5. ASSUME NEW b \in Actors PROVE HolderAgrees(b)'
  BY Parts, <1>1, <1>2, NamesFacts DEF HolderAgrees, Holds, TypeOK, history
<1>6. ASSUME NEW d \in Callers PROVE CallerAgrees(d)'
  BY Parts, <1>1, <1>2, NamesFacts
     DEF CallerAgrees, Holds, TypeOK, channel, FrameSteps, CleanupSteps
<1>7. MediaAgrees' /\ NamedBugIsAttached'
  BY Parts, <1>1, <1>2, NamesFacts
     DEF MediaAgrees, NamedBugIsAttached, TypeOK, channel, FrameSteps, CleanupSteps
<1> QED BY <1>3, <1>4, <1>5, <1>6, <1>7 DEF IInv

-----------------------------------------------------------------------------
(***************************************************************************)
(* A step of a read thread: it moves itself only, and half-closes a stream *)
(* only if a single utterance was asked for.                               *)
(***************************************************************************)
LEMMA ReaderKeeps ==
  ASSUME IInv, NEW s \in Streams, ReaderNext(s)
  PROVE  IInv'
<1>0. UNCHANGED <<alone, raced>>
  BY DEF commands, ReaderNext, ReaderGoesOn, ReaderConnects, ReaderCloses, ReaderCalls, ReadGone,
     ReadEndOfUtterance, ReadEnds
<1>1. /\ UNCHANGED <<channel, where, streamer, vad, single, connected, holder,
                     promised, destroyed, late>>
      /\ reader[s] \notin {"none", "exited"}
      /\ \E step \in Readers \ {"none"} : reader' = [reader EXCEPT ![s] = step]
  BY Parts DEF ReaderNext, ReaderGoesOn, ReaderConnects, ReadGone, ReadEndOfUtterance,
     ReaderCloses, ReaderCalls, ReadEnds, ReaderIs, stream, channel, where, history,
     Readers, TypeOK
<1>2. /\ gotEnd' \in [Streams -> BOOLEAN]
      /\ halfClosed' \in [Streams -> 0..2]
      /\ writesDone' \in [Streams -> BOOLEAN]
      /\ \A r \in Streams :
           /\ writesDone[r] \/ halfClosed'[r] > halfClosed[r] => writesDone'[r]
           /\ r # s \/ ~single[r] => halfClosed'[r] = halfClosed[r]
           /\ ~single[r] => reader'[r] \notin {"utterance", "calling"}
  <2>0. \A r \in Streams : /\ writesDone[r] \in BOOLEAN /\ halfClosed[r] \in 0..2
                           /\ ~single[r] => reader[r] \notin {"utterance", "calling"}
    <3>1. \A r \in Streams : writesDone[r] \in BOOLEAN /\ halfClosed[r] \in 0..2
      BY Parts DEF TypeOK
    <3>2. \A r \in Streams : ~single[r] => reader[r] \notin {"utterance", "calling"}
      BY Parts DEF StreamAgrees
    <3> QED BY <3>1, <3>2
  <2>1. CASE ReaderCalls(s)
    <3>1. single[s] /\ halfClosed'[s] \in 0..2
      BY <2>0, <2>1, Parts DEF ReaderCalls, Once, TypeOK
    <3>2. /\ \A r \in Streams : writesDone'[r] = (r = s \/ writesDone[r])
          /\ \A r \in Streams \ {s} : halfClosed'[r] = halfClosed[r]
          /\ halfClosed' \in [Streams -> 0..2] /\ writesDone' \in [Streams -> BOOLEAN]
          /\ gotEnd' \in [Streams -> BOOLEAN]
      BY Parts, <2>0, <2>1, <3>1 DEF ReaderCalls, Once, TypeOK
    <3>3. reader' = [reader EXCEPT ![s] = "reading"] /\ reader \in [Streams -> Readers]
      BY Parts, <2>1 DEF ReaderCalls, ReaderIs, TypeOK
    <3> QED BY <2>0, <3>1, <3>2, <3>3
  <2>2. CASE ReaderConnects(s) \/ ReadGone(s) \/ ReadEndOfUtterance(s) \/ ReaderCloses(s)
             \/ ReadEnds(s)
    <3>1. UNCHANGED <<halfClosed, writesDone>> /\ gotEnd' \in [Streams -> BOOLEAN]
      BY Parts, <2>2 DEF ReaderConnects, ReadGone, ReadEndOfUtterance, ReaderCloses,
         ReadEnds, stream, history, TypeOK
    <3>2. ASSUME NEW r \in Streams, ~single[r]
          PROVE  reader'[r] \notin {"utterance", "calling"}
      BY Parts, <2>0, <2>2, <3>2 DEF ReaderConnects, ReadGone, ReadEndOfUtterance,
         ReaderCloses, ReadEnds, ReaderIs, TypeOK
    <3> QED BY Parts, <2>0, <3>1, <3>2 DEF TypeOK
  <2> QED BY <2>1, <2>2 DEF ReaderNext, ReaderGoesOn
<1>3. TypeOK'
  <2>1. reader' \in [Streams -> Readers]
    BY Parts, <1>1 DEF TypeOK
  <2> QED BY Parts, <1>0, <1>1, <1>2, <2>1 DEF TypeOK, channel, where
<1>4. ASSUME NEW r \in Streams PROVE StreamAgrees(r)'
  BY Parts, <1>1, <1>2
     DEF StreamAgrees, Fresh, Ending, TypeOK, channel, where, Readers
<1>5. ASSUME NEW a \in Actors PROVE HolderAgrees(a)'
  BY Parts, <1>1, <1>2 DEF HolderAgrees, Holds, channel, where
<1>6. ASSUME NEW c \in Callers PROVE CallerAgrees(c)'
  BY Parts, <1>1 DEF CallerAgrees, Holds, channel, where
<1>7. MediaAgrees' /\ NamedBugIsAttached'
  BY Parts, <1>1 DEF MediaAgrees, NamedBugIsAttached, channel, where
<1> QED BY <1>3, <1>4, <1>5, <1>6, <1>7 DEF IInv

-----------------------------------------------------------------------------
(* The theorems.                                                           *)

\* Every step keeps the invariant.
LEMMA NextKeeps ==
  ASSUME IInv, [Next]_vars
  PROVE  IInv'
<1>1. ASSUME NEW c \in Callers, Command(c) \/ StartGoesOn(c) PROVE IInv'
  BY <1>1, CommandKeeps, StartStreamKeeps, AddBugKeeps, PublishBugKeeps
     DEF Command, StartGoesOn
<1>2. ASSUME NEW a \in Actors, CleanupGoesOn(a) PROVE IInv'
  BY <1>2, CleanupReturnsKeeps, CleanupLocksKeeps, CleanupClosesKeeps,
     CleanupCallsKeeps,
     CleanupJoinsKeeps, CleanupDestroysKeeps, CleanupRemovesKeeps DEF CleanupGoesOn
<1>3. CASE MediaNext
  BY <1>3, HangupKeeps, CloseCallbackKeeps, FrameWalks, FrameLocksKeeps,
     FrameConnectsKeeps, FrameWritesKeeps, FrameEndsKeeps DEF MediaNext, FrameGoesOn
<1>4. ASSUME NEW s \in Streams, ReaderNext(s) PROVE IInv'
  BY <1>4, ReaderKeeps
<1>5. CASE UNCHANGED vars
  BY <1>5
     DEF vars, stream, channel, where, commands, history, IInv, TypeOK, StreamAgrees, Fresh,
     Ending, HolderAgrees, Holds, CallerAgrees, MediaAgrees, NamedBugIsAttached
<1> QED BY <1>1, <1>2, <1>3, <1>4, <1>5 DEF Next

\* It holds at first.
LEMMA InitHolds == Init => IInv
  BY NamesFacts
     DEF Init, IInv, TypeOK, StreamAgrees, Fresh, Ending, HolderAgrees, Holds,
         CallerAgrees, MediaAgrees, NamedBugIsAttached, FrameSteps, CleanupSteps, Readers

(***************************************************************************)
(* In every reachable state, for any number of streams and of threads that *)
(* give commands, the life of each stream, the mutexes and what every      *)
(* thread knows agree (google_glue.cpp, mod_google_transcribe.c).          *)
(***************************************************************************)
THEOREM IInvHolds == Spec => []IInv
<1>1. IInv /\ [Next]_vars => IInv'
  BY NextKeeps
<1> QED BY InitHolds, <1>1, PTL DEF Spec

\* The variables of the model have their types.
THEOREM TypeCorrect == Spec => []TypeOK
<1>1. IInv => TypeOK
  BY DEF IInv
<1> QED BY IInvHolds, <1>1, PTL

\* No GStreamer is deleted while its read thread, a frame that has the mutex or
\* a cleanup still uses it (google_speech_session_cleanup, google_speech_frame).
THEOREM StreamerInUseHolds == Spec => []StreamerInUse
<1>1. IInv => StreamerInUse
  BY DEF IInv, StreamerInUse, StreamAgrees, Fresh, HolderAgrees, MediaAgrees, TypeOK
<1> QED BY IInvHolds, <1>1, PTL

\* connect() and cancelConnect() never both set a stream's promise, nor one of
\* them twice.
THEOREM PromiseSetOnceHolds == Spec => []PromiseSetOnce
<1>1. IInv => PromiseSetOnce
  BY DEF IInv, PromiseSetOnce, StreamAgrees
<1> QED BY IInvHolds, <1>1, PTL

\* Unless a single utterance was asked for, WritesDone is called once and
\* nothing is written after it.
THEOREM WritesDoneLastHolds == Spec => []WritesDoneLast
<1>1. IInv => WritesDoneLast
  BY DEF IInv, WritesDoneLast, StreamAgrees
<1> QED BY IInvHolds, <1>1, PTL

\* While the session lives, the bug its channel names is on it, whatever
\* commands race (start_capture, do_stop).
THEOREM NamedBugIsAttachedHolds == Spec => []NamedBugIsAttached
<1>1. IInv => NamedBugIsAttached
  BY DEF IInv
<1> QED BY IInvHolds, <1>1, PTL
-----------------------------------------------------------------------------
(* Commands that run beside each other.                                    *)

(***************************************************************************)
(* While a start that raced with none is under way no other command runs,  *)
(* and until the hangup the bugs on the session all raced once it has      *)
(* stopped the old one.                                                    *)
(***************************************************************************)
StartAlone(c) ==
  /\ alone = c \/ (at[c] \in {"adding", "publish"} /\ cur[c] \notin raced) => Quiet(c)
  /\ up /\ at[c] = "start" /\ alone = c => attached \subseteq raced
  /\ up /\ at[c] = "adding" /\ cur[c] \notin raced => attached \subseteq raced

HasLock(c) == at[c] \in {"closing", "calling", "joining", "destroying", "removing"}

\* Of a named bug that raced with none there is no start under way, and no
\* cleanup but those that wait for its own mutex.
NamedAlone ==
  bug # None /\ bug \notin raced =>
    \A c \in Callers : /\ at[c] \notin StartSteps
                       /\ ~HasLock(c)
                       /\ at[c] = "lock" => cur[c] = bug

\* Until the hangup its channel names it, or is about to, or a cleanup removes it.
AttachedKnown(s) ==
  up /\ s \notin raced =>
    \/ bug = s
    \/ \E c \in Callers : cur[c] = s /\ (at[c] = "publish" \/ HasLock(c))

\* The inductive invariant of the bugs on the session.
RaceInv ==
  /\ OneStreamAttached
  /\ \A c \in Callers : StartAlone(c)
  /\ NamedAlone
  /\ \A s \in attached : AttachedKnown(s)

(***************************************************************************)
(* A step that names no stream and attaches none, and in which a caller at *)
(* most gives up a start, gives up waiting, or goes on with a cleanup.     *)
(***************************************************************************)
GoesAside(c) ==
  \/ at'[c] = at[c] /\ cur'[c] = cur[c]
  \/ at[c] \in {"start", "adding", "lock"} /\ at'[c] = "idle"
  \/ HasLock(c) /\ HasLock(c)' /\ cur'[c] = cur[c]

LEMMA AsideKeepsRace ==
  ASSUME RaceInv, UNCHANGED <<bug, alone, raced>>, attached' \subseteq attached, up' => up,
         \A c \in Callers : GoesAside(c)
  PROVE  RaceInv'
<1>1. \A c \in Callers :
        /\ at[c] = "idle" => at'[c] = "idle"
        /\ at'[c] \in StartSteps => at'[c] = at[c] /\ cur'[c] = cur[c]
        /\ at'[c] = "lock" => at[c] = "lock" /\ cur'[c] = cur[c]
        /\ HasLock(c)' => HasLock(c)
        /\ at[c] = "publish" \/ HasLock(c) =>
             cur'[c] = cur[c] /\ (at'[c] = "publish" \/ HasLock(c)')
  BY DEF GoesAside, HasLock, StartSteps
<1>2. OneStreamAttached'
  BY DEF RaceInv, OneStreamAttached
<1>3. ASSUME NEW c \in Callers PROVE StartAlone(c)'
  <2>1. Quiet(c) => Quiet(c)'
    BY <1>1 DEF Quiet
  <2>2. StartAlone(c) /\ (at'[c] \in StartSteps => at'[c] = at[c] /\ cur'[c] = cur[c])
    BY <1>1 DEF RaceInv
  <2> QED BY <2>1, <2>2 DEF StartAlone, StartSteps
<1>4. NamedAlone'
  BY <1>1 DEF RaceInv, NamedAlone
<1>5. ASSUME NEW s \in attached' PROVE AttachedKnown(s)'
  <2>1. AttachedKnown(s)
    BY DEF RaceInv
  <2> QED BY <1>1, <2>1 DEF AttachedKnown
<1> QED BY <1>2, <1>3, <1>4, <1>5 DEF RaceInv

\* A command begins, beside those that run.
LEMMA CommandKeepsRace ==
  ASSUME IInv, RaceInv, NEW c \in Callers, Start(c) \/ Stop(c)
  PROVE  RaceInv'
<1>0. TypeOK /\ c \in Actors /\ Callers \subseteq Actors /\ None \notin Callers
  BY Parts, NamesFacts, NamesAssumption DEF Actors
<1>1. /\ at[c] = "idle" /\ up /\ UNCHANGED <<up, bug, attached>>
      /\ at'[c] \in {"lock", "start"}
      /\ at'[c] = "lock" => cur'[c] = bug
      /\ at'[c] = "start" => bug = None
      /\ \A d \in Callers \ {c} : at'[d] = at[d] /\ cur'[d] = cur[d]
  BY <1>0 DEF Start, Stop, Previous, Goto, GotoOn, channel, TypeOK
<1>2. /\ raced \subseteq raced'
      /\ \A d \in Callers : at[d] \in {"adding", "publish"} => cur[d] \in raced'
  BY DEF Start, Stop, BesideStarts
<1>3. alone' = None \/ (alone' = c /\ Quiet(c))
  BY DEF Start, Stop
<1>4. OneStreamAttached'
  BY <1>1, <1>2 DEF RaceInv, OneStreamAttached
<1>5. ASSUME NEW d \in Callers PROVE StartAlone(d)'
  <2>1. CASE d = c
    <3>1. alone' = c => Quiet(c)'
      BY <1>0, <1>1, <1>3 DEF Quiet
    <3>2. ASSUME at'[c] = "start", alone' = c, NEW s \in attached, s \notin raced PROVE FALSE
      <4>1. bug = None /\ s \in Streams /\ AttachedKnown(s)
        BY <1>0, <1>1, <3>2 DEF TypeOK, RaceInv
      <4>2. PICK e \in Callers : at[e] = "publish" \/ HasLock(e)
        BY <1>0, <1>1, <3>2, <4>1, NamesFacts DEF AttachedKnown
      <4> QED BY <1>0, <1>1, <1>3, <3>2, <4>2 DEF Quiet, HasLock
    <3> QED BY <1>1, <1>2, <2>1, <3>1, <3>2 DEF StartAlone
  <2>2. CASE d # c
    BY <1>0, <1>1, <1>2, <1>3, <2>2 DEF StartAlone
  <2> QED BY <2>1, <2>2
<1>6. NamedAlone'
  BY <1>1, <1>2 DEF RaceInv, NamedAlone, HasLock, StartSteps
<1>7. ASSUME NEW s \in attached' PROVE AttachedKnown(s)'
  <2>1. AttachedKnown(s)
    BY <1>1 DEF RaceInv
  <2>2. \A d \in Callers : at[d] = "publish" \/ HasLock(d) => d # c
    BY <1>1 DEF HasLock
  <2> QED BY <1>1, <1>2, <2>1, <2>2 DEF AttachedKnown, HasLock
<1> QED BY <1>4, <1>5, <1>6, <1>7 DEF RaceInv

\* The new stream raced, or no other command runs.
LEMMA StartStreamKeepsRace ==
  ASSUME IInv, RaceInv, NEW c \in Callers, NEW s \in Streams, StartStream(c, s)
  PROVE  RaceInv'
<1>0. TypeOK /\ c \in Actors /\ Callers \subseteq Actors /\ Fresh(s)
  BY Parts, NamesFacts DEF StartStream, NewStream, StreamAgrees
<1>1. /\ at[c] = "start" /\ UNCHANGED <<alone, up, bug, attached>>
      /\ at'[c] = "adding" /\ cur'[c] = s
      /\ \A d \in Callers \ {c} : at'[d] = at[d] /\ cur'[d] = cur[d]
      /\ raced' = raced \/ (raced' = raced \union {s})
      /\ s \notin raced' => alone = c
      /\ raced \subseteq raced'
  BY <1>0 DEF StartStream, GotoOn, channel, TypeOK
<1>2. OneStreamAttached'
  BY <1>1 DEF RaceInv, OneStreamAttached
<1>3. ASSUME NEW d \in Callers PROVE StartAlone(d)'
  <2>1. StartAlone(d) /\ (Quiet(d) => Quiet(d)')
    BY <1>0, <1>1 DEF RaceInv, Quiet
  <2> QED BY <1>1, <2>1 DEF StartAlone
<1>4. NamedAlone'
  BY <1>0, <1>1 DEF RaceInv, NamedAlone, StartSteps, Fresh
<1>5. ASSUME NEW r \in attached' PROVE AttachedKnown(r)'
  <2>1. AttachedKnown(r)
    BY <1>1 DEF RaceInv
  <2>2. \A d \in Callers : at[d] = "publish" \/ HasLock(d) => d # c
    BY <1>1 DEF HasLock
  <2> QED BY <1>1, <2>1, <2>2 DEF AttachedKnown, HasLock
<1> QED BY <1>2, <1>3, <1>4, <1>5 DEF RaceInv

\* The bug is the only one that raced with none; the channel names it.
LEMMA NewBugKeepsRace ==
  ASSUME IInv, RaceInv, NEW c \in Callers, AddBug(c) \/ PublishBug(c)
  PROVE  RaceInv'
<1>0. /\ TypeOK /\ c \in Actors /\ Callers \subseteq Actors /\ StartAlone(c)
      /\ None \notin Streams /\ CallerAgrees(c) /\ at[c] \in {"adding", "publish"}
      /\ cur[c] \in Streams
  BY Parts, NamesFacts DEF RaceInv, AddBug, PublishBug
<1>1. CASE AddBug(c)
  <2>1. /\ at[c] = "adding" /\ up /\ UNCHANGED <<alone, raced, up, bug, cur>>
        /\ attached' = attached \union {cur[c]}
        /\ at'[c] = "publish" /\ \A d \in Callers \ {c} : at'[d] = at[d]
    BY <1>0, <1>1 DEF AddBug, Goto, commands, TypeOK
  <2>2. OneStreamAttached'
    BY <1>0, <2>1 DEF RaceInv, OneStreamAttached, StartAlone
  <2>3. ASSUME NEW d \in Callers PROVE StartAlone(d)'
    <3>1. StartAlone(d) /\ (Quiet(d) => Quiet(d)')
      BY <1>0, <2>1 DEF RaceInv, Quiet
    <3>2. d # c /\ ((at[d] = "start" /\ alone = d) \/ (at[d] = "adding" /\ cur[d] \notin raced))
          => FALSE
      BY <2>1, <3>1 DEF StartAlone, Quiet
    <3> QED BY <2>1, <3>1, <3>2 DEF StartAlone
  <2>4. NamedAlone'
    BY <1>0, <2>1 DEF RaceInv, NamedAlone, StartSteps
  <2>5. ASSUME NEW r \in attached' PROVE AttachedKnown(r)'
    <3>1. CASE r = cur[c]
      BY <2>1, <3>1 DEF AttachedKnown
    <3>2. CASE r # cur[c]
      <4>1. AttachedKnown(r)
        BY <2>1, <3>2 DEF RaceInv
      <4>2. \A d \in Callers : at[d] = "publish" \/ HasLock(d) => d # c
        BY <2>1 DEF HasLock
      <4> QED BY <2>1, <4>1, <4>2 DEF AttachedKnown, HasLock
    <3> QED BY <3>1, <3>2
  <2> QED BY <2>2, <2>3, <2>4, <2>5 DEF RaceInv
<1>2. CASE PublishBug(c)
  <2>1. /\ at[c] = "publish" /\ UNCHANGED <<alone, raced, up, attached>>
        /\ bug' = cur[c] /\ at'[c] = "idle"
        /\ \A d \in Callers \ {c} : at'[d] = at[d] /\ cur'[d] = cur[d]
    BY <1>0, <1>2 DEF PublishBug, Leave, GotoOn, commands, TypeOK
  <2>2. OneStreamAttached'
    BY <2>1 DEF RaceInv, OneStreamAttached
  <2>3. ASSUME NEW d \in Callers PROVE StartAlone(d)'
    <3>1. StartAlone(d) /\ (Quiet(d) => Quiet(d)')
      BY <1>0, <2>1 DEF RaceInv, Quiet
    <3> QED BY <1>0, <2>1, <3>1 DEF StartAlone
  <2>4. NamedAlone'
    <3>1. SUFFICES ASSUME cur[c] \notin raced PROVE NamedAlone'
      BY <2>1 DEF NamedAlone
    <3>2. \A d \in Callers : at'[d] = "idle"
      BY <1>0, <2>1, <3>1 DEF StartAlone, Quiet
    <3> QED BY <3>2 DEF NamedAlone, HasLock, StartSteps
  <2>5. ASSUME NEW r \in attached' PROVE AttachedKnown(r)'
    <3>1. SUFFICES ASSUME up, r \notin raced PROVE AttachedKnown(r)'
      BY <2>1 DEF AttachedKnown
    <3>2. AttachedKnown(r) /\ r # None
      BY <1>0, <2>1 DEF RaceInv, TypeOK
    <3>3. bug # r
      BY <2>1, <3>1, <3>2 DEF RaceInv, NamedAlone, StartSteps
    <3>4. PICK d \in Callers : cur[d] = r /\ (at[d] = "publish" \/ HasLock(d))
      BY <3>1, <3>2, <3>3 DEF AttachedKnown
    <3> QED BY <2>1, <3>4 DEF AttachedKnown, HasLock
  <2> QED BY <2>2, <2>3, <2>4, <2>5 DEF RaceInv
<1> QED BY <1>1, <1>2

\* A cleanup that finds no private; a start goes on, beside none, with the
\* bugs of the session gone.
LEMMA CleanupReturnsKeepsRace ==
  ASSUME IInv, RaceInv, NEW a \in Actors, CleanupReturns(a)
  PROVE  RaceInv'
<1>0. TypeOK /\ Callers \subseteq Actors /\ None \notin Streams /\ MediaAgrees
  BY Parts, NamesFacts
<1>1. /\ at[a] = "lock" /\ bug = None /\ UNCHANGED <<alone, raced, up, bug, attached>>
      /\ at'[a] = after[a] /\ after[a] \in {"idle", "start"}
      /\ \A d \in Actors \ {a} : at'[d] = at[d] /\ cur'[d] = cur[d]
  BY <1>0 DEF CleanupReturns, Gone, Leave, GotoOn, commands, channel, TypeOK
<1>2. CASE at'[a] = "idle" \/ a = Media
  <2>1. \A d \in Callers : GoesAside(d)
    BY <1>0, <1>1, <1>2, NamesFacts DEF GoesAside
  <2> QED BY <1>1, <2>1, AsideKeepsRace
<1>3. CASE at'[a] = "start" /\ a \in Callers
  <2>1. \A d \in Callers : at[d] = "publish" \/ HasLock(d) => d # a
    BY <1>1 DEF HasLock
  <2>2. OneStreamAttached' /\ NamedAlone'
    BY <1>1 DEF RaceInv, OneStreamAttached, NamedAlone
  <2>3. ASSUME NEW d \in Callers PROVE StartAlone(d)'
    <3>1. StartAlone(d)
      BY DEF RaceInv
    <3>2. CASE d = a
      <4>1. Quiet(a) => Quiet(a)'
        BY <1>0, <1>1 DEF Quiet
      <4>2. ASSUME up, alone = a, NEW s \in attached, s \notin raced PROVE FALSE
        <5>1. AttachedKnown(s) /\ s # bug
          BY <1>0, <1>1 DEF RaceInv, TypeOK
        <5>2. PICK e \in Callers : at[e] = "publish" \/ HasLock(e)
          BY <4>2, <5>1 DEF AttachedKnown
        <5> QED BY <2>1, <3>1, <3>2, <4>2, <5>2 DEF StartAlone, Quiet, HasLock
      <4> QED BY <1>1, <1>3, <3>1, <3>2, <4>1, <4>2 DEF StartAlone
    <3>3. CASE d # a
      BY <1>0, <1>1, <1>3, <3>1, <3>3 DEF StartAlone, Quiet
    <3> QED BY <3>2, <3>3
  <2>4. ASSUME NEW s \in attached' PROVE AttachedKnown(s)'
    <3>1. AttachedKnown(s)
      BY <1>1 DEF RaceInv
    <3> QED BY <1>0, <1>1, <2>1, <3>1 DEF AttachedKnown, HasLock
  <2> QED BY <2>2, <2>3, <2>4 DEF RaceInv
<1> QED BY <1>1, <1>2, <1>3, NamesFacts

\* The cleanup that takes the private of a bug that raced with none is that bug's own.
LEMMA CleanupLocksKeepsRace ==
  ASSUME IInv, RaceInv, NEW a \in Actors, CleanupLocks(a)
  PROVE  RaceInv'
<1>0. TypeOK /\ Callers \subseteq Actors /\ None \notin Streams /\ MediaAgrees
  BY Parts, NamesFacts
<1>1. /\ at[a] = "lock" /\ bug # None /\ bug' = None
      /\ UNCHANGED <<alone, raced, up, attached, cur>>
      /\ at'[a] = "closing" /\ \A d \in Actors \ {a} : at'[d] = at[d]
  BY <1>0 DEF CleanupLocks, Gone, ClearPrivate, Goto, commands, TypeOK
<1>2. OneStreamAttached' /\ NamedAlone'
  BY <1>1 DEF RaceInv, OneStreamAttached, NamedAlone
<1>3. ASSUME NEW d \in Callers PROVE StartAlone(d)'
  <2>1. StartAlone(d) /\ (Quiet(d) => Quiet(d)')
    BY <1>0, <1>1 DEF RaceInv, Quiet
  <2> QED BY <1>0, <1>1, <2>1 DEF StartAlone
<1>4. ASSUME NEW s \in attached' PROVE AttachedKnown(s)'
  <2>1. SUFFICES ASSUME up, s \notin raced PROVE AttachedKnown(s)'
    BY <1>1 DEF AttachedKnown
  <2>2. AttachedKnown(s)
    BY <1>1 DEF RaceInv
  <2>3. CASE bug = s
    <3>1. a \in Callers
      BY <1>0, <1>1, <2>1, NamesFacts DEF MediaAgrees, CleanupSteps
    <3>2. cur[a] = s
      BY <1>1, <2>1, <2>3, <3>1 DEF RaceInv, NamedAlone
    <3> QED BY <1>1, <3>1, <3>2 DEF AttachedKnown, HasLock
  <2>4. CASE bug # s
    <3>1. PICK d \in Callers : cur[d] = s /\ (at[d] = "publish" \/ HasLock(d))
      BY <2>1, <2>2, <2>4 DEF AttachedKnown
    <3> QED BY <1>0, <1>1, <3>1 DEF AttachedKnown, HasLock
  <2> QED BY <2>3, <2>4
<1> QED BY <1>2, <1>3, <1>4 DEF RaceInv

\* While a cleanup has its mutex, no named bug raced with none; then its own is gone.
LEMMA CleanupRemovesKeepsRace ==
  ASSUME IInv, RaceInv, NEW a \in Actors, CleanupRemoves(a)
  PROVE  RaceInv'
<1>0. TypeOK /\ Callers \subseteq Actors /\ None \notin Streams /\ a \in Callers \union {Media}
  BY Parts, NamesFacts
<1>1. /\ at[a] = "removing" /\ UNCHANGED <<alone, raced, up>>
      /\ bug' \in {bug, None}
      /\ a = Media => UNCHANGED <<attached, bug>>
      /\ a # Media => attached' = attached \ {cur[a]}
      /\ at'[a] = after[a] /\ after[a] \in {"idle", "start"}
      /\ \A d \in Actors \ {a} : at'[d] = at[d] /\ cur'[d] = cur[d]
  BY <1>0, NamesFacts DEF CleanupRemoves, ClearPrivate, Leave, GotoOn, commands, TypeOK
<1>2. CASE a = Media
  <2>1. \A d \in Callers : GoesAside(d)
    BY <1>0, <1>1, <1>2, NamesFacts DEF GoesAside
  <2> QED BY <1>1, <1>2, <2>1, AsideKeepsRace
<1>3. CASE a \in Callers
  <2>0. /\ a # Media /\ HasLock(a) /\ attached' = attached \ {cur[a]}
        /\ bug = None \/ bug \in raced
    BY <1>1, <1>3, NamesFacts DEF HasLock, RaceInv, NamedAlone
  <2>1. OneStreamAttached' /\ NamedAlone'
    BY <1>1, <2>0 DEF RaceInv, OneStreamAttached, NamedAlone
  <2>2. ASSUME NEW r \in attached', up, r \notin raced
        PROVE  \E e \in Callers : /\ e # a /\ cur[e] = r
                                  /\ at[e] = "publish" \/ HasLock(e)
    <3>1. AttachedKnown(r) /\ r # cur[a] /\ r \in Streams
      BY <1>0, <2>0 DEF RaceInv, TypeOK
    <3>2. bug # r
      BY <1>0, <2>0, <2>2, <3>1
    <3> QED BY <2>2, <3>1, <3>2 DEF AttachedKnown
  <2>3. ASSUME NEW d \in Callers PROVE StartAlone(d)'
    <3>1. StartAlone(d)
      BY DEF RaceInv
    <3>2. CASE d = a
      <4>1. Quiet(a) => Quiet(a)'
        BY <1>0, <1>1 DEF Quiet
      <4>2. ASSUME up, alone = a, NEW r \in attached', r \notin raced PROVE FALSE
        <5>1. PICK e \in Callers : e # a /\ (at[e] = "publish" \/ HasLock(e))
          BY <2>2, <4>2
        <5> QED BY <3>1, <3>2, <4>2, <5>1 DEF StartAlone, Quiet, HasLock
      <4> QED BY <1>1, <3>1, <3>2, <4>1, <4>2 DEF StartAlone
    <3>3. CASE d # a
      BY <1>0, <1>1, <1>3, <2>0, <3>1, <3>3 DEF StartAlone, Quiet
    <3> QED BY <3>2, <3>3
  <2>4. ASSUME NEW s \in attached' PROVE AttachedKnown(s)'
    BY <1>0, <1>1, <2>2 DEF AttachedKnown, HasLock
  <2> QED BY <2>1, <2>3, <2>4 DEF RaceInv
<1> QED BY <1>0, <1>2, <1>3

\* The other steps.
LEMMA OthersKeepRace ==
  ASSUME IInv, RaceInv,
         \/ \E c \in Callers : StartFails(c) \/ AddBugFails(c)
         \/ \E a \in Actors : \/ CleanupCloses(a) \/ CleanupCalls(a)
                              \/ CleanupJoins(a) \/ CleanupDestroys(a)
         \/ MediaNext
         \/ \E s \in Streams : ReaderNext(s)
         \/ UNCHANGED vars
  PROVE  RaceInv'
<1>0. TypeOK /\ Callers \subseteq Actors /\ Media \notin Callers
  BY Parts, NamesFacts
<1>1. CASE \E c \in Callers : StartFails(c) \/ AddBugFails(c)
  <2>1. PICK c \in Callers : StartFails(c) \/ AddBugFails(c)
    BY <1>1
  <2>2. /\ UNCHANGED <<bug, alone, raced, attached, up>>
        /\ at[c] \in {"start", "adding"} /\ at' = [at EXCEPT ![c] = "idle"]
        /\ \A d \in Actors \ {c} : cur'[d] = cur[d]
    BY <1>0, <2>1 DEF StartFails, AddBugFails, Leave, GotoOn, commands, channel, TypeOK
  <2>3. \A d \in Callers : GoesAside(d)
    BY <1>0, <2>2 DEF GoesAside, TypeOK
  <2> QED BY <2>2, <2>3, AsideKeepsRace
<1>2. ASSUME NEW a \in Actors,
             CleanupCloses(a) \/ CleanupCalls(a) \/ CleanupJoins(a) \/ CleanupDestroys(a)
      PROVE  RaceInv'
  <2>1. /\ UNCHANGED <<bug, alone, raced, attached, up, cur>>
        /\ at[a] \in {"closing", "calling", "joining", "destroying"}
        /\ \E step \in {"calling", "joining", "destroying", "removing"} :
             at' = [at EXCEPT ![a] = step]
    BY <1>2
       DEF CleanupCloses, CleanupCalls, CleanupJoins, CleanupDestroys, Goto, commands, channel
  <2>2. \A d \in Callers : GoesAside(d)
    BY <1>0, <2>1 DEF GoesAside, HasLock, TypeOK
  <2> QED BY <2>1, <2>2, AsideKeepsRace
<1>3. CASE MediaNext
  <2>1. /\ UNCHANGED <<bug, alone, raced>> /\ attached' \subseteq attached /\ (up' => up)
        /\ \A d \in Callers : at'[d] = at[d] /\ cur'[d] = cur[d]
    BY <1>0, <1>3
       DEF MediaNext, Hangup, FrameGoesOn, FrameLocks, FrameRefused, FrameConfigures,
       FrameDrains, FrameEnds, FrameConnects, FrameWrites, FrameBegins, CloseCallback,
       OnClose, Leave, GotoOn, Goto, commands, channel, where, TypeOK
  <2> QED BY <2>1, AsideKeepsRace DEF GoesAside
<1>4. ASSUME NEW s \in Streams, ReaderNext(s) PROVE RaceInv'
  <2>1. UNCHANGED <<bug, alone, raced, attached, up, at, cur>>
    BY <1>4 DEF ReaderNext, ReaderGoesOn, ReaderConnects, ReaderCloses, ReaderCalls,
       ReadGone, ReadEndOfUtterance, ReadEnds, commands, channel, where
  <2> QED BY <2>1, AsideKeepsRace DEF GoesAside
<1>5. CASE UNCHANGED vars
  BY <1>5, AsideKeepsRace DEF GoesAside, vars, commands, channel, where
<1> QED BY <1>1, <1>2, <1>3, <1>4, <1>5

LEMMA NextKeepsRace ==
  ASSUME IInv, RaceInv, [Next]_vars
  PROVE  RaceInv'
BY CommandKeepsRace, StartStreamKeepsRace, NewBugKeepsRace, CleanupReturnsKeepsRace,
   CleanupLocksKeepsRace, CleanupRemovesKeepsRace, OthersKeepRace
   DEF Next, Command, StartGoesOn, CleanupGoesOn

\* It holds at first.
LEMMA RaceInvHolds == Spec => []RaceInv
<1>1. Init => RaceInv
  BY NamesFacts
     DEF Init, RaceInv, OneStreamAttached, StartAlone, Quiet, NamedAlone, AttachedKnown
<1>2. IInv /\ RaceInv /\ [Next]_vars => RaceInv'
  BY NextKeepsRace
<1> QED BY IInvHolds, <1>1, <1>2, PTL DEF Spec

(***************************************************************************)
(* However many threads give commands, one stream's bug is on the session, *)
(* those apart that were started while another command ran (start_capture, *)
(* do_stop).                                                               *)
(***************************************************************************)
THEOREM OneStreamAttachedHolds == Spec => []OneStreamAttached
<1>1. RaceInv => OneStreamAttached
  BY DEF RaceInv
<1> QED BY RaceInvHolds, <1>1, PTL

-----------------------------------------------------------------------------
(* The resampler.                                                          *)

\* It is destroyed after the GStreamer.
DeletedFirst ==
  /\ \A s \in Streams : destroyed[s] > 0 => streamer[s] = "deleted"
  /\ \A a \in Actors : at[a] \in {"destroying", "removing"} => streamer[cur[a]] = "deleted"

Cleans(a, s) == cur[a] = s /\ at[a] \in {"closing", "calling", "joining", "destroying"}

(***************************************************************************)
(* From the cleanup that took its private on, a stream is not named, nor   *)
(* will be, and whoever waits for its mutex will find no private.          *)
(***************************************************************************)
PastIt(s) ==
  /\ bug # s
  /\ \A a \in Actors : at[a] = "lock" /\ cur[a] = s => bug = None
  /\ \A c \in Callers : at[c] \in {"adding", "publish"} => cur[c] # s
  /\ at[Media] = "lock" /\ cur[Media] = s => \A c \in Callers : at[c] # "publish"

DestroyedAgrees(s) ==
  raced \subseteq {s} =>
    /\ destroyed[s] <= 1
    /\ \A a \in Actors : Cleans(a, s) => destroyed[s] = 0
    /\ destroyed[s] > 0 \/ (\E a \in Actors : Cleans(a, s)) => PastIt(s)

\* The inductive invariant of the resamplers.
DestroyedInv == DeletedFirst /\ \A s \in Streams : DestroyedAgrees(s)

\* A step in which nobody takes, waits for or destroys anything.
LEMMA AsideKeepsDestroyed ==
  ASSUME IInv, DestroyedInv, UNCHANGED <<destroyed, bug>>, raced \subseteq raced',
         \A s \in Streams : streamer[s] = "deleted" => streamer'[s] = "deleted",
         \A a \in Actors :
           /\ at'[a] \in {"lock", "adding", "publish", "removing"} =>
                at'[a] = at[a] /\ cur'[a] = cur[a]
           /\ \A s \in Streams : Cleans(a, s)' <=> Cleans(a, s)
           /\ at'[a] = "destroying" =>
                \/ at'[a] = at[a] /\ cur'[a] = cur[a]
                \/ streamer'[cur'[a]] = "deleted"
  PROVE  DestroyedInv'
<1>0. /\ \A c \in Callers : c \in Actors
      /\ Media \in Actors
      /\ \A a \in Actors : at[a] \in {"destroying", "removing"} => cur[a] \in Streams
  BY Parts, NamesFacts
<1>1. DeletedFirst'
  BY <1>0 DEF DestroyedInv, DeletedFirst
<1>2. ASSUME NEW s \in Streams PROVE DestroyedAgrees(s)'
  <2>1. SUFFICES ASSUME raced \subseteq {s}
                 PROVE  DestroyedAgrees(s)'
    BY DEF DestroyedAgrees
  <2>2. PastIt(s) => PastIt(s)'
    BY <1>0 DEF PastIt
  <2> QED BY <2>1, <2>2 DEF DestroyedInv, DestroyedAgrees
<1> QED BY <1>1, <1>2 DEF DestroyedInv

\* A command waits for the mutex of the bug that is named.
LEMMA CommandKeepsDestroyed ==
  ASSUME IInv, DestroyedInv, NEW c \in Callers, Start(c) \/ Stop(c)
  PROVE  DestroyedInv'
<1>0. TypeOK /\ c \in Actors /\ c # Media /\ Media \in Actors /\ Callers \subseteq Actors
  BY Parts, NamesFacts
<1>1. /\ at[c] = "idle" /\ UNCHANGED <<streamer, bug, destroyed>>
      /\ at'[c] \in {"lock", "start"}
      /\ at'[c] = "lock" => cur'[c] = bug
      /\ \A d \in Actors \ {c} : at'[d] = at[d] /\ cur'[d] = cur[d]
      /\ raced \subseteq raced'
  BY <1>0 DEF Start, Stop, Previous, BesideStarts, Goto, GotoOn, stream, channel, history, TypeOK
<1>2. DeletedFirst'
  BY <1>0, <1>1 DEF DestroyedInv, DeletedFirst
<1>3. ASSUME NEW s \in Streams PROVE DestroyedAgrees(s)'
  <2>1. SUFFICES ASSUME raced \subseteq {s}
                 PROVE  DestroyedAgrees(s)'
    BY <1>1 DEF DestroyedAgrees
  <2>2. PastIt(s) => PastIt(s)'
    BY <1>0, <1>1 DEF PastIt
  <2>3. \A a \in Actors : Cleans(a, s)' <=> Cleans(a, s)
    BY <1>0, <1>1 DEF Cleans
  <2> QED BY <1>1, <2>1, <2>2, <2>3 DEF DestroyedInv, DestroyedAgrees
<1> QED BY <1>2, <1>3 DEF DestroyedInv

\* A new stream was never cleaned up; a bug is added before the hangup, and
\* named while no other command runs.
LEMMA NewBugKeepsDestroyed ==
  ASSUME IInv, RaceInv, DestroyedInv, NEW c \in Callers,
         \/ \E s \in Streams : StartStream(c, s)
         \/ AddBug(c) \/ PublishBug(c)
  PROVE  DestroyedInv'
<1>0. /\ TypeOK /\ c \in Actors /\ c # Media /\ Media \in Actors /\ Callers \subseteq Actors
      /\ MediaAgrees /\ StartAlone(c) /\ None \notin Streams
      /\ \A a \in Actors : at[a] \in {"destroying", "removing"} => cur[a] \in Streams
  BY Parts, NamesFacts DEF RaceInv
<1>1. ASSUME NEW r \in Streams, StartStream(c, r) PROVE DestroyedInv'
  <2>1. /\ at[c] = "start" /\ UNCHANGED <<bug, destroyed>> /\ raced \subseteq raced'
        /\ streamer[r] = "none" /\ Fresh(r)
        /\ \A s \in Streams \ {r} : streamer'[s] = streamer[s]
        /\ at'[c] = "adding" /\ cur'[c] = r
        /\ \A d \in Actors \ {c} : at'[d] = at[d] /\ cur'[d] = cur[d]
    BY <1>0, <1>1, Parts DEF StartStream, NewStream, GotoOn, channel, StreamAgrees, TypeOK
  <2>2. /\ destroyed[r] = 0
        /\ \A a \in Actors : cur[a] # r
    BY <1>0, <2>1 DEF DestroyedInv, DeletedFirst, Fresh, TypeOK
  <2>3. DeletedFirst'
    BY <1>0, <2>1, <2>2 DEF DestroyedInv, DeletedFirst
  <2>4. ASSUME NEW s \in Streams PROVE DestroyedAgrees(s)'
    <3>1. SUFFICES ASSUME raced \subseteq {s}
                   PROVE  DestroyedAgrees(s)'
      BY <2>1 DEF DestroyedAgrees
    <3>2. \A a \in Actors : Cleans(a, s)' <=> Cleans(a, s)
      BY <1>0, <2>1 DEF Cleans
    <3>3. CASE s = r
      BY <2>1, <2>2, <3>2, <3>3 DEF DestroyedAgrees, Cleans
    <3>4. CASE s # r
      <4>1. PastIt(s) => PastIt(s)'
        BY <1>0, <2>1, <3>4 DEF PastIt
      <4> QED BY <2>1, <3>1, <3>2, <4>1 DEF DestroyedInv, DestroyedAgrees
    <3> QED BY <3>3, <3>4
  <2> QED BY <2>3, <2>4 DEF DestroyedInv
<1>2. CASE AddBug(c)
  <2>1. /\ at[c] = "adding" /\ up
        /\ UNCHANGED <<bug, destroyed, raced, streamer, cur>>
        /\ at'[c] = "publish" /\ \A d \in Actors \ {c} : at'[d] = at[d]
    BY <1>0, <1>2 DEF AddBug, Goto, commands, stream, history, TypeOK
  <2>2. DeletedFirst'
    BY <1>0, <2>1 DEF DestroyedInv, DeletedFirst
  <2>3. ASSUME NEW s \in Streams PROVE DestroyedAgrees(s)'
    <3>1. PastIt(s) => PastIt(s)'
      BY <1>0, <2>1 DEF PastIt, MediaAgrees, CleanupSteps
    <3>2. \A a \in Actors : Cleans(a, s)' <=> Cleans(a, s)
      BY <1>0, <2>1 DEF Cleans
    <3> QED BY <2>1, <3>1, <3>2 DEF DestroyedInv, DestroyedAgrees
  <2> QED BY <2>2, <2>3 DEF DestroyedInv
<1>3. CASE PublishBug(c)
  <2>1. /\ at[c] = "publish" /\ UNCHANGED <<destroyed, raced, streamer>>
        /\ bug' = cur[c] /\ at'[c] = "idle"
        /\ \A d \in Actors \ {c} : at'[d] = at[d] /\ cur'[d] = cur[d]
    BY <1>0, <1>3 DEF PublishBug, Leave, GotoOn, commands, stream, history, TypeOK
  <2>2. DeletedFirst'
    BY <1>0, <2>1 DEF DestroyedInv, DeletedFirst
  <2>3. ASSUME NEW s \in Streams PROVE DestroyedAgrees(s)'
    <3>1. SUFFICES ASSUME raced \subseteq {s}
                   PROVE  DestroyedAgrees(s)'
      BY <2>1 DEF DestroyedAgrees
    <3>2. ASSUME PastIt(s) PROVE PastIt(s)'
      <4>1. cur[c] # s /\ cur[c] \notin raced
        BY <2>1, <3>1, <3>2 DEF PastIt
      <4>2. \A d \in Callers \ {c} : at[d] = "idle"
        BY <1>0, <2>1, <4>1 DEF StartAlone, Quiet
      <4>3. \A a \in Actors : at'[a] = "lock" => a = Media
        BY <1>0, <2>1, <4>2, NamesFacts
      <4>4. ~(at[Media] = "lock" /\ cur[Media] = s)
        BY <2>1, <3>2 DEF PastIt
      <4> QED BY <1>0, <2>1, <3>2, <4>1, <4>2, <4>3, <4>4 DEF PastIt
    <3>3. \A a \in Actors : Cleans(a, s)' <=> Cleans(a, s)
      BY <1>0, <2>1 DEF Cleans
    <3> QED BY <2>1, <3>1, <3>2, <3>3 DEF DestroyedInv, DestroyedAgrees
  <2> QED BY <2>2, <2>3 DEF DestroyedInv
<1> QED BY <1>1, <1>2, <1>3

\* Who finds a private is the first.
LEMMA CleanupLocksKeepsDestroyed ==
  ASSUME IInv, RaceInv, DestroyedInv, NEW a \in Actors, CleanupLocks(a)
  PROVE  DestroyedInv'
<1>0. /\ TypeOK /\ Media \in Actors /\ Callers \subseteq Actors /\ None \notin Streams
      /\ \A d \in Callers : CallerAgrees(d) /\ StartAlone(d)
  BY Parts, NamesFacts DEF RaceInv
<1>1. /\ at[a] = "lock" /\ bug # None /\ bug' = None
      /\ UNCHANGED <<raced, streamer, cur, destroyed>>
      /\ at'[a] = "closing" /\ \A d \in Actors \ {a} : at'[d] = at[d]
  BY <1>0 DEF CleanupLocks, Gone, ClearPrivate, Goto, commands, history, TypeOK
<1>2. DeletedFirst'
  BY <1>0, <1>1 DEF DestroyedInv, DeletedFirst
<1>3. ASSUME NEW s \in Streams PROVE DestroyedAgrees(s)'
  <2>1. SUFFICES ASSUME raced \subseteq {s}
                 PROVE  DestroyedAgrees(s)'
    BY <1>1 DEF DestroyedAgrees
  <2>2. DestroyedAgrees(s) /\ destroyed[s] \in 0..2
    BY <1>0 DEF DestroyedInv, TypeOK
  <2>3. CASE cur[a] # s
    <3>1. PastIt(s) => PastIt(s)'
      BY <1>0, <1>1 DEF PastIt
    <3>2. \A b \in Actors : Cleans(b, s)' <=> Cleans(b, s)
      BY <1>0, <1>1, <2>3 DEF Cleans
    <3> QED BY <1>1, <2>1, <2>2, <3>1, <3>2 DEF DestroyedAgrees
  <2>4. CASE cur[a] = s
    <3>1. destroyed[s] = 0
      BY <1>1, <2>1, <2>2, <2>4 DEF DestroyedAgrees, PastIt
    <3>2. ASSUME NEW c \in Callers, at[c] \in {"adding", "publish"} PROVE cur[c] # s
      <4>1. CASE a \in Callers
        BY <1>0, <1>1, <2>4, <3>2, <4>1 DEF CallerAgrees
      <4>2. CASE a = Media /\ at[c] = "adding"
        BY <1>0, <2>4, <4>2 DEF CallerAgrees
      <4>3. CASE a = Media /\ at[c] = "publish"
        <5>1. bug # cur[c] /\ bug \in raced
          BY <1>0, <1>1, <3>2, <4>3 DEF CallerAgrees, RaceInv, NamedAlone, StartSteps
        <5> QED BY <2>1, <5>1
      <4> QED BY <3>2, <4>1, <4>2, <4>3, NamesFacts
    <3>3. ASSUME NEW c \in Callers, at[c] = "publish", a # Media PROVE FALSE
      <4>1. ~Quiet(c)
        BY <1>1, <3>3, NamesFacts DEF Quiet
      <4>2. cur[c] \in raced
        BY <1>0, <3>3, <4>1 DEF StartAlone
      <4> QED BY <2>1, <3>2, <3>3, <4>2
    <3>4. PastIt(s)'
      BY <1>0, <1>1, <3>2, <3>3 DEF PastIt
    <3> QED BY <1>1, <3>1, <3>4 DEF DestroyedAgrees
  <2> QED BY <2>3, <2>4
<1> QED BY <1>2, <1>3 DEF DestroyedInv

\* It is alone with the mutex.
LEMMA CleanupDestroysKeepsDestroyed ==
  ASSUME IInv, DestroyedInv, NEW a \in Actors, CleanupDestroys(a)
  PROVE  DestroyedInv'
<1>0. /\ TypeOK /\ Media \in Actors /\ Callers \subseteq Actors /\ at[a] = "destroying"
      /\ \A b \in Actors : at[b] \in {"destroying", "removing"} => cur[b] \in Streams
  BY Parts, NamesFacts DEF CleanupDestroys
<1>1. /\ UNCHANGED <<raced, streamer, cur, bug>>
      /\ at'[a] = "removing" /\ \A d \in Actors \ {a} : at'[d] = at[d]
      /\ \A s \in Streams \ {cur[a]} : destroyed'[s] = destroyed[s]
      /\ destroyed[cur[a]] = 0 => destroyed'[cur[a]] = 1
  BY <1>0 DEF CleanupDestroys, Once, Goto, commands, channel, TypeOK
<1>2. DeletedFirst'
  BY <1>0, <1>1 DEF DestroyedInv, DeletedFirst
<1>3. ASSUME NEW s \in Streams PROVE DestroyedAgrees(s)'
  <2>1. SUFFICES ASSUME raced \subseteq {s}
                 PROVE  DestroyedAgrees(s)'
    BY <1>1 DEF DestroyedAgrees
  <2>2. DestroyedAgrees(s) /\ (PastIt(s) => PastIt(s)')
    BY <1>0, <1>1 DEF DestroyedInv, PastIt
  <2>3. CASE cur[a] # s
    <3>1. \A b \in Actors : Cleans(b, s)' <=> Cleans(b, s)
      BY <1>0, <1>1, <2>3 DEF Cleans
    <3> QED BY <1>1, <2>1, <2>2, <2>3, <3>1 DEF DestroyedAgrees
  <2>4. CASE cur[a] = s
    <3>1. Cleans(a, s)
      BY <1>0, <2>4 DEF Cleans
    <3>2. ASSUME NEW b \in Actors PROVE ~Cleans(b, s)'
      BY <1>0, <1>1, <2>4, <3>1, HoldsAlone DEF Cleans, Holds
    <3> QED BY <1>1, <2>1, <2>2, <2>4, <3>1, <3>2 DEF DestroyedAgrees
  <2> QED BY <2>3, <2>4
<1> QED BY <1>2, <1>3 DEF DestroyedInv

\* The CLOSE callback it runs takes the private of another stream only if that
\* one raced.
LEMMA CleanupRemovesKeepsDestroyed ==
  ASSUME IInv, RaceInv, DestroyedInv, NEW a \in Actors, CleanupRemoves(a)
  PROVE  DestroyedInv'
<1>0. /\ TypeOK /\ Media \in Actors /\ Callers \subseteq Actors /\ at[a] = "removing"
      /\ \A b \in Actors : at[b] \in {"destroying", "removing"} => cur[b] \in Streams
      /\ None \notin Streams
  BY Parts, NamesFacts DEF CleanupRemoves
<1>1. /\ UNCHANGED <<raced, streamer>>
      /\ at'[a] \in {"idle", "start"}
      /\ \A d \in Actors \ {a} : at'[d] = at[d] /\ cur'[d] = cur[d]
      /\ \A s \in Streams \ {cur[a]} : destroyed'[s] = destroyed[s]
      /\ \/ UNCHANGED <<bug, destroyed>>
         \/ bug' = None /\ bug # None /\ a \in Callers
  BY <1>0 DEF CleanupRemoves, ClearPrivate, Gone, Once, Leave, GotoOn, commands, TypeOK
<1>2. DeletedFirst'
  BY <1>0, <1>1 DEF DestroyedInv, DeletedFirst
<1>3. ASSUME NEW s \in Streams PROVE DestroyedAgrees(s)'
  <2>1. SUFFICES ASSUME raced \subseteq {s}
                 PROVE  DestroyedAgrees(s)'
    BY <1>1 DEF DestroyedAgrees
  <2>2. destroyed'[s] = destroyed[s]
    <3>1. SUFFICES ASSUME cur[a] = s, bug # None, a \in Callers PROVE FALSE
      BY <1>1
    <3>2. bug \in raced
      BY <1>0, <3>1 DEF RaceInv, NamedAlone, HasLock
    <3>3. bug # cur[a]
      BY <1>0, <3>1, Parts DEF CallerAgrees, Holds, CleanupSteps
    <3> QED BY <2>1, <3>1, <3>2, <3>3
  <2>3. DestroyedAgrees(s) /\ (PastIt(s) => PastIt(s)')
    BY <1>0, <1>1 DEF DestroyedInv, PastIt
  <2>4. \A b \in Actors : Cleans(b, s)' <=> Cleans(b, s)
    BY <1>0, <1>1 DEF Cleans
  <2> QED BY <1>1, <2>1, <2>2, <2>3, <2>4 DEF DestroyedAgrees
<1> QED BY <1>2, <1>3 DEF DestroyedInv

\* A bug that is still on the session while its stream is cleaned up.
LEMMA CloseCallbackKeepsDestroyed ==
  ASSUME IInv, RaceInv, DestroyedInv, NEW r \in Streams, CloseCallback(r)
  PROVE  DestroyedInv'
<1>0. /\ TypeOK /\ Media \in Actors /\ Callers \subseteq Actors /\ Media \notin Callers
      /\ \A c \in Callers : StartAlone(c)
      /\ \A b \in Actors : at[b] \in {"destroying", "removing"} => cur[b] \in Streams
  BY Parts, NamesFacts DEF RaceInv
<1>1. /\ at[Media] = "idle" /\ r \in attached
      /\ UNCHANGED <<raced, streamer, bug, destroyed>>
      /\ at'[Media] = "lock" /\ cur'[Media] = r
      /\ \A d \in Actors \ {Media} : at'[d] = at[d] /\ cur'[d] = cur[d]
  BY <1>0 DEF CloseCallback, OnClose, GotoOn, commands, stream, history, TypeOK
<1>2. DeletedFirst'
  BY <1>0, <1>1 DEF DestroyedInv, DeletedFirst
<1>3. ASSUME NEW s \in Streams PROVE DestroyedAgrees(s)'
  <2>1. SUFFICES ASSUME raced \subseteq {s}, destroyed[s] > 0 \/ \E b \in Actors : Cleans(b, s)
                 PROVE  PastIt(s)'
    <3>1. \A b \in Actors : Cleans(b, s)' <=> Cleans(b, s)
      BY <1>0, <1>1 DEF Cleans
    <3> QED BY <1>1, <3>1 DEF DestroyedInv, DestroyedAgrees
  <2>2. PastIt(s)
    BY <2>1 DEF DestroyedInv, DestroyedAgrees
  <2>3. CASE r # s
    BY <1>0, <1>1, <2>2, <2>3 DEF PastIt
  <2>4. CASE r = s
    <3>1. PICK c \in Callers : HasLock(c)
      <4>1. CASE destroyed[s] > 0
        <5>1. streamer[s] = "deleted"
          BY <4>1 DEF DestroyedInv, DeletedFirst
        <5> QED BY <1>1, <2>4, <5>1, Parts DEF StreamAgrees, HasLock
      <4>2. CASE \E b \in Actors : Cleans(b, s)
        BY <1>1, <4>2, NamesFacts DEF Cleans, HasLock
      <4> QED BY <2>1, <4>1, <4>2
    <3>2. bug = None
      <4>1. bug = None \/ bug \in raced
        BY <3>1 DEF RaceInv, NamedAlone
      <4> QED BY <2>1, <2>2, <4>1 DEF PastIt
    <3>3. ASSUME NEW d \in Callers, at[d] = "publish" PROVE FALSE
      <4>1. ~Quiet(d)
        BY <3>1, <3>3 DEF Quiet, HasLock
      <4>2. cur[d] \in raced
        BY <1>0, <3>3, <4>1 DEF StartAlone
      <4> QED BY <2>1, <2>2, <3>3, <4>2 DEF PastIt
    <3> QED BY <1>0, <1>1, <2>2, <3>2, <3>3 DEF PastIt
  <2> QED BY <2>3, <2>4
<1> QED BY <1>2, <1>3 DEF DestroyedInv

\* The other steps.
LEMMA OthersKeepDestroyed ==
  ASSUME IInv, DestroyedInv,
         \/ \E c \in Callers : StartFails(c) \/ AddBugFails(c)
         \/ \E a \in Actors : \/ CleanupReturns(a) \/ CleanupCloses(a)
                              \/ CleanupCalls(a) \/ CleanupJoins(a)
         \/ Hangup \/ FrameGoesOn \/ FrameConnects \/ FrameWrites
         \/ \E s \in Streams : FrameBegins(s) \/ ReaderNext(s)
         \/ UNCHANGED vars
  PROVE  DestroyedInv'
<1>0. TypeOK /\ Media \in Actors /\ Callers \subseteq Actors
  BY Parts, NamesFacts
<1>1. CASE \E c \in Callers : StartFails(c) \/ AddBugFails(c)
  <2>1. PICK c \in Callers : StartFails(c) \/ AddBugFails(c)
    BY <1>1
  <2>2. /\ UNCHANGED <<destroyed, bug, raced, streamer>> /\ at[c] \in {"start", "adding"}
        /\ at'[c] = "idle" /\ \A d \in Actors \ {c} : at'[d] = at[d] /\ cur'[d] = cur[d]
    BY <1>0, <2>1
       DEF StartFails, AddBugFails, Leave, GotoOn, commands, channel, stream, history, TypeOK
  <2> QED BY <1>0, <2>2, AsideKeepsDestroyed DEF Cleans
<1>2. ASSUME NEW a \in Actors, CleanupReturns(a) PROVE DestroyedInv'
  <2>1. /\ UNCHANGED <<destroyed, bug, raced, streamer>> /\ at[a] = "lock"
        /\ at'[a] \in {"idle", "start"}
        /\ \A d \in Actors \ {a} : at'[d] = at[d] /\ cur'[d] = cur[d]
    BY <1>0, <1>2
       DEF CleanupReturns, Leave, GotoOn, commands, channel, stream, history, TypeOK
  <2> QED BY <1>0, <2>1, AsideKeepsDestroyed DEF Cleans
<1>3. ASSUME NEW a \in Actors, CleanupCloses(a) \/ CleanupCalls(a) PROVE DestroyedInv'
  <2>1. /\ UNCHANGED <<destroyed, bug, raced, streamer, cur>>
        /\ at[a] \in {"closing", "calling"} /\ cur[a] \in Streams
        /\ \A d \in Actors \ {a} : at'[d] = at[d]
        /\ at'[a] \in {"calling", "joining", "destroying"}
    BY <1>0, <1>3, Parts
       DEF CleanupCloses, CleanupCalls, Goto, commands, channel, stream, history, TypeOK
  <2>2. at'[a] = "destroying" => streamer[cur[a]] = "deleted"
    <3>1. at'[a] = "destroying" => streamer[cur[a]] # "live"
      BY <1>0, <1>3 DEF CleanupCloses, CleanupCalls, Goto, TypeOK
    <3> QED BY <1>0, <2>1, <3>1, Parts DEF StreamAgrees, Fresh, TypeOK
  <2> QED BY <1>0, <2>1, <2>2, AsideKeepsDestroyed DEF Cleans
<1>4. ASSUME NEW a \in Actors, CleanupJoins(a) PROVE DestroyedInv'
  <2>1. /\ UNCHANGED <<destroyed, bug, raced, cur>>
        /\ at[a] = "joining" /\ cur[a] \in Streams
        /\ \A d \in Actors \ {a} : at'[d] = at[d]
        /\ at'[a] = "destroying" /\ streamer' = [streamer EXCEPT ![cur[a]] = "deleted"]
    BY <1>0, <1>4, Parts DEF CleanupJoins, Goto, commands, channel, history, TypeOK
  <2>2. /\ \A s \in Streams : streamer[s] = "deleted" => streamer'[s] = "deleted"
        /\ streamer'[cur[a]] = "deleted"
    BY <1>0, <2>1 DEF TypeOK
  <2> QED BY <1>0, <2>1, <2>2, AsideKeepsDestroyed DEF Cleans
<1>5. CASE \/ Hangup \/ FrameGoesOn \/ FrameConnects \/ FrameWrites
           \/ \E s \in Streams : FrameBegins(s)
  <2>1. /\ UNCHANGED <<destroyed, bug, raced, streamer>>
        /\ \A d \in Actors \ {Media} : at'[d] = at[d] /\ cur'[d] = cur[d]
        /\ \/ UNCHANGED <<at, cur>>
           \/ at[Media] \in {"idle"} \union FrameSteps /\ at'[Media] \in {"idle"} \union FrameSteps
    BY <1>0, <1>5
       DEF Hangup, FrameGoesOn, FrameLocks, FrameRefused, FrameConfigures,
       FrameDrains, FrameEnds, FrameConnects, FrameWrites, FrameBegins, Leave, GotoOn, Goto,
       commands, channel, where, stream, history, FrameSteps, TypeOK
  <2> QED BY <1>0, <2>1, AsideKeepsDestroyed DEF Cleans, FrameSteps
<1>6. ASSUME NEW s \in Streams, ReaderNext(s) PROVE DestroyedInv'
  <2>1. UNCHANGED <<destroyed, bug, raced, streamer, at, cur>>
    BY <1>6 DEF ReaderNext, ReaderGoesOn, ReaderConnects, ReaderCloses, ReaderCalls,
       ReadGone, ReadEndOfUtterance, ReadEnds, commands, channel, where, stream, history
  <2> QED BY <2>1, AsideKeepsDestroyed DEF Cleans
<1>7. CASE UNCHANGED vars
  BY <1>7, AsideKeepsDestroyed DEF Cleans, vars, commands, channel, where, stream, history
<1> QED BY <1>1, <1>2, <1>3, <1>4, <1>5, <1>6, <1>7

LEMMA NextKeepsDestroyed ==
  ASSUME IInv, RaceInv, DestroyedInv, [Next]_vars
  PROVE  DestroyedInv'
BY CommandKeepsDestroyed, NewBugKeepsDestroyed, CleanupLocksKeepsDestroyed,
   CleanupDestroysKeepsDestroyed, CleanupRemovesKeepsDestroyed, CloseCallbackKeepsDestroyed,
   OthersKeepDestroyed
   DEF Next, Command, StartGoesOn, CleanupGoesOn, MediaNext

\* It holds at first.
LEMMA DestroyedInvHolds == Spec => []DestroyedInv
<1>1. Init => DestroyedInv
  BY NamesFacts DEF Init, DestroyedInv, DeletedFirst, DestroyedAgrees, Cleans
<1>2. IInv /\ RaceInv /\ DestroyedInv /\ [Next]_vars => DestroyedInv'
  BY NextKeepsDestroyed
<1> QED BY IInvHolds, RaceInvHolds, <1>1, <1>2, PTL DEF Spec

(***************************************************************************)
(* However many threads give commands, a cleanup destroys the resampler of *)
(* a stream once, unless another stream was started while a command ran    *)
(* (google_speech_session_cleanup).                                        *)
(***************************************************************************)
THEOREM ResamplerDestroyedOnceHolds == Spec => []ResamplerDestroyedOnce
<1>1. DestroyedInv => ResamplerDestroyedOnce
  BY DEF DestroyedInv, DestroyedAgrees, ResamplerDestroyedOnce
<1> QED BY DestroyedInvHolds, <1>1, PTL

===============================================================================
