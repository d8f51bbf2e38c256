-------------------------- MODULE DialogflowProofs --------------------------
(***************************************************************************)
(* Proofs about Dialogflow, for any number of streams and callers: IInv is *)
(* inductive, and what follows from it.  One lemma per action, and in it   *)
(* one step per part of the invariant.                                     *)
(***************************************************************************)
EXTENDS Dialogflow, TLAPS

\* A caller, the session's thread and a read thread are three; None is nobody.
LEMMA NamesFacts ==
  /\ Media \in Actors /\ None \notin Actors /\ None \notin Streams /\ Media \notin Streams
  /\ \A c \in Callers : c \in Actors /\ c # Media /\ c \notin Streams
  /\ \A s \in Streams : s \in Actors /\ s # Media /\ s \notin Callers
  /\ \A a \in Actors : a \in Callers \/ a = Media \/ a \in Streams
  BY NamesAssumption DEF Actors

\* What the invariant consists of, for the lemmas to cite.
LEMMA Parts ==
  IInv => /\ TypeOK /\ WhereAgrees /\ MutexAgrees /\ StartAgrees /\ ClearAgrees
          /\ HalfCloseAgrees /\ ThreadAgrees /\ NoLateWrite
  BY DEF IInv

(***************************************************************************)
(* Who has a stream's mutex is alone with it.                              *)
(***************************************************************************)
LEMMA HoldsAlone ==
  ASSUME IInv, NEW a \in Actors, NEW b \in Actors, NEW s \in Streams,
         Holds(a, s), Holds(b, s)
  PROVE  a = b
  BY DEF IInv, MutexAgrees

-----------------------------------------------------------------------------
(* The steps of a start.                                                   *)

\* A caller begins a command, or ends one with nothing opened.
LEMMA CommandKeeps ==
  ASSUME IInv, NEW c \in Callers,
         Start(c) \/ Stop(c) \/ StartFails(c)
  PROVE  IInv'
<1>1. /\ UNCHANGED <<up, bug, attached, streamer, thread, finished, holder, over,
                     halfClosed, late>>
      /\ at[c] \in {"idle", "start"}
      /\ \E step \in {"idle", "start", "begin"}, ret \in {"idle", "start"} :
           /\ at' = [at EXCEPT ![c] = step]
           /\ cur' = [cur EXCEPT ![c] = IF step = "begin" THEN None ELSE cur'[c]]
           /\ cur'[c] \in {None, cur[c]}
           /\ after' = [after EXCEPT ![c] = ret]
           /\ step # "begin" => ret = "idle"
      /\ outer' = outer /\ outer[c] = None
  BY Parts, NamesFacts DEF Start, Stop, StartFails, Goto, GotoOn, Leave,
     channel, stream, history, TypeOK, WhereAgrees, StopSteps
<1>2. TypeOK'
  BY Parts, <1>1, NamesFacts DEF TypeOK, StopSteps, StartSteps,
         ReaderSteps
<1>3. WhereAgrees'
  BY Parts, <1>1, NamesFacts
     DEF WhereAgrees, TypeOK, InStop, StopSteps, StartSteps,
         ReaderSteps
<1>4. MutexAgrees'
  BY Parts, <1>1, NamesFacts
     DEF MutexAgrees, WhereAgrees, Holds, TypeOK, InStop, StopSteps, StartSteps,
         ReaderSteps
<1>5. StartAgrees'
  BY Parts, <1>1, NamesFacts
     DEF StartAgrees, ThreadAgrees, WhereAgrees, TypeOK, InStop, StopSteps, StartSteps,
         ReaderSteps
<1>6. ClearAgrees'
  BY Parts, <1>1, NamesFacts
     DEF ClearAgrees, StartAgrees, WhereAgrees, TypeOK, InStop, StopSteps, StartSteps,
         ReaderSteps
<1>7. HalfCloseAgrees'
  BY Parts, <1>1, NamesFacts DEF HalfCloseAgrees, TypeOK
<1>8. ThreadAgrees'
  BY Parts, <1>1, NamesFacts
     DEF ThreadAgrees, StartAgrees, WhereAgrees, TypeOK, InStop, StopSteps, StartSteps,
         ReaderSteps
<1>9. NoLateWrite'
  BY Parts, <1>1, NamesFacts DEF NoLateWrite, TypeOK
<1> QED BY <1>2, <1>3, <1>4, <1>5, <1>6, <1>7, <1>8, <1>9 DEF IInv

\* The stream that a start opens is known to nobody else yet.
LEMMA StartStreamKeeps ==
  ASSUME IInv, NEW c \in Callers, NEW s \in Streams, StartStream(c, s)
  PROVE  IInv'
<1>1. /\ UNCHANGED <<up, bug, attached, finished, holder, over, outer, after,
                     halfClosed, late>>
      /\ at[c] = "start" /\ streamer[s] = "none" /\ at[s] = "idle" /\ bug # s
      /\ streamer' = [streamer EXCEPT ![s] = "live"]
      /\ thread' = [thread EXCEPT ![s] = TRUE]
      /\ at' = [at EXCEPT ![c] = "adding", ![s] = "reading"]
      /\ cur' = [cur EXCEPT ![c] = s]
  BY Parts, NamesFacts DEF StartStream, ThreadAgrees, channel, history
<1>2. TypeOK'
  BY Parts, <1>1, NamesFacts DEF TypeOK, StopSteps, StartSteps,
         ReaderSteps
<1>3. WhereAgrees'
  BY Parts, <1>1, NamesFacts
     DEF WhereAgrees, TypeOK, InStop, StopSteps, StartSteps,
         ReaderSteps
<1>4. MutexAgrees'
  BY Parts, <1>1, NamesFacts
     DEF MutexAgrees, WhereAgrees, Holds, TypeOK, InStop, StopSteps, StartSteps,
         ReaderSteps
<1>5. StartAgrees'
  BY Parts, <1>1, NamesFacts
     DEF StartAgrees, ThreadAgrees, WhereAgrees, TypeOK, InStop, StopSteps, StartSteps,
         ReaderSteps
<1>6. ClearAgrees'
  BY Parts, <1>1, NamesFacts
     DEF ClearAgrees, StartAgrees, WhereAgrees, TypeOK, InStop, StopSteps, StartSteps,
         ReaderSteps
<1>7. HalfCloseAgrees'
  BY Parts, <1>1, NamesFacts DEF HalfCloseAgrees, TypeOK
<1>8. ThreadAgrees'
  BY Parts, <1>1, NamesFacts
     DEF ThreadAgrees, StartAgrees, WhereAgrees, TypeOK, InStop, StopSteps, StartSteps,
         ReaderSteps
<1>9. NoLateWrite'
  BY Parts, <1>1, NamesFacts DEF NoLateWrite, TypeOK
<1> QED BY <1>2, <1>3, <1>4, <1>5, <1>6, <1>7, <1>8, <1>9 DEF IInv

\* The bug is put on the session.
LEMMA AddBugKeeps ==
  ASSUME IInv, NEW c \in Callers, AddBug(c)
  PROVE  IInv'
<1>1. /\ UNCHANGED <<up, bug, streamer, thread, finished, holder, over, cur, outer, after,
                     halfClosed, late>>
      /\ at[c] = "adding" /\ cur[c] \in Streams
      /\ attached' = attached \union {cur[c]}
      /\ at' = [at EXCEPT ![c] = "publish"]
  BY Parts, NamesFacts DEF AddBug, Goto, stream, history, TypeOK, WhereAgrees
<1>2. TypeOK'
  BY Parts, <1>1, NamesFacts DEF TypeOK, StopSteps, StartSteps,
         ReaderSteps
<1>3. WhereAgrees'
  BY Parts, <1>1, NamesFacts
     DEF WhereAgrees, TypeOK, InStop, StopSteps, StartSteps,
         ReaderSteps
<1>4. MutexAgrees'
  BY Parts, <1>1, NamesFacts
     DEF MutexAgrees, WhereAgrees, Holds, TypeOK, InStop, StopSteps, StartSteps,
         ReaderSteps
<1>5. StartAgrees'
  BY Parts, <1>1, NamesFacts
     DEF StartAgrees, ThreadAgrees, WhereAgrees, TypeOK, InStop, StopSteps, StartSteps,
         ReaderSteps
<1>6. ClearAgrees'
  BY Parts, <1>1, NamesFacts
     DEF ClearAgrees, StartAgrees, WhereAgrees, TypeOK, InStop, StopSteps, StartSteps,
         ReaderSteps
<1>7. HalfCloseAgrees'
  BY Parts, <1>1, NamesFacts DEF HalfCloseAgrees, TypeOK
<1>8. ThreadAgrees'
  BY Parts, <1>1, NamesFacts
     DEF ThreadAgrees, StartAgrees, WhereAgrees, TypeOK, InStop, StopSteps, StartSteps,
         ReaderSteps
<1>9. NoLateWrite'
  BY Parts, <1>1, NamesFacts DEF NoLateWrite, TypeOK
<1> QED BY <1>2, <1>3, <1>4, <1>5, <1>6, <1>7, <1>8, <1>9 DEF IInv

\* The bug is refused: the streamer is deleted, and its read thread stays.
LEMMA AddBugFailsKeeps ==
  ASSUME IInv, NEW c \in Callers, AddBugFails(c)
  PROVE  IInv'
<1>1. /\ UNCHANGED <<up, bug, attached, thread, finished, holder, over, outer, halfClosed, late>>
      /\ at[c] = "adding" /\ cur[c] \in Streams
      /\ streamer' = [streamer EXCEPT ![cur[c]] = "deleted"]
      /\ at' = [at EXCEPT ![c] = "idle"]
      /\ cur' = [cur EXCEPT ![c] = None]
      /\ after' = [after EXCEPT ![c] = "idle"]
  BY Parts, NamesFacts DEF AddBugFails, Leave, GotoOn, channel, history, TypeOK, WhereAgrees
<1>2. TypeOK'
  BY Parts, <1>1, NamesFacts DEF TypeOK, StopSteps, StartSteps,
         ReaderSteps
<1>3. WhereAgrees'
  BY Parts, <1>1, NamesFacts
     DEF WhereAgrees, TypeOK, InStop, StopSteps, StartSteps,
         ReaderSteps
<1>4. MutexAgrees'
  BY Parts, <1>1, NamesFacts
     DEF MutexAgrees, WhereAgrees, Holds, TypeOK, InStop, StopSteps, StartSteps,
         ReaderSteps
<1>5. StartAgrees'
  BY Parts, <1>1, NamesFacts
     DEF StartAgrees, ThreadAgrees, WhereAgrees, TypeOK, InStop, StopSteps, StartSteps,
         ReaderSteps
<1>6. ClearAgrees'
  BY Parts, <1>1, NamesFacts
     DEF ClearAgrees, StartAgrees, WhereAgrees, TypeOK, InStop, StopSteps, StartSteps,
         ReaderSteps
<1>7. HalfCloseAgrees'
  BY Parts, <1>1, NamesFacts DEF HalfCloseAgrees, TypeOK
<1>8. ThreadAgrees'
  BY Parts, <1>1, NamesFacts
     DEF ThreadAgrees, StartAgrees, WhereAgrees, TypeOK, InStop, StopSteps, StartSteps,
         ReaderSteps
<1>9. NoLateWrite'
  BY Parts, <1>1, NamesFacts DEF NoLateWrite, TypeOK
<1> QED BY <1>2, <1>3, <1>4, <1>5, <1>6, <1>7, <1>8, <1>9 DEF IInv

\* The channel names the new stream.
LEMMA PublishBugKeeps ==
  ASSUME IInv, NEW c \in Callers, PublishBug(c)
  PROVE  IInv'
<1>1. /\ UNCHANGED <<up, attached, streamer, thread, finished, holder, over, outer, halfClosed, late>>
      /\ at[c] = "publish" /\ cur[c] \in Streams
      /\ bug' = cur[c]
      /\ at' = [at EXCEPT ![c] = "idle"]
      /\ cur' = [cur EXCEPT ![c] = None]
      /\ after' = [after EXCEPT ![c] = "idle"]
  BY Parts, NamesFacts DEF PublishBug, Leave, GotoOn, stream, history, TypeOK, WhereAgrees
<1>2. TypeOK'
  BY Parts, <1>1, NamesFacts DEF TypeOK, StopSteps, StartSteps,
         ReaderSteps
<1>3. WhereAgrees'
  BY Parts, <1>1, NamesFacts
     DEF WhereAgrees, TypeOK, InStop, StopSteps, StartSteps,
         ReaderSteps
<1>4. MutexAgrees'
  BY Parts, <1>1, NamesFacts
     DEF MutexAgrees, WhereAgrees, Holds, TypeOK, InStop, StopSteps, StartSteps,
         ReaderSteps
<1>5. StartAgrees'
  BY Parts, <1>1, NamesFacts
     DEF StartAgrees, ThreadAgrees, WhereAgrees, TypeOK, InStop, StopSteps, StartSteps,
         ReaderSteps
<1>6. ClearAgrees'
  BY Parts, <1>1, NamesFacts
     DEF ClearAgrees, StartAgrees, WhereAgrees, TypeOK, InStop, StopSteps, StartSteps,
         ReaderSteps
<1>7. HalfCloseAgrees'
  BY Parts, <1>1, NamesFacts DEF HalfCloseAgrees, TypeOK
<1>8. ThreadAgrees'
  BY Parts, <1>1, NamesFacts
     DEF ThreadAgrees, StartAgrees, WhereAgrees, TypeOK, InStop, StopSteps, StartSteps,
         ReaderSteps
<1>9. NoLateWrite'
  BY Parts, <1>1, NamesFacts DEF NoLateWrite, TypeOK
<1> QED BY <1>2, <1>3, <1>4, <1>5, <1>6, <1>7, <1>8, <1>9 DEF IInv

-----------------------------------------------------------------------------
(* The steps of a stop.                                                    *)

\* The stop goes for the stream that the channel names, or returns.
LEMMA StopBeginsKeeps ==
  ASSUME IInv, NEW a \in Actors, StopBegins(a)
  PROVE  IInv'
<1>1. /\ UNCHANGED <<up, bug, attached, streamer, thread, finished, holder, over, outer,
                     halfClosed, late>>
      /\ at[a] = "begin" /\ bug \in Streams \union {None} /\ outer[a] \in Streams \union {None}
      /\ \/ /\ bug # None
            /\ at' = [at EXCEPT ![a] = "lock"]
            /\ cur' = [cur EXCEPT ![a] = bug]
            /\ after' = [after EXCEPT ![a] = after[a]]
         \/ /\ bug = None /\ outer[a] # None
            /\ at' = [at EXCEPT ![a] = "unlocking"]
            /\ cur' = [cur EXCEPT ![a] = outer[a]]
            /\ after' = [after EXCEPT ![a] = after[a]]
         \/ /\ bug = None /\ outer[a] = None
            /\ at' = [at EXCEPT ![a] = after[a]]
            /\ cur' = [cur EXCEPT ![a] = None]
            /\ after' = [after EXCEPT ![a] = "idle"]
  BY Parts, NamesFacts DEF StopBegins, Leave, GotoOn, channel, stream, history, TypeOK
<1>2. TypeOK'
  BY Parts, <1>1, NamesFacts DEF TypeOK, StopSteps, StartSteps,
         ReaderSteps
<1>3. WhereAgrees'
  BY Parts, <1>1, NamesFacts
     DEF WhereAgrees, TypeOK, InStop, StopSteps, StartSteps,
         ReaderSteps
<1>4. MutexAgrees'
  BY Parts, <1>1, NamesFacts
     DEF MutexAgrees, WhereAgrees, Holds, TypeOK, InStop, StopSteps, StartSteps,
         ReaderSteps
<1>5. StartAgrees'
  BY Parts, <1>1, NamesFacts
     DEF StartAgrees, ThreadAgrees, WhereAgrees, TypeOK, InStop, StopSteps, StartSteps,
         ReaderSteps
<1>6. ClearAgrees'
  BY Parts, <1>1, NamesFacts
     DEF ClearAgrees, StartAgrees, WhereAgrees, TypeOK, InStop, StopSteps, StartSteps,
         ReaderSteps
<1>7. HalfCloseAgrees'
  BY Parts, <1>1, NamesFacts DEF HalfCloseAgrees, TypeOK
<1>8. ThreadAgrees'
  <2>1. CASE bug # None
    BY Parts, <1>1, <2>1, NamesFacts
    DEF ThreadAgrees, StartAgrees, WhereAgrees, TypeOK, InStop, StopSteps, StartSteps,
       ReaderSteps
  <2>2. CASE bug = None /\ outer[a] # None
    BY Parts, <1>1, <2>2, NamesFacts
    DEF ThreadAgrees, StartAgrees, WhereAgrees, TypeOK, InStop, StopSteps, StartSteps,
       ReaderSteps
  <2>3. CASE bug = None /\ outer[a] = None
    BY Parts, <1>1, <2>3, NamesFacts
    DEF ThreadAgrees, StartAgrees, WhereAgrees, TypeOK, InStop, StopSteps, StartSteps,
       ReaderSteps
  <2> QED BY <1>1, <2>1, <2>2, <2>3
<1>9. NoLateWrite'
  BY Parts, <1>1, NamesFacts DEF NoLateWrite, TypeOK
<1> QED BY <1>2, <1>3, <1>4, <1>5, <1>6, <1>7, <1>8, <1>9 DEF IInv

\* The mutex was free: nobody else is inside.
LEMMA StopLocksKeeps ==
  ASSUME IInv, NEW a \in Actors, StopLocks(a)
  PROVE  IInv'
<1>1. /\ UNCHANGED <<up, bug, attached, streamer, thread, finished, over, cur, outer, after,
                     halfClosed, late>>
      /\ at[a] = "lock" /\ cur[a] \in Streams /\ holder[cur[a]] = None
      /\ holder' = [holder EXCEPT ![cur[a]] = a]
      /\ at' = [at EXCEPT ![a] = "closing"]
  BY Parts, NamesFacts DEF StopLocks, Locks, Goto, WhereAgrees, TypeOK, Holds,
     InStop, StopSteps, channel, stream, history
<1>2. TypeOK'
  BY Parts, <1>1, NamesFacts DEF TypeOK, StopSteps, StartSteps,
         ReaderSteps
<1>3. WhereAgrees'
  BY Parts, <1>1, NamesFacts
     DEF WhereAgrees, TypeOK, InStop, StopSteps, StartSteps,
         ReaderSteps
<1>4. MutexAgrees'
  BY Parts, <1>1, NamesFacts
     DEF MutexAgrees, WhereAgrees, Holds, TypeOK, InStop, StopSteps, StartSteps,
         ReaderSteps
<1>5. StartAgrees'
  BY Parts, <1>1, NamesFacts
     DEF StartAgrees, ThreadAgrees, WhereAgrees, TypeOK, InStop, StopSteps, StartSteps,
         ReaderSteps
<1>6. ClearAgrees'
  BY Parts, <1>1, NamesFacts
     DEF ClearAgrees, StartAgrees, WhereAgrees, TypeOK, InStop, StopSteps, StartSteps,
         ReaderSteps
<1>7. HalfCloseAgrees'
  BY Parts, <1>1, NamesFacts DEF HalfCloseAgrees, TypeOK
<1>8. ThreadAgrees'
  BY Parts, <1>1, NamesFacts
     DEF ThreadAgrees, StartAgrees, WhereAgrees, TypeOK, InStop, StopSteps, StartSteps,
         ReaderSteps
<1>9. NoLateWrite'
  BY Parts, <1>1, NamesFacts DEF NoLateWrite, TypeOK
<1> QED BY <1>2, <1>3, <1>4, <1>5, <1>6, <1>7, <1>8, <1>9 DEF IInv

\* The stream is half-closed, and marked finished if it was not.
LEMMA StopClosesKeeps ==
  ASSUME IInv, NEW a \in Actors, StopCloses(a)
  PROVE  IInv'
<1>1. /\ UNCHANGED <<up, bug, attached, streamer, thread, finished, holder, over, cur, outer, after, late>>
      /\ at[a] = "closing" /\ cur[a] \in Streams /\ Holds(a, cur[a])
      /\ \/ at' = [at EXCEPT ![a] = "joining"] /\ halfClosed' = halfClosed
         \/ /\ halfClosed' = [halfClosed EXCEPT ![cur[a]] = TRUE]
            /\ \/ finished[cur[a]] /\ at' = [at EXCEPT ![a] = "joining"]
               \/ at' = [at EXCEPT ![a] = "marking"]
  BY Parts, NamesFacts DEF StopCloses, Unlocks, Goto, WhereAgrees, TypeOK, Holds,
     InStop, StopSteps, channel, stream, history
<1>2. TypeOK'
  <2>1. at' \in [Actors -> {"idle", "frame"} \union ReaderSteps \union StartSteps
                            \union StopSteps]
    BY Parts, <1>1 DEF TypeOK, StopSteps
  <2>2. halfClosed' \in [Streams -> BOOLEAN]
    BY Parts, <1>1 DEF TypeOK
  <2> QED BY Parts, <1>1, <2>1, <2>2 DEF TypeOK
<1>3. WhereAgrees'
  BY Parts, <1>1, NamesFacts
     DEF WhereAgrees, TypeOK, InStop, StopSteps, StartSteps,
         ReaderSteps
<1>4. MutexAgrees'
  BY Parts, <1>1, NamesFacts
     DEF MutexAgrees, WhereAgrees, Holds, TypeOK, InStop, StopSteps, StartSteps,
         ReaderSteps
<1>5. StartAgrees'
  BY Parts, <1>1, NamesFacts
     DEF StartAgrees, ThreadAgrees, WhereAgrees, TypeOK, InStop, StopSteps, StartSteps,
         ReaderSteps
<1>6. ClearAgrees'
  BY Parts, <1>1, NamesFacts
     DEF ClearAgrees, StartAgrees, WhereAgrees, TypeOK, InStop, StopSteps, StartSteps,
         ReaderSteps
<1>7. HalfCloseAgrees'
  BY Parts, <1>1, NamesFacts DEF HalfCloseAgrees, TypeOK
<1>8. ThreadAgrees'
  BY Parts, <1>1, NamesFacts
     DEF ThreadAgrees, StartAgrees, WhereAgrees, TypeOK, InStop, StopSteps, StartSteps,
         ReaderSteps
<1>9. NoLateWrite'
  BY Parts, <1>1, NamesFacts DEF NoLateWrite, TypeOK
<1> QED BY <1>2, <1>3, <1>4, <1>5, <1>6, <1>7, <1>8, <1>9 DEF IInv

\* From here on a frame finds the stream finished.
LEMMA StopMarksKeeps ==
  ASSUME IInv, NEW a \in Actors, StopMarks(a)
  PROVE  IInv'
<1>1. /\ UNCHANGED <<up, bug, attached, streamer, thread, holder, over, cur, outer, after,
                     halfClosed, late>>
      /\ at[a] = "marking" /\ cur[a] \in Streams /\ Holds(a, cur[a])
      /\ finished' = [finished EXCEPT ![cur[a]] = TRUE]
      /\ at' = [at EXCEPT ![a] = "finishing"]
  BY Parts, NamesFacts DEF StopMarks, Unlocks, Goto, WhereAgrees, TypeOK, Holds,
     InStop, StopSteps, channel, stream, history
<1>2. TypeOK'
  BY Parts, <1>1, NamesFacts DEF TypeOK, StopSteps, StartSteps,
         ReaderSteps
<1>3. WhereAgrees'
  BY Parts, <1>1, NamesFacts
     DEF WhereAgrees, TypeOK, InStop, StopSteps, StartSteps,
         ReaderSteps
<1>4. MutexAgrees'
  BY Parts, <1>1, NamesFacts
     DEF MutexAgrees, WhereAgrees, Holds, TypeOK, InStop, StopSteps, StartSteps,
         ReaderSteps
<1>5. StartAgrees'
  BY Parts, <1>1, NamesFacts
     DEF StartAgrees, ThreadAgrees, WhereAgrees, TypeOK, InStop, StopSteps, StartSteps,
         ReaderSteps
<1>6. ClearAgrees'
  BY Parts, <1>1, NamesFacts
     DEF ClearAgrees, StartAgrees, WhereAgrees, TypeOK, InStop, StopSteps, StartSteps,
         ReaderSteps
<1>7. HalfCloseAgrees'
  BY Parts, <1>1, NamesFacts DEF HalfCloseAgrees, TypeOK
<1>8. ThreadAgrees'
  BY Parts, <1>1, NamesFacts
     DEF ThreadAgrees, StartAgrees, WhereAgrees, TypeOK, InStop, StopSteps, StartSteps,
         ReaderSteps
<1>9. NoLateWrite'
  BY Parts, <1>1, NamesFacts DEF NoLateWrite, TypeOK
<1> QED BY <1>2, <1>3, <1>4, <1>5, <1>6, <1>7, <1>8, <1>9 DEF IInv

\* The call is over.
LEMMA StopFinishesKeeps ==
  ASSUME IInv, NEW a \in Actors, StopFinishes(a)
  PROVE  IInv'
<1>1. /\ UNCHANGED <<up, bug, attached, streamer, thread, finished, holder, over, cur, outer,
                     after, halfClosed, late>>
      /\ at[a] = "finishing" /\ cur[a] \in Streams /\ Holds(a, cur[a])
      /\ at' = [at EXCEPT ![a] = "joining"]
  BY Parts, NamesFacts DEF StopFinishes, Unlocks, Goto, WhereAgrees, TypeOK, Holds,
     InStop, StopSteps, channel, stream, history
<1>2. TypeOK'
  BY Parts, <1>1, NamesFacts DEF TypeOK, StopSteps, StartSteps,
         ReaderSteps
<1>3. WhereAgrees'
  BY Parts, <1>1, NamesFacts
     DEF WhereAgrees, TypeOK, InStop, StopSteps, StartSteps,
         ReaderSteps
<1>4. MutexAgrees'
  BY Parts, <1>1, NamesFacts
     DEF MutexAgrees, WhereAgrees, Holds, TypeOK, InStop, StopSteps, StartSteps,
         ReaderSteps
<1>5. StartAgrees'
  BY Parts, <1>1, NamesFacts
     DEF StartAgrees, ThreadAgrees, WhereAgrees, TypeOK, InStop, StopSteps, StartSteps,
         ReaderSteps
<1>6. ClearAgrees'
  BY Parts, <1>1, NamesFacts
     DEF ClearAgrees, StartAgrees, WhereAgrees, TypeOK, InStop, StopSteps, StartSteps,
         ReaderSteps
<1>7. HalfCloseAgrees'
  BY Parts, <1>1, NamesFacts DEF HalfCloseAgrees, TypeOK
<1>8. ThreadAgrees'
  BY Parts, <1>1, NamesFacts
     DEF ThreadAgrees, StartAgrees, WhereAgrees, TypeOK, InStop, StopSteps, StartSteps,
         ReaderSteps
<1>9. NoLateWrite'
  BY Parts, <1>1, NamesFacts DEF NoLateWrite, TypeOK
<1> QED BY <1>2, <1>3, <1>4, <1>5, <1>6, <1>7, <1>8, <1>9 DEF IInv

\* The read thread has ended, or is the one that stops.
LEMMA StopJoinsKeeps ==
  ASSUME IInv, NEW a \in Actors, StopJoins(a)
  PROVE  IInv'
<1>1. /\ UNCHANGED <<up, bug, attached, streamer, finished, holder, over, cur, outer, after,
                     halfClosed, late>>
      /\ at[a] = "joining" /\ cur[a] \in Streams /\ Holds(a, cur[a])
      /\ thread[cur[a]] => at[cur[a]] = "exited" \/ a = cur[a]
      /\ thread' = [thread EXCEPT ![cur[a]] = FALSE]
      /\ at' = [at EXCEPT ![a] = "killing"]
  BY Parts, NamesFacts DEF StopJoins, Joined, Goto, WhereAgrees, TypeOK, Holds,
     InStop, StopSteps, channel, stream, history
<1>2. TypeOK'
  BY Parts, <1>1, NamesFacts DEF TypeOK, StopSteps, StartSteps,
         ReaderSteps
<1>3. WhereAgrees'
  BY Parts, <1>1, NamesFacts
     DEF WhereAgrees, TypeOK, InStop, StopSteps, StartSteps,
         ReaderSteps
<1>4. MutexAgrees'
  BY Parts, <1>1, NamesFacts
     DEF MutexAgrees, WhereAgrees, Holds, TypeOK, InStop, StopSteps, StartSteps,
         ReaderSteps
<1>5. StartAgrees'
  BY Parts, <1>1, NamesFacts
     DEF StartAgrees, ThreadAgrees, WhereAgrees, TypeOK, InStop, StopSteps, StartSteps,
         ReaderSteps
<1>6. ClearAgrees'
  BY Parts, <1>1, NamesFacts
     DEF ClearAgrees, StartAgrees, WhereAgrees, TypeOK, InStop, StopSteps, StartSteps,
         ReaderSteps
<1>7. HalfCloseAgrees'
  BY Parts, <1>1, NamesFacts DEF HalfCloseAgrees, TypeOK
<1>8. ThreadAgrees'
  <2>1. \A b \in Actors : at[b] = "killing" => cur[b] # cur[a]
    BY Parts, <1>1 DEF MutexAgrees, Holds, InStop, StopSteps
  <2>2. streamer[cur[a]] # "live" \/ at[cur[a]] = "exited" \/ a = cur[a]
    BY Parts, <1>1, <2>1 DEF ThreadAgrees
  <2> QED BY Parts, <1>1, <2>1, <2>2, NamesFacts
        DEF ThreadAgrees, WhereAgrees, TypeOK, InStop, StopSteps, ReaderSteps
<1>9. NoLateWrite'
  BY Parts, <1>1, NamesFacts DEF NoLateWrite, TypeOK
<1> QED BY <1>2, <1>3, <1>4, <1>5, <1>6, <1>7, <1>8, <1>9 DEF IInv

\* The streamer is deleted.
LEMMA StopKillsKeeps ==
  ASSUME IInv, NEW a \in Actors, StopKills(a)
  PROVE  IInv'
<1>1. /\ UNCHANGED <<up, bug, attached, thread, finished, holder, over, cur, outer, after,
                     halfClosed, late>>
      /\ at[a] = "killing" /\ cur[a] \in Streams /\ Holds(a, cur[a])
      /\ streamer' = [streamer EXCEPT ![cur[a]] = "deleted"]
      /\ at' = [at EXCEPT ![a] = "clearing"]
  BY Parts, NamesFacts DEF StopKills, Unlocks, Goto, WhereAgrees, TypeOK, Holds,
     InStop, StopSteps, channel, stream, history
<1>2. TypeOK'
  BY Parts, <1>1, NamesFacts DEF TypeOK, StopSteps, StartSteps,
         ReaderSteps
<1>3. WhereAgrees'
  BY Parts, <1>1, NamesFacts
     DEF WhereAgrees, TypeOK, InStop, StopSteps, StartSteps,
         ReaderSteps
<1>4. MutexAgrees'
  BY Parts, <1>1, NamesFacts
     DEF MutexAgrees, WhereAgrees, Holds, TypeOK, InStop, StopSteps, StartSteps,
         ReaderSteps
<1>5. StartAgrees'
  BY Parts, <1>1, NamesFacts
     DEF StartAgrees, ThreadAgrees, WhereAgrees, TypeOK, InStop, StopSteps, StartSteps,
         ReaderSteps
<1>6. ClearAgrees'
  BY Parts, <1>1, NamesFacts
     DEF ClearAgrees, StartAgrees, WhereAgrees, TypeOK, InStop, StopSteps, StartSteps,
         ReaderSteps
<1>7. HalfCloseAgrees'
  BY Parts, <1>1, NamesFacts DEF HalfCloseAgrees, TypeOK
<1>8. ThreadAgrees'
  BY Parts, <1>1, NamesFacts
     DEF ThreadAgrees, StartAgrees, WhereAgrees, TypeOK, InStop, StopSteps, StartSteps,
         ReaderSteps
<1>9. NoLateWrite'
  BY Parts, <1>1, NamesFacts DEF NoLateWrite, TypeOK
<1> QED BY <1>2, <1>3, <1>4, <1>5, <1>6, <1>7, <1>8, <1>9 DEF IInv

\* The channel names no stream any more, whichever it named.
LEMMA StopClearsKeeps ==
  ASSUME IInv, NEW a \in Actors, StopClears(a)
  PROVE  IInv'
<1>1. /\ UNCHANGED <<up, attached, streamer, thread, finished, holder, over, cur, outer, after,
                     halfClosed, late>>
      /\ at[a] = "clearing" /\ cur[a] \in Streams /\ Holds(a, cur[a])
      /\ bug' = None
      /\ \/ at' = [at EXCEPT ![a] = "unlocking"]
         \/ at' = [at EXCEPT ![a] = "removing"] /\ outer[a] = None
  <2>1. at[a] = "clearing" /\ cur[a] \in Streams /\ Holds(a, cur[a])
    BY Parts DEF StopClears, WhereAgrees, TypeOK, Holds, InStop, StopSteps
  <2>2. CASE IsClosing(a)
    BY <2>1, <2>2 DEF StopClears, Goto, stream, history
  <2>3. CASE ~IsClosing(a)
    BY <2>1, <2>3 DEF StopClears, Goto, IsClosing, stream, history
  <2> QED BY <2>2, <2>3
<1>2. TypeOK'
  BY Parts, <1>1, NamesFacts DEF TypeOK, StopSteps, StartSteps,
         ReaderSteps
<1>3. WhereAgrees'
  BY Parts, <1>1, NamesFacts
     DEF WhereAgrees, TypeOK, InStop, StopSteps, StartSteps,
         ReaderSteps
<1>4. MutexAgrees'
  BY Parts, <1>1, NamesFacts
     DEF MutexAgrees, WhereAgrees, Holds, TypeOK, InStop, StopSteps, StartSteps,
         ReaderSteps
<1>5. StartAgrees'
  BY Parts, <1>1, NamesFacts
     DEF StartAgrees, ThreadAgrees, WhereAgrees, TypeOK, InStop, StopSteps, StartSteps,
         ReaderSteps
<1>6. ClearAgrees'
  BY Parts, <1>1, NamesFacts
     DEF ClearAgrees, StartAgrees, WhereAgrees, TypeOK, InStop, StopSteps, StartSteps,
         ReaderSteps
<1>7. HalfCloseAgrees'
  BY Parts, <1>1, NamesFacts DEF HalfCloseAgrees, TypeOK
<1>8. ThreadAgrees'
  BY Parts, <1>1, NamesFacts
     DEF ThreadAgrees, StartAgrees, WhereAgrees, TypeOK, InStop, StopSteps, StartSteps,
         ReaderSteps
<1>9. NoLateWrite'
  BY Parts, <1>1, NamesFacts DEF NoLateWrite, TypeOK
<1> QED BY <1>2, <1>3, <1>4, <1>5, <1>6, <1>7, <1>8, <1>9 DEF IInv

\* The bug is taken off, and its CLOSE callback stops what is named then.
LEMMA StopRemovesKeeps ==
  ASSUME IInv, NEW a \in Actors, StopRemoves(a)
  PROVE  IInv'
<1>1. /\ UNCHANGED <<up, bug, streamer, thread, finished, holder, over, cur, after, halfClosed, late>>
      /\ at[a] = "removing" /\ cur[a] \in Streams /\ Holds(a, cur[a])
      /\ attached' = attached \ {cur[a]} /\ outer[a] = None
      /\ \/ at' = [at EXCEPT ![a] = "begin"] /\ outer' = [outer EXCEPT ![a] = cur[a]]
         \/ at' = [at EXCEPT ![a] = "unlocking"] /\ outer' = outer
  BY Parts, NamesFacts DEF StopRemoves, Unlocks, Goto, WhereAgrees, TypeOK, Holds,
     InStop, StopSteps, channel, stream, history
<1>2. TypeOK'
  BY Parts, <1>1, NamesFacts DEF TypeOK, StopSteps, StartSteps,
         ReaderSteps
<1>3. WhereAgrees'
  BY Parts, <1>1, NamesFacts
     DEF WhereAgrees, TypeOK, InStop, StopSteps, StartSteps,
         ReaderSteps
<1>4. MutexAgrees'
  BY Parts, <1>1, NamesFacts
     DEF MutexAgrees, WhereAgrees, Holds, TypeOK, InStop, StopSteps, StartSteps,
         ReaderSteps
<1>5. StartAgrees'
  BY Parts, <1>1, NamesFacts
     DEF StartAgrees, ThreadAgrees, WhereAgrees, TypeOK, InStop, StopSteps, StartSteps,
         ReaderSteps
<1>6. ClearAgrees'
  BY Parts, <1>1, NamesFacts
     DEF ClearAgrees, StartAgrees, WhereAgrees, TypeOK, InStop, StopSteps, StartSteps,
         ReaderSteps
<1>7. HalfCloseAgrees'
  BY Parts, <1>1, NamesFacts DEF HalfCloseAgrees, TypeOK
<1>8. ThreadAgrees'
  <2>1. \A b \in Actors \ {a} : at'[b] = at[b] /\ cur'[b] = cur[b] /\ outer'[b] = outer[b]
    BY Parts, <1>1 DEF TypeOK
  <2>2. /\ at'[a] \in {"begin", "unlocking"} /\ cur'[a] = cur[a]
        /\ outer'[a] \in {None, cur[a]}
        /\ streamer[cur[a]] # "none"
    BY Parts, <1>1 DEF TypeOK, ThreadAgrees, InStop, StopSteps
  <2>3. \A s \in Streams :
          /\ streamer[s] = "none" <=> at'[s] = "idle"
          /\ streamer[s] = "live" /\ ~thread[s] =>
               at'[s] = "exited" \/ \E b \in Actors : at'[b] = "killing" /\ cur'[b] = s
    BY Parts, <1>1, <2>1, <2>2, NamesFacts DEF ThreadAgrees
  <2>4. \A b \in Actors : at'[b] = "killing" =>
          streamer[cur'[b]] # "live" \/ at'[cur'[b]] = "exited" \/ b = cur'[b]
    BY Parts, <1>1, <2>1, <2>2, NamesFacts DEF ThreadAgrees, WhereAgrees, InStop, StopSteps,
       TypeOK
  <2> QED BY Parts, <1>1, <2>1, <2>2, <2>3, <2>4
      DEF ThreadAgrees, InStop, StopSteps
<1>9. NoLateWrite'
  BY Parts, <1>1, NamesFacts DEF NoLateWrite, TypeOK
<1> QED BY <1>2, <1>3, <1>4, <1>5, <1>6, <1>7, <1>8, <1>9 DEF IInv

\* A stop returns, to the command or to the stop that ran the callback.
LEMMA StopUnlocksKeeps ==
  ASSUME IInv, NEW a \in Actors, StopUnlocks(a)
  PROVE  IInv'
<1>1. /\ UNCHANGED <<up, bug, attached, streamer, thread, finished, over, halfClosed, late>>
      /\ at[a] = "unlocking" /\ cur[a] \in Streams /\ Holds(a, cur[a])
      /\ holder' = [holder EXCEPT ![cur[a]] = None]
      /\ outer[a] \in Streams \union {None}
      /\ \/ /\ outer[a] \notin {None, cur[a]}
            /\ at' = [at EXCEPT ![a] = "unlocking"]
            /\ cur' = [cur EXCEPT ![a] = outer[a]]
            /\ after' = [after EXCEPT ![a] = after[a]]
            /\ outer' = outer
         \/ /\ outer[a] \in {None, cur[a]}
            /\ at' = [at EXCEPT ![a] = after[a]]
            /\ cur' = [cur EXCEPT ![a] = None]
            /\ outer' = [outer EXCEPT ![a] = None]
            /\ after' = [after EXCEPT ![a] = "idle"]
  BY Parts, NamesFacts DEF StopUnlocks, Unlocks, GotoOn, Goto, WhereAgrees, TypeOK, Holds,
     InStop, StopSteps, channel, stream, history
<1>2. TypeOK'
  BY Parts, <1>1, NamesFacts DEF TypeOK, StopSteps, StartSteps,
         ReaderSteps
<1>3. WhereAgrees'
  <2>1. \A b \in Actors \ {a} :
          at'[b] = at[b] /\ cur'[b] = cur[b] /\ outer'[b] = outer[b] /\ after'[b] = after[b]
    BY Parts, <1>1 DEF TypeOK
  <2>2. /\ after[a] \in {"idle", "start", "exited"}
        /\ after[a] = "start" => a \in Callers
        /\ after[a] = "exited" <=> a \in Streams
    BY Parts, <1>1 DEF WhereAgrees, TypeOK, StopSteps
  <2>3. \/ /\ at'[a] = "unlocking" /\ cur'[a] # None
           /\ outer'[a] = outer[a] /\ after'[a] = after[a]
        \/ at'[a] = after[a] /\ cur'[a] = None /\ outer'[a] = None /\ after'[a] = "idle"
    BY Parts, <1>1 DEF TypeOK
  <2> QED BY Parts, <1>1, <2>1, <2>2, <2>3, NamesFacts
      DEF WhereAgrees, InStop, StopSteps, StartSteps, ReaderSteps
<1>4. MutexAgrees'
  BY Parts, <1>1, NamesFacts
     DEF MutexAgrees, WhereAgrees, Holds, TypeOK, InStop, StopSteps, StartSteps,
         ReaderSteps
<1>5. StartAgrees'
  BY Parts, <1>1, NamesFacts
     DEF StartAgrees, ThreadAgrees, WhereAgrees, TypeOK, InStop, StopSteps, StartSteps,
         ReaderSteps
<1>6. ClearAgrees'
  BY Parts, <1>1, NamesFacts
     DEF ClearAgrees, StartAgrees, WhereAgrees, TypeOK, InStop, StopSteps, StartSteps,
         ReaderSteps
<1>7. HalfCloseAgrees'
  BY Parts, <1>1, NamesFacts DEF HalfCloseAgrees, TypeOK
<1>8. ThreadAgrees'
  <2>1. \A b \in Actors : at'[b] = at[b] \/ (b = a /\ at'[b] = after[b] /\ outer'[b] = None)
    BY Parts, <1>1 DEF TypeOK
  <2>2. \A b \in Actors \ {a} : at'[b] = at[b] /\ cur'[b] = cur[b] /\ outer'[b] = outer[b]
    BY Parts, <1>1 DEF TypeOK
  <2>3. at'[a] \in {"unlocking", "idle", "start", "exited"} /\ (a \in Streams => at'[a] # "idle")
    BY Parts, <1>1, NamesFacts DEF TypeOK, WhereAgrees, StopSteps
  <2>4. at'[a] = "unlocking" => cur'[a] = outer[a] /\ outer[a] # None
    BY Parts, <1>1, <2>3 DEF TypeOK
  <2>5. \A r \in Streams : /\ at'[r] = "idle" <=> at[r] = "idle"
                          /\ at[r] = "exited" => at'[r] = "exited"
    BY Parts, <1>1, <2>2, <2>3, NamesFacts DEF WhereAgrees, StopSteps
  <2>6. \A b \in Actors : at'[b] = "killing" <=> b # a /\ at[b] = "killing"
    BY <1>1, <2>2, <2>3
  <2>7. \A b \in Actors : cur[b] = b \/ cur[b] \in Streams \union {None}
    BY Parts DEF TypeOK
  <2>8. \A b \in Actors : outer'[b] # None => outer'[b] = outer[b]
    BY Parts, <1>1, <2>2 DEF TypeOK
  <2>9. \A b \in Actors : at'[b] \in {"lock"} \union InStop =>
          \/ b # a /\ at[b] \in {"lock"} \union InStop /\ cur'[b] = cur[b]
          \/ b = a /\ cur'[b] = outer[b] /\ outer[b] # None
    BY <2>2, <2>3, <2>4 DEF InStop, StopSteps
  <2> QED BY Parts, <1>1, <2>2, <2>5, <2>6, <2>7, <2>8, <2>9, NamesFacts
        DEF ThreadAgrees, WhereAgrees, TypeOK, InStop, StopSteps
<1>9. NoLateWrite'
  BY Parts, <1>1, NamesFacts DEF NoLateWrite, TypeOK
<1> QED BY <1>2, <1>3, <1>4, <1>5, <1>6, <1>7, <1>8, <1>9 DEF IInv

-----------------------------------------------------------------------------
(* The session's thread.                                                   *)

\* The session hangs up.
LEMMA HangupKeeps ==
  ASSUME IInv, Hangup
  PROVE  IInv'
<1>1. /\ UNCHANGED <<bug, attached, streamer, thread, finished, holder, over, at, cur, outer,
                     after, halfClosed, late>>
      /\ up' = FALSE
  BY Parts, NamesFacts DEF Hangup, stream, where, history
<1>2. TypeOK'
  BY Parts, <1>1, NamesFacts DEF TypeOK, StopSteps, StartSteps,
         ReaderSteps
<1>3. WhereAgrees'
  BY Parts, <1>1, NamesFacts
     DEF WhereAgrees, TypeOK, InStop, StopSteps, StartSteps,
         ReaderSteps
<1>4. MutexAgrees'
  BY Parts, <1>1, NamesFacts
     DEF MutexAgrees, WhereAgrees, Holds, TypeOK, InStop, StopSteps, StartSteps,
         ReaderSteps
<1>5. StartAgrees'
  BY Parts, <1>1, NamesFacts
     DEF StartAgrees, ThreadAgrees, WhereAgrees, TypeOK, InStop, StopSteps, StartSteps,
         ReaderSteps
<1>6. ClearAgrees'
  BY Parts, <1>1, NamesFacts
     DEF ClearAgrees, StartAgrees, WhereAgrees, TypeOK, InStop, StopSteps, StartSteps,
         ReaderSteps
<1>7. HalfCloseAgrees'
  BY Parts, <1>1, NamesFacts DEF HalfCloseAgrees, TypeOK
<1>8. ThreadAgrees'
  BY Parts, <1>1, NamesFacts
     DEF ThreadAgrees, StartAgrees, WhereAgrees, TypeOK, InStop, StopSteps, StartSteps,
         ReaderSteps
<1>9. NoLateWrite'
  BY Parts, <1>1, NamesFacts DEF NoLateWrite, TypeOK
<1> QED BY <1>2, <1>3, <1>4, <1>5, <1>6, <1>7, <1>8, <1>9 DEF IInv

\* A bug is taken off the session, and its callback begins a stop.
LEMMA CloseCallbackKeeps ==
  ASSUME IInv, NEW s \in Streams, CloseCallback(s)
  PROVE  IInv'
<1>1. /\ UNCHANGED <<up, bug, streamer, thread, finished, holder, over, outer, halfClosed, late>>
      /\ at[Media] = "idle" /\ outer[Media] = None
      /\ attached' = attached \ {s}
      /\ at' = [at EXCEPT ![Media] = "begin"]
      /\ cur' = [cur EXCEPT ![Media] = None]
      /\ after' = [after EXCEPT ![Media] = "idle"]
  BY Parts, NamesFacts DEF CloseCallback, GotoOn, stream, history, WhereAgrees, StopSteps
<1>2. TypeOK'
  BY Parts, <1>1, NamesFacts DEF TypeOK, StopSteps, StartSteps,
         ReaderSteps
<1>3. WhereAgrees'
  BY Parts, <1>1, NamesFacts
     DEF WhereAgrees, TypeOK, InStop, StopSteps, StartSteps,
         ReaderSteps
<1>4. MutexAgrees'
  BY Parts, <1>1, NamesFacts
     DEF MutexAgrees, WhereAgrees, Holds, TypeOK, InStop, StopSteps, StartSteps,
         ReaderSteps
<1>5. StartAgrees'
  BY Parts, <1>1, NamesFacts
     DEF StartAgrees, ThreadAgrees, WhereAgrees, TypeOK, InStop, StopSteps, StartSteps,
         ReaderSteps
<1>6. ClearAgrees'
  BY Parts, <1>1, NamesFacts
     DEF ClearAgrees, StartAgrees, WhereAgrees, TypeOK, InStop, StopSteps, StartSteps,
         ReaderSteps
<1>7. HalfCloseAgrees'
  BY Parts, <1>1, NamesFacts DEF HalfCloseAgrees, TypeOK
<1>8. ThreadAgrees'
  BY Parts, <1>1, NamesFacts
     DEF ThreadAgrees, StartAgrees, WhereAgrees, TypeOK, InStop, StopSteps, StartSteps,
         ReaderSteps
<1>9. NoLateWrite'
  BY Parts, <1>1, NamesFacts DEF NoLateWrite, TypeOK
<1> QED BY <1>2, <1>3, <1>4, <1>5, <1>6, <1>7, <1>8, <1>9 DEF IInv

\* A frame takes the mutex of its stream.
LEMMA FrameLocksKeeps ==
  ASSUME IInv, NEW s \in Streams, FrameLocks(s)
  PROVE  IInv'
<1>1. /\ UNCHANGED <<up, bug, attached, streamer, thread, finished, over, outer, halfClosed, late>>
      /\ at[Media] = "idle" /\ outer[Media] = None /\ holder[s] = None
      /\ holder' = [holder EXCEPT ![s] = Media]
      /\ at' = [at EXCEPT ![Media] = "frame"]
      /\ cur' = [cur EXCEPT ![Media] = s]
      /\ after' = [after EXCEPT ![Media] = "idle"]
  BY Parts, NamesFacts DEF FrameLocks, Locks, GotoOn, channel, history, WhereAgrees, StopSteps
<1>2. TypeOK'
  BY Parts, <1>1, NamesFacts DEF TypeOK, StopSteps, StartSteps,
         ReaderSteps
<1>3. WhereAgrees'
  BY Parts, <1>1, NamesFacts
     DEF WhereAgrees, TypeOK, InStop, StopSteps, StartSteps,
         ReaderSteps
<1>4. MutexAgrees'
  BY Parts, <1>1, NamesFacts
     DEF MutexAgrees, WhereAgrees, Holds, TypeOK, InStop, StopSteps, StartSteps,
         ReaderSteps
<1>5. StartAgrees'
  BY Parts, <1>1, NamesFacts
     DEF StartAgrees, ThreadAgrees, WhereAgrees, TypeOK, InStop, StopSteps, StartSteps,
         ReaderSteps
<1>6. ClearAgrees'
  BY Parts, <1>1, NamesFacts
     DEF ClearAgrees, StartAgrees, WhereAgrees, TypeOK, InStop, StopSteps, StartSteps,
         ReaderSteps
<1>7. HalfCloseAgrees'
  BY Parts, <1>1, NamesFacts DEF HalfCloseAgrees, TypeOK
<1>8. ThreadAgrees'
  BY Parts, <1>1, NamesFacts
     DEF ThreadAgrees, StartAgrees, WhereAgrees, TypeOK, InStop, StopSteps, StartSteps,
         ReaderSteps
<1>9. NoLateWrite'
  BY Parts, <1>1, NamesFacts DEF NoLateWrite, TypeOK
<1> QED BY <1>2, <1>3, <1>4, <1>5, <1>6, <1>7, <1>8, <1>9 DEF IInv

(***************************************************************************)
(* Who has the mutex and finds the stream not finished, finds it open.     *)
(* A stop that half-closed it and has not marked it yet has the mutex.     *)
(***************************************************************************)
LEMMA FrameWritesKeeps ==
  ASSUME IInv, FrameWrites
  PROVE  IInv'
<1>1. /\ UNCHANGED <<up, bug, attached, streamer, thread, finished, holder, over, at, cur, outer,
                     after, halfClosed>>
      /\ at[Media] = "frame" /\ cur[Media] \in Streams /\ ~finished[cur[Media]]
      /\ late' = [late EXCEPT ![cur[Media]] = @ \/ halfClosed[cur[Media]]]
  BY Parts, NamesFacts DEF FrameWrites, channel, stream, where, TypeOK, WhereAgrees
<1>2. TypeOK'
  BY Parts, <1>1, NamesFacts DEF TypeOK, StopSteps, StartSteps,
         ReaderSteps
<1>3. WhereAgrees'
  BY Parts, <1>1, NamesFacts
     DEF WhereAgrees, TypeOK, InStop, StopSteps, StartSteps,
         ReaderSteps
<1>4. MutexAgrees'
  BY Parts, <1>1, NamesFacts
     DEF MutexAgrees, WhereAgrees, Holds, TypeOK, InStop, StopSteps, StartSteps,
         ReaderSteps
<1>5. StartAgrees'
  BY Parts, <1>1, NamesFacts
     DEF StartAgrees, ThreadAgrees, WhereAgrees, TypeOK, InStop, StopSteps, StartSteps,
         ReaderSteps
<1>6. ClearAgrees'
  BY Parts, <1>1, NamesFacts
     DEF ClearAgrees, StartAgrees, WhereAgrees, TypeOK, InStop, StopSteps, StartSteps,
         ReaderSteps
<1>7. HalfCloseAgrees'
  BY Parts, <1>1, NamesFacts DEF HalfCloseAgrees, TypeOK
<1>8. ThreadAgrees'
  BY Parts, <1>1, NamesFacts
     DEF ThreadAgrees, StartAgrees, WhereAgrees, TypeOK, InStop, StopSteps, StartSteps,
         ReaderSteps
<1>9. NoLateWrite'
  <2>1. ~halfClosed[cur[Media]]
    BY Parts, <1>1, NamesFacts DEF HalfCloseAgrees, MutexAgrees, Holds, InStop, StopSteps
  <2> QED BY Parts, <1>1, <2>1 DEF NoLateWrite, TypeOK
<1> QED BY <1>2, <1>3, <1>4, <1>5, <1>6, <1>7, <1>8, <1>9 DEF IInv

\* The frame lets the mutex go.
LEMMA FrameEndsKeeps ==
  ASSUME IInv, FrameEnds
  PROVE  IInv'
<1>1. /\ UNCHANGED <<up, bug, attached, streamer, thread, finished, over, outer, halfClosed, late>>
      /\ at[Media] = "frame" /\ cur[Media] \in Streams /\ outer[Media] = None
      /\ holder' = [holder EXCEPT ![cur[Media]] = None]
      /\ at' = [at EXCEPT ![Media] = "idle"]
      /\ cur' = [cur EXCEPT ![Media] = None]
      /\ after' = [after EXCEPT ![Media] = "idle"]
  BY Parts, NamesFacts DEF FrameEnds, Unlocks, Leave, GotoOn, channel, history, TypeOK,
     WhereAgrees, StopSteps
<1>2. TypeOK'
  BY Parts, <1>1, NamesFacts DEF TypeOK, StopSteps, StartSteps,
         ReaderSteps
<1>3. WhereAgrees'
  BY Parts, <1>1, NamesFacts
     DEF WhereAgrees, TypeOK, InStop, StopSteps, StartSteps,
         ReaderSteps
<1>4. MutexAgrees'
  BY Parts, <1>1, NamesFacts
     DEF MutexAgrees, WhereAgrees, Holds, TypeOK, InStop, StopSteps, StartSteps,
         ReaderSteps
<1>5. StartAgrees'
  BY Parts, <1>1, NamesFacts
     DEF StartAgrees, ThreadAgrees, WhereAgrees, TypeOK, InStop, StopSteps, StartSteps,
         ReaderSteps
<1>6. ClearAgrees'
  BY Parts, <1>1, NamesFacts
     DEF ClearAgrees, StartAgrees, WhereAgrees, TypeOK, InStop, StopSteps, StartSteps,
         ReaderSteps
<1>7. HalfCloseAgrees'
  BY Parts, <1>1, NamesFacts DEF HalfCloseAgrees, TypeOK
<1>8. ThreadAgrees'
  BY Parts, <1>1, NamesFacts
     DEF ThreadAgrees, StartAgrees, WhereAgrees, TypeOK, InStop, StopSteps, StartSteps,
         ReaderSteps
<1>9. NoLateWrite'
  BY Parts, <1>1, NamesFacts DEF NoLateWrite, TypeOK
<1> QED BY <1>2, <1>3, <1>4, <1>5, <1>6, <1>7, <1>8, <1>9 DEF IInv

-----------------------------------------------------------------------------
(* The read threads and the far end.                                       *)

\* The call is over.
LEMMA FarEndKeeps ==
  ASSUME IInv, NEW s \in Streams, FarEnd(s)
  PROVE  IInv'
<1>1. /\ UNCHANGED <<up, bug, attached, streamer, thread, finished, holder, at, cur, outer,
                     after, halfClosed, late>>
      /\ over' = [over EXCEPT ![s] = TRUE]
  BY Parts, NamesFacts DEF FarEnd, channel, where, history
<1>2. TypeOK'
  BY Parts, <1>1, NamesFacts DEF TypeOK, StopSteps, StartSteps,
         ReaderSteps
<1>3. WhereAgrees'
  BY Parts, <1>1, NamesFacts
     DEF WhereAgrees, TypeOK, InStop, StopSteps, StartSteps,
         ReaderSteps
<1>4. MutexAgrees'
  BY Parts, <1>1, NamesFacts
     DEF MutexAgrees, WhereAgrees, Holds, TypeOK, InStop, StopSteps, StartSteps,
         ReaderSteps
<1>5. StartAgrees'
  BY Parts, <1>1, NamesFacts
     DEF StartAgrees, ThreadAgrees, WhereAgrees, TypeOK, InStop, StopSteps, StartSteps,
         ReaderSteps
<1>6. ClearAgrees'
  BY Parts, <1>1, NamesFacts
     DEF ClearAgrees, StartAgrees, WhereAgrees, TypeOK, InStop, StopSteps, StartSteps,
         ReaderSteps
<1>7. HalfCloseAgrees'
  BY Parts, <1>1, NamesFacts DEF HalfCloseAgrees, TypeOK
<1>8. ThreadAgrees'
  BY Parts, <1>1, NamesFacts
     DEF ThreadAgrees, StartAgrees, WhereAgrees, TypeOK, InStop, StopSteps, StartSteps,
         ReaderSteps
<1>9. NoLateWrite'
  BY Parts, <1>1, NamesFacts DEF NoLateWrite, TypeOK
<1> QED BY <1>2, <1>3, <1>4, <1>5, <1>6, <1>7, <1>8, <1>9 DEF IInv

\* The read thread goes on; the error handler begins a stop.
LEMMA ReaderKeeps ==
  ASSUME IInv, NEW s \in Streams,
         ReadGone(s) \/ ReaderGoesOn(s)
  PROVE  IInv'
<1>1. /\ UNCHANGED <<up, bug, attached, streamer, thread, holder, over, outer, halfClosed, late>>
      /\ at[s] \in ReaderSteps \ {"exited"} /\ outer[s] = None
      /\ finished' = finished \/ finished' = [finished EXCEPT ![s] = TRUE]
      /\ \/ /\ \E step \in ReaderSteps : at' = [at EXCEPT ![s] = step]
            /\ cur' = cur /\ after' = after
         \/ /\ at' = [at EXCEPT ![s] = "begin"]
            /\ cur' = [cur EXCEPT ![s] = None]
            /\ after' = [after EXCEPT ![s] = "exited"]
  BY Parts, NamesFacts DEF ReadGone, ReaderGoesOn, ReadEnds, ReaderLocates, ReaderTests,
     ReaderMarks, ReaderFinishes, HandleError, Goto, GotoOn, ReaderSteps, StopSteps,
     WhereAgrees, channel, stream, history
<1>2. TypeOK'
  <2>1. at' \in [Actors -> {"idle", "frame"} \union ReaderSteps \union StartSteps
                            \union StopSteps]
    BY Parts, <1>1, NamesFacts DEF TypeOK, StopSteps
  <2>2. finished' \in [Streams -> BOOLEAN]
    BY Parts, <1>1 DEF TypeOK
  <2>3. cur' \in [Actors -> Streams \union {None}] /\ after' \in [Actors -> {"idle", "start", "exited"}]
    BY Parts, <1>1, NamesFacts DEF TypeOK
  <2> QED BY Parts, <1>1, <2>1, <2>2, <2>3 DEF TypeOK
<1>3. WhereAgrees'
  <2>1. \A b \in Actors \ {s} : at'[b] = at[b] /\ cur'[b] = cur[b] /\ after'[b] = after[b]
    BY Parts, <1>1, NamesFacts DEF TypeOK
  <2>2. after[s] = "idle"
    BY Parts, <1>1, NamesFacts DEF WhereAgrees, TypeOK, StopSteps, ReaderSteps
  <2>3. \/ at'[s] \in ReaderSteps /\ cur'[s] = cur[s] /\ after'[s] = "idle"
        \/ at'[s] = "begin" /\ cur'[s] = None /\ after'[s] = "exited"
    BY Parts, <1>1, <2>2, NamesFacts DEF TypeOK
  <2> QED BY Parts, <1>1, <2>1, <2>2, <2>3, NamesFacts
      DEF WhereAgrees, InStop, StopSteps, StartSteps, ReaderSteps
<1>4. MutexAgrees'
  <2>1. at'[s] \in ReaderSteps \union {"begin"}
    BY Parts, <1>1, NamesFacts DEF TypeOK
  <2>2. ASSUME NEW b \in Actors, NEW t \in Streams PROVE Holds(b, t)' <=> Holds(b, t)
    <3>1. CASE b = s
      BY <1>1, <2>1, <3>1 DEF Holds, InStop, StopSteps, ReaderSteps
    <3>2. CASE b # s
      BY Parts, <1>1, <3>2, NamesFacts DEF Holds, TypeOK
    <3> QED BY <3>1, <3>2
  <2> QED BY Parts, <1>1, <2>2 DEF MutexAgrees
<1>5. StartAgrees'
  BY Parts, <1>1, NamesFacts
     DEF StartAgrees, ThreadAgrees, WhereAgrees, TypeOK, InStop, StopSteps, StartSteps,
         ReaderSteps
<1>6. ClearAgrees'
  BY Parts, <1>1, NamesFacts
     DEF ClearAgrees, StartAgrees, WhereAgrees, TypeOK, InStop, StopSteps, StartSteps,
         ReaderSteps
<1>7. HalfCloseAgrees'
  <2>1. \A r \in Streams : finished[r] => finished'[r]
    BY Parts, <1>1 DEF TypeOK
  <2>2. \A a \in Actors : at[a] = "marking" => at'[a] = "marking" /\ cur'[a] = cur[a]
    BY Parts, <1>1, NamesFacts DEF TypeOK, ReaderSteps
  <2> QED BY Parts, <1>1, <2>1, <2>2 DEF HalfCloseAgrees
<1>8. ThreadAgrees'
  BY Parts, <1>1, NamesFacts
     DEF ThreadAgrees, StartAgrees, WhereAgrees, TypeOK, InStop, StopSteps, StartSteps,
         ReaderSteps
<1>9. NoLateWrite'
  BY Parts, <1>1, NamesFacts DEF NoLateWrite, TypeOK
<1> QED BY <1>2, <1>3, <1>4, <1>5, <1>6, <1>7, <1>8, <1>9 DEF IInv

-----------------------------------------------------------------------------
LEMMA InitHolds == Init => IInv
<1> SUFFICES ASSUME Init PROVE IInv
  OBVIOUS
<1>1. TypeOK
  BY DEF Init, TypeOK
<1> QED BY <1>1, NamesFacts
      DEF Init, IInv, WhereAgrees, MutexAgrees, StartAgrees, ClearAgrees, HalfCloseAgrees,
          ThreadAgrees, NoLateWrite, Holds, InStop, StopSteps

LEMMA NextKeeps == IInv /\ [Next]_vars => IInv'
<1> SUFFICES ASSUME IInv, [Next]_vars PROVE IInv'
  OBVIOUS
<1>1. CASE UNCHANGED vars
  BY <1>1 DEF vars, channel, stream, where, history, IInv, TypeOK, WhereAgrees, MutexAgrees,
     StartAgrees, ClearAgrees, HalfCloseAgrees, ThreadAgrees, NoLateWrite, Holds
<1>2. CASE Hangup \/ FrameWrites \/ FrameEnds
  BY <1>2, HangupKeeps, FrameWritesKeeps, FrameEndsKeeps
<1>3. ASSUME NEW c \in Callers, Start(c) \/ Stop(c) \/ StartGoesOn(c) PROVE IInv'
  BY <1>3, CommandKeeps, StartStreamKeeps, AddBugKeeps, AddBugFailsKeeps, PublishBugKeeps
     DEF StartGoesOn
<1>4. ASSUME NEW a \in Actors, StopGoesOn(a) PROVE IInv'
  BY <1>4, StopBeginsKeeps, StopLocksKeeps, StopClosesKeeps, StopMarksKeeps,
     StopFinishesKeeps, StopJoinsKeeps, StopKillsKeeps, StopClearsKeeps, StopRemovesKeeps,
     StopUnlocksKeeps DEF StopGoesOn
<1>5. ASSUME NEW s \in Streams,
             CloseCallback(s) \/ FrameLocks(s) \/ FarEnd(s) \/ ReadGone(s) \/ ReaderGoesOn(s)
      PROVE  IInv'
  BY <1>5, CloseCallbackKeeps, FrameLocksKeeps, FarEndKeeps, ReaderKeeps
<1> QED BY <1>1, <1>2, <1>3, <1>4, <1>5 DEF Next

(***************************************************************************)
(* The mutex, the life of each stream, its read thread and what every      *)
(* thread knows agree, for any number of streams and commands.             *)
(***************************************************************************)
THEOREM IInvHolds == Spec => []IInv
<1>1. Init => IInv
  BY InitHolds
<1>2. IInv /\ [Next]_vars => IInv'
  BY NextKeeps
<1> QED BY <1>1, <1>2, PTL DEF Spec

(***************************************************************************)
(* No audio is written to a call that was half-closed.                     *)
(***************************************************************************)
THEOREM NoLateWriteHolds == Spec => []NoLateWrite
<1>1. IInv => NoLateWrite
  BY DEF IInv
<1> QED BY <1>1, IInvHolds, PTL

\* A streamer is made once and deleted for good.
LEMMA DeletedStays ==
  ASSUME IInv, Next, NEW s \in Streams, streamer[s] = "deleted"
  PROVE  streamer'[s] = "deleted"
<1> USE NamesFacts, Parts DEF TypeOK
<1>1. ASSUME NEW c \in Callers, Start(c) \/ Stop(c) \/ StartGoesOn(c)
      PROVE  streamer'[s] = "deleted"
  BY <1>1 DEF Start, Stop, StartGoesOn, StartStream, StartFails, AddBug, AddBugFails, PublishBug,
     stream
<1>2. ASSUME NEW a \in Actors, StopGoesOn(a) PROVE streamer'[s] = "deleted"
  BY <1>2 DEF StopGoesOn, StopBegins, StopLocks, StopCloses, StopMarks, StopFinishes,
     StopJoins, StopKills, StopClears, StopRemoves, StopUnlocks, stream
<1>3. ASSUME NEW r \in Streams,
             CloseCallback(r) \/ FrameLocks(r) \/ FarEnd(r) \/ ReadGone(r) \/ ReaderGoesOn(r)
      PROVE  streamer'[s] = "deleted"
  BY <1>3 DEF CloseCallback, FrameLocks, FarEnd, ReadGone, ReaderGoesOn, ReadEnds,
     ReaderLocates, ReaderTests, ReaderMarks, ReaderFinishes, HandleError, stream
<1>4. CASE Hangup \/ FrameWrites \/ FrameEnds
  BY <1>4 DEF Hangup, FrameWrites, FrameEnds, stream
<1> QED BY <1>1, <1>2, <1>3, <1>4 DEF Next

(***************************************************************************)
(* However many commands, error handlers and callbacks stop however many   *)
(* streams, a stop deletes a streamer only after it joined the read thread *)
(* that uses it, or on that thread.                                        *)
(***************************************************************************)
THEOREM StopKeepsContractHolds == Spec => StopKeepsContract
<1>1. ASSUME IInv, [Next]_vars, NEW a \in Actors, NEW s \in Streams,
             at[a] = "killing", cur[a] = s, streamer[s] # streamer'[s]
      PROVE  at[s] = "exited" \/ a = s
  <2>1. Next
    BY <1>1 DEF vars, stream
  <2>2. streamer[s] # "none"
    BY <1>1, Parts DEF ThreadAgrees, InStop, StopSteps
  <2>3. streamer[s] # "deleted"
    BY <1>1, <2>1, DeletedStays
  <2> QED BY <1>1, <2>2, <2>3, Parts DEF ThreadAgrees, TypeOK
<1>2. IInv /\ [Next]_vars =>
        [\A a \in Actors, s \in Streams :
           at[a] = "killing" /\ cur[a] = s /\ streamer[s] # streamer'[s]
             => at[s] = "exited" \/ a = s]_vars
  BY <1>1
<1> QED BY <1>2, IInvHolds, PTL DEF Spec, StopKeepsContract
=============================================================================
