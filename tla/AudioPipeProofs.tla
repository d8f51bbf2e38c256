--------------------------- MODULE AudioPipeProofs ---------------------------
(***************************************************************************)
(* Proofs about AudioPipe, for any number of pipes, service threads and    *)
(* callers.  IInv is inductive; the safety properties follow from it.  The *)
(* last section is about the default, one service thread.                  *)
(***************************************************************************)
EXTENDS AudioPipe, SequenceTheorems, TLAPS

(***************************************************************************)
(* The five stories differ, and each notification continues the one before *)
(* it.                                                                     *)
(***************************************************************************)
LEMMA Tellings ==
  /\ Stories \subseteq Seq(NotifyEvents)
  /\ Untold # Refused /\ Untold # Connected /\ Refused # Connected
  /\ Untold \notin Over /\ Refused \notin Over /\ Connected \notin Over
  /\ Append(Untold, "CONNECT_SUCCESS") = Connected
  /\ Append(Untold, "CONNECT_FAIL") = Refused
  /\ Append(Connected, "CONNECTION_DROPPED") \in Over
  /\ Append(Connected, "CONNECTION_CLOSED_GRACEFULLY") \in Over
<1>1. Stories \subseteq Seq(NotifyEvents)
  BY DEF Stories, Over, Untold, Refused, Connected, NotifyEvents
<1>2. /\ Untold # Refused /\ Untold # Connected /\ Refused # Connected
      /\ Untold \notin Over /\ Refused \notin Over /\ Connected \notin Over
  BY DEF Over, Untold, Refused, Connected
<1>3. /\ Append(Untold, "CONNECT_SUCCESS") = Connected
      /\ Append(Untold, "CONNECT_FAIL") = Refused
  BY DEF Untold, Refused, Connected
<1>4. ASSUME NEW e \in NotifyEvents
      PROVE  Append(Connected, e) = <<"CONNECT_SUCCESS", e>>
  <2> DEFINE s == Append(Connected, e)
             r == <<"CONNECT_SUCCESS", e>>
  <2>1. s \in Seq(NotifyEvents) /\ r \in Seq(NotifyEvents)
    BY DEF Connected, NotifyEvents
  <2>2. Len(s) = Len(r) /\ \A i \in 1 .. Len(s) : s[i] = r[i]
    BY DEF Connected, NotifyEvents
  <2> QED BY <2>1, <2>2, SeqEqual
<1>5. /\ Append(Connected, "CONNECTION_DROPPED") \in Over
      /\ Append(Connected, "CONNECTION_CLOSED_GRACEFULLY") \in Over
  BY <1>4 DEF Over, NotifyEvents
<1> QED BY <1>1, <1>2, <1>3, <1>5

(***************************************************************************)
(* What Notify leaves in told and call.                                    *)
(***************************************************************************)
LEMMA Notified ==
  ASSUME TypeOK, NEW t \in Threads, NEW p \in Pipes, NEW e \in NotifyEvents,
         Notify(t, p, e)
  PROVE  /\ told' \in [Pipes -> Seq(NotifyEvents)]
         /\ call' \in [Threads -> [event : NotifyEvents \union {"none"},
                                   pipe  : Pipes \union {None}]]
         /\ told'[p] = Append(told[p], e)
         /\ \A q \in Pipes \ {p} : told'[q] = told[q]
         /\ call'[t] = [event |-> e, pipe |-> p]
         /\ \A u \in Threads \ {t} : call'[u] = call[u]
  BY DEF TypeOK, Notify

(***************************************************************************)
(* What m_state and the socket say of the notifications given so far.      *)
(***************************************************************************)
LEMMA ToldSoFar ==
  ASSUME IInv, NEW p \in Pipes
  PROVE  /\ state[p] \in {"CONNECTED", "DISCONNECTING", "DISCONNECTED"} =>
              told[p] \in Over \union {Connected}
         /\ link[p] \in {"open", "closing", "broken"} =>
              /\ told[p] = Connected
              /\ state[p] \in {"CONNECTED", "DISCONNECTING"}
              /\ p \notin freed
  BY Tellings DEF IInv, Agreement, PipeAgrees, Stories, TypeOK, LwsStates

-----------------------------------------------------------------------------
(***************************************************************************)
(* What the clients call.  Each lemma says that one operation, or one step *)
(* of it, keeps IInv: the conjuncts of IInv one after another.             *)
(***************************************************************************)
LEMMA ConnectKeeps ==
  ASSUME IInv, fault # "down", NEW a \in Actors, NEW p \in Pipes, Connect(a, p)
  PROVE  Agreement'
<1> USE ConstantsAssumption DEF IInv, Agreement, Connect, Nothing, Begins
<1>1. TypeOK'
  BY DEF TypeOK, LwsStates, Calls
<1>2. /\ \A q \in Pipes : PipeAgrees(q)'
     /\ \A u \in Threads : ConnectsAgree(u)' /\ WritingAgrees(u)' /\ CallAgrees(u)'
     /\ NoLostWakeup'
  BY DEF TypeOK, PipeAgrees, ConnectsAgree, WritingAgrees, CallAgrees,
     NoLostWakeup
<1>3. \A b \in Actors : DoingAgrees(b)'
  BY DEF Calls, DoingAgrees
<1> QED BY <1>1, <1>2, <1>3

(***************************************************************************)
(* m_state was CONNECTED when it was compared: the connection was          *)
(* announced, and this is all a caller knows when it comes to store.       *)
(***************************************************************************)
LEMMA SendAcceptedKeeps ==
  ASSUME IInv, fault # "down", NEW a \in Actors, NEW p \in Pipes,
         NEW x \in Payloads, SendAccepted(a, p, x)
  PROVE  Agreement'
<1> USE ConstantsAssumption DEF IInv, Agreement, SendAccepted, lists, Nothing, Begins
<1>1. TypeOK'
  BY DEF TypeOK
<1>2. /\ \A q \in Pipes : PipeAgrees(q)'
     /\ \A u \in Threads : ConnectsAgree(u)' /\ WritingAgrees(u)' /\ CallAgrees(u)'
     /\ NoLostWakeup'
  BY DEF PipeAgrees, ConnectsAgree, WritingAgrees, CallAgrees, NoLostWakeup
<1>3. \A b \in Actors : DoingAgrees(b)'
  <2>1. told[p] \in Over \union {Connected}
    BY ToldSoFar
  <2>2. doing'[a] = [what |-> x, pipe |-> p]
        /\ \A b \in Actors \ {a} : doing'[b] = doing[b]
    BY DEF TypeOK
  <2> QED BY <2>1, <2>2 DEF DoingAgrees
<1> QED BY <1>1, <1>2, <1>3

LEMMA CloseAcceptedKeeps ==
  ASSUME IInv, fault # "down", NEW a \in Actors, NEW p \in Pipes,
         CloseAccepted(a, p)
  PROVE  Agreement'
<1> USE ConstantsAssumption DEF IInv, Agreement, CloseAccepted, lists, Nothing, Begins
<1>1. TypeOK'
  BY DEF TypeOK, Calls
<1>2. /\ \A q \in Pipes : PipeAgrees(q)'
     /\ \A u \in Threads : ConnectsAgree(u)' /\ WritingAgrees(u)' /\ CallAgrees(u)'
     /\ NoLostWakeup'
  BY DEF PipeAgrees, ConnectsAgree, WritingAgrees, CallAgrees, NoLostWakeup
<1>3. \A b \in Actors : DoingAgrees(b)'
  <2>1. told[p] \in Over \union {Connected}
    BY ToldSoFar
  <2>2. doing'[a] = [what |-> "close", pipe |-> p]
        /\ \A b \in Actors \ {a} : doing'[b] = doing[b]
    BY DEF TypeOK
  <2> QED BY <2>1, <2>2 DEF DoingAgrees
<1> QED BY <1>1, <1>2, <1>3

LEMMA StaleReturnKeeps ==
  ASSUME IInv, fault # "down", NEW p \in Pipes, StaleReturn(p)
  PROVE  Agreement'
<1> USE ConstantsAssumption DEF IInv, Agreement, StaleReturn, lists, Touch
<1>1. TypeOK'
  BY DEF TypeOK
<1>2. /\ \A q \in Pipes : PipeAgrees(q)'
     /\ \A u \in Threads : ConnectsAgree(u)' /\ WritingAgrees(u)' /\ CallAgrees(u)'
     /\ \A b \in Actors : DoingAgrees(b)'
  BY DEF PipeAgrees, ConnectsAgree, WritingAgrees, CallAgrees, DoingAgrees
<1>3. NoLostWakeup'
  BY DEF NoLostWakeup
<1> QED BY <1>1, <1>2, <1>3

(***************************************************************************)
(* The store of an accepted caller happens in whatever state the pipe has  *)
(* reached since, a deleted one included; the caller itself is the one who *)
(* will wake the thread.                                                   *)
(***************************************************************************)
LEMMA SendStoredKeeps ==
  ASSUME IInv, fault # "down", NEW a \in Actors, SendStored(a)
  PROVE  Agreement'
<1> USE ConstantsAssumption DEF IInv, Agreement, SendStored, Touch, Buffer, Continues
<1>1. TypeOK'
  <2>1. doing[a].what \in Payloads /\ doing[a].pipe \in Pipes
    BY DEF DoingAgrees, Calls
  <2>2. doing' \in [Actors -> [what : Payloads \union Calls,
                               pipe : Pipes \union {None}]]
    <3>1. doing'[a] = [what |-> IF doing[a].what = "audio" THEN "unlock" ELSE "wake",
                       pipe |-> doing[a].pipe]
          /\ doing' \in [Actors -> {doing'[b] : b \in Actors}]
          /\ \A b \in Actors \ {a} : doing'[b] = doing[b]
      BY DEF TypeOK
    <3> QED BY <2>1, <3>1 DEF TypeOK, Calls
  <2>3. text' \in [Pipes -> Seq(Texts)] /\ audio' \in [Pipes -> BOOLEAN]
    <3>1. CASE doing[a].what = "audio"
      BY <2>1, <3>1 DEF TypeOK
    <3>2. CASE doing[a].what # "audio"
      <4>1. doing[a].what \in Texts
        BY <2>1, <3>2 DEF Texts
      <4>2. Append(text[doing[a].pipe], doing[a].what) \in Seq(Texts)
        BY <2>1, <4>1 DEF TypeOK
      <4>3. /\ audio' = audio
            /\ text' \in {text, [text EXCEPT ![doing[a].pipe] =
                                 Append(text[doing[a].pipe], doing[a].what)]}
        BY <3>2
      <4>4. text \in [Pipes -> Seq(Texts)] /\ audio \in [Pipes -> BOOLEAN]
        BY DEF TypeOK
      <4> HIDE DEF SendStored
      <4> QED BY <2>1, <4>2, <4>3, <4>4
    <3> QED BY <3>1, <3>2
  <2> QED BY <2>1, <2>2, <2>3 DEF TypeOK
<1>2. /\ \A q \in Pipes : PipeAgrees(q)'
     /\ \A u \in Threads : ConnectsAgree(u)' /\ WritingAgrees(u)' /\ CallAgrees(u)'
  BY DEF PipeAgrees, ConnectsAgree, WritingAgrees, CallAgrees
<1>3. \A b \in Actors : DoingAgrees(b)'
  BY DEF Calls, DoingAgrees
<1>4. NoLostWakeup'
  <2>1. doing'[a].what \in {"wake", "unlock"}
        /\ \A b \in Actors \ {a} : doing'[b] = doing[b]
    BY DEF TypeOK
  <2>2. doing[a].what \notin {"connect", "wake", "unlock"}
    BY DEF Calls
  <2> QED BY <2>1, <2>2 DEF NoLostWakeup
<1> QED BY <1>1, <1>2, <1>3, <1>4

(***************************************************************************)
(* DISCONNECTING is stored over any later state.  The pipe was connected   *)
(* once, so no state before CONNECTED is overwritten.                      *)
(***************************************************************************)
LEMMA CloseStoredKeeps ==
  ASSUME IInv, fault # "down", NEW a \in Actors, CloseStored(a)
  PROVE  Agreement'
<1> USE DEF IInv, Agreement, CloseStored, Touch, Continues
<1>1. TypeOK'
  <2>1. doing' \in [Actors -> [what : Payloads \union Calls,
                               pipe : Pipes \union {None}]]
    BY DEF TypeOK, Calls
  <2>2. doing[a].pipe \in Pipes
    BY DEF DoingAgrees
  <2> QED BY <2>1, <2>2 DEF TypeOK, LwsStates
<1>2. \A q \in Pipes : PipeAgrees(q)'
  BY Tellings DEF PipeAgrees, DoingAgrees
<1>3. \A u \in Threads : ConnectsAgree(u)'
  BY Tellings DEF PipeAgrees, ConnectsAgree, DoingAgrees
<1>4. /\ \A u \in Threads : WritingAgrees(u)'
     /\ \A b \in Actors : DoingAgrees(b)'
     /\ NoLostWakeup'
  BY DEF TypeOK, WritingAgrees, DoingAgrees, NoLostWakeup
<1>5. \A u \in Threads : CallAgrees(u)'
  BY Tellings DEF PipeAgrees, CallAgrees, DoingAgrees
<1> QED BY <1>1, <1>2, <1>3, <1>4, <1>5

LEMMA GracefulShutdownKeeps ==
  ASSUME IInv, fault # "down", NEW a \in Actors, NEW p \in Pipes,
         GracefulShutdown(a, p)
  PROVE  Agreement'
<1> USE ConstantsAssumption DEF IInv, Agreement, GracefulShutdown, Nothing, Touch, Begins
<1>1. TypeOK'
  BY DEF TypeOK, Calls
<1>2. /\ \A q \in Pipes : PipeAgrees(q)'
     /\ \A u \in Threads : ConnectsAgree(u)' /\ WritingAgrees(u)' /\ CallAgrees(u)'
     /\ NoLostWakeup'
  BY DEF TypeOK, PipeAgrees, ConnectsAgree, WritingAgrees, CallAgrees,
     NoLostWakeup
<1>3. \A b \in Actors : DoingAgrees(b)'
  BY DEF Calls, DoingAgrees
<1> QED BY <1>1, <1>2, <1>3

(***************************************************************************)
(* After lws_cancel_service some thread is woken.                          *)
(***************************************************************************)
LEMMA WakeUpKeeps ==
  ASSUME IInv, fault # "down", NEW a \in Actors, WakeUp(a)
  PROVE  Agreement'
<1> USE ConstantsAssumption DEF IInv, Agreement, WakeUp, lists, Nothing, Touch, Wake
<1>1. TypeOK'
  <2>1. doing' \in [Actors -> [what : Payloads \union Calls,
                               pipe : Pipes \union {None}]]
    BY DEF TypeOK, Calls
  <2>2. cancel' \in [Threads -> BOOLEAN]
    BY DEF TypeOK
  <2> QED BY <2>1, <2>2 DEF TypeOK
<1>2. /\ \A q \in Pipes : PipeAgrees(q)'
     /\ \A u \in Threads : ConnectsAgree(u)' /\ WritingAgrees(u)' /\ CallAgrees(u)'
  BY DEF PipeAgrees, ConnectsAgree, WritingAgrees, CallAgrees
<1>3. \A b \in Actors : DoingAgrees(b)'
  BY DEF Calls, DoingAgrees
<1>4. NoLostWakeup'
  <2>1. fault' # "down" => \E t \in Threads : cancel'[t]
    <3>1. CASE doing[a].what = "connect"
      BY <3>1 DEF TypeOK
    <3>2. CASE doing[a].what \in {"wake", "unlock"}
      <4>1. doing[a].pipe \in Pipes /\ vhd[doing[a].pipe] \in Threads \union {None}
        BY <3>2 DEF DoingAgrees, TypeOK
      <4> QED BY <3>2, <4>1 DEF TypeOK
    <3> QED BY <3>1, <3>2
  <2> QED BY <2>1 DEF NoLostWakeup
<1> QED BY <1>1, <1>2, <1>3, <1>4

LEMMA ClientDiesKeeps ==
  ASSUME IInv, fault # "down", ClientDies
  PROVE  Agreement'
<1> USE ConstantsAssumption DEF IInv, Agreement, ClientDies, lists
<1>1. TypeOK'
  BY DEF TypeOK
<1>2. /\ \A q \in Pipes : PipeAgrees(q)'
     /\ \A u \in Threads : ConnectsAgree(u)' /\ WritingAgrees(u)' /\ CallAgrees(u)'
     /\ \A b \in Actors : DoingAgrees(b)'
  BY DEF PipeAgrees, ConnectsAgree, WritingAgrees, CallAgrees, DoingAgrees
<1>3. NoLostWakeup'
  BY DEF NoLostWakeup
<1> QED BY <1>1, <1>2, <1>3

(***************************************************************************)
(* What a service thread does.  TakeConnects hands every IDLE pipe to one  *)
(* thread: CONNECTING marks it, and no other thread finds it IDLE.         *)
(***************************************************************************)
LEMMA TakeConnectsKeeps ==
  ASSUME IInv, fault # "down", NEW t \in Threads, TakeConnects(t)
  PROVE  Agreement'
<1> USE DEF IInv, Agreement, TakeConnects, lists, Polling, MarkConnecting, ToConnect
<1>1. TypeOK'
  BY DEF TypeOK, LwsStates, Phases
<1>2. /\ \A q \in Pipes : PipeAgrees(q)'
     /\ \A u \in Threads : WritingAgrees(u)' /\ CallAgrees(u)'
     /\ \A b \in Actors : DoingAgrees(b)'
  BY DEF PipeAgrees, WritingAgrees, CallAgrees, DoingAgrees
<1>3. \A u \in Threads : ConnectsAgree(u)'
  BY DEF TypeOK, PipeAgrees, ConnectsAgree
<1>4. NoLostWakeup'
  BY DEF TypeOK, NoLostWakeup
<1> QED BY <1>1, <1>2, <1>3, <1>4

(***************************************************************************)
(* The other two lists.                                                    *)
(***************************************************************************)
LEMMA TakeDisconnectsKeeps ==
  ASSUME IInv, fault # "down", NEW t \in Threads, TakeDisconnects(t)
  PROVE  Agreement'
<1> USE DEF IInv, Agreement, TakeDisconnects, Touch
<1>1. TypeOK'
  BY DEF TypeOK, Phases
<1>2. /\ \A q \in Pipes : PipeAgrees(q)'
     /\ \A u \in Threads : WritingAgrees(u)' /\ CallAgrees(u)'
     /\ \A b \in Actors : DoingAgrees(b)'
  BY DEF PipeAgrees, WritingAgrees, CallAgrees, DoingAgrees
<1>3. \A u \in Threads : ConnectsAgree(u)'
  BY DEF TypeOK, ConnectsAgree
<1>4. NoLostWakeup'
  BY DEF NoLostWakeup
<1> QED BY <1>1, <1>2, <1>3, <1>4

LEMMA TakeWritesKeeps ==
  ASSUME IInv, fault # "down", NEW t \in Threads, TakeWrites(t)
  PROVE  Agreement'
<1> USE DEF IInv, Agreement, TakeWrites, Touch
<1>1. TypeOK'
  BY DEF TypeOK, Phases
<1>2. /\ \A q \in Pipes : PipeAgrees(q)'
     /\ \A u \in Threads : ConnectsAgree(u)' /\ WritingAgrees(u)' /\ CallAgrees(u)'
     /\ \A b \in Actors : DoingAgrees(b)'
  BY DEF PipeAgrees, ConnectsAgree, WritingAgrees, CallAgrees, DoingAgrees
<1>3. NoLostWakeup'
  BY DEF NoLostWakeup
<1> QED BY <1>1, <1>2, <1>3

LEMMA RequestWritableKeeps ==
  ASSUME IInv, fault # "down", NEW t \in Threads, NEW p \in Pipes,
         RequestWritable(t, p)
  PROVE  Agreement'
<1> USE DEF IInv, Agreement, RequestWritable, lists, Touch
<1>1. TypeOK'
  BY DEF TypeOK
<1>2. /\ \A q \in Pipes : PipeAgrees(q)'
     /\ \A u \in Threads : ConnectsAgree(u)' /\ WritingAgrees(u)' /\ CallAgrees(u)'
     /\ \A b \in Actors : DoingAgrees(b)'
  BY DEF PipeAgrees, ConnectsAgree, WritingAgrees, CallAgrees, DoingAgrees
<1>3. NoLostWakeup'
  BY DEF NoLostWakeup
<1> QED BY <1>1, <1>2, <1>3

LEMMA EndCancelledKeeps ==
  ASSUME IInv, fault # "down", NEW t \in Threads, EndCancelled(t)
  PROVE  Agreement'
<1> USE DEF IInv, Agreement, EndCancelled, lists
<1>1. TypeOK'
  BY DEF TypeOK, Phases
<1>2. /\ \A q \in Pipes : PipeAgrees(q)'
     /\ \A u \in Threads : ConnectsAgree(u)' /\ WritingAgrees(u)' /\ CallAgrees(u)'
     /\ \A b \in Actors : DoingAgrees(b)'
  BY DEF PipeAgrees, ConnectsAgree, WritingAgrees, CallAgrees, DoingAgrees
<1>3. NoLostWakeup'
  BY DEF NoLostWakeup
<1> QED BY <1>1, <1>2, <1>3

(***************************************************************************)
(* Callbacks for a socket that is open.                                    *)
(***************************************************************************)
LEMMA ReceiveKeeps ==
  ASSUME IInv, fault # "down", NEW t \in Threads, NEW p \in Pipes,
         Receive(t, p)
  PROVE  Agreement'
<1> USE DEF IInv, Agreement, Receive, lists, Polling, Ends
<1>1. TypeOK'
  BY DEF TypeOK, NotifyEvents
<1>2. /\ \A q \in Pipes : PipeAgrees(q)'
     /\ \A u \in Threads : ConnectsAgree(u)' /\ WritingAgrees(u)'
     /\ \A b \in Actors : DoingAgrees(b)'
  BY DEF PipeAgrees, ConnectsAgree, WritingAgrees, DoingAgrees
<1>3. \A u \in Threads : CallAgrees(u)'
  <2>1. call'[t] = [event |-> "MESSAGE", pipe |-> p]
        /\ \A u \in Threads \ {t} : call'[u] = call[u]
    BY DEF TypeOK
  <2>2. p \notin freed
    BY ToldSoFar
  <2> SUFFICES ASSUME NEW u \in Threads PROVE CallAgrees(u)'
    OBVIOUS
  <2>3. CASE u = t
    BY <2>1, <2>2, <2>3 DEF CallAgrees
  <2>4. CASE u # t
    BY <2>1, <2>4 DEF CallAgrees
  <2> QED BY <2>3, <2>4
<1>4. NoLostWakeup'
  BY DEF NoLostWakeup
<1> QED BY <1>1, <1>2, <1>3, <1>4

LEMMA WriteEofKeeps ==
  ASSUME IInv, fault # "down", NEW t \in Threads, NEW p \in Pipes,
         WriteEof(t, p)
  PROVE  Agreement'
<1> USE DEF IInv, Agreement, WriteEof, lists, Polling, Writable, AudioLocked
<1>1. TypeOK'
  BY DEF TypeOK
<1>2. /\ \A q \in Pipes : PipeAgrees(q)'
     /\ \A u \in Threads : ConnectsAgree(u)' /\ WritingAgrees(u)' /\ CallAgrees(u)'
     /\ \A b \in Actors : DoingAgrees(b)'
  BY DEF PipeAgrees, ConnectsAgree, WritingAgrees, CallAgrees, DoingAgrees
<1>3. NoLostWakeup'
  BY DEF NoLostWakeup
<1> QED BY <1>1, <1>2, <1>3

LEMMA WriteTextKeeps ==
  ASSUME IInv, fault # "down", NEW t \in Threads, NEW p \in Pipes,
         WriteText(t, p)
  PROVE  Agreement'
<1> USE DEF IInv, Agreement, WriteText, lists, Polling, Writable, HasText
<1>1. TypeOK'
  <2>1. text' \in [Pipes -> Seq(Texts)]
    BY DEF TypeOK
  <2>2. link' \in [Pipes -> Links] /\ wantWrite' \in [Pipes -> BOOLEAN]
    BY DEF TypeOK, Links
  <2> QED BY <2>1, <2>2 DEF TypeOK
<1>2. \A q \in Pipes : PipeAgrees(q)'
  BY DEF TypeOK, PipeAgrees
<1>3. \A u \in Threads : ConnectsAgree(u)'
  BY DEF TypeOK, ConnectsAgree
<1>4. \A u \in Threads : WritingAgrees(u)'
  BY DEF TypeOK, WritingAgrees
<1>5. \A u \in Threads : CallAgrees(u)'
  BY DEF TypeOK, CallAgrees
<1>6. \A b \in Actors : DoingAgrees(b)'
  BY DEF DoingAgrees
<1>7. NoLostWakeup'
  BY DEF NoLostWakeup
<1> QED BY <1>1, <1>2, <1>3, <1>4, <1>5, <1>6, <1>7

LEMMA NoTextKeeps ==
  ASSUME IInv, fault # "down", NEW t \in Threads, NEW p \in Pipes, NoText(t, p)
  PROVE  Agreement'
<1> USE DEF IInv, Agreement, NoText, lists, Polling, Writable, HasText
<1>1. TypeOK'
  BY DEF TypeOK, Phases
<1>2. /\ \A q \in Pipes : PipeAgrees(q)'
     /\ \A u \in Threads : ConnectsAgree(u)' /\ CallAgrees(u)'
     /\ \A b \in Actors : DoingAgrees(b)'
  BY DEF PipeAgrees, ConnectsAgree, CallAgrees, DoingAgrees
<1>3. \A u \in Threads : WritingAgrees(u)'
  BY DEF TypeOK, WritingAgrees
<1>4. NoLostWakeup'
  BY DEF NoLostWakeup
<1> QED BY <1>1, <1>2, <1>3, <1>4

LEMMA CloseOrWriteAudioKeeps ==
  ASSUME IInv, fault # "down", NEW t \in Threads, NEW p \in Pipes,
         CloseOrWriteAudio(t, p)
  PROVE  Agreement'
<1> USE DEF IInv, Agreement, CloseOrWriteAudio, lists, AudioLocked
<1>1. TypeOK'
  <2>1. phase' \in [Threads -> Phases] /\ work' \in [Threads -> SUBSET Pipes]
    BY DEF TypeOK, Phases
  <2>2. link' \in [Pipes -> Links] /\ audio' \in [Pipes -> BOOLEAN]
    BY DEF TypeOK, Links
  <2> QED BY <2>1, <2>2 DEF TypeOK
<1>2. \A q \in Pipes : PipeAgrees(q)'
  BY DEF TypeOK, PipeAgrees, WritingAgrees
<1>3. \A u \in Threads : ConnectsAgree(u)'
  BY DEF TypeOK, ConnectsAgree
<1>4. \A u \in Threads : WritingAgrees(u)'
  BY DEF TypeOK, WritingAgrees
<1>5. \A u \in Threads : CallAgrees(u)'
  BY DEF TypeOK, WritingAgrees, CallAgrees
<1>6. \A b \in Actors : DoingAgrees(b)'
  BY DEF DoingAgrees
<1>7. NoLostWakeup'
  BY DEF NoLostWakeup
<1> QED BY <1>1, <1>2, <1>3, <1>4, <1>5, <1>6, <1>7

(***************************************************************************)
(* The last notification of a connection that was announced, given at the  *)
(* first look at m_state or at the second.                                 *)
(***************************************************************************)
LEMMA EndToldKeeps ==
  ASSUME IInv, NEW t \in Threads, NEW p \in Pipes,
         NEW e \in {"CONNECTION_DROPPED", "CONNECTION_CLOSED_GRACEFULLY"},
         Notify(t, p, e), call[t] = NoCall, phase[t] \in {"poll", "closed"},
         phase' = [phase EXCEPT ![t] = "poll"],
         work' \in [Threads -> SUBSET Pipes],
         \A u \in Threads \ {t} : work'[u] = work[u],
         vhd[p] = t, told[p] = Connected, p \notin freed,
         link' = [link EXCEPT ![p] = "closed"],
         UNCHANGED <<state, vhd, wsi, graceful, text, audio, freed, lists,
                     cancel, wantWrite, doing, fault>>
  PROVE  Agreement'
<1> USE ConstantsAssumption DEF IInv, Agreement, lists, Ends
<1>a. /\ told'[p] \in Over
      /\ \A q \in Pipes \ {p} : told'[q] = told[q]
      /\ call'[t] = [event |-> e, pipe |-> p]
      /\ \A u \in Threads \ {t} : call'[u] = call[u] /\ phase'[u] = phase[u]
      /\ link'[p] = "closed" /\ \A q \in Pipes \ {p} : link'[q] = link[q]
      /\ state[p] \in {"CONNECTED", "DISCONNECTING"}
      /\ phase'[t] = "poll"
  <2>1. state[p] \in {"CONNECTED", "DISCONNECTING"}
    BY Tellings DEF PipeAgrees, TypeOK, LwsStates
  <2>2. /\ told'[p] = Append(told[p], e)
        /\ \A q \in Pipes \ {p} : told'[q] = told[q]
        /\ call'[t] = [event |-> e, pipe |-> p]
        /\ \A u \in Threads \ {t} : call'[u] = call[u]
    <3>1. TypeOK /\ e \in NotifyEvents
      BY DEF NotifyEvents
    <3> QED BY <3>1, Notified
  <2>3. told'[p] \in Over
    BY <2>2, Tellings
  <2>4. link'[p] = "closed" /\ \A q \in Pipes \ {p} : link'[q] = link[q]
    BY DEF TypeOK
  <2>5. phase'[t] = "poll" /\ \A u \in Threads \ {t} : phase'[u] = phase[u]
    BY DEF TypeOK
  <2> QED BY <2>1, <2>2, <2>3, <2>4, <2>5
<1>1. TypeOK'
  <2>1. told' \in [Pipes -> Seq(NotifyEvents)]
        /\ call' \in [Threads -> [event : NotifyEvents \union {"none"},
                                 pipe  : Pipes \union {None}]]
    <3>1. TypeOK /\ e \in NotifyEvents
      BY DEF NotifyEvents
    <3> QED BY <3>1, Notified
  <2>2. link' \in [Pipes -> Links] /\ phase' \in [Threads -> Phases]
    BY DEF TypeOK, Links, Phases
  <2> QED BY <2>1, <2>2 DEF TypeOK
<1>2. \A q \in Pipes : PipeAgrees(q)'
  <2> SUFFICES ASSUME NEW q \in Pipes PROVE PipeAgrees(q)'
    OBVIOUS
  <2>1. CASE q = p
    BY <1>a, <2>1, Tellings DEF PipeAgrees, Stories
  <2>2. CASE q # p
    BY <1>a, <2>2 DEF PipeAgrees
  <2> QED BY <2>1, <2>2
<1>3. ASSUME NEW u \in Threads PROVE ConnectsAgree(u)'
  <2>1. CASE u = t
    BY <1>a, <2>1 DEF ConnectsAgree
  <2>2. CASE u # t
    <3>1. phase[u] = "connects" => p \notin work[u]
      BY <1>a DEF ConnectsAgree
    <3>2. /\ phase'[u] = phase[u] /\ work'[u] = work[u]
          /\ \A v \in Threads : phase'[v] = "connects" => v # t /\ phase[v] = "connects"
                                                     /\ work'[v] = work[v]
          /\ work[u] \subseteq Pipes /\ state' = state /\ vhd' = vhd
      BY <1>a, <2>2 DEF TypeOK
    <3> QED BY <1>a, <3>1, <3>2 DEF ConnectsAgree
  <2> QED BY <2>1, <2>2
<1>4. NoLostWakeup'
  BY <1>a DEF NoLostWakeup
<1>5. \A u \in Threads : WritingAgrees(u)'
  BY <1>a DEF WritingAgrees, TypeOK
<1>6. \A u \in Threads : CallAgrees(u)'
  <2> SUFFICES ASSUME NEW u \in Threads PROVE CallAgrees(u)'
    OBVIOUS
  <2>1. CASE u = t
    BY <1>a, <2>1 DEF CallAgrees
  <2>2. CASE u # t
    BY <1>a, <2>2 DEF CallAgrees, PipeAgrees
  <2> QED BY <2>1, <2>2
<1>7. \A b \in Actors : DoingAgrees(b)'
  BY <1>a DEF DoingAgrees, TypeOK, Calls
<1> QED BY <1>1, <1>2, <1>3, <1>4, <1>5, <1>6, <1>7

LEMMA ClosedKeeps ==
  ASSUME IInv, fault # "down", NEW t \in Threads, NEW p \in Pipes, Closed(t, p)
  PROVE  Agreement'
<1>1. /\ told[p] = Connected /\ state[p] \in {"CONNECTED", "DISCONNECTING"}
      /\ p \notin freed
  BY ToldSoFar DEF Closed
<1>2. TypeOK /\ phase[t] = "poll" /\ call[t] = NoCall /\ vhd[p] = t
      /\ link' = [link EXCEPT ![p] = "closed"]
      /\ UNCHANGED <<state, vhd, wsi, graceful, text, audio, freed, lists, cancel,
                     wantWrite, doing, fault>>
  BY DEF Closed, Polling, IInv, Agreement
<1>3. CASE state[p] = "DISCONNECTING"
  <2>1. Notify(t, p, "CONNECTION_CLOSED_GRACEFULLY") /\ UNCHANGED <<phase, work>>
    BY <1>3 DEF Closed
  <2>2. phase' = [phase EXCEPT ![t] = "poll"] /\ work' \in [Threads -> SUBSET Pipes]
    BY <1>2, <2>1 DEF TypeOK
  <2> QED BY <1>1, <1>2, <2>1, <2>2, EndToldKeeps
<1>4. CASE state[p] # "DISCONNECTING"
  <2>1. /\ phase' = [phase EXCEPT ![t] = "closed"] /\ work' = [work EXCEPT ![t] = {p}]
        /\ UNCHANGED <<call, told>>
    BY <1>4 DEF Closed
  <2>2. /\ phase' \in [Threads -> Phases] /\ work' \in [Threads -> SUBSET Pipes]
        /\ phase'[t] = "closed" /\ link' \in [Pipes -> Links] /\ link'[p] = "closed"
        /\ \A u \in Threads \ {t} : phase'[u] = phase[u] /\ work'[u] = work[u]
        /\ \A q \in Pipes \ {p} : link'[q] = link[q]
    BY <1>2, <2>1 DEF TypeOK, Phases, Links
  <2> USE DEF IInv, Agreement
  <2>3. TypeOK'
    BY <1>2, <2>1, <2>2 DEF TypeOK, lists
  <2>4. \A q \in Pipes : PipeAgrees(q)'
    BY <1>1, <1>2, <2>1, <2>2, Tellings DEF PipeAgrees, lists
  <2>5. \A u \in Threads : ConnectsAgree(u)'
    BY <1>1, <1>2, <2>1, <2>2, Tellings DEF ConnectsAgree, PipeAgrees, TypeOK
  <2>6. \A u \in Threads : WritingAgrees(u)'
    BY <1>2, <2>1, <2>2 DEF WritingAgrees, TypeOK
  <2>7. \A u \in Threads : CallAgrees(u)'
    BY <1>2, <2>1, <2>2 DEF CallAgrees, TypeOK
  <2>8. \A b \in Actors : DoingAgrees(b)'
    BY <1>2, <2>1 DEF DoingAgrees
  <2>9. NoLostWakeup'
    BY <1>2, <2>1, <2>2 DEF NoLostWakeup, lists
  <2> QED BY <2>3, <2>4, <2>5, <2>6, <2>7, <2>8, <2>9
<1> QED BY <1>3, <1>4

(***************************************************************************)
(* The second look at m_state: the session is told, or the pipe is deleted *)
(* with nothing told.                                                      *)
(***************************************************************************)
LEMMA ClosedByFarEndKeeps ==
  ASSUME IInv, fault # "down", NEW t \in Threads, NEW p \in Pipes,
         ClosedByFarEnd(t, p)
  PROVE  Agreement'
<1>1. /\ call[t] = NoCall /\ vhd[p] = t /\ link[p] = "closed"
      /\ told[p] = Connected /\ p \notin freed /\ TypeOK /\ phase[t] = "closed"
  BY DEF ClosedByFarEnd, IInv, Agreement, ClosedAgrees
<1>2. /\ phase' = [phase EXCEPT ![t] = "poll"] /\ work' = [work EXCEPT ![t] = {}]
      /\ UNCHANGED <<vhd, wsi, graceful, text, audio, lists, cancel, link,
                     wantWrite, doing, fault>>
  BY DEF ClosedByFarEnd
<1>3. /\ work' \in [Threads -> SUBSET Pipes] /\ phase' \in [Threads -> Phases]
      /\ link' = [link EXCEPT ![p] = "closed"] /\ phase'[t] = "poll"
      /\ \A u \in Threads \ {t} : work'[u] = work[u] /\ phase'[u] = phase[u]
  BY <1>1, <1>2 DEF TypeOK, Phases
<1>4. CASE state[p] = "CONNECTED"
  <2>1. Notify(t, p, "CONNECTION_DROPPED") /\ UNCHANGED <<freed, state>>
    BY <1>4 DEF ClosedByFarEnd
  <2> QED BY <1>1, <1>2, <1>3, <2>1, EndToldKeeps
<1>5. CASE state[p] # "CONNECTED"
  <2>1. /\ freed' = freed \union {p} /\ state' = [state EXCEPT ![p] = "DISCONNECTED"]
        /\ UNCHANGED <<call, told>>
    BY <1>5 DEF ClosedByFarEnd, Deletes
  <2>2. /\ state' \in [Pipes -> LwsStates \union {"none"}] /\ state'[p] = "DISCONNECTED"
        /\ \A q \in Pipes \ {p} : state'[q] = state[q]
    BY <1>1, <2>1 DEF TypeOK, LwsStates
  <2>3. call' = call /\ told' = told /\ freed' = freed \union {p} /\ link' = link
        /\ vhd' = vhd /\ doing' = doing /\ fault' = fault
    BY <1>2, <2>1
  <2> USE DEF IInv, Agreement
  <2>4. TypeOK'
    BY <1>1, <1>2, <1>3, <2>1, <2>2 DEF TypeOK, lists
  <2>5. \A q \in Pipes : PipeAgrees(q)'
    BY <1>1, <2>2, <2>3, Tellings DEF PipeAgrees
  <2>6. \A u \in Threads : ConnectsAgree(u)'
    BY <1>1, <1>3, <2>2, <2>3 DEF ConnectsAgree
  <2>7. \A u \in Threads : WritingAgrees(u)'
    BY <1>3, <2>3 DEF WritingAgrees
  <2>8. \A u \in Threads : CallAgrees(u)'
    BY <1>1, <2>2, <2>3, Tellings DEF CallAgrees, PipeAgrees
  <2>9. \A b \in Actors : DoingAgrees(b)'
    BY <2>3 DEF DoingAgrees
  <2>10. NoLostWakeup'
    <3>1. /\ \A q \in pendingConnects' : state'[q] = "IDLE" => state[q] = "IDLE"
          /\ UNCHANGED <<pendingConnects, pendingDisconnects, pendingWrites, cancel>>
      BY <1>1, <1>2, <2>2 DEF TypeOK, lists
    <3> QED BY <1>1, <1>3, <2>3, <3>1 DEF NoLostWakeup
  <2> QED BY <2>4, <2>5, <2>6, <2>7, <2>8, <2>9, <2>10
<1> QED BY <1>4, <1>5

(***************************************************************************)
(* delete ap, once m_callback has returned.                                *)
(***************************************************************************)
LEMMA CallbackReturnsKeeps ==
  ASSUME IInv, fault # "down", NEW t \in Threads, CallbackReturns(t)
  PROVE  Agreement'
<1> DEFINE p == call[t].pipe
<1>1. /\ TypeOK /\ CallAgrees(t) /\ p \in Pipes
      /\ call[t] # NoCall /\ call' = [call EXCEPT ![t] = NoCall]
      /\ UNCHANGED <<vhd, wsi, graceful, text, audio, lists, cancel, phase, work,
                     link, wantWrite, doing, told, fault>>
  BY DEF IInv, Agreement, CallbackReturns, CallAgrees
<1>2. /\ call'[t] = NoCall /\ \A u \in Threads \ {t} : call'[u] = call[u]
      /\ call' \in [Threads -> [event : NotifyEvents \union {"none"},
                                pipe  : Pipes \union {None}]]
  BY <1>1 DEF TypeOK, NoCall
<1>3. CASE ~Ends(call[t].event)
  <2>1. freed' = freed /\ state' = state
    BY <1>3 DEF CallbackReturns
  <2> USE DEF IInv, Agreement, lists
  <2>2. TypeOK'
    BY <1>1, <1>2, <2>1 DEF TypeOK
  <2>3. /\ \A q \in Pipes : PipeAgrees(q)'
        /\ \A b \in Actors : DoingAgrees(b)'
        /\ NoLostWakeup'
    BY <1>1, <2>1 DEF PipeAgrees, DoingAgrees, NoLostWakeup
  <2>4. \A u \in Threads : ConnectsAgree(u)' /\ WritingAgrees(u)' /\ CallAgrees(u)'
    BY <1>1, <1>2, <2>1 DEF ConnectsAgree, WritingAgrees, CallAgrees
  <2> QED BY <2>2, <2>3, <2>4
<1>4. CASE Ends(call[t].event)
  <2>1. /\ freed' = freed \union {p} /\ state' = [state EXCEPT ![p] = "DISCONNECTED"]
        /\ link[p] = "closed" /\ told[p] \in Over /\ vhd[p] = t
    BY <1>1, <1>4 DEF CallbackReturns, Deletes, CallAgrees
  <2>2. /\ state' \in [Pipes -> LwsStates \union {"none"}] /\ state'[p] = "DISCONNECTED"
        /\ \A q \in Pipes \ {p} : state'[q] = state[q]
    BY <1>1, <2>1 DEF TypeOK, LwsStates
  <2>3. told' = told /\ link' = link /\ vhd' = vhd /\ doing' = doing /\ fault' = fault
        /\ phase' = phase /\ work' = work
    BY <1>1
  <2> HIDE DEF p
  <2> USE DEF IInv, Agreement
  <2>4. TypeOK'
    BY <1>1, <1>2, <2>1, <2>2 DEF TypeOK, lists
  <2>5. \A q \in Pipes : PipeAgrees(q)'
    BY <1>1, <2>1, <2>2, <2>3, Tellings DEF PipeAgrees
  <2>6. \A u \in Threads : ConnectsAgree(u)'
    BY <1>1, <2>1, <2>2, <2>3 DEF ConnectsAgree
  <2>7. \A u \in Threads : WritingAgrees(u)'
    BY <1>1, <1>2, <2>3 DEF WritingAgrees
  <2>8. \A u \in Threads : CallAgrees(u)'
    BY <1>1, <1>2, <2>1, <2>2, <2>3 DEF CallAgrees
  <2>9. \A b \in Actors : DoingAgrees(b)'
    BY <2>3 DEF DoingAgrees
  <2>10. NoLostWakeup'
    <3>1. /\ \A q \in pendingConnects' : state'[q] = "IDLE" => state[q] = "IDLE"
          /\ UNCHANGED <<pendingConnects, pendingDisconnects, pendingWrites, cancel>>
      BY <1>1, <2>2 DEF TypeOK, lists
    <3> QED BY <2>3, <3>1 DEF NoLostWakeup
  <2> QED BY <2>4, <2>5, <2>6, <2>7, <2>8, <2>9, <2>10
<1> QED BY <1>3, <1>4

-----------------------------------------------------------------------------
(***************************************************************************)
(* A step that notifies p and moves its socket and m_state: what holds of  *)
(* p and of the thread is for each such step to show, the rest is not      *)
(* disturbed.                                                              *)
(***************************************************************************)
LEMMA NotifyingKeeps ==
  ASSUME IInv, NEW t \in Threads, NEW p \in Pipes, NEW e \in NotifyEvents,
         NEW l \in Links, NEW s \in LwsStates,
         Notify(t, p, e), call[t] = NoCall, phase[t] \in {"poll", "connects"},
         vhd[p] \in {t, None}, vhd' = [vhd EXCEPT ![p] = t],
         link' = [link EXCEPT ![p] = l], state' = [state EXCEPT ![p] = s],
         pendingConnects' \subseteq pendingConnects,
         work' \in [Threads -> SUBSET Pipes],
         \A u \in Threads : work'[u] \subseteq work[u]
                            /\ (phase[u] = "connects" => p \notin work'[u]),
         UNCHANGED <<wsi, graceful, text, audio, freed, ahead,
                     pendingDisconnects, pendingWrites, cancel, phase,
                     wantWrite, doing, fault>>,
         told[p] = Untold \/ told'[p] \in Over, s # "IDLE",
         PipeAgrees(p)', CallAgrees(t)'
  PROVE  Agreement'
<1>0. /\ TypeOK /\ NoLostWakeup
      /\ \A q \in Pipes : PipeAgrees(q)
      /\ \A u \in Threads : ConnectsAgree(u) /\ WritingAgrees(u) /\ CallAgrees(u)
      /\ \A b \in Actors : DoingAgrees(b)
  BY DEF IInv, Agreement
<1>1. /\ \A q \in Pipes \ {p} : told'[q] = told[q]
      /\ \A u \in Threads \ {t} : call'[u] = call[u]
      /\ told' \in [Pipes -> Seq(NotifyEvents)]
      /\ call' \in [Threads -> [event : NotifyEvents \union {"none"},
                               pipe  : Pipes \union {None}]]
  BY <1>0, Notified
<1>2. /\ \A q \in Pipes \ {p} : link'[q] = link[q] /\ state'[q] = state[q]
                                /\ vhd'[q] = vhd[q]
      /\ link' \in [Pipes -> Links] /\ state' \in [Pipes -> LwsStates \union {"none"}]
      /\ vhd' \in [Pipes -> Threads \union {None}]
  BY <1>0 DEF TypeOK
<1>3. TypeOK'
  BY <1>0, <1>1, <1>2 DEF TypeOK
<1>4. ASSUME NEW q \in Pipes PROVE PipeAgrees(q)'
  <2>1. CASE q # p
    <3>1. /\ PipeAgrees(q) /\ freed' = freed /\ told'[q] = told[q]
          /\ link'[q] = link[q] /\ state'[q] = state[q] /\ vhd'[q] = vhd[q]
      BY <1>0, <1>1, <1>2, <2>1
    <3> QED BY ONLY <3>1 DEF PipeAgrees
  <2> QED BY <2>1
<1>5. ASSUME NEW u \in Threads PROVE ConnectsAgree(u)'
  BY <1>0, <1>2 DEF ConnectsAgree, TypeOK
<1>6. ASSUME NEW u \in Threads PROVE WritingAgrees(u)'
  <2>1. CASE u = t
    BY <2>1 DEF WritingAgrees
  <2>2. CASE u # t
    <3>1. phase[u] = "writing" => p \notin work[u]
      BY <1>0, <2>2, ConstantsAssumption DEF WritingAgrees
    <3> QED BY <1>0, <1>1, <1>2, <2>2, <3>1 DEF WritingAgrees, TypeOK
  <2> QED BY <2>1, <2>2
<1>7. ASSUME NEW u \in Threads PROVE CallAgrees(u)'
  <2>1. CASE u # t
    <3>1. call'[u] = call[u] /\ CallAgrees(u)
      BY <1>0, <1>1, <2>1
    <3>2. ASSUME call[u] # NoCall
          PROVE  LET q == call[u].pipe
                 IN  /\ link'[q] = link[q] /\ state'[q] = state[q]
                     /\ told'[q] = told[q] /\ vhd'[q] = vhd[q]
      BY <1>1, <1>2, <2>1, <3>1, <3>2, ConstantsAssumption DEF CallAgrees
    <3> QED BY <3>1, <3>2 DEF CallAgrees
  <2> QED BY <2>1
<1>8. ASSUME NEW b \in Actors PROVE DoingAgrees(b)'
  <2>1. doing'[b] = doing[b] /\ DoingAgrees(b)
    BY <1>0
  <2>2. CASE doing[b].pipe = p
    BY <2>1, <2>2, Tellings DEF DoingAgrees
  <2>3. CASE doing[b].pipe # p
    BY <1>1, <2>1, <2>3, ConstantsAssumption DEF DoingAgrees, Calls
  <2> QED BY <2>2, <2>3
<1>9. NoLostWakeup'
  <2>1. \A q \in pendingConnects' : state'[q] = "IDLE" => state[q] = "IDLE"
    BY <1>0, <1>2 DEF TypeOK
  <2> QED BY <1>0, <2>1 DEF NoLostWakeup
<1> QED BY <1>3, <1>4, <1>5, <1>6, <1>7, <1>8, <1>9 DEF IInv, Agreement

(***************************************************************************)
(* LWS_CALLBACK_CLIENT_ESTABLISHED of a pipe that is still pending, or the *)
(* fault when it is not.                                                   *)
(***************************************************************************)
LEMMA EstablishedKeeps ==
  ASSUME IInv, fault # "down", NEW t \in Threads, NEW p \in Pipes, Established(t, p)
  PROVE  Agreement'
<1>1. /\ phase[t] = "poll" /\ call[t] = NoCall /\ vhd[p] = t /\ link[p] = "opening"
      /\ pendingConnects' \subseteq pendingConnects
      /\ UNCHANGED <<vhd, wsi, graceful, text, audio, freed, ahead,
                     pendingDisconnects, pendingWrites, cancel, phase, work,
                     wantWrite, doing>>
  BY DEF Established, Polling, AfterFind
<1>2. TypeOK /\ PipeAgrees(p) /\ \A u \in Threads : ConnectsAgree(u)
  BY DEF IInv, Agreement
<1>3. CASE InConnects(p)
  <2>1. told[p] = Untold /\ state[p] = "CONNECTING" /\ p \notin freed
    BY <1>2, <1>3 DEF InConnects, PipeAgrees
  <2>2. Notify(t, p, "CONNECT_SUCCESS") /\ fault' = fault
        /\ link' = [link EXCEPT ![p] = "open"]
        /\ state' = [state EXCEPT ![p] = "CONNECTED"]
    BY <1>3 DEF Established
  <2>3. "CONNECT_SUCCESS" \in NotifyEvents /\ "open" \in Links /\ "CONNECTED" \in LwsStates
    BY DEF NotifyEvents, Links, LwsStates
  <2>4. told'[p] = Connected /\ call'[t] = [event |-> "CONNECT_SUCCESS", pipe |-> p]
        /\ link'[p] = "open" /\ state'[p] = "CONNECTED"
    <3>1. /\ told'[p] = Append(told[p], "CONNECT_SUCCESS")
          /\ call'[t] = [event |-> "CONNECT_SUCCESS", pipe |-> p]
      BY <1>2, <2>2, <2>3, Notified
    <3>2. link'[p] = "open" /\ state'[p] = "CONNECTED"
      BY <1>2, <2>2 DEF TypeOK
    <3> QED BY <2>1, <3>1, <3>2, Tellings
  <2>5. PipeAgrees(p)'
    BY <1>1, <2>1, <2>4, Tellings DEF PipeAgrees, Stories
  <2>6. CallAgrees(t)'
    BY <1>1, <2>1, <2>4 DEF CallAgrees, Ends
  <2>7. \A u \in Threads : phase[u] = "connects" => p \notin work[u]
    BY <1>1, <1>2 DEF ConnectsAgree
  <2>8. vhd' = [vhd EXCEPT ![p] = t] /\ work' \in [Threads -> SUBSET Pipes]
    BY <1>1, <1>2 DEF TypeOK
  <2> QED BY <1>1, <2>1, <2>2, <2>3, <2>5, <2>6, <2>7, <2>8, NotifyingKeeps
<1>4. CASE ~InConnects(p)
  <2>1. fault' = "down" /\ UNCHANGED <<link, state, call, told>>
    BY <1>4 DEF Established
  <2> QED BY <1>1, <2>1 DEF IInv, Agreement, TypeOK, PipeAgrees, ConnectsAgree,
                      WritingAgrees, CallAgrees, DoingAgrees, NoLostWakeup
<1> QED BY <1>3, <1>4

(***************************************************************************)
(* LWS_CALLBACK_CLIENT_CONNECTION_ERROR, which ignores a pipe that is not  *)
(* pending.                                                                *)
(***************************************************************************)
LEMMA ConnectionErrorKeeps ==
  ASSUME IInv, fault # "down", NEW t \in Threads, NEW p \in Pipes,
         ConnectionError(t, p)
  PROVE  Agreement'
<1>1. /\ phase[t] = "poll" /\ call[t] = NoCall /\ vhd[p] = t /\ link[p] = "opening"
      /\ link' = [link EXCEPT ![p] = "closed"]
      /\ pendingConnects' \subseteq pendingConnects
      /\ UNCHANGED <<vhd, wsi, graceful, text, audio, freed, ahead,
                     pendingDisconnects, pendingWrites, cancel, phase, work,
                     wantWrite, doing, fault>>
  BY DEF ConnectionError, Polling, AfterFind
<1>2. TypeOK /\ PipeAgrees(p) /\ \A u \in Threads : ConnectsAgree(u)
  BY DEF IInv, Agreement
<1>3. told[p] = Untold /\ state[p] = "CONNECTING" /\ p \notin freed
  BY <1>1, <1>2 DEF PipeAgrees
<1>4. \A u \in Threads : phase[u] = "connects" => p \notin work[u]
  BY <1>1, <1>2 DEF ConnectsAgree
<1>5. CASE InConnects(p)
  <2>1. Notify(t, p, "CONNECT_FAIL") /\ state' = [state EXCEPT ![p] = "FAILED"]
    BY <1>5 DEF ConnectionError
  <2>2. "CONNECT_FAIL" \in NotifyEvents /\ "closed" \in Links /\ "FAILED" \in LwsStates
    BY DEF NotifyEvents, Links, LwsStates
  <2>3. told'[p] = Refused /\ call'[t] = [event |-> "CONNECT_FAIL", pipe |-> p]
        /\ link'[p] = "closed" /\ state'[p] = "FAILED"
    <3>1. /\ told'[p] = Append(told[p], "CONNECT_FAIL")
          /\ call'[t] = [event |-> "CONNECT_FAIL", pipe |-> p]
      BY <1>2, <2>1, <2>2, Notified
    <3>2. link'[p] = "closed" /\ state'[p] = "FAILED"
      BY <1>1, <1>2, <2>1 DEF TypeOK
    <3> QED BY <1>3, <3>1, <3>2, Tellings
  <2>4. PipeAgrees(p)'
    BY <1>1, <1>3, <2>3, Tellings DEF PipeAgrees, Stories
  <2>5. CallAgrees(t)'
    BY <1>1, <1>3, <2>3 DEF CallAgrees, Ends
  <2>6. vhd' = [vhd EXCEPT ![p] = t] /\ work' \in [Threads -> SUBSET Pipes]
    BY <1>1, <1>2 DEF TypeOK
  <2> QED BY <1>1, <1>3, <1>4, <2>1, <2>2, <2>4, <2>5, <2>6, NotifyingKeeps
<1>6. CASE ~InConnects(p)
  <2>1. UNCHANGED <<state, call, told>>
    BY <1>6 DEF ConnectionError
  <2>2. /\ link'[p] = "closed"
        /\ \A q \in Pipes \ {p} : link'[q] = link[q]
        /\ link' \in [Pipes -> Links]
    BY <1>1, <1>2 DEF TypeOK, Links
  <2> USE DEF IInv, Agreement
  <2>3. TypeOK'
    BY <1>1, <2>1, <2>2 DEF TypeOK
  <2>4. \A q \in Pipes : PipeAgrees(q)'
    BY <1>1, <1>3, <2>1, <2>2, Tellings DEF PipeAgrees
  <2>5. \A u \in Threads : ConnectsAgree(u)'
    BY <1>1, <1>4, <2>1, <2>2 DEF ConnectsAgree, TypeOK
  <2>6. \A u \in Threads : WritingAgrees(u)'
    BY <1>1, <2>1, <2>2 DEF WritingAgrees, TypeOK
  <2>7. \A u \in Threads : CallAgrees(u)'
    BY <1>1, <1>3, <2>1, <2>2, Tellings DEF CallAgrees
  <2>8. \A b \in Actors : DoingAgrees(b)'
    BY <1>1, <2>1 DEF DoingAgrees
  <2>9. NoLostWakeup'
    BY <1>1, <2>1 DEF NoLostWakeup
  <2> QED BY <2>3, <2>4, <2>5, <2>6, <2>7, <2>8, <2>9
<1> QED BY <1>5, <1>6

(***************************************************************************)
(* A pipe taken from pendingConnects is given its context, and its         *)
(* connection is begun, refused within the call, or never made.            *)
(***************************************************************************)
LEMMA ConnectClientKeeps ==
  ASSUME IInv, fault # "down", NEW t \in Threads, NEW p \in Pipes,
         ConnectClient(t, p)
  PROVE  Agreement'
<1>1. /\ phase[t] = "connects" /\ call[t] = NoCall /\ p \in work[t]
      /\ work' = [work EXCEPT ![t] = @ \ {p}]
      /\ vhd' = [vhd EXCEPT ![p] = t]
      /\ UNCHANGED <<graceful, text, audio, freed, ahead, pendingDisconnects,
                     pendingWrites, cancel, phase, wantWrite, doing, fault>>
  BY DEF ConnectClient
<1>2. /\ TypeOK /\ NoLostWakeup
      /\ \A q \in Pipes : PipeAgrees(q)
      /\ \A u \in Threads : ConnectsAgree(u) /\ WritingAgrees(u) /\ CallAgrees(u)
      /\ \A b \in Actors : DoingAgrees(b)
  BY DEF IInv, Agreement
<1>3. /\ state[p] = "CONNECTING" /\ vhd[p] = None /\ link[p] = "none"
      /\ told[p] = Untold /\ p \notin freed
      /\ \A u \in Threads \ {t} : phase[u] = "connects" => p \notin work[u]
  BY <1>1, <1>2 DEF ConnectsAgree, PipeAgrees
<1>4. /\ work' \in [Threads -> SUBSET Pipes]
      /\ work'[t] = work[t] \ {p} /\ \A u \in Threads \ {t} : work'[u] = work[u]
      /\ vhd' \in [Pipes -> Threads \union {None}]
      /\ vhd'[p] = t /\ \A q \in Pipes \ {p} : vhd'[q] = vhd[q]
  BY <1>1, <1>2 DEF TypeOK
<1>5. CASE ConnectRefused(t, p) /\ InConnects(p)
  <2>1. /\ Notify(t, p, "CONNECT_FAIL") /\ state' = [state EXCEPT ![p] = "FAILED"]
        /\ link' = [link EXCEPT ![p] = "closed"] /\ wsi' = wsi
        /\ pendingConnects' \subseteq pendingConnects
    BY <1>5 DEF ConnectRefused, AfterFind
  <2>2. "CONNECT_FAIL" \in NotifyEvents /\ "closed" \in Links /\ "FAILED" \in LwsStates
    BY DEF NotifyEvents, Links, LwsStates
  <2>3. told'[p] = Refused /\ call'[t] = [event |-> "CONNECT_FAIL", pipe |-> p]
        /\ link'[p] = "closed" /\ state'[p] = "FAILED"
    <3>1. /\ told'[p] = Append(told[p], "CONNECT_FAIL")
          /\ call'[t] = [event |-> "CONNECT_FAIL", pipe |-> p]
      BY <1>2, <2>1, <2>2, Notified
    <3>2. link'[p] = "closed" /\ state'[p] = "FAILED"
      BY <1>2, <2>1 DEF TypeOK
    <3> QED BY <1>3, <3>1, <3>2, Tellings
  <2>4. PipeAgrees(p)'
    BY <1>1, <1>3, <1>4, <2>3, Tellings DEF PipeAgrees, Stories
  <2>5. CallAgrees(t)'
    BY <1>1, <1>3, <1>4, <2>3 DEF CallAgrees, Ends
  <2>6. \A u \in Threads : work'[u] \subseteq work[u]
                            /\ (phase[u] = "connects" => p \notin work'[u])
    BY <1>3, <1>4
  <2> QED BY <1>1, <1>3, <1>4, <2>1, <2>2, <2>4, <2>5, <2>6, NotifyingKeeps
<1>6. CASE \/ ConnectStarts(t, p) \/ ConnectReturnsNull(t, p)
           \/ ConnectRefused(t, p) /\ ~InConnects(p)
  <2>1. /\ UNCHANGED <<call, told>> /\ pendingConnects' \subseteq pendingConnects
        /\ state' = [state EXCEPT ![p] = "CONNECTING"]
        /\ wsi' \in {wsi, [wsi EXCEPT ![p] = "live"]}
        /\ \E l \in {"opening", "closed", "none"} : link' = [link EXCEPT ![p] = l]
    BY <1>2, <1>3, <1>6
       DEF ConnectStarts, ConnectRefused, ConnectReturnsNull, AfterFind, TypeOK
  <2>2. /\ state' = state
        /\ wsi' \in [Pipes -> {"null", "live"}]
        /\ link' \in [Pipes -> Links] /\ link'[p] \in {"none", "opening", "closed"}
        /\ \A q \in Pipes \ {p} : link'[q] = link[q]
    BY <1>2, <1>3, <2>1 DEF TypeOK, Links
  <2>3. TypeOK'
    BY <1>1, <1>2, <1>4, <2>1, <2>2 DEF TypeOK
  <2>4. \A q \in Pipes : PipeAgrees(q)'
    BY <1>1, <1>2, <1>3, <1>4, <2>1, <2>2, Tellings DEF PipeAgrees
  <2>5. \A u \in Threads : ConnectsAgree(u)'
    BY <1>1, <1>2, <1>3, <1>4, <2>1, <2>2 DEF ConnectsAgree, TypeOK
  <2>6. \A u \in Threads : WritingAgrees(u)'
    BY <1>1, <1>2, <1>3, <1>4, <2>1, <2>2, ConstantsAssumption DEF WritingAgrees, TypeOK
  <2>7. \A u \in Threads : CallAgrees(u)'
    BY <1>1, <1>2, <1>3, <1>4, <2>1, <2>2, ConstantsAssumption, Tellings DEF CallAgrees
  <2>8. \A b \in Actors : DoingAgrees(b)'
    BY <1>1, <1>2, <2>1, <2>2 DEF DoingAgrees
  <2>9. NoLostWakeup'
    BY <1>1, <1>2, <2>1, <2>2 DEF NoLostWakeup
  <2> QED BY <2>3, <2>4, <2>5, <2>6, <2>7, <2>8, <2>9 DEF IInv, Agreement
<1> QED BY <1>5, <1>6 DEF ConnectClient

-----------------------------------------------------------------------------
(***************************************************************************)
(* The end of a story.  A step that begins no CLOSED and ends none, and    *)
(* neither ends an announced connection nor tells of one, keeps what is    *)
(* known of the connections that are over.                                 *)
(***************************************************************************)
EndsAgree == (\A t \in Threads : ClosedAgrees(t)) /\ NotificationOrder

EndsUntouched ==
  /\ \A u \in Threads : phase[u] = "closed" <=> phase'[u] = "closed"
  /\ \A u \in Threads : phase[u] = "closed" =>
       work'[u] = work[u] /\ (call[u] = NoCall => call'[u] = NoCall)
  /\ \A q \in Pipes : link[q] = "closed" /\ told[q] = Connected =>
       vhd'[q] = vhd[q] /\ link'[q] = link[q] /\ told'[q] = told[q]
  /\ \A q \in Pipes : link'[q] = "closed" /\ told'[q] = Connected =>
       link[q] = "closed" /\ told[q] = Connected
  /\ freed \subseteq freed'
  /\ \A q \in freed' : q \in freed \/ told[q] # Connected

LEMMA UntouchedKeeps ==
  ASSUME IInv, Agreement', EndsUntouched
  PROVE  EndsAgree'
<1>1. ASSUME NEW u \in Threads PROVE ClosedAgrees(u)'
  BY <1>1 DEF IInv, Agreement, TypeOK, ClosedAgrees, EndsUntouched
<1>2. ASSUME NEW q \in Pipes, told'[q] = Connected, link'[q] = "closed"
      PROVE  q \in freed' \/ \E u \in Threads : InClosed(u, q)'
  BY <1>2 DEF IInv, NotificationOrder, InClosed, EndsUntouched
<1>3. \A q \in Pipes : told'[q] \in Stories
  BY DEF Agreement, PipeAgrees
<1> QED BY <1>1, <1>2, <1>3 DEF EndsAgree, NotificationOrder

\* No client's operation touches a socket or a notification.
LEMMA ClientKeepsEnds ==
  ASSUME IInv, Agreement', Client
  PROVE  EndsAgree'
<1>1. UNCHANGED <<phase, work, call, vhd, link, told, freed>>
  BY DEF Client, ClientDies, StaleReturn, CallGoesOn, SendStored, CloseStored, WakeUp,
     Connect, CloseAccepted, GracefulShutdown, SendAccepted, lists
<1> QED BY <1>1, UntouchedKeeps DEF EndsUntouched

LEMMA CancelledKeepsEnds ==
  ASSUME IInv, Agreement', NEW t \in Threads, EventWaitCancelled(t)
  PROVE  EndsAgree'
<1>0. TypeOK /\ \A q \in Pipes : PipeAgrees(q)
  BY DEF IInv, Agreement
<1>1. CASE TakeConnects(t) \/ TakeDisconnects(t) \/ TakeWrites(t) \/ EndCancelled(t)
  <2>1. /\ \A u \in Threads : phase[u] = "closed" <=> phase'[u] = "closed"
        /\ \A u \in Threads : phase[u] = "closed" => work'[u] = work[u]
        /\ UNCHANGED <<call, vhd, link, told, freed>>
    BY <1>0, <1>1 DEF TakeConnects, TakeDisconnects, TakeWrites, EndCancelled, Polling,
       TypeOK, lists
  <2> QED BY <2>1, UntouchedKeeps DEF EndsUntouched
<1>2. ASSUME NEW p \in Pipes, RequestWritable(t, p) PROVE EndsAgree'
  <2>1. /\ phase' = phase /\ \A u \in Threads : phase[u] = "closed" => work'[u] = work[u]
        /\ UNCHANGED <<call, vhd, link, told, freed>>
    BY <1>0, <1>2 DEF RequestWritable, TypeOK, lists
  <2> QED BY <2>1, UntouchedKeeps DEF EndsUntouched
<1>3. ASSUME NEW p \in Pipes, ConnectClient(t, p) PROVE EndsAgree'
  <2>1. /\ phase' = phase /\ freed' = freed /\ phase[t] = "connects"
        /\ \A u \in Threads \ {t} : work'[u] = work[u]
        /\ \A q \in Pipes \ {p} : vhd'[q] = vhd[q]
        /\ told[p] = Untold
    BY <1>0, <1>3 DEF ConnectClient, TypeOK, IInv, Agreement, ConnectsAgree, PipeAgrees
  <2>2. /\ \A u \in Threads \ {t} : call'[u] = call[u]
        /\ \A q \in Pipes \ {p} : link'[q] = link[q] /\ told'[q] = told[q]
        /\ told'[p] \in {Untold, Refused}
    <3>0. "CONNECT_FAIL" \in NotifyEvents
      BY DEF NotifyEvents
    <3>1. CASE Notify(t, p, "CONNECT_FAIL") /\ link' = [link EXCEPT ![p] = "closed"]
      <4>1. /\ told'[p] = Append(told[p], "CONNECT_FAIL")
            /\ \A q \in Pipes \ {p} : told'[q] = told[q]
            /\ \A u \in Threads \ {t} : call'[u] = call[u]
        BY <1>0, <3>0, <3>1, Notified
      <4>2. told'[p] \in {Untold, Refused}
        BY <2>1, <4>1, Tellings
      <4>3. \A q \in Pipes \ {p} : link'[q] = link[q]
        BY <1>0, <3>1 DEF TypeOK
      <4> QED BY <4>1, <4>2, <4>3
    <3>2. CASE UNCHANGED <<call, told>>
               /\ \E l \in Links : link' = [link EXCEPT ![p] = l]
      BY <1>0, <2>1, <3>2 DEF TypeOK
    <3>3. link = [link EXCEPT ![p] = link[p]] /\ link[p] \in Links
      BY <1>0 DEF TypeOK
    <3> QED BY <1>3, <3>1, <3>2, <3>3 DEF ConnectClient, ConnectStarts, ConnectRefused,
            ConnectReturnsNull, Links
  <2> QED BY <2>1, <2>2, Tellings, UntouchedKeeps DEF EndsUntouched
<1> QED BY <1>1, <1>2, <1>3 DEF EventWaitCancelled

LEMMA AnswerKeepsEnds ==
  ASSUME IInv, Agreement', NEW t \in Threads, NEW p \in Pipes,
         Established(t, p) \/ ConnectionError(t, p)
  PROVE  EndsAgree'
<1>0. /\ TypeOK /\ phase[t] = "poll" /\ told[p] = Untold
      /\ UNCHANGED <<phase, work, freed, vhd>>
  BY Tellings DEF IInv, Agreement, Established, ConnectionError, Polling, PipeAgrees
<1>1. CASE InConnects(p)
  <2>1. PICK e \in {"CONNECT_SUCCESS", "CONNECT_FAIL"} :
          /\ Notify(t, p, e)
          /\ link' = [link EXCEPT ![p] = IF e = "CONNECT_SUCCESS" THEN "open" ELSE "closed"]
    BY <1>1 DEF Established, ConnectionError
  <2>2. /\ told'[p] = Append(told[p], e)
        /\ \A q \in Pipes \ {p} : told'[q] = told[q]
        /\ \A u \in Threads \ {t} : call'[u] = call[u]
    <3>1. e \in NotifyEvents
      BY DEF NotifyEvents
    <3> QED BY <1>0, <2>1, <3>1, Notified
  <2>3. /\ \A q \in Pipes \ {p} : link'[q] = link[q]
        /\ link'[p] = "open" \/ told'[p] = Refused
    BY <1>0, <2>1, <2>2, Tellings DEF TypeOK
  <2> QED BY <1>0, <2>2, <2>3, Tellings, UntouchedKeeps DEF EndsUntouched
<1>2. CASE ~InConnects(p)
  <2>1. UNCHANGED <<call, told>> /\ \A q \in Pipes \ {p} : link'[q] = link[q]
    BY <1>0, <1>2 DEF Established, ConnectionError, TypeOK
  <2> QED BY <1>0, <2>1, Tellings, UntouchedKeeps DEF EndsUntouched
<1> QED BY <1>1, <1>2

LEMMA ClosedKeepsEnds ==
  ASSUME IInv, Agreement', NEW t \in Threads, NEW p \in Pipes, Closed(t, p)
  PROVE  EndsAgree'
<1>0. /\ TypeOK /\ phase[t] = "poll" /\ call[t] = NoCall /\ vhd[p] = t
      /\ told[p] = Connected /\ p \notin freed /\ link[p] # "closed"
      /\ UNCHANGED <<freed, vhd>>
      /\ link'[p] = "closed" /\ \A q \in Pipes \ {p} : link'[q] = link[q]
  BY ToldSoFar DEF IInv, Agreement, Closed, Polling, TypeOK
<1>1. CASE state[p] = "DISCONNECTING"
  <2>1. Notify(t, p, "CONNECTION_CLOSED_GRACEFULLY") /\ UNCHANGED <<phase, work>>
    BY <1>1 DEF Closed
  <2>2. /\ told'[p] = Append(told[p], "CONNECTION_CLOSED_GRACEFULLY")
        /\ \A q \in Pipes \ {p} : told'[q] = told[q]
        /\ \A u \in Threads \ {t} : call'[u] = call[u]
    BY <1>0, <2>1, Notified DEF NotifyEvents
  <2>3. told'[p] # Connected
    BY <1>0, <2>2, Tellings
  <2> QED BY <1>0, <2>1, <2>2, <2>3, UntouchedKeeps DEF EndsUntouched
<1>2. CASE state[p] # "DISCONNECTING"
  <2>1. /\ phase'[t] = "closed" /\ work'[t] = {p} /\ UNCHANGED <<call, told>>
        /\ \A u \in Threads \ {t} : phase'[u] = phase[u] /\ work'[u] = work[u]
    BY <1>0, <1>2 DEF Closed, TypeOK
  <2>2. ASSUME NEW u \in Threads PROVE ClosedAgrees(u)'
    <3>1. CASE u = t
      BY <1>0, <2>1, <3>1 DEF ClosedAgrees
    <3>2. CASE u # t
      <4>1. phase[u] = "closed" => p \notin work[u]
        BY <1>0 DEF IInv, ClosedAgrees
      <4> QED BY <1>0, <2>1, <3>2, <4>1 DEF IInv, ClosedAgrees, TypeOK
    <3> QED BY <3>1, <3>2
  <2>3. ASSUME NEW q \in Pipes, told'[q] = Connected, link'[q] = "closed"
        PROVE  q \in freed' \/ \E u \in Threads : InClosed(u, q)'
    <3>1. CASE q = p
      BY <2>1, <3>1 DEF InClosed
    <3>2. CASE q # p
      <4>1. q \in freed \/ \E u \in Threads : InClosed(u, q)
        BY <1>0, <2>1, <2>3, <3>2 DEF IInv, NotificationOrder
      <4>2. ASSUME NEW u \in Threads, InClosed(u, q) PROVE InClosed(u, q)'
        BY <1>0, <2>1, <4>2 DEF InClosed
      <4> QED BY <1>0, <4>1, <4>2
    <3> QED BY <3>1, <3>2
  <2>4. \A q \in Pipes : told'[q] \in Stories
    BY DEF Agreement, PipeAgrees
  <2> QED BY <2>2, <2>3, <2>4 DEF EndsAgree, NotificationOrder
<1> QED BY <1>1, <1>2

LEMMA ClosedByFarEndKeepsEnds ==
  ASSUME IInv, Agreement', NEW t \in Threads, NEW p \in Pipes, ClosedByFarEnd(t, p)
  PROVE  EndsAgree'
<1>0. /\ TypeOK /\ phase[t] = "closed" /\ p \in work[t] /\ call[t] = NoCall
      /\ vhd[p] = t /\ told[p] = Connected /\ link[p] = "closed"
      /\ UNCHANGED <<vhd, link>>
      /\ phase'[t] = "poll" /\ work'[t] = {}
      /\ \A u \in Threads \ {t} : phase'[u] = phase[u] /\ work'[u] = work[u]
  BY DEF IInv, Agreement, ClosedByFarEnd, ClosedAgrees, TypeOK
<1>1. /\ \A u \in Threads \ {t} : call'[u] = call[u]
      /\ \A q \in Pipes \ {p} : told'[q] = told[q] /\ (q \in freed' <=> q \in freed)
      /\ freed \subseteq freed'
      /\ told'[p] # Connected \/ p \in freed'
  <2>1. CASE state[p] = "CONNECTED"
    <3>1. Notify(t, p, "CONNECTION_DROPPED") /\ freed' = freed
      BY <2>1 DEF ClosedByFarEnd
    <3>2. /\ told'[p] = Append(told[p], "CONNECTION_DROPPED")
          /\ \A q \in Pipes \ {p} : told'[q] = told[q]
          /\ \A u \in Threads \ {t} : call'[u] = call[u]
      BY <1>0, <3>1, Notified DEF NotifyEvents
    <3> QED BY <1>0, <3>1, <3>2, Tellings
  <2>2. CASE state[p] # "CONNECTED"
    BY <2>2 DEF ClosedByFarEnd, Deletes
  <2> QED BY <2>1, <2>2
<1>2. ASSUME NEW u \in Threads PROVE ClosedAgrees(u)'
  <2>1. CASE u = t
    BY <1>0, <2>1 DEF ClosedAgrees
  <2>2. CASE u # t
    <3>1. phase[u] = "closed" => p \notin work[u]
      BY <1>0, <2>2 DEF IInv, ClosedAgrees
    <3> QED BY <1>0, <1>1, <2>2, <3>1 DEF IInv, ClosedAgrees, TypeOK
  <2> QED BY <2>1, <2>2
<1>3. ASSUME NEW q \in Pipes, told'[q] = Connected, link'[q] = "closed"
      PROVE  q \in freed' \/ \E u \in Threads : InClosed(u, q)'
  <2>1. CASE q = p
    BY <1>1, <1>3, <2>1
  <2>2. CASE q # p
    <3>1. q \in freed \/ \E u \in Threads : InClosed(u, q)
      BY <1>0, <1>1, <1>3, <2>2 DEF IInv, NotificationOrder
    <3>2. ASSUME NEW u \in Threads, InClosed(u, q), q \notin freed PROVE InClosed(u, q)'
      <4>1. CASE u # t
        BY <1>0, <3>2, <4>1 DEF InClosed
      <4>2. CASE u = t
        <5>1. work[t] = {p}
          BY <1>0 DEF IInv, ClosedAgrees
        <5> QED BY <2>2, <3>2, <4>2, <5>1 DEF InClosed
      <4> QED BY <4>1, <4>2
    <3> QED BY <1>1, <3>1, <3>2
  <2> QED BY <2>1, <2>2
<1>4. \A q \in Pipes : told'[q] \in Stories
  BY DEF Agreement, PipeAgrees
<1> QED BY <1>2, <1>3, <1>4 DEF EndsAgree, NotificationOrder

LEMMA ServiceKeepsEnds ==
  ASSUME IInv, Agreement', NEW t \in Threads, Service(t)
  PROVE  EndsAgree'
<1>0. TypeOK /\ CallAgrees(t)
  BY DEF IInv, Agreement
<1>1. CASE CallbackReturns(t)
  <2>1. /\ UNCHANGED <<phase, work, vhd, link, told>>
        /\ \A u \in Threads : call[u] = NoCall => call'[u] = NoCall
        /\ freed \subseteq freed'
    BY <1>0, <1>1 DEF CallbackReturns, Deletes, TypeOK
  <2>2. \A q \in freed' : q \in freed \/ told[q] # Connected
    BY <1>0, <1>1, Tellings DEF CallbackReturns, Deletes, CallAgrees
  <2> QED BY <2>1, <2>2, UntouchedKeeps DEF EndsUntouched
<1>2. ASSUME NEW p \in Pipes,
             Receive(t, p) \/ WriteEof(t, p) \/ NoText(t, p) \/ WriteText(t, p)
      PROVE  EndsAgree'
  <2>1. /\ \A u \in Threads : phase[u] = "closed" <=> phase'[u] = "closed"
        /\ \A u \in Threads : phase[u] = "closed" => work'[u] = work[u] /\ call'[u] = call[u]
        /\ UNCHANGED <<vhd, told, freed>>
    BY <1>0, <1>2 DEF Receive, WriteEof, NoText, WriteText, Writable, Polling, TypeOK
  <2>2. \A q \in Pipes : link'[q] = "closed" <=> link[q] = "closed"
    BY <1>0, <1>2 DEF Receive, WriteEof, NoText, WriteText, Writable, TypeOK
  <2> QED BY <2>1, <2>2, UntouchedKeeps DEF EndsUntouched
<1>3. ASSUME NEW p \in Pipes, CloseOrWriteAudio(t, p) PROVE EndsAgree'
  <2>1. /\ \A u \in Threads : phase[u] = "closed" <=> phase'[u] = "closed"
        /\ \A u \in Threads : phase[u] = "closed" => work'[u] = work[u]
        /\ UNCHANGED <<call, vhd, told, freed>>
    BY <1>0, <1>3 DEF CloseOrWriteAudio, TypeOK
  <2>2. link[p] = "open"
    BY <1>3 DEF CloseOrWriteAudio, IInv, Agreement, WritingAgrees
  <2>3. \A q \in Pipes : link'[q] = "closed" <=> link[q] = "closed"
    BY <1>0, <1>3, <2>2 DEF CloseOrWriteAudio, TypeOK
  <2> QED BY <2>1, <2>3, UntouchedKeeps DEF EndsUntouched
<1> QED BY <1>1, <1>2, <1>3, CancelledKeepsEnds, AnswerKeepsEnds, ClosedKeepsEnds,
        ClosedByFarEndKeepsEnds DEF Service, Writeable

-----------------------------------------------------------------------------
(* The theorems.                                                           *)

(***************************************************************************)
(* IInv is inductive.                                                      *)
(***************************************************************************)
LEMMA InitHolds ==
  ASSUME Init PROVE IInv
<1>1. TypeOK
  BY DEF Init, TypeOK, LwsStates, Phases, Links, Calls, NoCall, Nothing, lists
<1>2. \A p \in Pipes : PipeAgrees(p)
  BY Tellings DEF Init, PipeAgrees, Stories, Untold
<1>3. \A t \in Threads : ConnectsAgree(t) /\ WritingAgrees(t) /\ CallAgrees(t)
  BY DEF Init, ConnectsAgree, WritingAgrees, CallAgrees
<1>4. \A a \in Actors : DoingAgrees(a)
  BY ConstantsAssumption DEF Init, DoingAgrees, Nothing, Calls
<1>5. NoLostWakeup
  BY DEF Init, NoLostWakeup
<1>6. (\A t \in Threads : ClosedAgrees(t)) /\ NotificationOrder
  BY Tellings DEF Init, ClosedAgrees, NotificationOrder, Stories, Untold
<1> QED BY <1>1, <1>2, <1>3, <1>4, <1>5, <1>6 DEF IInv, Agreement

LEMMA NextKeeps ==
  ASSUME IInv, [Next]_vars
  PROVE  IInv'
<1>1. CASE UNCHANGED vars
  <2>1. Agreement'
    BY <1>1 DEF vars, lists, IInv, Agreement, TypeOK, PipeAgrees, ConnectsAgree,
       WritingAgrees, CallAgrees, DoingAgrees, NoLostWakeup
  <2>2. EndsUntouched
    BY <1>1 DEF vars, EndsUntouched
  <2> QED BY <2>1, <2>2, UntouchedKeeps DEF EndsAgree, IInv
<1>2. ASSUME fault # "down", Client PROVE IInv'
  <2>1. Agreement'
    BY <1>2, ConnectKeeps, SendAcceptedKeeps, CloseAcceptedKeeps, StaleReturnKeeps,
       SendStoredKeeps, CloseStoredKeeps, GracefulShutdownKeeps, WakeUpKeeps,
       ClientDiesKeeps
       DEF Client, CallGoesOn
  <2> QED BY <1>2, <2>1, ClientKeepsEnds DEF EndsAgree, IInv
<1>3. ASSUME fault # "down", NEW t \in Threads, EventWaitCancelled(t) PROVE Agreement'
  BY <1>3, TakeConnectsKeeps, ConnectClientKeeps, TakeDisconnectsKeeps,
     TakeWritesKeeps, RequestWritableKeeps, EndCancelledKeeps
     DEF EventWaitCancelled
<1>4. ASSUME fault # "down", NEW t \in Threads, Service(t) PROVE IInv'
  <2>1. Agreement'
    BY <1>3, <1>4, EstablishedKeeps, ConnectionErrorKeeps, ReceiveKeeps, WriteEofKeeps,
       WriteTextKeeps, NoTextKeeps, CloseOrWriteAudioKeeps, ClosedKeeps,
       ClosedByFarEndKeeps, CallbackReturnsKeeps
       DEF Service, Writeable
  <2> QED BY <1>4, <2>1, ServiceKeepsEnds DEF EndsAgree, IInv
<1> QED BY <1>1, <1>2, <1>4 DEF Next

\* The inductive invariant: m_state, the socket, the notifications and what
\* each thread holds agree, for any number of pipes, threads and callers, and
\* although CLOSED reads m_state twice.
THEOREM IInvHolds == Spec => []IInv
<1>1. Init => IInv
  BY InitHolds
<1>2. IInv /\ [Next]_vars => IInv'
  BY NextKeeps
<1> QED BY <1>1, <1>2, PTL DEF Spec

\* Every variable keeps its type.
THEOREM TypeCorrect == Spec => []TypeOK
<1>1. IInv => TypeOK
  BY DEF IInv, Agreement
<1> QED BY <1>1, IInvHolds, PTL

\* A session is told of its connection in order and nothing twice: connected or
\* failed, then dropped or closed; the end of an announced connection is missing
\* only while CLOSED runs or of a pipe that was deleted (lws_callback).
THEOREM NotificationOrderHolds == Spec => []NotificationOrder
<1>1. IInv => NotificationOrder
  BY DEF IInv
<1> QED BY <1>1, IInvHolds, PTL

\* The assertion of connect_client: m_vhd is nullptr, since no two threads and
\* no two rounds of one ever take the same pending connect.
THEOREM ConnectedOnceHolds == Spec => []ConnectedOnce
<1>1. IInv => ConnectedOnce
  BY DEF IInv, Agreement, ConnectsAgree, ConnectedOnce
<1> QED BY <1>1, IInvHolds, PTL

(***************************************************************************)
(* A pipe is deleted once its connection is over and while no callback of  *)
(* any thread works on it, and its session was told, unless a close() ran  *)
(* between the two reads of m_state (LWS_CALLBACK_CLIENT_CLOSED).          *)
(***************************************************************************)
LEMMA DeletedProperly ==
  ASSUME IInv, [Next]_vars, NEW p \in Pipes, Deleted(p)
  PROVE  /\ link[p] = "closed"
         /\ \/ told[p] \in Over
            \/ told[p] = Connected /\ state[p] = "DISCONNECTING"
         /\ \A t \in Threads : call'[t].pipe # p
<1>0. TypeOK /\ (\A q \in Pipes : PipeAgrees(q)) /\ \A u \in Threads : CallAgrees(u)
  BY DEF IInv, Agreement
<1>1. PICK t \in Threads : CallbackReturns(t) \/ \E q \in Pipes : ClosedByFarEnd(t, q)
  <2>1. PICK t \in Threads : Service(t)
    BY DEF Deleted, vars, Next, Client, ClientDies, StaleReturn, CallGoesOn, SendStored,
       CloseStored, WakeUp, Connect, CloseAccepted, GracefulShutdown, SendAccepted
  <2>2. ~EventWaitCancelled(t)
    BY DEF Deleted, EventWaitCancelled, TakeConnects, TakeDisconnects, TakeWrites,
       EndCancelled, ConnectClient, RequestWritable
  <2>3. ASSUME NEW q \in Pipes
        PROVE  /\ ~Established(t, q) /\ ~ConnectionError(t, q) /\ ~Receive(t, q)
               /\ ~Writeable(t, q) /\ ~CloseOrWriteAudio(t, q) /\ ~Closed(t, q)
    BY DEF Deleted, Established, ConnectionError, Receive, Writeable, WriteEof, WriteText,
       NoText, CloseOrWriteAudio, Closed
  <2> QED BY <2>1, <2>2, <2>3 DEF Service
<1>2. CASE CallbackReturns(t)
  <2>1. /\ call[t] # NoCall /\ Ends(call[t].event) /\ p = call[t].pipe
        /\ call' = [call EXCEPT ![t] = NoCall]
    BY <1>2 DEF CallbackReturns, Deletes, Deleted
  <2>2. link[p] = "closed" /\ told[p] \in Over /\ vhd[p] = t
    BY <1>0, <2>1 DEF CallAgrees
  <2>3. ASSUME NEW u \in Threads PROVE call'[u].pipe # p
    <3>1. CASE u = t
      BY <1>0, <2>1, <3>1, ConstantsAssumption DEF NoCall, TypeOK
    <3>2. CASE u # t
      <4>1. call'[u] = call[u]
        BY <1>0, <2>1, <3>2 DEF TypeOK
      <4> QED BY <1>0, <2>2, <3>2, <4>1, ConstantsAssumption DEF CallAgrees, NoCall
    <3> QED BY <3>1, <3>2
  <2> QED BY <2>2, <2>3
<1>3. ASSUME NEW q \in Pipes, ClosedByFarEnd(t, q)
      PROVE  /\ link[p] = "closed" /\ told[p] = Connected /\ state[p] = "DISCONNECTING"
             /\ \A u \in Threads : call'[u].pipe # p
  <2>1. /\ phase[t] = "closed" /\ q \in work[t] /\ p = q /\ state[p] # "CONNECTED"
        /\ call' = call
    BY <1>3 DEF ClosedByFarEnd, Deletes, Deleted
  <2>2. /\ call[t] = NoCall /\ vhd[p] = t /\ link[p] = "closed" /\ told[p] = Connected
        /\ p \notin freed
    BY <2>1 DEF IInv, ClosedAgrees
  <2>3. state[p] = "DISCONNECTING"
    BY <1>0, <2>1, <2>2, Tellings DEF PipeAgrees, TypeOK, LwsStates
  <2>4. ASSUME NEW u \in Threads PROVE call'[u].pipe # p
    BY <1>0, <2>1, <2>2, ConstantsAssumption DEF CallAgrees, NoCall
  <2> QED BY <2>2, <2>3, <2>4
<1> QED BY <1>1, <1>2, <1>3

\* The same of every step (LWS_CALLBACK_CLIENT_CLOSED).
THEOREM DeletedAtTheEndHolds == Spec => DeletedAtTheEnd
<1>1. IInv /\ [Next]_vars =>
        [\A p \in Pipes : Deleted(p) =>
           /\ link[p] = "closed"
           /\ \/ told[p] \in Over
              \/ told[p] = Connected /\ state[p] = "DISCONNECTING"
           /\ \A t \in Threads : call'[t].pipe # p]_vars
  BY DeletedProperly
<1> QED BY <1>1, IInvHolds, PTL DEF Spec, DeletedAtTheEnd

\* Work left in a list has a wake-up before it: a cancel that was not served, a
\* round that has yet to take the list, or a caller about to call lws_cancel_service.
THEOREM NoLostWakeupHolds == Spec => []NoLostWakeup
<1>1. IInv => NoLostWakeup
  BY DEF IInv, Agreement
<1> QED BY <1>1, IInvHolds, PTL

-----------------------------------------------------------------------------
(* With one service thread, the default (mod_audio_fork/README.md:7), a    *)
(* connect that was taken stays in its list.                               *)

\* There is one service thread.
OneServiceThread == \A t, u \in Threads : t = u

\* A pipe stays in pendingConnects from its push until it gets its answer.
OpeningInv ==
  /\ \A p \in Pipes : link[p] = "opening" => p \in pendingConnects /\ wsi[p] = "live"
  /\ \A t \in Threads : phase[t] = "connects" => work[t] \subseteq pendingConnects

\* The clean-up scan spares a connection that has its wsi, and what its own
\* thread has yet to connect: that is behind the pipe the scan stops at.
LEMMA ScanSpares ==
  ASSUME NEW p \in Pipes, NEW q \in pendingConnects, q # p,
         wsi[q] = "live" \/ (InConnects(p) /\ q \notin ahead[p])
  PROVE  q \in AfterFind(p)
  BY DEF AfterFind, Scanned

\* A step that leaves the connections and the threads alone.
LEMMA OpeningUntouched ==
  ASSUME OpeningInv, UNCHANGED <<link, wsi, phase, work>>, pendingConnects \subseteq pendingConnects'
  PROVE  OpeningInv'
  BY DEF OpeningInv

\* The refusal of one connection drops none that its thread has yet to begin.
LEMMA ConnectClientKeepsOpening ==
  ASSUME IInv, OpeningInv, OneServiceThread, NEW t \in Threads, NEW p \in Pipes,
         ConnectClient(t, p)
  PROVE  OpeningInv'
<1>1. /\ phase[t] = "connects" /\ p \in work[t] /\ ahead[p] \intersect work[t] = {}
      /\ work' = [work EXCEPT ![t] = @ \ {p}] /\ phase' = phase
      /\ TypeOK /\ \A u \in Threads : u = t
  BY DEF ConnectClient, IInv, Agreement, OneServiceThread
<1>2. /\ work[t] \subseteq pendingConnects /\ work'[t] = work[t] \ {p}
      /\ state[p] = "CONNECTING" /\ link[p] = "none" /\ work[t] \subseteq Pipes
  BY <1>1 DEF OpeningInv, IInv, Agreement, ConnectsAgree, TypeOK
<1>3. InConnects(p)
  BY <1>1, <1>2 DEF InConnects
<1>4. CASE ConnectStarts(t, p)
  <2>1. /\ pendingConnects' = pendingConnects /\ link' = [link EXCEPT ![p] = "opening"]
        /\ wsi' = [wsi EXCEPT ![p] = "live"]
    BY <1>4 DEF ConnectStarts
  <2> QED BY <1>1, <1>2, <2>1 DEF OpeningInv, TypeOK
<1>5. CASE ConnectRefused(t, p)
  <2>1. /\ pendingConnects' = AfterFind(p) /\ link' = [link EXCEPT ![p] = "closed"]
        /\ wsi' = wsi
    BY <1>5 DEF ConnectRefused
  <2>2. ASSUME NEW q \in Pipes, link'[q] = "opening"
        PROVE  q \in pendingConnects' /\ wsi'[q] = "live"
    <3>1. q # p /\ q \in pendingConnects /\ wsi[q] = "live"
      BY <1>1, <2>1, <2>2 DEF OpeningInv, TypeOK
    <3> QED BY <2>1, <3>1, ScanSpares
  <2>3. ASSUME NEW q \in work'[t] PROVE q \in pendingConnects'
    <3>1. q # p /\ q \in pendingConnects /\ q \notin ahead[p]
      BY <1>1, <1>2, <2>3
    <3> QED BY <1>3, <2>1, <3>1, ScanSpares
  <2> QED BY <1>1, <2>2, <2>3 DEF OpeningInv
<1>6. CASE ConnectReturnsNull(t, p)
  BY <1>1, <1>2, <1>6 DEF ConnectReturnsNull, OpeningInv
<1> QED BY <1>4, <1>5, <1>6 DEF ConnectClient

\* The answer of one pipe's connection: no thread is connecting meanwhile.
LEMMA AnswerKeepsOpening ==
  ASSUME IInv, OpeningInv, OneServiceThread, NEW t \in Threads, NEW p \in Pipes,
         Established(t, p) \/ ConnectionError(t, p)
  PROVE  OpeningInv'
<1>1. /\ phase[t] = "poll" /\ link[p] = "opening" /\ pendingConnects' = AfterFind(p)
      /\ UNCHANGED <<wsi, phase, work>> /\ TypeOK /\ \A u \in Threads : u = t
  BY DEF Established, ConnectionError, Polling, IInv, Agreement, OneServiceThread
<1>2. InConnects(p)
  BY <1>1 DEF OpeningInv, IInv, Agreement, PipeAgrees, InConnects
<1>3. link' \in {[link EXCEPT ![p] = "open"], [link EXCEPT ![p] = "closed"]}
  BY <1>2 DEF Established, ConnectionError
<1>4. ASSUME NEW q \in Pipes, link'[q] = "opening"
      PROVE  q \in pendingConnects' /\ wsi'[q] = "live"
  <2>1. q # p /\ q \in pendingConnects /\ wsi[q] = "live"
    BY <1>1, <1>3, <1>4 DEF OpeningInv, TypeOK
  <2> QED BY <1>1, <2>1, ScanSpares
<1> QED BY <1>1, <1>4 DEF OpeningInv

\* The rest of a service thread's duties leaves the list as it is.
LEMMA ServiceKeepsOpening ==
  ASSUME IInv, OpeningInv, OneServiceThread, NEW t \in Threads, Service(t)
  PROVE  OpeningInv'
<1>0. TypeOK
  BY DEF IInv, Agreement
<1>1. CASE TakeConnects(t)
  <2>1. /\ work'[t] \subseteq pendingConnects /\ pendingConnects' = pendingConnects
        /\ UNCHANGED <<link, wsi>> /\ \A u \in Threads : u = t
    BY <1>0, <1>1 DEF TakeConnects, ToConnect, TypeOK, lists, OneServiceThread
  <2> QED BY <2>1 DEF OpeningInv
<1>2. CASE TakeDisconnects(t) \/ TakeWrites(t) \/ EndCancelled(t)
  <2>1. /\ phase'[t] # "connects" /\ pendingConnects' = pendingConnects
        /\ UNCHANGED <<link, wsi>> /\ \A u \in Threads : u = t
    BY <1>0, <1>2
    DEF TakeDisconnects, TakeWrites, EndCancelled, TypeOK, lists, OneServiceThread
  <2> QED BY <2>1 DEF OpeningInv
<1>3. ASSUME NEW p \in Pipes, RequestWritable(t, p) PROVE OpeningInv'
  <2>1. /\ phase'[t] # "connects" /\ pendingConnects' = pendingConnects
        /\ UNCHANGED <<link, wsi>> /\ \A u \in Threads : u = t
    BY <1>0, <1>3 DEF RequestWritable, TypeOK, lists, OneServiceThread
  <2> QED BY <2>1 DEF OpeningInv
<1>4. CASE CallbackReturns(t)
  BY <1>4, OpeningUntouched DEF CallbackReturns, lists
<1>5. ASSUME NEW p \in Pipes, Receive(t, p) \/ WriteEof(t, p) PROVE OpeningInv'
  BY <1>5, OpeningUntouched DEF Receive, WriteEof, lists
<1>6. ASSUME NEW p \in Pipes, WriteText(t, p) \/ NoText(t, p) PROVE OpeningInv'
  <2>1. /\ phase[t] = "poll" /\ phase'[t] # "connects" /\ pendingConnects' = pendingConnects
        /\ wsi' = wsi /\ \A u \in Threads : u = t
        /\ \A q \in Pipes : link'[q] = "opening" => link[q] = "opening"
    BY <1>0, <1>6 DEF WriteText, NoText, Writable, Polling, TypeOK, lists, OneServiceThread
  <2> QED BY <2>1 DEF OpeningInv
<1>7. ASSUME NEW p \in Pipes, CloseOrWriteAudio(t, p) PROVE OpeningInv'
  BY <1>0, <1>7 DEF CloseOrWriteAudio, OpeningInv, TypeOK, lists
<1>8. ASSUME NEW p \in Pipes, Closed(t, p) \/ ClosedByFarEnd(t, p) PROVE OpeningInv'
  <2>1. /\ phase'[t] # "connects" /\ pendingConnects' = pendingConnects
        /\ wsi' = wsi /\ \A u \in Threads : u = t
        /\ \A q \in Pipes : link'[q] = "opening" => link[q] = "opening"
    BY <1>0, <1>8 DEF Closed, ClosedByFarEnd, Polling, TypeOK, lists, OneServiceThread
  <2> QED BY <2>1 DEF OpeningInv
<1> QED BY <1>1, <1>2, <1>3, <1>4, <1>5, <1>6, <1>7, <1>8, ConnectClientKeepsOpening,
        AnswerKeepsOpening
    DEF Service, EventWaitCancelled, Writeable

\* Any step.
LEMMA OpeningKeeps ==
  ASSUME IInv, OpeningInv, OneServiceThread, [Next]_vars
  PROVE  OpeningInv'
<1>1. CASE UNCHANGED vars
  BY <1>1, OpeningUntouched DEF vars, lists
<1>2. CASE Client
  <2>1. CASE ClientDies \/ \E p \in Pipes : StaleReturn(p)
    BY <2>1, OpeningUntouched DEF ClientDies, StaleReturn, lists
  <2>2. ASSUME NEW a \in Actors, CallGoesOn(a) PROVE OpeningInv'
    BY <2>2, OpeningUntouched DEF CallGoesOn, SendStored, CloseStored, WakeUp, lists
  <2>3. ASSUME NEW a \in Actors, NEW p \in Pipes,
               \/ Connect(a, p) \/ CloseAccepted(a, p) \/ GracefulShutdown(a, p)
               \/ \E x \in Payloads : SendAccepted(a, p, x)
        PROVE  OpeningInv'
    BY <2>3, OpeningUntouched DEF Connect, CloseAccepted, GracefulShutdown, SendAccepted, lists
  <2> QED BY <1>2, <2>1, <2>2, <2>3 DEF Client
<1> QED BY <1>1, <1>2, ServiceKeepsOpening DEF Next

(***************************************************************************)
(* While a connection is being made its pipe stays in pendingConnects,     *)
(* where ESTABLISHED looks for it: the branch that dereferences NULL is    *)
(* never taken with one service thread, however many pipes and callers.    *)
(***************************************************************************)
THEOREM OpeningIsPendingHolds ==
  ASSUME OneServiceThread
  PROVE  Spec => []OpeningIsPending
<1>1. Init => OpeningInv
  BY DEF Init, OpeningInv
<1>2. IInv /\ OpeningInv /\ [Next]_vars => OpeningInv'
  BY OpeningKeeps
<1>3. IInv /\ OpeningInv => OpeningIsPending
  BY DEF IInv, Agreement, PipeAgrees, OpeningInv, OpeningIsPending, InConnects
<1> QED BY <1>1, <1>2, <1>3, IInvHolds, PTL DEF Spec
=============================================================================
