----------------------------- MODULE DialProofs -----------------------------
(***************************************************************************)
(* Proofs about Dial, for any number of destinations up to the ten that    *)
(* the code takes and for any number of retries: IInv is inductive, and    *)
(* what follows from it.                                                   *)
(***************************************************************************)
EXTENDS Dial, TLAPS

\* The next of t positions, by the remainder of the count.
Successor(n, t) == IF n % t = t - 1 THEN 0 ELSE (n % t) + 1

(***************************************************************************)
(* A remainder goes round: the divisors are those of the lists.            *)
(***************************************************************************)
LEMMA GoesRound ==
  ASSUME NEW n \in Nat, NEW t \in 1..11
  PROVE  (n + 1) % t = Successor(n, t) /\ n % t \in 0..(t - 1)
<1>1. CASE t \in {1, 2, 3}
  BY <1>1 DEF Successor
<1>2. CASE t \in {4, 5, 6}
  BY <1>2 DEF Successor
<1>3. CASE t \in {7, 8, 9}
  BY <1>3 DEF Successor
<1>4. CASE t \in {10, 11}
  BY <1>4 DEF Successor
<1> QED BY <1>1, <1>2, <1>3, <1>4

\* The turns of the lists are short enough for it.
LEMMA TurnIsShort ==
  ASSUME TypeOK
  PROVE  /\ Turn(destCount) \in 1..11 /\ Turn(CallerIdCount) \in 1..11
         /\ app = "ytel" => Turn(destCount) = destCount /\ Turn(CallerIdCount) = 2
         /\ app = "vm" => Turn(destCount) = destCount + 1 /\ Turn(CallerIdCount) = 3
  BY BoundsAssumption DEF TypeOK, Turn, CallerIdCount

LEMMA InitHolds == Init => IInv
<1> SUFFICES ASSUME Init PROVE IInv
  OBVIOUS
<1>1. TypeOK
  <2>1. dialled \in Seq((0..CallerIdCount) \X (0..MaxDests))
    BY DEF Init
  <2>2. destCount \in 1..MaxDests /\ destPos \in 0..destCount /\ retry \in Nat
    BY BoundsAssumption DEF Init
  <2>3. calleridPos \in 0..CallerIdCount
    BY DEF Init, CallerIdCount
  <2> QED BY <2>1, <2>2, <2>3 DEF Init, TypeOK, Steps
<1>2. TurnsAgree
  <2>1. Failed = 0 /\ Failed \in Nat
    BY DEF Init, Failed
  <2>2. 0 % Turn(CallerIdCount) = 0 /\ 0 % Turn(destCount) = 0
    BY <1>1 DEF Init, Turn, CallerIdCount, TypeOK
  <2> QED BY <2>1, <2>2 DEF Init, TurnsAgree
<1>3. DialledInTurn
  BY DEF Init, DialledInTurn
<1> QED BY <1>1, <1>2, <1>3 DEF Init, IInv, LegsAgree, PeerReleased, AnsweredForPeer

-----------------------------------------------------------------------------
(* The loop that dials.                                                    *)

(***************************************************************************)
(* The arguments only choose the length of the turns.                      *)
(***************************************************************************)
LEMMA ParseKeeps ==
  ASSUME IInv, ParseInput \/ ParseFails
  PROVE  IInv'
<1>1. /\ TypeOK /\ LegsAgree /\ TurnsAgree /\ DialledInTurn /\ PeerReleased /\ AnsweredForPeer
      /\ at = "start" /\ dialled = <<>>
  BY DEF IInv, TurnsAgree, ParseInput, ParseFails
<1>2. Failed = 0 /\ calleridPos = 0 /\ destPos = 0
  <2>1. Failed = 0
    BY <1>1 DEF Failed
  <2> QED BY <1>1, <2>1, TurnIsShort DEF TurnsAgree, Turn, CallerIdCount, TypeOK
<1>3. TypeOK'
  <2>1. /\ UNCHANGED <<app, legs, connected, destPos, calleridPos, dialled>>
        /\ destCount' \in 1..MaxDests /\ retry' \in Nat
        /\ at' \in {"dialling", "done"}
    BY <1>1, BoundsAssumption DEF TypeOK, ParseInput, ParseFails, Goto, turns
  <2>2. destPos' \in 0..destCount'
    BY <1>2, <2>1, BoundsAssumption
  <2> QED BY <1>1, <2>1, <2>2 DEF TypeOK, legs, Steps
<1>4. DialledInTurn'
  BY <1>1 DEF DialledInTurn, ParseInput, ParseFails
<1>5. TurnsAgree'
  <2>1. Failed' = 0 /\ dialled' = <<>> /\ calleridPos' = 0 /\ destPos' = 0 /\ at' # "ringing"
    BY <1>1, <1>2 DEF Failed, ParseInput, ParseFails, Goto, turns
  <2>2. 0 % (Turn(CallerIdCount)') = 0 /\ 0 % (Turn(destCount)') = 0
    <3>1. destCount' \in 1..10 /\ Turn(destCount)' \in {destCount', destCount' + 1}
      BY <1>3, BoundsAssumption DEF TypeOK, Turn
    <3>2. Turn(CallerIdCount)' \in {2, 3}
      BY DEF Turn, CallerIdCount
    <3> QED BY <3>1, <3>2
  <2> QED BY <2>1, <2>2 DEF TurnsAgree
<1> QED BY <1>1, <1>3, <1>4, <1>5
     DEF IInv, LegsAgree, PeerReleased, AnsweredForPeer, ParseInput, ParseFails, Goto, legs

(***************************************************************************)
(* An attempt dials the positions that the failures so far lead to.        *)
(***************************************************************************)
LEMMA DialKeeps ==
  ASSUME IInv, Dial
  PROVE  IInv'
<1>1. /\ TypeOK /\ LegsAgree /\ TurnsAgree /\ DialledInTurn /\ PeerReleased /\ AnsweredForPeer
      /\ at = "dialling" /\ UNCHANGED <<app, legs, connected, turns>>
  BY DEF IInv, Dial
<1>2. Failed = Len(dialled) /\ Len(dialled) \in Nat
  BY <1>1 DEF Failed, TypeOK
<1>3. CASE caller = "up"
  <2>1. at' = "ringing" /\ dialled' = Append(dialled, <<calleridPos, destPos>>)
    BY <1>3 DEF Dial, Goto
  <2>2. <<calleridPos, destPos>> \in (0..CallerIdCount) \X (0..MaxDests)
    BY <1>1, BoundsAssumption DEF TypeOK, CallerIdCount
  <2>3. TypeOK'
    BY <1>1, <2>1, <2>2 DEF TypeOK, Steps, legs, turns
  <2>4. Len(dialled') = Len(dialled) + 1 /\ Failed' = Failed
    BY <1>1, <1>2, <2>1, <2>2 DEF Failed, TypeOK
  <2>5. TurnsAgree'
    BY <1>1, <1>2, <2>1, <2>4 DEF TurnsAgree, turns, Turn, CallerIdCount
  <2>6. DialledInTurn'
    <3> SUFFICES ASSUME NEW i \in 1..Len(dialled')
                 PROVE  dialled'[i] = <<(i - 1) % Turn(CallerIdCount), (i - 1) % Turn(destCount)>>
      BY <1>1 DEF DialledInTurn, Turn, CallerIdCount, turns
    <3>1. CASE i = Len(dialled')
      <4>1. i - 1 = Failed /\ dialled'[i] = <<calleridPos, destPos>>
        BY <1>1, <1>2, <2>1, <2>2, <2>4, <3>1 DEF TypeOK
      <4> QED BY <1>1, <4>1 DEF TurnsAgree
    <3>2. CASE i # Len(dialled')
      <4>1. i \in 1..Len(dialled) /\ dialled'[i] = dialled[i]
        BY <1>1, <1>2, <2>1, <2>2, <2>4, <3>2 DEF TypeOK
      <4> QED BY <1>1, <4>1 DEF DialledInTurn
    <3> QED BY <3>1, <3>2
  <2> QED BY <1>1, <2>1, <2>3, <2>5, <2>6
        DEF IInv, LegsAgree, PeerReleased, AnsweredForPeer, legs
<1>4. CASE caller # "up"
  <2>1. at' = "dialled" /\ dialled' = dialled
    BY <1>4 DEF Dial, Goto
  <2>2. TypeOK'
    BY <1>1, <2>1 DEF TypeOK, Steps, legs, turns
  <2>3. DialledInTurn' /\ TurnsAgree'
    BY <1>1, <2>1 DEF DialledInTurn, TurnsAgree, Turn, CallerIdCount, turns
  <2> QED BY <1>1, <2>1, <2>2, <2>3
        DEF IInv, LegsAgree, PeerReleased, AnsweredForPeer, legs
<1> QED BY <1>3, <1>4

(***************************************************************************)
(* A failure moves both positions on, and each stays in its turn.          *)
(***************************************************************************)
LEMMA OriginateFailsKeeps ==
  ASSUME IInv, OriginateFails
  PROVE  IInv'
<1>1. /\ TypeOK /\ LegsAgree /\ TurnsAgree /\ DialledInTurn /\ PeerReleased /\ AnsweredForPeer
      /\ at = "ringing" /\ Len(dialled) \in Nat \ {0}
      /\ at' \in {"dialling", "dialled"}
      /\ UNCHANGED <<app, legs, connected, destCount, dialled>>
  BY DEF IInv, TurnsAgree, TypeOK, OriginateFails, Goto
<1>2. Failed \in Nat /\ Failed' = Failed + 1
  BY <1>1 DEF Failed
<1>3. /\ calleridPos' = Successor(Failed, Turn(CallerIdCount))
      /\ destPos' = Successor(Failed, Turn(destCount))
  BY <1>1, TurnIsShort DEF OriginateFails, NextOf, Last, Successor, TurnsAgree, TypeOK, CallerIdCount
<1>4. /\ calleridPos' = Failed' % Turn(CallerIdCount)
      /\ destPos' = Failed' % Turn(destCount)
  BY <1>1, <1>2, <1>3, TurnIsShort, GoesRound
<1>5. calleridPos' \in 0..CallerIdCount /\ destPos' \in 0..destCount
  <2>0. Failed' \in Nat
    BY <1>2
  <2>1. /\ Failed' % Turn(CallerIdCount) \in 0..(Turn(CallerIdCount) - 1)
        /\ Failed' % Turn(destCount) \in 0..(Turn(destCount) - 1)
    <3>1. ASSUME NEW t \in 1..11 PROVE Failed' % t \in 0..(t - 1)
      BY <2>0, GoesRound
    <3> QED BY <1>1, <3>1, TurnIsShort
  <2> QED BY <1>1, <1>4, <2>1, TurnIsShort DEF TypeOK, CallerIdCount
<1>6. TypeOK'
  BY <1>1, <1>5 DEF TypeOK, OriginateFails, Steps, legs
<1>7. DialledInTurn' /\ TurnsAgree'
  BY <1>1, <1>4 DEF DialledInTurn, TurnsAgree, Turn, CallerIdCount
<1> QED BY <1>1, <1>6, <1>7 DEF IInv, LegsAgree, PeerReleased, AnsweredForPeer, legs

-----------------------------------------------------------------------------
(* The two legs.                                                           *)

\* A step that dials nothing any more leaves the turns alone.
LEMMA TurnsKept ==
  ASSUME IInv, UNCHANGED <<app, turns, dialled>>,
         at' = at \/ at' \notin {"start", "dialling", "ringing"}
  PROVE  TurnsAgree' /\ DialledInTurn'
  BY DEF IInv, TurnsAgree, DialledInTurn, Turn, CallerIdCount, turns, Failed

(***************************************************************************)
(* From the peer's answer to the end: the lock is held until it is let go, *)
(* and the peer hung up after that.                                        *)
(***************************************************************************)
LEMMA LegsKeep ==
  ASSUME IInv,
         \/ OriginateSucceeds \/ Dialled \/ Release \/ Played \/ AnswerCaller
         \/ Bridge \/ BridgeEnds \/ BridgeIsBroken \/ UnlockPeer \/ DropPeer \/ Finish
  PROVE  IInv'
<1> USE DEF IInv, TypeOK, LegsAgree, PeerReleased, AnsweredForPeer, Goto, legs, turns, Steps
<1>1. CASE OriginateSucceeds
  BY <1>1, TurnsKept DEF OriginateSucceeds
<1>2. CASE Dialled
  BY <1>2, TurnsKept DEF Dialled
<1>3. CASE Release
  BY <1>3, TurnsKept DEF Release, HungUp
<1>4. CASE Played
  BY <1>4, TurnsKept DEF Played
<1>5. CASE AnswerCaller
  BY <1>5, TurnsKept DEF AnswerCaller, LetGo
<1>6. CASE Bridge
  BY <1>6, TurnsKept DEF Bridge, LetGo
<1>7. CASE BridgeEnds
  BY <1>7, TurnsKept DEF BridgeEnds
<1>8. CASE BridgeIsBroken
  BY <1>8, TurnsKept DEF BridgeIsBroken
<1>9. CASE UnlockPeer
  BY <1>9, TurnsKept DEF UnlockPeer
<1>10. CASE DropPeer
  BY <1>10, TurnsKept DEF DropPeer, HungUp
<1>11. CASE Finish
  BY <1>11, TurnsKept DEF Finish
<1> QED BY <1>1, <1>2, <1>3, <1>4, <1>5, <1>6, <1>7, <1>8, <1>9, <1>10, <1>11

(***************************************************************************)
(* A leg may hang up at any time; a peer is destroyed when it is unlocked. *)
(***************************************************************************)
LEMMA HangupKeeps ==
  ASSUME IInv, CallerHangsUp \/ PeerHangsUp \/ DestroyPeer
  PROVE  IInv'
<1> USE DEF IInv, TypeOK, LegsAgree, PeerReleased, AnsweredForPeer, turns
<1>1. CASE CallerHangsUp
  BY <1>1, TurnsKept DEF CallerHangsUp
<1>2. CASE PeerHangsUp
  BY <1>2, TurnsKept DEF PeerHangsUp
<1>3. CASE DestroyPeer
  BY <1>3, TurnsKept DEF DestroyPeer
<1> QED BY <1>1, <1>2, <1>3

-----------------------------------------------------------------------------
LEMMA NextKeeps == IInv /\ [Next]_vars => IInv'
<1> SUFFICES ASSUME IInv, [Next]_vars PROVE IInv'
  OBVIOUS
<1>1. CASE UNCHANGED vars
  <2>1. TurnsAgree' /\ DialledInTurn'
    BY <1>1, TurnsKept DEF vars
  <2> QED BY <1>1, <2>1
        DEF IInv, TypeOK, LegsAgree, PeerReleased, AnsweredForPeer, vars, legs, turns
<1>2. CASE Next
  BY <1>2, ParseKeeps, DialKeeps, OriginateFailsKeeps, LegsKeep, HangupKeeps
     DEF Next, GoesOn
<1> QED BY <1>1, <1>2

(***************************************************************************)
(* The legs, the lock and the positions agree with the step the            *)
(* application is at, on every path of both applications.                  *)
(***************************************************************************)
THEOREM IInvHolds == Spec => []IInv
<1>1. Init => IInv
  BY InitHolds
<1>2. IInv /\ [Next]_vars => IInv'
  BY NextKeeps
<1> QED BY <1>1, <1>2, PTL DEF Spec

(***************************************************************************)
(* The numbers are dialled in turn, however often ytel_dial retries.       *)
(***************************************************************************)
THEOREM DialledInTurnHolds == Spec => []DialledInTurn
<1>1. IInv => DialledInTurn
  BY DEF IInv
<1> QED BY <1>1, IInvHolds, PTL

(***************************************************************************)
(* Whenever and wherever a leg hangs up, ytel_dial ends with its peer      *)
(* unlocked and hung up.                                                   *)
(***************************************************************************)
THEOREM PeerReleasedHolds == Spec => []PeerReleased
<1>1. IInv => PeerReleased
  BY DEF IInv
<1> QED BY <1>1, IInvHolds, PTL

(***************************************************************************)
(* ytel_dial stays in its lists: what it dials is a caller id and a number *)
(* that was given.                                                         *)
(***************************************************************************)
YtelInLists ==
  app = "ytel" => \A i \in 1..Len(dialled) :
    dialled[i] \in (0..(CallerIdCount - 1)) \X (0..(destCount - 1))

(***************************************************************************)
(* However often it retries: an index past an array is mod_vm's alone.     *)
(***************************************************************************)
THEOREM YtelStaysInLists == Spec => []YtelInLists
<1>1. IInv => YtelInLists
  <2> SUFFICES ASSUME IInv, app = "ytel", NEW i \in 1..Len(dialled)
               PROVE  dialled[i] \in (0..(CallerIdCount - 1)) \X (0..(destCount - 1))
    BY DEF YtelInLists
  <2>1. i - 1 \in Nat
    BY DEF IInv, TypeOK
  <2>2. ASSUME NEW t \in 1..11 PROVE (i - 1) % t \in 0..(t - 1)
    BY <2>1, GoesRound
  <2>3. /\ (i - 1) % CallerIdCount \in 0..(CallerIdCount - 1)
        /\ (i - 1) % destCount \in 0..(destCount - 1)
    BY <2>2, BoundsAssumption DEF IInv, TypeOK, CallerIdCount
  <2>4. dialled[i] = <<(i - 1) % CallerIdCount, (i - 1) % destCount>>
    BY DEF IInv, DialledInTurn, Turn
  <2> QED BY <2>3, <2>4
<1> QED BY <1>1, IInvHolds, PTL
=============================================================================
