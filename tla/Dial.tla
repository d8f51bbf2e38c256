-------------------------------- MODULE Dial --------------------------------
(***************************************************************************)
(* The applications ytel_dial (mod_ytel_dial.c) and ytel_dialvm (mod_vm.c) *)
(* on one call: they dial numbers in turn until one answers, and bridge    *)
(* the caller to it.  The second is an older copy of the first, with other *)
(* bounds of its turns and less care for the peer.                         *)
(*                                                                         *)
(* FreeSWITCH is external: an originate that succeeds returns the peer's   *)
(* session read-locked, a session that is hung up is destroyed as soon as  *)
(* nobody locks it, a bridge ends when a leg hangs up or presses the       *)
(* terminate key, and switch_channel_handle_cause hangs up.  A hangup of   *)
(* the caller or of the peer may come at any time.                         *)
(***************************************************************************)
EXTENDS Naturals, Sequences

CONSTANTS
  MaxDests,   \* the numbers in the argument, at most 10
  MaxRetry    \* bound of the retries that ytel_dial is told

ASSUME BoundsAssumption == MaxDests \in 1..10 /\ MaxRetry \in Nat

VARIABLES
  app,          \* "ytel" or "vm"
  caller,       \* the caller's channel: "up" or "down"
  peer,         \* the peer's session: "none", "up", "down", "gone"
  locked,       \* this application holds the peer's read lock
  answered,     \* the caller was answered
  connected,    \* connectSuccess
  destCount,
  destPos,
  calleridPos,
  retry,        \* callInfo->retry, retryCount
  at,           \* where the application is
  dialled       \* history: the positions of the attempts

legs == <<caller, peer, locked, answered>>
turns == <<destCount, destPos, calleridPos, retry>>
vars == <<app, legs, connected, turns, at, dialled>>

CallerIdCount == 2

Steps == {"start", "dialling", "ringing", "dialled", "releasing", "playing",
          "answering", "checking", "bridged", "unlocking", "dropping",
          "finishing", "done"}

TypeOK ==
  /\ app \in {"ytel", "vm"}
  /\ caller \in {"up", "down"}
  /\ peer \in {"none", "up", "down", "gone"}
  /\ locked \in BOOLEAN
  /\ answered \in BOOLEAN
  /\ connected \in BOOLEAN
  /\ destCount \in 1..MaxDests
  /\ destPos \in 0..destCount
  /\ calleridPos \in 0..CallerIdCount
  /\ retry \in Nat
  /\ at \in Steps
  /\ dialled \in Seq((0..CallerIdCount) \X (0..MaxDests))

Init ==
  /\ app \in {"ytel", "vm"}
  /\ caller = "up"
  /\ peer = "none"
  /\ locked = FALSE
  /\ answered = FALSE
  /\ connected = FALSE
  /\ destCount = 1
  /\ destPos = 0
  /\ calleridPos = 0
  /\ retry = 0
  /\ at = "start"
  /\ dialled = <<>>

Goto(step) == at' = step

-----------------------------------------------------------------------------
(* The arguments, and the loop that dials.                                 *)

ParseFails ==
  /\ at = "start"
  /\ Goto("done")
  /\ UNCHANGED <<app, legs, connected, turns, dialled>>

ParseInput ==
  /\ at = "start"
  /\ destCount' \in 1..MaxDests
  /\ retry' \in IF app = "vm" THEN {3} ELSE 0..MaxRetry
  /\ Goto("dialling")
  /\ UNCHANGED <<app, legs, connected, destPos, calleridPos, dialled>>

Dial ==
  /\ at = "dialling"
  /\ IF caller = "up"
     THEN Goto("ringing") /\ dialled' = Append(dialled, <<calleridPos, destPos>>)
     ELSE Goto("dialled") /\ UNCHANGED dialled
  /\ UNCHANGED <<app, legs, connected, turns>>

\* Mutant: the list is taken to be one longer.
Last_Past(count) == IF app = "vm" THEN count ELSE count + 1

\* The last position before the first; mod_vm goes one past the end.
Last(count) == IF app = "vm" THEN count ELSE count - 1

NextOf(pos, count) == IF pos = Last(count) THEN 0 ELSE pos + 1

OriginateSucceeds ==
  /\ at = "ringing"
  /\ peer' = "up"
  /\ locked' = TRUE
  /\ Goto("dialled")
  /\ UNCHANGED <<app, caller, answered, connected, turns, dialled>>

OriginateFails ==
  /\ at = "ringing"
  /\ calleridPos' = NextOf(calleridPos, CallerIdCount)
  /\ destPos' = NextOf(destPos, destCount)
  /\ retry' = IF retry = 0 THEN 0 ELSE retry - 1
  /\ Goto(IF retry' > 0 /\ caller = "up" THEN "dialling" ELSE "dialled")
  /\ UNCHANGED <<app, legs, connected, destCount, dialled>>

\* mod_vm does not look after a peer whose caller hung up.
Dialled ==
  /\ at = "dialled"
  /\ Goto(IF peer = "none" THEN "finishing"
          ELSE IF caller = "up" THEN "playing"
          ELSE IF app = "ytel" THEN "releasing"
          ELSE "finishing")
  /\ UNCHANGED <<app, legs, connected, turns, dialled>>

HungUp(leg) == IF leg = "up" THEN "down" ELSE leg

Release ==
  /\ at = "releasing"
  /\ peer' = HungUp(peer)
  /\ locked' = FALSE
  /\ Goto("finishing")
  /\ UNCHANGED <<app, caller, answered, connected, turns, dialled>>

-----------------------------------------------------------------------------
(* The two legs.                                                           *)

\* Silence, and the digits for an answering machine.
Played ==
  /\ at = "playing"
  /\ Goto("answering")
  /\ UNCHANGED <<app, legs, connected, turns, dialled>>

\* Mutant: ytel_dial does not unlock either.
LetGo_Locked == "dropping"

\* How a peer that is not bridged is let go: mod_vm does not unlock it.
LetGo == IF app = "ytel" THEN "unlocking" ELSE "dropping"

AnswerCaller ==
  /\ at = "answering"
  /\ IF caller = "up" THEN answered' = TRUE /\ Goto("checking")
     ELSE UNCHANGED answered /\ Goto(LetGo)
  /\ UNCHANGED <<app, caller, peer, locked, connected, turns, dialled>>

Bridge ==
  /\ at = "checking"
  /\ Goto(IF caller = "up" /\ peer = "up" THEN "bridged" ELSE LetGo)
  /\ UNCHANGED <<app, legs, connected, turns, dialled>>

\* FreeSWITCH ends a bridge when a leg hung up, or else at the terminate key.
BridgeIsOver == caller = "down" \/ peer = "down"

BridgeEnds ==
  /\ at = "bridged"
  /\ BridgeIsOver
  /\ connected' = TRUE
  /\ Goto("unlocking")
  /\ UNCHANGED <<app, legs, turns, dialled>>

BridgeIsBroken ==
  /\ at = "bridged"
  /\ ~BridgeIsOver
  /\ connected' = TRUE
  /\ Goto("unlocking")
  /\ UNCHANGED <<app, legs, turns, dialled>>

UnlockPeer ==
  /\ at = "unlocking"
  /\ locked' = FALSE
  /\ Goto("dropping")
  /\ UNCHANGED <<app, caller, peer, answered, connected, turns, dialled>>

\* The peer's channel is used, locked or not.
DropPeer ==
  /\ at = "dropping"
  /\ peer' = HungUp(peer)
  /\ Goto("finishing")
  /\ UNCHANGED <<app, caller, locked, answered, connected, turns, dialled>>

\* mod_vm hangs up a caller it did not connect too, if it is told (ringlessonly).
Finish ==
  /\ at = "finishing"
  /\ \/ caller' = "down" /\ (connected \/ app = "vm")
     \/ UNCHANGED caller /\ (connected => caller = "down")
  /\ Goto("done")
  /\ UNCHANGED <<app, peer, locked, answered, connected, turns, dialled>>

-----------------------------------------------------------------------------
(* FreeSWITCH.                                                             *)

CallerHangsUp ==
  /\ caller = "up"
  /\ caller' = "down"
  /\ UNCHANGED <<app, peer, locked, answered, connected, turns, at, dialled>>

PeerHangsUp ==
  /\ peer = "up"
  /\ peer' = "down"
  /\ UNCHANGED <<app, caller, locked, answered, connected, turns, at, dialled>>

DestroyPeer ==
  /\ peer = "down"
  /\ ~locked
  /\ peer' = "gone"
  /\ UNCHANGED <<app, caller, locked, answered, connected, turns, at, dialled>>

GoesOn ==
  \/ ParseInput
  \/ ParseFails
  \/ Dial
  \/ OriginateSucceeds
  \/ OriginateFails
  \/ Dialled
  \/ Release
  \/ Played
  \/ AnswerCaller
  \/ Bridge
  \/ BridgeEnds
  \/ UnlockPeer
  \/ DropPeer
  \/ Finish

Next == GoesOn \/ BridgeIsBroken \/ CallerHangsUp \/ PeerHangsUp \/ DestroyPeer

Spec == Init /\ [][Next]_vars

-----------------------------------------------------------------------------
(* Properties.                                                             *)

Turn(count) == IF app = "vm" THEN count + 1 ELSE count

(***************************************************************************)
(* The numbers and the caller ids are dialled in turn: ytel_dial comes to  *)
(* each of them before it comes to one again, and stays in the lists.      *)
(* mod_vm takes one position more into each turn, which is past the end of *)
(* its arrays: the third attempt reads callerIdArray[2].                   *)
(***************************************************************************)
DialledInTurn ==
  \A i \in 1..Len(dialled) :
    dialled[i] = <<(i - 1) % Turn(CallerIdCount), (i - 1) % Turn(destCount)>>

(***************************************************************************)
(* When ytel_dial ends, on whichever path, the peer is unlocked and hung   *)
(* up.  mod_vm does so only for a peer that was bridged: otherwise the     *)
(* lock is left, and if the caller hung up first, the peer's call too.     *)
(***************************************************************************)
PeerReleased ==
  at = "done" /\ (app = "ytel" \/ connected) => ~locked /\ peer # "up"

(***************************************************************************)
(* ytel_dial: "only answer leg 1 if we connect".  The caller is answered   *)
(* when a peer has answered, and left unconnected only if that peer, or    *)
(* the caller, hung up before the bridge.                                  *)
(***************************************************************************)
AnsweredForPeer ==
  /\ answered => peer # "none"
  /\ at = "done" /\ answered /\ ~connected => caller = "down" \/ peer \in {"down", "gone"}

\* What is known of the legs at each step; the inductive part of IInv.
LegsAgree ==
  /\ peer \in {"none", "gone"} => ~locked
  /\ at \in {"start", "dialling", "ringing"} => peer = "none"
  /\ at = "dialled" => (peer = "none") = ~locked
  /\ at \in {"releasing", "playing", "answering", "checking", "bridged", "unlocking"} => locked
  /\ at = "unlocking" /\ app = "vm" => connected
  /\ at \in {"dropping", "finishing"} /\ (app = "ytel" \/ connected) => ~locked
  /\ at = "finishing" /\ (app = "ytel" \/ connected) => peer # "up"
  /\ at = "finishing" /\ answered /\ ~connected => peer \in {"down", "gone"}
  /\ connected => at \in {"unlocking", "dropping", "finishing", "done"}
  /\ answered => at \in {"checking", "bridged", "unlocking", "dropping", "finishing", "done"}
  /\ at = "dropping" => peer # "none"

\* The attempts that have failed, as long as there may be another.
Failed == Len(dialled) - (IF at = "ringing" THEN 1 ELSE 0)

\* The positions follow from the number of failures.
TurnsAgree ==
  /\ at = "ringing" => Len(dialled) > 0
  /\ at = "start" => dialled = <<>>
  /\ at \in {"start", "dialling", "ringing"} =>
       /\ calleridPos = Failed % Turn(CallerIdCount)
       /\ destPos = Failed % Turn(destCount)

IInv ==
  /\ TypeOK
  /\ LegsAgree
  /\ TurnsAgree
  /\ DialledInTurn
  /\ PeerReleased
  /\ AnsweredForPeer

=============================================================================
