----------------------------- MODULE FrameRounds -----------------------------
(***************************************************************************)
(* What the detection of mod_avmd promises, without its threads, its       *)
(* mutexes and its condition variables.  A session is opened, takes frames *)
(* and is closed.  A frame is a round: every detector that has no verdict  *)
(* is handed the frame once, examines it once, and may come to a verdict;  *)
(* the next frame is not inserted before all of them are done, for they    *)
(* read the buffer it goes to.  After a verdict nothing is examined.       *)
(***************************************************************************)

CONSTANTS
  Sessions,   \* the avmd sessions
  Detectors   \* the detectors a session may have

VARIABLES
  stage,      \* "off", "idle" between frames, "round", "closed"
  members,    \* the detectors of the session
  todo,       \* the detectors that are still to be handed the frame
  owes,       \* the detectors that were handed the frame and are not done
  verdict,    \* the detectors that recognised a beep
  beep        \* the beep was reported

vars == <<stage, members, todo, owes, verdict, beep>>

Init ==
  /\ stage = [s \in Sessions |-> "off"]
  /\ members = [s \in Sessions |-> {}]
  /\ todo = [s \in Sessions |-> {}]
  /\ owes = [s \in Sessions |-> {}]
  /\ verdict = [s \in Sessions |-> {}]
  /\ beep = [s \in Sessions |-> FALSE]

StageIs(s, from, to) ==
  /\ stage[s] = from
  /\ stage' = [stage EXCEPT ![s] = to]

Open(s) ==
  /\ StageIs(s, "off", "idle")
  /\ \E D \in SUBSET Detectors : members' = [members EXCEPT ![s] = D]
  /\ UNCHANGED <<todo, owes, verdict, beep>>

Insert(s) ==
  /\ StageIs(s, "idle", "round")
  /\ ~beep[s]
  /\ owes[s] = {}
  /\ todo' = [todo EXCEPT ![s] = members[s] \ verdict[s]]
  /\ UNCHANGED <<members, owes, verdict, beep>>

HandOver(s, d) ==
  /\ stage[s] = "round"
  /\ d \in todo[s]
  /\ todo' = [todo EXCEPT ![s] = @ \ {d}]
  /\ owes' = [owes EXCEPT ![s] = @ \union {d}]
  /\ UNCHANGED <<stage, members, verdict, beep>>

Examine(s, d) ==
  /\ d \in owes[s]
  /\ owes' = [owes EXCEPT ![s] = @ \ {d}]
  /\ verdict' = verdict \/ verdict' = [verdict EXCEPT ![s] = @ \union {d}]
  /\ UNCHANGED <<stage, members, todo, beep>>

\* The beep is reported if and only if somebody recognised one.
Collect(s) ==
  /\ StageIs(s, "round", "idle")
  /\ todo[s] = {}
  /\ owes[s] = {}
  /\ beep' = [beep EXCEPT ![s] = verdict[s] # {}]
  /\ UNCHANGED <<members, todo, owes, verdict>>

Close(s) ==
  /\ StageIs(s, "idle", "closed")
  /\ owes[s] = {}
  /\ UNCHANGED <<members, todo, owes, verdict, beep>>

Next ==
  \E s \in Sessions :
    \/ Open(s)
    \/ Insert(s)
    \/ Collect(s)
    \/ Close(s)
    \/ \E d \in Detectors : HandOver(s, d) \/ Examine(s, d)

Spec == Init /\ [][Next]_vars
=============================================================================
