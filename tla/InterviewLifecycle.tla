------------------------- MODULE InterviewLifecycle -------------------------
(***************************************************************************)
(* What the orchestrator promises about one interview, without plan,       *)
(* coverage or clock (docs/contracts/state-machine.md sections 2, 3 and    *)
(* 10): phases only move forward, the floor passes between interviewer and *)
(* candidate, every move is spoken at most once, and the session ends with *)
(* one recorded decision.                                                  *)
(***************************************************************************)
EXTENDS Integers, Sequences

VARIABLES
  phase,      \* where the interview is
  floor,      \* whose move it is: none, interviewer, candidate
  issued,     \* interviewer moves issued, scripts included
  spoken,     \* utterances delivered
  recorded    \* reasons of the decisions recorded

vars == <<phase, floor, issued, spoken, recorded>>

Ended == phase \in {"completed", "aborted"}

Init ==
  /\ phase = "created" /\ floor = "none"
  /\ issued = 0 /\ spoken = 0 /\ recorded = <<>>

\* Enter a phase, or stay in it, with a new move of the interviewer.
Issue(from, to) ==
  /\ phase = from /\ phase' = to
  /\ floor' = "interviewer" /\ issued' = issued + 1
  /\ UNCHANGED <<spoken, recorded>>

Open  == Issue("created", "intro")
Begin == Issue("intro", "tech")
Ask   == Issue("tech", "tech") /\ floor = "candidate"
Turn  == Issue("tech", "qa")
Reply == Issue("qa", "qa")
Wrap  == Issue("qa", "close")

Speak ==
  /\ phase \in {"tech", "qa"} /\ floor = "interviewer"
  /\ floor' = "candidate" /\ spoken' = spoken + 1
  /\ UNCHANGED <<phase, issued, recorded>>

End(to, reasons) ==
  /\ phase' = to /\ floor' = "none"
  /\ \E reason \in reasons : recorded' = Append(recorded, reason)
  /\ UNCHANGED <<issued, spoken>>

Complete == phase = "close" /\ End("completed", {"completed"})
Refuse == phase = "created" /\ End("aborted", {"plan_invalid"})
GiveUp == phase \in {"tech", "qa"} /\ floor = "interviewer" /\ End("aborted", {"agent_failure"})
TimeOut == phase \notin {"created", "completed", "aborted"} /\ End("aborted", {"timeout"})
Abort == ~Ended /\ End("aborted", {"operator"})

Next == Open \/ Begin \/ Ask \/ Turn \/ Reply \/ Wrap \/ Speak
          \/ Complete \/ Refuse \/ GiveUp \/ TimeOut \/ Abort

Spec == Init /\ [][Next]_vars
=============================================================================
