---------------------------- MODULE StateMachine ----------------------------
(***************************************************************************)
(* The functional core of the interview orchestrator, translated from      *)
(* app/backend/orchestrator/state_machine.py and plan.py: the session      *)
(* state, the commands, the adjudication table and the pure function       *)
(* transition(state, event).  Nothing here is a behaviour; Orchestrator    *)
(* and DevSession give transition its events.                              *)
(*                                                                         *)
(* Abstractions.  Time is an integer in one unit shared by every budget.   *)
(* A uuid5 turn id is the counter it is derived from, so two ids are equal *)
(* exactly when their paths are.  Utterances, labels and move contexts are *)
(* left out: the core never reads them.  TechState is flattened into the   *)
(* state.  pending_assessments and assessment_focus, which the code always *)
(* changes together, are the one function assessment_focus, NoNode marking *)
(* a turn that is not pending.  Of a cell's red flags only the number of   *)
(* LIKELY_CHEATING ones is kept.                                           *)
(*                                                                         *)
(* A definition whose name carries a suffix in capitals (abort_UNRECORDED) *)
(* is a mutated form of the one after it, and nothing here uses it: a      *)
(* property is worth checking when such a mistake would violate it.        *)
(***************************************************************************)
EXTENDS Integers, Sequences

CONSTANTS
  Node,                 \* rubric node ids
  NoNode,               \* no competency / a turn that is not pending
  TurnId,               \* ids of candidate turns
  Plans,                \* raw plan payloads a session can be created with
  NoPlan,               \* state.plan before edge 1
  ConfidenceMin,        \* adjudication.confidence_min
  MaxProbes,            \* adjudication.max_probes_per_competency
  MinProbeTime,         \* adjudication.min_probe_seconds
  CheatFlagsToReview,   \* flags.cheat_flags_to_review
  DriftToReview,        \* flags.drift_to_review
  CandidateTimeout      \* timing.candidate_timeout_minutes

\* The bounds config.py validates when orchestrator.yaml is loaded.
ASSUME ConfigAssumption ==
  /\ ConfidenceMin \in Nat /\ MaxProbes \in Nat /\ MinProbeTime \in Nat
  /\ CheatFlagsToReview \in Nat \ {0} /\ DriftToReview \in Nat \ {0}
  /\ CandidateTimeout \in Nat \ {0}

PlannedCompetency ==
  [node_id : Node, target_level : Int, minutes : Int, seeds : Nat]

PlanPayload == [competencies : Seq(PlannedCompetency), qa_minutes : Int,
                session_max_minutes : Int]

ASSUME PlanAssumption ==
  /\ NoNode \notin Node /\ NoPlan \notin Plans
  /\ Plans \subseteq PlanPayload
  /\ TurnId \subseteq Nat

Never == -1      \* a timestamp that is None
NoLevel == -1    \* a level or confidence that is None

-----------------------------------------------------------------------------
\* Vocabulary and state.

Phase == {"created", "intro", "tech", "qa", "close", "completed", "aborted"}
TerminalPhases == {"completed", "aborted"}
AbortReason == {"candidate_timeout", "cost_ceiling", "operator_abort", "fatal_agent_error"}
DecisionReason == {"plan_invalid", "agent_failure", "timeout", "operator", "completed"}
InterviewerMove == {"ask_seed", "depth_probe", "acknowledge_and_transition",
                    "redirect", "close_competency"}
GapMarker == {"gap_not_assessable", "gap_budget_exhausted", "level_zero"}

CoverageCell ==
  [best_level : Int, best_confidence : Int, latest_level : Int, latest_confidence : Int,
   gap_not_assessable : BOOLEAN, assessment_failed : BOOLEAN,
   gap_budget_exhausted : BOOLEAN, needs_manual_review : BOOLEAN, cheat_flags : Nat]

EmptyCell ==
  [best_level |-> NoLevel, best_confidence |-> NoLevel, latest_level |-> NoLevel,
   latest_confidence |-> NoLevel, gap_not_assessable |-> FALSE, assessment_failed |-> FALSE,
   gap_budget_exhausted |-> FALSE, needs_manual_review |-> FALSE, cheat_flags |-> 0]

\* The outbound commands a resume may re-issue, in one shape.
PendingCommand ==
  [kind : {"none", "run_interviewer", "deliver_utterance", "opening", "closing"},
   turn_id : Int, move : InterviewerMove \cup {"none"}, node : Node \cup {NoNode},
   retry : BOOLEAN]

Outbound(kind, turn_id) ==
  [kind |-> kind, turn_id |-> turn_id, move |-> "none", node |-> NoNode, retry |-> FALSE]
NoCommand == Outbound("none", -1)
RunInterviewer(turn_id, move, node) ==
  [kind |-> "run_interviewer", turn_id |-> turn_id, move |-> move, node |-> node, retry |-> FALSE]

RunAssessor(turn_id, node) == [kind |-> "run_assessor", turn_id |-> turn_id, node |-> node]
FlagTurnDegraded(turn_id) == [kind |-> "flag_turn_degraded", turn_id |-> turn_id]
RecordGap(node, marker) == [kind |-> "record_gap", node |-> node, marker |-> marker]
RecordDecision(reason) == [kind |-> "record_decision", reason |-> reason]
EndSession == [kind |-> "end_session"]
PersistState == [kind |-> "persist_state"]
ReissuePendingCommand(command) == [kind |-> "reissue", command |-> command]

SessionState ==
  [phase : Phase, awaiting : {"none", "interviewer", "candidate"},
   last_issued_move : InterviewerMove \cup {"none"},
   plan_input : Plans, plan : Plans \cup {NoPlan},
   competency_index : Nat, seed_index : Nat, probes_used : Nat, drift_count : Nat,
   competency_started_at : Int, coverage : [Node -> CoverageCell],
   assessment_focus : [TurnId -> Node \cup {NoNode}],
   abort_reason : AbortReason \cup {"none"}, flagged_for_review : BOOLEAN,
   needs_manual_review : BOOLEAN, cheat_flag_count : Nat, interviewer_failure_streak : Nat,
   turn_seq : Nat, session_started_at : Int, qa_started_at : Int,
   last_candidate_activity : Int, pending_command : PendingCommand]

initial_state(plan_input) ==
  [phase |-> "created", awaiting |-> "none", last_issued_move |-> "none",
   plan_input |-> plan_input, plan |-> NoPlan,
   competency_index |-> 0, seed_index |-> 0, probes_used |-> 0, drift_count |-> 0,
   competency_started_at |-> Never, coverage |-> [n \in Node |-> EmptyCell],
   assessment_focus |-> [t \in TurnId |-> NoNode],
   abort_reason |-> "none", flagged_for_review |-> FALSE,
   needs_manual_review |-> FALSE, cheat_flag_count |-> 0, interviewer_failure_streak |-> 0,
   turn_seq |-> 0, session_started_at |-> Never, qa_started_at |-> Never,
   last_candidate_activity |-> Never, pending_command |-> NoCommand]

Result(state, commands) == [new_state |-> state, commands |-> commands]
ignore(s) == Result(s, <<>>)

pending_assessments(s) == {t \in TurnId : s.assessment_focus[t] # NoNode}
answers_pending_command_ANY_TURN(s, turn_id) == s.pending_command # NoCommand
answers_pending_command(s, turn_id) ==
  s.pending_command # NoCommand /\ s.pending_command.turn_id = turn_id

-----------------------------------------------------------------------------
\* The plan.  Indices are zero-based, as in the code.

validate_plan_ALLOWS_EMPTY(raw) ==
  /\ \A i \in DOMAIN raw.competencies : raw.competencies[i].seeds >= 1
  /\ raw.qa_minutes >= 0 /\ raw.session_max_minutes >= 1
validate_plan(raw) ==
  /\ Len(raw.competencies) >= 1
  /\ \A i \in DOMAIN raw.competencies :
        /\ raw.competencies[i].target_level \in 1..5
        /\ raw.competencies[i].minutes >= 1
        /\ raw.competencies[i].seeds >= 1
  /\ raw.qa_minutes >= 0
  /\ raw.session_max_minutes >= 1

HasCompetency(plan, index) == index < Len(plan.competencies)
competency(plan, index) == plan.competencies[index + 1]
current_competency(s) == competency(s.plan, s.competency_index)

-----------------------------------------------------------------------------
\* Budgets, all evaluated against the timestamp the event carries.

seconds_remaining(c, started_at, now) ==
  IF started_at = Never THEN c.minutes ELSE c.minutes - (now - started_at)

candidate_timed_out(s, now) ==
  /\ s.last_candidate_activity # Never
  /\ now - s.last_candidate_activity > CandidateTimeout

session_budget_exhausted(s, now) ==
  /\ s.session_started_at # Never /\ s.plan # NoPlan
  /\ now - s.session_started_at >= s.plan.session_max_minutes

qa_budget_exhausted(s, now) ==
  \/ s.qa_started_at = Never
  \/ s.plan = NoPlan
  \/ now - s.qa_started_at >= s.plan.qa_minutes

-----------------------------------------------------------------------------
\* Adjudication: the 2/1/0 table, rows in the code's order.  The verdict's
\* basis is a label nothing reads and is left out.

answered(cell, target_level) ==
  /\ cell.best_level # NoLevel
  /\ cell.best_level >= target_level
  /\ cell.best_confidence >= ConfidenceMin

Verdict(verdict, marker) == [verdict |-> verdict, gap_marker |-> marker]

adjudicate_UNSURE(cell, target_level, probes_used, remaining) ==
  IF cell.best_level >= target_level THEN Verdict("ANSWERED", "none")
  ELSE IF cell.latest_level = 0 THEN Verdict("NONE", "level_zero")
  ELSE IF probes_used >= MaxProbes \/ remaining <= MinProbeTime
    THEN Verdict("NONE", "gap_budget_exhausted")
  ELSE Verdict("CLARIFY", "none")
adjudicate_UNMARKED(cell, target_level, probes_used, remaining) ==
  IF answered(cell, target_level) THEN Verdict("ANSWERED", "none")
  ELSE IF cell.latest_level = 0 THEN Verdict("NONE", "none")
  ELSE IF probes_used >= MaxProbes THEN Verdict("NONE", "gap_budget_exhausted")
  ELSE Verdict("CLARIFY", "none")
adjudicate(cell, target_level, probes_used, remaining) ==
  IF answered(cell, target_level) THEN Verdict("ANSWERED", "none")
  ELSE IF cell.latest_level = 0 THEN Verdict("NONE", "level_zero")
  ELSE IF probes_used >= MaxProbes \/ remaining <= MinProbeTime
    THEN Verdict("NONE", "gap_budget_exhausted")
  ELSE IF cell.gap_not_assessable /\ probes_used >= 1
    THEN Verdict("NONE", "gap_not_assessable")
  ELSE Verdict("CLARIFY", "none")

-----------------------------------------------------------------------------
\* Shared state changes.

issue_interviewer_KEEPS_STREAK(s, move, node) ==
  [s EXCEPT !.turn_seq = @ + 1, !.awaiting = "interviewer", !.last_issued_move = move,
            !.pending_command = RunInterviewer(s.turn_seq, move, node)]

\* Issue a new interviewer move; the command is the state's pending_command.
issue_interviewer(s, move, node) ==
  [s EXCEPT !.turn_seq = @ + 1,
            !.awaiting = "interviewer",
            !.last_issued_move = move,
            !.interviewer_failure_streak = 0,
            !.pending_command = RunInterviewer(s.turn_seq, move, node)]

abort_UNRECORDED(s, reason, decision, persist) ==
  Result([s EXCEPT !.phase = "aborted", !.abort_reason = reason,
                   !.awaiting = "none", !.pending_command = NoCommand],
         IF persist THEN <<PersistState>> ELSE <<RecordDecision(decision)>>)
abort(s, reason, decision, persist) ==
  Result([s EXCEPT !.phase = "aborted", !.abort_reason = reason,
                   !.awaiting = "none", !.pending_command = NoCommand],
         IF persist THEN <<RecordDecision(decision), PersistState>>
                    ELSE <<RecordDecision(decision)>>)

enter_close(s) ==
  LET closing == Outbound("closing", s.turn_seq)
  IN  Result([s EXCEPT !.phase = "close", !.awaiting = "interviewer",
                       !.last_issued_move = "none", !.turn_seq = @ + 1,
                       !.pending_command = closing],
             <<closing, PersistState>>)

complete_KEEPS_FLOOR(s) ==
  Result([s EXCEPT !.phase = "completed", !.pending_command = NoCommand],
         <<EndSession, RecordDecision("completed")>>)
complete(s) ==
  Result([s EXCEPT !.phase = "completed", !.awaiting = "none",
                   !.pending_command = NoCommand],
         <<EndSession, RecordDecision("completed")>>)

enter_qa(s, now) ==
  issue_interviewer([s EXCEPT !.phase = "qa", !.qa_started_at = now],
                    "acknowledge_and_transition", NoNode)

-----------------------------------------------------------------------------
\* Coverage.

Assessed == [node : Node, level : 0..5, confidence : Nat]
AssessorOutput ==
  [competency_focus : Node, assessments : Seq(Assessed), cheat_flags : Nat,
   needs_manual_review : BOOLEAN]

\* The items of a node, the last of them, and the last of its highest ones:
\* what the code's loop over the items leaves in latest_* and best_*.
ItemsOf(output, n) == {i \in DOMAIN output.assessments : output.assessments[i].node = n}
LastItem(output, n) ==
  output.assessments[CHOOSE i \in ItemsOf(output, n) :
                       \A j \in ItemsOf(output, n) : j <= i]
BestItem(output, n) ==
  output.assessments[CHOOSE i \in ItemsOf(output, n) :
                       \A j \in ItemsOf(output, n) :
                          \/ output.assessments[j].level < output.assessments[i].level
                          \/ output.assessments[j].level = output.assessments[i].level /\ j <= i]

WithBest_FIRST_WINS(cell, item) ==
  IF cell.best_level = NoLevel \/ item.level > cell.best_level
  THEN [cell EXCEPT !.best_level = item.level, !.best_confidence = item.confidence]
  ELSE cell
WithBest(cell, item) ==
  IF cell.best_level = NoLevel \/ item.level >= cell.best_level
  THEN [cell EXCEPT !.best_level = item.level, !.best_confidence = item.confidence]
  ELSE cell

WithLatest(cell, item) ==
  [cell EXCEPT !.latest_level = item.level, !.latest_confidence = item.confidence]

record_levels(coverage, output) ==
  IF output.assessments = <<>>
  THEN [coverage EXCEPT ![output.competency_focus].gap_not_assessable = TRUE]
  ELSE [n \in Node |->
          IF ItemsOf(output, n) = {} THEN coverage[n]
          ELSE WithLatest(WithBest(coverage[n], BestItem(output, n)), LastItem(output, n))]

WithSignals(cell, output) ==
  [cell EXCEPT !.needs_manual_review = @ \/ output.needs_manual_review,
               !.cheat_flags = @ + output.cheat_flags]

record_review_signals(coverage, output) ==
  [coverage EXCEPT ![output.competency_focus] = WithSignals(@, output)]

drop_pending_LEAVES_IT(s, turn_id) == s
drop_pending(s, turn_id) == [s EXCEPT !.assessment_focus[turn_id] = NoNode]

-----------------------------------------------------------------------------
\* Event handlers.

on_session_started(s, e) ==
  LET opening == Outbound("opening", s.turn_seq)
  IN  IF ~validate_plan(s.plan_input)
      THEN abort(s, "operator_abort", "plan_invalid", FALSE)
      ELSE Result([s EXCEPT !.phase = "intro", !.awaiting = "interviewer",
                            !.plan = s.plan_input, !.session_started_at = e.now,
                            !.last_candidate_activity = e.now,
                            !.turn_seq = @ + 1, !.pending_command = opening],
                  <<opening, PersistState>>)

on_intro_candidate_turn(s, e) ==
  LET entered == [s EXCEPT !.phase = "tech", !.last_candidate_activity = e.now,
                           !.competency_index = 0, !.seed_index = 0, !.probes_used = 0,
                           !.competency_started_at = e.now]
      issued == issue_interviewer(entered, "ask_seed", competency(s.plan, 0).node_id)
  IN  Result(issued, <<issued.pending_command, PersistState>>)

\* Edge 11.
depth_probe(s, c) ==
  issue_interviewer([s EXCEPT !.probes_used = @ + 1], "depth_probe", c.node_id)

\* The multi-seed rule: stay on the competency.
next_seed(s, c) ==
  issue_interviewer([s EXCEPT !.seed_index = @ + 1], "acknowledge_and_transition", c.node_id)

\* Edges 10/12 (next competency) and 13 (Q&A).
leave_competency(s, verdict, now) ==
  IF ~HasCompetency(s.plan, s.competency_index + 1) THEN enter_qa(s, now)
  ELSE issue_interviewer(
         [s EXCEPT !.competency_index = @ + 1, !.seed_index = 0, !.probes_used = 0,
                   !.competency_started_at = now],
         IF verdict = "ANSWERED" THEN "acknowledge_and_transition" ELSE "close_competency",
         competency(s.plan, s.competency_index + 1).node_id)

on_tech_candidate_turn(s, e) ==
  LET c == current_competency(s)
      assessor == RunAssessor(e.turn_id, c.node_id)
      heard == [s EXCEPT !.last_candidate_activity = e.now,
                         !.assessment_focus[e.turn_id] = c.node_id]
      remaining == seconds_remaining(c, s.competency_started_at, e.now)
      v == adjudicate(s.coverage[c.node_id], c.target_level, s.probes_used, remaining)
      marked == IF v.gap_marker = "gap_budget_exhausted"
                THEN [heard EXCEPT !.coverage[c.node_id].gap_budget_exhausted = TRUE]
                ELSE heard
      probed == depth_probe(heard, c)
      seeded == next_seed(heard, c)
      left == leave_competency(marked, v.verdict, e.now)
      gap == RecordGap(c.node_id, v.gap_marker)
  IN  IF v.verdict = "CLARIFY"
        THEN Result(probed, <<assessor, probed.pending_command, PersistState>>)
      ELSE IF v.verdict = "ANSWERED" /\ s.seed_index + 1 < c.seeds /\ remaining > 0
        THEN Result(seeded, <<assessor, seeded.pending_command, PersistState>>)
      ELSE IF v.verdict = "ANSWERED"
        THEN Result(left, <<assessor, left.pending_command, PersistState>>)
      ELSE Result(left, <<assessor, left.pending_command, gap, PersistState>>)

\* Q&A accepts a turn whatever is awaited; edge 15 emits no PersistState.
on_qa_candidate_turn(s, e) ==
  LET heard == [s EXCEPT !.last_candidate_activity = e.now]
      issued == issue_interviewer(heard, "acknowledge_and_transition", NoNode)
  IN  IF qa_budget_exhausted(s, e.now) THEN enter_close(heard)
      ELSE Result(issued, <<issued.pending_command>>)

on_candidate_turn(s, e) ==
  IF s.phase = "intro" THEN on_intro_candidate_turn(s, e)
  ELSE IF s.phase = "tech" /\ s.awaiting = "candidate" THEN on_tech_candidate_turn(s, e)
  ELSE IF s.phase = "qa" THEN on_qa_candidate_turn(s, e)
  ELSE ignore(s)

InFlight_ANY_FLOOR(s) == s.phase \in {"tech", "qa"}
InFlight_ONLY_TECH(s) == s.phase = "tech" /\ s.awaiting = "interviewer"
InFlight(s) == s.phase \in {"tech", "qa"} /\ s.awaiting = "interviewer"

on_interviewer_reply(s, e) ==
  LET drifted == s.last_issued_move # "none" /\ e.move # s.last_issued_move
      drift_count == IF drifted THEN s.drift_count + 1 ELSE s.drift_count
      delivery == Outbound("deliver_utterance", e.turn_id)
  IN  IF ~answers_pending_command(s, e.turn_id) THEN ignore(s)
      ELSE IF s.phase = "close" THEN complete(s)
      ELSE IF ~InFlight(s) THEN ignore(s)
      ELSE Result([s EXCEPT !.awaiting = "candidate", !.interviewer_failure_streak = 0,
                            !.drift_count = drift_count,
                            !.flagged_for_review =
                               @ \/ (drifted /\ drift_count >= DriftToReview),
                            !.pending_command = delivery],
                  <<delivery, PersistState>>)

on_interviewer_failed(s, e) ==
  LET retry == [s.pending_command EXCEPT !.retry = TRUE]
  IN  IF \/ ~answers_pending_command(s, e.turn_id)
         \/ ~InFlight(s)
         \/ s.pending_command.kind # "run_interviewer"
      THEN ignore(s)
      ELSE IF s.interviewer_failure_streak >= 1
      THEN abort(s, "fatal_agent_error", "agent_failure", TRUE)
      ELSE Result([s EXCEPT !.interviewer_failure_streak = @ + 1, !.pending_command = retry],
                  <<retry, FlagTurnDegraded(e.turn_id), PersistState>>)

on_assessment_completed_STALE_TOTAL(s, e) ==
  LET out == e.output
      folded == record_review_signals(record_levels(s.coverage, out), out)
  IN  IF e.turn_id \notin pending_assessments(s) THEN ignore(s)
      ELSE Result([drop_pending(s, e.turn_id) EXCEPT
                     !.coverage = folded,
                     !.cheat_flag_count = @ + out.cheat_flags,
                     !.flagged_for_review = @ \/ s.cheat_flag_count >= CheatFlagsToReview],
                  <<PersistState>>)
on_assessment_completed(s, e) ==
  LET out == e.output
      cheat_total == s.cheat_flag_count + out.cheat_flags
      folded == record_review_signals(record_levels(s.coverage, out), out)
  IN  IF e.turn_id \notin pending_assessments(s) THEN ignore(s)
      ELSE Result([drop_pending(s, e.turn_id) EXCEPT
                     !.coverage = folded,
                     !.cheat_flag_count = cheat_total,
                     !.needs_manual_review = @ \/ out.needs_manual_review,
                     !.flagged_for_review = @ \/ cheat_total >= CheatFlagsToReview],
                  <<PersistState>>)

on_assessment_failed(s, e) ==
  IF e.turn_id \notin pending_assessments(s) THEN ignore(s)
  ELSE Result([drop_pending(s, e.turn_id) EXCEPT
                 !.coverage[s.assessment_focus[e.turn_id]].assessment_failed = TRUE],
              <<PersistState>>)

on_timer_tick_NEVER_COMPLETES(s, e) ==
  IF candidate_timed_out(s, e.now) THEN abort(s, "candidate_timeout", "timeout", TRUE)
  ELSE IF s.phase = "tech" /\ session_budget_exhausted(s, e.now)
    THEN Result(enter_qa(s, e.now), <<enter_qa(s, e.now).pending_command>>)
  ELSE IF /\ s.phase = "qa"
          /\ session_budget_exhausted(s, e.now) \/ qa_budget_exhausted(s, e.now)
    THEN enter_close(s)
  ELSE ignore(s)

\* Candidate silence beats every budget, then session, Q&A and CLOSE.
on_timer_tick(s, e) ==
  LET asked == enter_qa(s, e.now)
  IN  IF candidate_timed_out(s, e.now)
        THEN abort(s, "candidate_timeout", "timeout", TRUE)
      ELSE IF s.phase = "tech" /\ session_budget_exhausted(s, e.now)
        THEN Result(asked, <<asked.pending_command>>)
      ELSE IF /\ s.phase = "qa"
              /\ session_budget_exhausted(s, e.now) \/ qa_budget_exhausted(s, e.now)
        THEN enter_close(s)
      ELSE IF s.phase = "close" THEN complete(s)
      ELSE ignore(s)

on_reconnected(s) ==
  Result(s, IF s.pending_command = NoCommand THEN <<PersistState>>
            ELSE <<ReissuePendingCommand(s.pending_command), PersistState>>)

-----------------------------------------------------------------------------
\* Events and the transition function.

SessionStarted(now) == [kind |-> "session_started", now |-> now]
CandidateTurnReceived(turn_id, now) ==
  [kind |-> "candidate_turn", turn_id |-> turn_id, now |-> now]
InterviewerReplyReady(turn_id, move) ==
  [kind |-> "interviewer_reply", turn_id |-> turn_id, move |-> move]
InterviewerFailed(turn_id) == [kind |-> "interviewer_failed", turn_id |-> turn_id]
AssessmentCompleted(turn_id, output) ==
  [kind |-> "assessment_completed", turn_id |-> turn_id, output |-> output]
AssessmentFailed(turn_id) == [kind |-> "assessment_failed", turn_id |-> turn_id]
TimerTick(now) == [kind |-> "timer_tick", now |-> now]
Reconnected == [kind |-> "reconnected"]
OperatorAbort(reason) == [kind |-> "operator_abort", reason |-> reason]

SessionEvent ==
  {SessionStarted(now) : now \in Int}
    \cup {CandidateTurnReceived(t, now) : t \in TurnId, now \in Int}
    \cup {InterviewerReplyReady(t, m) : t \in Int, m \in InterviewerMove}
    \cup {InterviewerFailed(t) : t \in Int}
    \cup {AssessmentCompleted(t, out) : t \in TurnId, out \in AssessorOutput}
    \cup {AssessmentFailed(t) : t \in TurnId}
    \cup {TimerTick(now) : now \in Int}
    \cup {Reconnected}
    \cup {OperatorAbort(reason) : reason \in AbortReason}

\* Assessments, operator aborts, resumes and ticks are taken in every live
\* phase; the rest needs a started session.
handle(s, e) ==
  CASE e.kind = "assessment_completed" -> on_assessment_completed(s, e)
    [] e.kind = "assessment_failed"    -> on_assessment_failed(s, e)
    [] e.kind = "operator_abort"       -> abort(s, e.reason, "operator", TRUE)
    [] e.kind = "reconnected"          -> on_reconnected(s)
    [] e.kind = "timer_tick"           -> on_timer_tick(s, e)
    [] e.kind = "session_started" /\ s.phase = "created"    -> on_session_started(s, e)
    [] e.kind = "candidate_turn" /\ s.phase # "created"     -> on_candidate_turn(s, e)
    [] e.kind = "interviewer_reply" /\ s.phase # "created"  -> on_interviewer_reply(s, e)
    [] e.kind = "interviewer_failed" /\ s.phase # "created" -> on_interviewer_failed(s, e)
    [] OTHER -> ignore(s)

transition_NO_SINK(s, e) == handle(s, e)

\* A terminal phase is a sink.
transition(s, e) == IF s.phase \in TerminalPhases THEN ignore(s) ELSE handle(s, e)

\* The command of a kind that a result carries: a transition emits at most
\* one of each kind.
Emitted(r, kind) ==
  LET D == {i \in DOMAIN r.commands : r.commands[i].kind = kind}
  IN  IF D = {} THEN <<>> ELSE <<r.commands[CHOOSE i \in D : TRUE]>>

-----------------------------------------------------------------------------
\* What every state of a session satisfies, in memory or in its row.

\* What the machine waits for and what a resume would re-issue agree: the
\* interviewer's move is outstanding exactly while a call or a script is
\* pending, it is the newest turn, and an ended session owes nothing.
TurnTakingIn(s) ==
  LET p == s.pending_command
  IN  /\ s.awaiting = "candidate" <=> p.kind = "deliver_utterance"
      /\ s.awaiting = "none" <=> p = NoCommand
      /\ s.awaiting = "none" <=> s.phase \in {"created"} \cup TerminalPhases
      /\ s.awaiting # "none" => p.turn_id = s.turn_seq - 1
      /\ p.kind \in {"run_interviewer", "deliver_utterance"} <=> s.phase \in {"tech", "qa"}
      /\ p.kind = "opening" <=> s.phase = "intro"
      /\ p.kind = "closing" <=> s.phase = "close"

\* OrchestratorStateError is never raised: past CREATED the plan is the
\* validated input, and the competency the TECH loop is on is in it.
PlanHoldsIn(s) ==
  /\ s.plan # NoPlan => s.plan = s.plan_input /\ validate_plan(s.plan)
  /\ s.phase \in {"intro", "tech", "qa", "close", "completed"} => s.plan # NoPlan
  /\ s.plan = NoPlan => s.competency_index = 0
  /\ s.plan # NoPlan => HasCompetency(s.plan, s.competency_index)
  /\ s.phase = "tech" => s.seed_index < current_competency(s).seeds

\* The session is flagged for review exactly when a threshold was reached.
FlaggedIn(s) ==
  s.flagged_for_review <=>
    s.cheat_flag_count >= CheatFlagsToReview \/ s.drift_count >= DriftToReview
=============================================================================
