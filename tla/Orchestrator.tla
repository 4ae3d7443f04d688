---------------------------- MODULE Orchestrator ----------------------------
(***************************************************************************)
(* One session driven through transition() by every event its input        *)
(* alphabet allows (docs/contracts/state-machine.md section 3): candidate  *)
(* turns at any moment, interviewer replies and failures that are late or  *)
(* repeated, assessments in any order, ticks, resumes and operator aborts. *)
(*                                                                         *)
(* st is the session state.  The other variables are the environment (the  *)
(* clock, the turns sent) and the record of what transition() was asked    *)
(* and answered, which the properties compare st with.                     *)
(***************************************************************************)
EXTENDS StateMachine, FiniteSets

CONSTANTS
  AssessorOutputs,   \* the outputs an assessor may return
  MaxClock           \* bound on the clock

VARIABLES
  st,           \* SessionState
  clock,        \* the shell's clock
  turns,        \* candidate turns sent so far; the next turn's id
  scheduled,    \* turn id -> the focus its RunAssessor carried
  accepted,     \* assessor outputs folded into coverage, in order
  resolved,     \* turn ids whose assessment was taken in, completed or failed
  decisions,    \* RecordDecision commands emitted
  deliveries,   \* DeliverUtterance commands emitted
  gaps,         \* RecordGap commands emitted
  misses,       \* failures raised for the latest outbound turn
  overtime      \* ticks the TECH, Q&A and CLOSE phases got past the session limit

vars == <<st, clock, turns, scheduled, accepted, resolved, decisions, deliveries, gaps,
          misses, overtime>>

MaxMisses == 2   \* failures the environment raises for one turn: the call and its retry
MaxOvertime == 4 \* overtime ticks counted; three is the most a session may meet

ASSUME OutputAssumption == AssessorOutputs \subseteq AssessorOutput

\* A rubric snapshot is a finite tree.
ASSUME NodeAssumption == IsFiniteSet(Node)

Init ==
  /\ \E p \in Plans : st = initial_state(p)
  /\ clock = 0 /\ turns = 0
  /\ scheduled = [t \in TurnId |-> NoNode]
  /\ accepted = <<>> /\ resolved = {}
  /\ decisions = <<>> /\ deliveries = <<>> /\ gaps = <<>>
  /\ misses = 0 /\ overtime = 0

-----------------------------------------------------------------------------
\* Apply one event.  raised is 1 when the event is a failure of the latest turn.
Apply(e, raised) ==
  LET r == transition(st, e)
      asked == Emitted(r, "run_assessor")
  IN  /\ st' = r.new_state
      /\ scheduled' = IF asked = <<>> THEN scheduled
                      ELSE [scheduled EXCEPT ![asked[1].turn_id] = asked[1].node]
      /\ decisions' = decisions \o Emitted(r, "record_decision")
      /\ deliveries' = deliveries \o Emitted(r, "deliver_utterance")
      /\ gaps' = gaps \o Emitted(r, "record_gap")
      /\ misses' = IF r.new_state.turn_seq = st.turn_seq THEN misses + raised ELSE 0
      /\ overtime' = IF /\ e.kind = "timer_tick" /\ st.phase \in {"tech", "qa", "close"}
                        /\ session_budget_exhausted(st, clock) /\ overtime < MaxOvertime
                     THEN overtime + 1 ELSE overtime

Start ==
  /\ Apply(SessionStarted(clock), 0)
  /\ UNCHANGED <<clock, turns, accepted, resolved>>

CandidateTurn ==
  /\ turns \in TurnId
  /\ Apply(CandidateTurnReceived(turns, clock), 0)
  /\ turns' = turns + 1
  /\ UNCHANGED <<clock, accepted, resolved>>

\* Every turn after the opening is an interviewer call or the closing; its
\* answer may arrive late, or again after a resume re-issued the call.  The
\* move it reports is the one issued or another.
InterviewerReply ==
  /\ \E t \in 1..(st.turn_seq - 1), m \in {st.last_issued_move, "redirect"} \ {"none"} :
        Apply(InterviewerReplyReady(t, m), 0)
  /\ UNCHANGED <<clock, turns, accepted, resolved>>

InterviewerFailure ==
  /\ \E t \in 1..(st.turn_seq - 1) :
        /\ t = st.turn_seq - 1 => misses < MaxMisses
        /\ Apply(InterviewerFailed(t), IF t = st.turn_seq - 1 THEN 1 ELSE 0)
  /\ UNCHANGED <<clock, turns, accepted, resolved>>

\* agents/assessor.py refuses an output whose competency_focus is not the one
\* it asked for.
Assessment ==
  /\ \E t \in TurnId, out \in AssessorOutputs :
        /\ scheduled[t] # NoNode /\ out.competency_focus = scheduled[t]
        /\ Apply(AssessmentCompleted(t, out), 0)
        /\ IF st' = st THEN UNCHANGED <<accepted, resolved>>
           ELSE accepted' = Append(accepted, out) /\ resolved' = resolved \cup {t}
  /\ UNCHANGED <<clock, turns>>

AssessmentFailure ==
  /\ \E t \in TurnId :
        /\ scheduled[t] # NoNode
        /\ Apply(AssessmentFailed(t), 0)
        /\ resolved' = IF st' = st THEN resolved ELSE resolved \cup {t}
  /\ UNCHANGED <<clock, turns, accepted>>

Tick ==
  /\ Apply(TimerTick(clock), 0)
  /\ UNCHANGED <<clock, turns, accepted, resolved>>

Resume ==
  /\ Apply(Reconnected, 0)
  /\ UNCHANGED <<clock, turns, accepted, resolved>>

\* The reasons an OperatorAbort is raised with: an admin's, and the shell's.
Operator ==
  /\ \E reason \in {"operator_abort", "cost_ceiling"} : Apply(OperatorAbort(reason), 0)
  /\ UNCHANGED <<clock, turns, accepted, resolved>>

\* Budgets run from the session's start to its end, so its clock does too.
Elapse ==
  /\ clock < MaxClock /\ st.phase \notin {"created"} \cup TerminalPhases
  /\ clock' = clock + 1
  /\ UNCHANGED <<st, turns, scheduled, accepted, resolved, decisions, deliveries, gaps, misses, overtime>>

Next == \/ Start \/ CandidateTurn \/ InterviewerReply \/ InterviewerFailure
        \/ Assessment \/ AssessmentFailure \/ Tick \/ Resume \/ Operator \/ Elapse

Spec == Init /\ [][Next]_vars

\* The cadence config.py makes the shell's obligation: time passes, and a
\* live session keeps being ticked.
Cadence == WF_vars(Elapse) /\ WF_vars(Tick) /\ WF_vars(Start)
FairSpec == Spec /\ Cadence

-----------------------------------------------------------------------------
\* Types.
TypeOK ==
  /\ st \in SessionState
  /\ clock \in Nat /\ turns \in Nat /\ misses \in 0..MaxMisses /\ overtime \in Nat
  /\ scheduled \in [TurnId -> Node \cup {NoNode}]
  /\ accepted \in Seq(AssessorOutput)
  /\ resolved \subseteq TurnId
  /\ deliveries \in Seq(PendingCommand)
  /\ decisions \in Seq([kind : {"record_decision"}, reason : DecisionReason])
  /\ gaps \in Seq([kind : {"record_gap"}, node : Node, marker : GapMarker])

Live == st.phase \notin TerminalPhases

\* The dialog is coherent: see TurnTakingIn.
TurnTaking == TurnTakingIn(st)

\* No handler meets a state it would raise OrchestratorStateError on: see PlanHoldsIn.
PlanHolds == PlanHoldsIn(st)

\* A session has recorded exactly one decision when it is over and none
\* before, and that decision is the one its abort reason stands for.
OneDecision ==
  /\ Live <=> decisions = <<>>
  /\ ~Live => /\ Len(decisions) = 1
              /\ (st.phase = "completed") <=> (decisions[1].reason = "completed")
              /\ decisions[1].reason = "timeout" => st.abort_reason = "candidate_timeout"
              /\ decisions[1].reason = "agent_failure" => st.abort_reason = "fatal_agent_error"
  /\ st.abort_reason # "none" <=> st.phase = "aborted"

\* No utterance of a superseded turn reaches the candidate, and none twice,
\* however late or often the calls are answered (section 6.9a).
InOrderDelivery ==
  /\ \A i, j \in DOMAIN deliveries : i < j => deliveries[i].turn_id < deliveries[j].turn_id
  /\ \A i \in DOMAIN deliveries :
        /\ deliveries[i].turn_id < st.turn_seq
        /\ st.awaiting = "interviewer" => deliveries[i].turn_id < st.turn_seq - 1

\* The machine gives up on the interviewer only after two failures of the
\* same turn: answers to other turns never climb the ladder (section 6.2).
FailureLadder ==
  /\ st.phase \in {"tech", "qa"} => st.interviewer_failure_streak <= misses
  /\ Len(decisions) = 1 /\ decisions[1].reason = "agent_failure" => misses = MaxMisses

\* Once the session limit is reached three ticks end the session, one per
\* phase, whatever turns, replies and moves come between (edges 14, 16, 17).
OvertimeIsBounded ==
  /\ overtime <= 3
  /\ Live => overtime < 3
  /\ overtime >= 1 => st.phase # "tech"
  /\ overtime >= 2 => st.phase \notin {"tech", "qa"}

\* The session is flagged for review exactly when a threshold was reached
\* (sections 5, 6.4).
FlaggedIffThreshold == FlaggedIn(st)

\* While the session lives, the turns waiting for an assessment are those the
\* machine asked to have assessed and has not heard of: none is lost, none
\* is asked of the wrong competency, none stays pending after its answer.
PendingIsExact ==
  Live => \A t \in TurnId :
            st.assessment_focus[t] = IF t \in resolved THEN NoNode ELSE scheduled[t]

\* Coverage is what the accepted outputs say, in whatever order they came in:
\* best_level is the highest level said of the node and best_confidence that of
\* the last item to say it, latest_* is the last item; the flags of a cell are
\* those of the outputs on its node, and the session's are those of all.
ItemsAbout(n) ==
  {k \in {<<i, j>> : i \in DOMAIN accepted,
                     j \in UNION {DOMAIN accepted[i2].assessments : i2 \in DOMAIN accepted}} :
     k[2] \in DOMAIN accepted[k[1]].assessments /\ accepted[k[1]].assessments[k[2]].node = n}
ItemAt(k) == accepted[k[1]].assessments[k[2]]
Precedes(a, b) == a[1] < b[1] \/ (a[1] = b[1] /\ a[2] < b[2])
FlagsOn(nodes, outputs) ==
  LET upto[k \in 0..Len(outputs)] ==
        IF k = 0 THEN 0
        ELSE upto[k - 1] + IF outputs[k].competency_focus \in nodes THEN outputs[k].cheat_flags ELSE 0
  IN  upto[Len(outputs)]
CoverageIsTheEvidence ==
  /\ st.cheat_flag_count = FlagsOn(Node, accepted)
  /\ \A n \in Node :
       LET cell == st.coverage[n]
           items == ItemsAbout(n)
       IN  /\ items = {} => cell.best_level = NoLevel /\ cell.latest_level = NoLevel
           /\ items # {} => \E k \in items : ItemAt(k).level = cell.best_level
           /\ \A k \in items :
                /\ ItemAt(k).level <= cell.best_level
                /\ (\A l \in items : ~Precedes(k, l)) =>
                     cell.latest_level = ItemAt(k).level /\ cell.latest_confidence = ItemAt(k).confidence
                /\ (ItemAt(k).level = cell.best_level
                      /\ \A l \in items : Precedes(k, l) => ItemAt(l).level < cell.best_level)
                     => cell.best_confidence = ItemAt(k).confidence
           /\ cell.cheat_flags = FlagsOn({n}, accepted)
           /\ cell.gap_not_assessable <=>
                \E i \in DOMAIN accepted :
                  accepted[i].competency_focus = n /\ accepted[i].assessments = <<>>

-----------------------------------------------------------------------------
\* Step properties.

\* A candidate turn takes the machine off a competency only when the evidence
\* it then has says it is answered, or with the gap recorded against it;
\* a competency is never returned to.
LeavesCompetency ==
  /\ st.phase = "tech"
  /\ st'.phase = "qa" \/ st'.competency_index # st.competency_index
NoSilentExit ==
  [][LeavesCompetency /\ turns' # turns =>
       LET c == current_competency(st)
       IN  /\ st'.competency_index \in {st.competency_index, st.competency_index + 1}
           /\ \/ answered(st.coverage[c.node_id], c.target_level) /\ gaps' = gaps
              \/ /\ ~answered(st.coverage[c.node_id], c.target_level)
                 /\ Len(gaps') = Len(gaps) + 1
                 /\ gaps'[Len(gaps')].node = c.node_id]_vars

-----------------------------------------------------------------------------
\* Under the tick cadence every started session comes to an end.
EveryInterviewEnds == (st.phase = "intro") ~> ~Live

-----------------------------------------------------------------------------
\* The detailed machine implements the lifecycle it promises.
Lifecycle == INSTANCE InterviewLifecycle WITH
  phase <- st.phase,
  floor <- st.awaiting,
  issued <- st.turn_seq,
  spoken <- Len(deliveries),
  recorded <- [i \in DOMAIN decisions |-> decisions[i].reason]
RefinesLifecycle == Lifecycle!Spec
=============================================================================
