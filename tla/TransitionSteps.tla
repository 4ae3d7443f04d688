--------------------------- MODULE TransitionSteps ---------------------------
(***************************************************************************)
(* The pure transition function.  First what each handler does to the type *)
(* of the state and which commands it emits; then what one call of         *)
(* transition() can do to the dialog: every result is one of the steps     *)
(* named here.  The invariants of the dialog and the refinement of         *)
(* InterviewLifecycle are proved step by step from this classification,    *)
(* not handler by handler.                                                 *)
(***************************************************************************)
EXTENDS StateMachine, TLAPS, WellFoundedInduction, SequenceTheorems

\* A nonempty set of naturals has a least element.
LEMMA LeastNat ==
  ASSUME NEW S \in SUBSET Nat, S # {}
  PROVE  \E x \in S : \A y \in S : x <= y
<1> DEFINE R == OpToRel(<, Nat)
<1>1. IsWellFoundedOn(R, Nat)
  BY NatLessThanWellFounded
<1>2. \E x \in S : \A y \in S : ~(<<y, x>> \in R)
  <2> HIDE DEF R
  <2> QED BY <1>1, WFMin
<1>3. PICK x \in S : \A y \in S : ~(<<y, x>> \in R)
  BY <1>2
<1>4. ASSUME NEW y \in S PROVE x <= y
  <2>1. y \in Nat /\ x \in Nat
    OBVIOUS
  <2>2. y < x => <<y, x>> \in R
    BY <2>1 DEF OpToRel
  <2> HIDE DEF R
  <2> QED BY <1>3, <2>1, <2>2, SMT
<1> QED BY <1>4

\* What holds of zero and passes to the next number holds of them all.
LEMMA EveryNatural ==
  ASSUME NEW S, 0 \in S, \A n \in Nat : n \in S => n + 1 \in S
  PROVE  \A n \in Nat : n \in S
<1> SUFFICES ASSUME Nat \ S # {} PROVE FALSE
  OBVIOUS
<1>1. PICK n \in Nat \ S : \A m \in Nat \ S : n <= m
  BY LeastNat
<1>2. n # 0 /\ n - 1 \in Nat
  BY <1>1
<1> QED BY <1>1, <1>2

\* A nonempty set of indices of a sequence has a greatest element.
LEMMA GreatestIndex ==
  ASSUME NEW n \in Nat, NEW I \in SUBSET (1..n), I # {}
  PROVE  \E i \in I : \A j \in I : j <= i
<1> DEFINE S == {n - i : i \in I}
<1>1. S \in SUBSET Nat /\ S # {}
  <2>1. \A i \in I : n - i \in Nat
    <3> TAKE i \in I
    <3>1. i \in 1..n
      OBVIOUS
    <3> QED BY <3>1, SMT
  <2> QED BY <2>1
<1>2. PICK x \in S : \A y \in S : x <= y
  BY <1>1, LeastNat
<1>3. PICK i \in I : x = n - i
  BY <1>2
<1>4. ASSUME NEW j \in I PROVE j <= i
  <2>1. n - j \in S
    OBVIOUS
  <2>2. x <= n - j
    BY <1>2, <2>1
  <2> QED BY <1>3, <2>2, SMT
<1> QED BY <1>3, <1>4

Items == Seq(Assessed)

\* The last and the best item of a node are items of the output.
LEMMA ItemsExist ==
  ASSUME NEW output, output.assessments \in Items, NEW n \in Node, ItemsOf(output, n) # {}
  PROVE  LET seq == output.assessments
             I == ItemsOf(output, n)
         IN  /\ LastItem(output, n) \in Assessed /\ BestItem(output, n) \in Assessed
             /\ \E i \in I : LastItem(output, n) = seq[i] /\ \A j \in I : j <= i
             /\ \E i \in I : /\ BestItem(output, n) = seq[i]
                            /\ \A j \in I : \/ seq[j].level < seq[i].level
                                            \/ seq[j].level = seq[i].level /\ j <= i
<1> DEFINE seq == output.assessments
           I == ItemsOf(output, n)
<1>1. I \in SUBSET (1..Len(seq)) /\ Len(seq) \in Nat
  <2>1. Len(seq) \in Nat /\ DOMAIN seq = 1..Len(seq)
    BY DEF Items
  <2> QED BY <2>1 DEF ItemsOf
<1>2. \A i \in I : seq[i] \in Assessed
  <2> TAKE i \in I
  <2>1. i \in 1..Len(seq)
    BY <1>1
  <2> QED BY <2>1, ElementOfSeq DEF Items
<1>3. \E i \in I : \A j \in I : j <= i
  BY <1>1, GreatestIndex
<1>4. PICK last \in I : LastItem(output, n) = seq[last] /\ \A j \in I : j <= last
  <2>1. PICK k \in I : (k = CHOOSE i \in I : \A j \in I : j <= i) /\ \A j \in I : j <= k
    BY <1>3
  <2> QED BY <2>1 DEF LastItem
<1>5. \E i \in I : \A j \in I : \/ seq[j].level < seq[i].level
                                \/ seq[j].level = seq[i].level /\ j <= i
  <2> DEFINE L == {5 - seq[i].level : i \in I}
  <2>1. L \in SUBSET Nat /\ L # {}
    BY <1>2, SMT DEF Assessed
  <2>2. PICK x \in L : \A y \in L : x <= y
    BY <2>1, LeastNat
  <2> DEFINE J == {i \in I : seq[i].level = 5 - x}
  <2>3. PICK i0 \in I : x = 5 - seq[i0].level
    BY <2>2
  <2>4. i0 \in J
    BY <2>3, <1>2, SMT DEF Assessed
  <2>5. PICK i \in J : \A j \in J : j <= i
    BY <1>1, <2>4, GreatestIndex
  <2>6. ASSUME NEW j \in I PROVE \/ seq[j].level < seq[i].level
                                 \/ seq[j].level = seq[i].level /\ j <= i
    <3>1. x <= 5 - seq[j].level
      BY <2>2
    <3>2. seq[j].level \in Int /\ seq[i].level = 5 - x /\ x \in Int
      BY <1>2, <2>1, <2>2, <2>5, SMT DEF Assessed
    <3>3. CASE seq[j].level = 5 - x
      BY <2>5, <3>2, <3>3
    <3>4. CASE seq[j].level # 5 - x
      BY <3>1, <3>2, <3>4, SMT
    <3> QED BY <3>3, <3>4
  <2> QED BY <2>5, <2>6
<1> DEFINE P(i) == \A j \in I : \/ seq[j].level < seq[i].level
                                \/ seq[j].level = seq[i].level /\ j <= i
<1>6. PICK best \in I : BestItem(output, n) = seq[best] /\ P(best)
  <2>1. PICK k \in I : (k = CHOOSE i \in I : P(i)) /\ P(k)
    BY <1>5
  <2> QED BY <2>1 DEF BestItem
<1>7. LastItem(output, n) \in Assessed /\ BestItem(output, n) \in Assessed
  BY <1>2, <1>4, <1>6
<1> HIDE DEF seq, I
<1> QED BY <1>4, <1>6, <1>7 DEF seq, I

-----------------------------------------------------------------------------
\* Pending commands.

\* The commands the handlers build are outbound commands.
LEMMA CommandTypes ==
  /\ NoCommand \in PendingCommand
  /\ \A t \in Int : /\ Outbound("opening", t) \in PendingCommand
                    /\ Outbound("closing", t) \in PendingCommand
                    /\ Outbound("deliver_utterance", t) \in PendingCommand
  /\ \A t \in Int, m \in InterviewerMove, n \in Node \cup {NoNode} :
       RunInterviewer(t, m, n) \in PendingCommand
<1>1. -1 \in Int
  BY SMT
<1> QED BY <1>1, Zenon DEF NoCommand, PendingCommand, Outbound, RunInterviewer

\* _issue_interviewer keeps the type.
LEMMA IssueType ==
  ASSUME NEW s \in SessionState, NEW move \in InterviewerMove, NEW node \in Node \cup {NoNode}
  PROVE  issue_interviewer(s, move, node) \in SessionState
<1>1. s.turn_seq \in Nat /\ s.turn_seq \in Int /\ s.turn_seq + 1 \in Nat /\ 0 \in Nat
  BY SMT DEF SessionState
<1>2. RunInterviewer(s.turn_seq, move, node) \in PendingCommand
  BY <1>1, CommandTypes
<1> QED BY <1>1, <1>2, Zenon DEF issue_interviewer, SessionState

\* _abort keeps the type.
LEMMA AbortType ==
  ASSUME NEW s \in SessionState, NEW reason \in AbortReason, NEW decision, NEW persist
  PROVE  abort(s, reason, decision, persist).new_state \in SessionState
  BY CommandTypes, Zenon DEF abort, Result, SessionState, Phase

\* _enter_close keeps the type.
LEMMA CloseType ==
  ASSUME NEW s \in SessionState
  PROVE  enter_close(s).new_state \in SessionState
<1>1. s.turn_seq \in Nat /\ s.turn_seq \in Int /\ s.turn_seq + 1 \in Nat
  BY SMT DEF SessionState
<1>2. Outbound("closing", s.turn_seq) \in PendingCommand
  BY <1>1, CommandTypes
<1> QED BY <1>1, <1>2, Zenon DEF enter_close, Result, SessionState, Phase

\* _complete keeps the type.
LEMMA CompleteType ==
  ASSUME NEW s \in SessionState
  PROVE  complete(s).new_state \in SessionState
  BY CommandTypes, Zenon DEF complete, Result, SessionState, Phase

-----------------------------------------------------------------------------
\* The type of each handler's next state.

\* A validated plan's competencies are well typed.
LEMMA PlanTypes ==
  ASSUME NEW s \in SessionState, s.plan # NoPlan, NEW i \in Nat, HasCompetency(s.plan, i)
  PROVE  competency(s.plan, i) \in PlannedCompetency
<1>1. s.plan \in PlanPayload
  BY PlanAssumption DEF SessionState
<1>2. s.plan.competencies \in Seq(PlannedCompetency)
  BY <1>1 DEF PlanPayload
<1>3. i + 1 \in 1..Len(s.plan.competencies)
  BY <1>2, SMT DEF HasCompetency
<1> QED BY <1>2, <1>3, ElementOfSeq DEF competency

\* _enter_qa keeps the type.
LEMMA QaType ==
  ASSUME NEW s \in SessionState, NEW now \in Int
  PROVE  enter_qa(s, now) \in SessionState
<1>1. [s EXCEPT !.phase = "qa", !.qa_started_at = now] \in SessionState
  BY Zenon DEF SessionState, Phase
<1>2. "acknowledge_and_transition" \in InterviewerMove
  BY DEF InterviewerMove
<1> QED BY <1>1, <1>2, IssueType DEF enter_qa

\* Starting keeps the type: the plan stored is the one given.
LEMMA StartType ==
  ASSUME NEW s \in SessionState, NEW now \in Int
  PROVE  on_session_started(s, SessionStarted(now)).new_state \in SessionState
<1> DEFINE e == SessionStarted(now)
           t == [s EXCEPT !.phase = "intro", !.awaiting = "interviewer",
                          !.plan = s.plan_input, !.session_started_at = e.now,
                          !.last_candidate_activity = e.now,
                          !.turn_seq = @ + 1, !.pending_command = Outbound("opening", s.turn_seq)]
<1>1. s.turn_seq \in Int /\ s.turn_seq + 1 \in Nat
  BY SMT DEF SessionState
<1>2. Outbound("opening", s.turn_seq) \in PendingCommand /\ e.now \in Int
  BY <1>1, CommandTypes DEF SessionStarted
<1>3. t \in SessionState
  BY <1>1, <1>2, Zenon DEF SessionState, Phase
<1>4. "operator_abort" \in AbortReason
  BY DEF AbortReason
<1> QED BY <1>3, <1>4, AbortType DEF on_session_started, Result

\* So does the first turn: a validated plan has a first competency.
LEMMA IntroType ==
  ASSUME NEW s \in SessionState, PlanHoldsIn(s), s.phase = "intro",
         NEW turn \in TurnId, NEW now \in Int
  PROVE  on_intro_candidate_turn(s, CandidateTurnReceived(turn, now)).new_state \in SessionState
<1> DEFINE e == CandidateTurnReceived(turn, now)
           t == [s EXCEPT !.phase = "tech", !.last_candidate_activity = e.now,
                          !.competency_index = 0, !.seed_index = 0, !.probes_used = 0,
                          !.competency_started_at = e.now]
<1>1. e.now \in Int /\ 0 \in Nat
  BY DEF CandidateTurnReceived
<1>2. t \in SessionState
  BY <1>1, Zenon DEF SessionState, Phase
<1>3. competency(s.plan, 0).node_id \in Node
  <2>1. s.plan # NoPlan /\ validate_plan(s.plan)
    BY DEF PlanHoldsIn
  <2>2. HasCompetency(s.plan, 0)
    BY <2>1, SMT DEF validate_plan, HasCompetency
  <2> QED BY <2>1, <2>2, PlanTypes DEF PlannedCompetency
<1>4. "ask_seed" \in InterviewerMove
  BY DEF InterviewerMove
<1> QED BY <1>2, <1>3, <1>4, IssueType DEF on_intro_candidate_turn, Result

\* So does leaving a competency: the next one is looked up only when the plan has it.
LEMMA LeaveType ==
  ASSUME NEW s \in SessionState, s.plan # NoPlan, NEW verdict, NEW now \in Int
  PROVE  leave_competency(s, verdict, now) \in SessionState
<1> DEFINE t == [s EXCEPT !.competency_index = @ + 1, !.seed_index = 0, !.probes_used = 0,
                          !.competency_started_at = now]
           move == IF verdict = "ANSWERED" THEN "acknowledge_and_transition"
                                           ELSE "close_competency"
           node == competency(s.plan, s.competency_index + 1).node_id
<1>1. s.competency_index + 1 \in Nat /\ 0 \in Nat
  BY SMT DEF SessionState
<1>2. t \in SessionState
  BY <1>1, Zenon DEF SessionState
<1>3. move \in InterviewerMove
  BY DEF InterviewerMove
<1>4. CASE HasCompetency(s.plan, s.competency_index + 1)
  <2>1. node \in Node
    BY <1>1, <1>4, PlanTypes DEF PlannedCompetency
  <2>2. issue_interviewer(t, move, node) \in SessionState
    <3> HIDE DEF t, move, node
    <3> QED BY <1>2, <1>3, <2>1, IssueType
  <2> QED BY <1>4, <2>2 DEF leave_competency
<1>5. CASE ~HasCompetency(s.plan, s.competency_index + 1)
  BY <1>5, QaType DEF leave_competency
<1> QED BY <1>4, <1>5

\* The updates of a coverage cell give a coverage cell.
LEMMA CellUpdates ==
  ASSUME NEW cell \in CoverageCell
  PROVE  /\ [cell EXCEPT !.gap_budget_exhausted = TRUE] \in CoverageCell
         /\ [cell EXCEPT !.assessment_failed = TRUE] \in CoverageCell
         /\ [cell EXCEPT !.gap_not_assessable = TRUE] \in CoverageCell
         /\ \A item \in Assessed :
              WithLatest(WithBest(cell, item), item) \in CoverageCell
         /\ \A x, y \in Assessed :
              WithLatest(WithBest(cell, x), y) \in CoverageCell
         /\ \A b \in BOOLEAN, n \in Nat :
              [cell EXCEPT !.needs_manual_review = @ \/ b, !.cheat_flags = @ + n] \in CoverageCell
<1>1. \A item \in Assessed :
        item.level \in Int /\ item.confidence \in Int
  BY SMT DEF Assessed
<1>2. \A x \in Assessed : WithBest(cell, x) \in CoverageCell
  BY <1>1, Zenon DEF WithBest, CoverageCell
<1>3. \A c \in CoverageCell : \A y \in Assessed :
        WithLatest(c, y) \in CoverageCell
  BY <1>1, Zenon DEF WithLatest, CoverageCell
<1>4. ASSUME NEW b \in BOOLEAN, NEW n \in Nat
      PROVE  [cell EXCEPT !.needs_manual_review = @ \/ b, !.cheat_flags = @ + n] \in CoverageCell
  <2>1. cell.cheat_flags + n \in Nat
    BY SMT DEF CoverageCell
  <2>2. (cell.needs_manual_review \/ b) \in BOOLEAN
    OBVIOUS
  <2> QED BY <2>1, <2>2, Zenon DEF CoverageCell
<1>5. /\ [cell EXCEPT !.gap_budget_exhausted = TRUE] \in CoverageCell
      /\ [cell EXCEPT !.assessment_failed = TRUE] \in CoverageCell
      /\ [cell EXCEPT !.gap_not_assessable = TRUE] \in CoverageCell
  BY Zenon DEF CoverageCell
<1> QED BY <1>2, <1>3, <1>4, <1>5

\* A turn in TECH keeps the type, on every row of the adjudication table.
LEMMA TechType ==
  ASSUME NEW s \in SessionState, PlanHoldsIn(s), s.phase = "tech",
         NEW turn \in TurnId, NEW now \in Int
  PROVE  on_tech_candidate_turn(s, CandidateTurnReceived(turn, now)).new_state \in SessionState
<1> DEFINE e == CandidateTurnReceived(turn, now)
           c == current_competency(s)
           heard == [s EXCEPT !.last_candidate_activity = e.now,
                              !.assessment_focus[e.turn_id] = c.node_id]
           marked == [heard EXCEPT !.coverage[c.node_id].gap_budget_exhausted = TRUE]
<1>1. e.now = now /\ e.turn_id = turn
  BY DEF CandidateTurnReceived
<1>2. s.plan # NoPlan /\ c \in PlannedCompetency /\ c.node_id \in Node
  <2>1. s.plan # NoPlan /\ HasCompetency(s.plan, s.competency_index)
    BY DEF PlanHoldsIn
  <2>2. s.competency_index \in Nat
    BY DEF SessionState
  <2>3. c \in PlannedCompetency
    BY <2>1, <2>2, PlanTypes DEF current_competency
  <2> QED BY <2>1, <2>3 DEF PlannedCompetency
<1>3. heard \in SessionState
  <2>1. [s.assessment_focus EXCEPT ![turn] = c.node_id] \in [TurnId -> Node \cup {NoNode}]
    BY <1>2 DEF SessionState
  <2> HIDE DEF c
  <2> QED BY <1>1, <2>1, Zenon DEF SessionState
<1>4. heard.plan = s.plan /\ heard.coverage = s.coverage
  BY Zenon DEF SessionState
<1>5. marked \in SessionState /\ marked.plan = s.plan
  <2>1. heard.coverage[c.node_id] \in CoverageCell
    BY <1>2, <1>3 DEF SessionState
  <2>2. [heard.coverage EXCEPT ![c.node_id] = [heard.coverage[c.node_id] EXCEPT !.gap_budget_exhausted = TRUE]]
          \in [Node -> CoverageCell]
    BY <1>2, <1>3, <2>1, CellUpdates DEF SessionState
  <2>3. marked = [heard EXCEPT !.coverage = [heard.coverage EXCEPT ![c.node_id] =
                      [heard.coverage[c.node_id] EXCEPT !.gap_budget_exhausted = TRUE]]]
    OBVIOUS
  <2> HIDE DEF c, heard, marked
  <2>4. marked \in SessionState
    BY <1>3, <2>2, <2>3, Zenon DEF SessionState
  <2>5. marked.plan = heard.plan
    BY <1>3, <2>3, Zenon DEF SessionState
  <2> QED BY <1>4, <2>4, <2>5
<1>6. \A v : leave_competency(heard, v, now) \in SessionState /\ leave_competency(marked, v, now) \in SessionState
  <2> HIDE DEF heard, marked
  <2> QED BY <1>2, <1>3, <1>4, <1>5, LeaveType
<1>7. depth_probe(heard, c) \in SessionState /\ next_seed(heard, c) \in SessionState
  <2> HIDE DEF heard, c
  <2>1. heard.probes_used + 1 \in Nat /\ heard.seed_index + 1 \in Nat
    BY <1>3, SMT DEF SessionState
  <2>2. /\ [heard EXCEPT !.probes_used = @ + 1] \in SessionState
        /\ [heard EXCEPT !.seed_index = @ + 1] \in SessionState
    BY <1>3, <2>1, Zenon DEF SessionState
  <2>3. "depth_probe" \in InterviewerMove /\ "acknowledge_and_transition" \in InterviewerMove
    BY DEF InterviewerMove
  <2> QED BY <1>2, <2>2, <2>3, IssueType DEF depth_probe, next_seed
<1> HIDE DEF heard, marked, c
<1> QED BY <1>1, <1>3, <1>5, <1>6, <1>7, Zenon
        DEF on_tech_candidate_turn, Result, heard, marked, c

\* So does a candidate turn in any phase.
LEMMA TurnType ==
  ASSUME NEW s \in SessionState, PlanHoldsIn(s), NEW turn \in TurnId, NEW now \in Int
  PROVE  on_candidate_turn(s, CandidateTurnReceived(turn, now)).new_state \in SessionState
<1> DEFINE e == CandidateTurnReceived(turn, now)
           heard == [s EXCEPT !.last_candidate_activity = e.now]
<1>1. heard \in SessionState
  BY Zenon DEF SessionState, CandidateTurnReceived
<1>2. "acknowledge_and_transition" \in InterviewerMove
  BY DEF InterviewerMove
<1>3. on_qa_candidate_turn(s, e).new_state \in SessionState
  <2> HIDE DEF e
  <2> QED BY <1>1, <1>2, IssueType, CloseType DEF on_qa_candidate_turn, Result
<1>4. ignore(s).new_state \in SessionState
  BY DEF ignore, Result
<1> QED BY <1>3, <1>4, IntroType, TechType DEF on_candidate_turn

\* So does a reply, drifted or not.
LEMMA ReplyType ==
  ASSUME NEW s \in SessionState, NEW turn \in Int, NEW move
  PROVE  on_interviewer_reply(s, InterviewerReplyReady(turn, move)).new_state \in SessionState
<1> DEFINE e == InterviewerReplyReady(turn, move)
           drifted == s.last_issued_move # "none" /\ e.move # s.last_issued_move
           drift_count == IF drifted THEN s.drift_count + 1 ELSE s.drift_count
           flag == s.flagged_for_review \/ (drifted /\ drift_count >= DriftToReview)
           delivery == Outbound("deliver_utterance", e.turn_id)
           t == [s EXCEPT !.awaiting = "candidate", !.interviewer_failure_streak = 0,
                          !.drift_count = drift_count, !.flagged_for_review = flag,
                          !.pending_command = delivery]
<1>1. drift_count \in Nat /\ 0 \in Nat /\ s.flagged_for_review \in BOOLEAN
  BY SMT DEF SessionState
<1>2. flag \in BOOLEAN
  BY <1>1, Zenon
<1>3. delivery \in PendingCommand
  BY CommandTypes DEF InterviewerReplyReady
<1>4. t \in SessionState
  <2> HIDE DEF drift_count, flag, delivery
  <2> QED BY <1>1, <1>2, <1>3, Zenon DEF SessionState
<1>5. ignore(s).new_state \in SessionState
  BY DEF ignore, Result
<1>6. \/ on_interviewer_reply(s, e) = ignore(s)
      \/ on_interviewer_reply(s, e) = complete(s)
      \/ on_interviewer_reply(s, e) = Result(t, <<delivery, PersistState>>)
  BY Zenon DEF on_interviewer_reply
<1>7. Result(t, <<delivery, PersistState>>).new_state = t
  BY DEF Result
<1> HIDE DEF e, t, delivery
<1> QED BY <1>4, <1>5, <1>6, <1>7, CompleteType DEF e

\* So does a failure.
LEMMA FailedType ==
  ASSUME NEW s \in SessionState, NEW turn \in Int
  PROVE  on_interviewer_failed(s, InterviewerFailed(turn)).new_state \in SessionState
<1> DEFINE e == InterviewerFailed(turn)
           retry == [s.pending_command EXCEPT !.retry = TRUE]
           t == [s EXCEPT !.interviewer_failure_streak = @ + 1, !.pending_command = retry]
<1>1. s.interviewer_failure_streak + 1 \in Nat
  BY SMT DEF SessionState
<1>2. retry \in PendingCommand
  <2>1. s.pending_command \in PendingCommand
    BY DEF SessionState
  <2> QED BY <2>1, Zenon DEF PendingCommand
<1>3. t \in SessionState
  <2> HIDE DEF retry
  <2> QED BY <1>1, <1>2, Zenon DEF SessionState
<1>4. ignore(s).new_state \in SessionState /\ "fatal_agent_error" \in AbortReason
  BY DEF ignore, Result, AbortReason
<1> HIDE DEF e
<1> QED BY <1>3, <1>4, AbortType, Zenon DEF on_interviewer_failed, Result

\* Folding an assessor output into the coverage keeps its type.
LEMMA CoverageTypes ==
  ASSUME NEW coverage \in [Node -> CoverageCell], NEW out \in AssessorOutput
  PROVE  /\ record_levels(coverage, out) \in [Node -> CoverageCell]
         /\ record_review_signals(coverage, out) \in [Node -> CoverageCell]
<1>1. out.competency_focus \in Node /\ out.assessments \in Items
  BY DEF AssessorOutput, Items
<1>2. ASSUME out.assessments = <<>>
      PROVE  record_levels(coverage, out) \in [Node -> CoverageCell]
  <2>1. [coverage EXCEPT ![out.competency_focus].gap_not_assessable = TRUE] \in [Node -> CoverageCell]
    BY <1>1, CellUpdates
  <2>2. record_levels(coverage, out) =
          [coverage EXCEPT ![out.competency_focus].gap_not_assessable = TRUE]
    BY <1>2 DEF record_levels
  <2> QED BY <2>1, <2>2
<1>3. ASSUME out.assessments # <<>>
      PROVE  record_levels(coverage, out) \in [Node -> CoverageCell]
  <2>1. ASSUME NEW n \in Node, ItemsOf(out, n) # {}
        PROVE  WithLatest(WithBest(coverage[n], BestItem(out, n)), LastItem(out, n)) \in CoverageCell
    <3>1. /\ LastItem(out, n) \in Assessed
          /\ BestItem(out, n) \in Assessed
      BY <1>1, <2>1, ItemsExist
    <3>2. coverage[n] \in CoverageCell
      OBVIOUS
    <3> QED BY <3>1, <3>2, CellUpdates
  <2>2. ASSUME NEW n \in Node PROVE record_levels(coverage, out)[n] \in CoverageCell
    BY <1>3, <2>1, Zenon DEF record_levels
  <2>3. record_levels(coverage, out) = [n \in Node |-> record_levels(coverage, out)[n]]
    BY <1>3, Zenon DEF record_levels
  <2> QED BY <2>2, <2>3
<1>4. record_review_signals(coverage, out) \in [Node -> CoverageCell]
  <2> DEFINE cell == coverage[out.competency_focus]
  <2>1. out.needs_manual_review \in BOOLEAN /\ out.cheat_flags \in Nat
    BY DEF AssessorOutput
  <2>2. cell \in CoverageCell
    BY <1>1
  <2>3. WithSignals(cell, out) \in CoverageCell
    BY <2>1, <2>2, CellUpdates DEF WithSignals
  <2>4. record_review_signals(coverage, out) =
          [coverage EXCEPT ![out.competency_focus] = WithSignals(cell, out)]
    BY DEF record_review_signals
  <2> HIDE DEF cell
  <2> QED BY <1>1, <2>3, <2>4
<1> QED BY <1>2, <1>3, <1>4

\* An assessment keeps the type of the state.
LEMMA AssessedType ==
  ASSUME NEW s \in SessionState, NEW turn \in TurnId, NEW out \in AssessorOutput
  PROVE  on_assessment_completed(s, AssessmentCompleted(turn, out)).new_state \in SessionState
<1> DEFINE e == AssessmentCompleted(turn, out)
           cheat_total == s.cheat_flag_count + out.cheat_flags
           folded == record_review_signals(record_levels(s.coverage, out), out)
           dropped == drop_pending(s, turn)
           review == dropped.needs_manual_review \/ out.needs_manual_review
           flag == dropped.flagged_for_review \/ cheat_total >= CheatFlagsToReview
           t == [dropped EXCEPT !.coverage = folded, !.cheat_flag_count = cheat_total,
                                !.needs_manual_review = review, !.flagged_for_review = flag]
<1>1. dropped \in SessionState
  <2>1. [s.assessment_focus EXCEPT ![turn] = NoNode] \in [TurnId -> Node \cup {NoNode}]
    BY DEF SessionState
  <2>2. dropped = [s EXCEPT !.assessment_focus = [s.assessment_focus EXCEPT ![turn] = NoNode]]
    BY DEF drop_pending
  <2> HIDE DEF dropped
  <2> QED BY <2>1, <2>2, Zenon DEF SessionState
<1>2. cheat_total \in Nat /\ out.needs_manual_review \in BOOLEAN
  BY SMT DEF SessionState, AssessorOutput
<1>3. folded \in [Node -> CoverageCell]
  <2>1. s.coverage \in [Node -> CoverageCell]
    BY DEF SessionState
  <2> QED BY <2>1, CoverageTypes
<1>4. review \in BOOLEAN /\ flag \in BOOLEAN
  BY Zenon
<1>5. t \in SessionState
  <2> HIDE DEF dropped, cheat_total, folded, review, flag
  <2> QED BY <1>1, <1>2, <1>3, <1>4, Zenon DEF SessionState
<1>6. \/ on_assessment_completed(s, e) = ignore(s)
      \/ on_assessment_completed(s, e) = Result(t, <<PersistState>>)
  BY Zenon DEF on_assessment_completed, AssessmentCompleted
<1> HIDE DEF e, t
<1> QED BY <1>5, <1>6 DEF ignore, Result, e

\* So does a failed one: a pending turn has a competency.
LEMMA UnassessedType ==
  ASSUME NEW s \in SessionState, NEW turn \in TurnId
  PROVE  on_assessment_failed(s, AssessmentFailed(turn)).new_state \in SessionState
<1> DEFINE e == AssessmentFailed(turn)
           node == s.assessment_focus[turn]
           dropped == drop_pending(s, turn)
           t == [dropped EXCEPT !.coverage[node].assessment_failed = TRUE]
<1>1. dropped \in SessionState
  <2>1. [s.assessment_focus EXCEPT ![turn] = NoNode] \in [TurnId -> Node \cup {NoNode}]
    BY DEF SessionState
  <2>2. dropped = [s EXCEPT !.assessment_focus = [s.assessment_focus EXCEPT ![turn] = NoNode]]
    BY DEF drop_pending
  <2> HIDE DEF dropped
  <2> QED BY <2>1, <2>2, Zenon DEF SessionState
<1>2. ASSUME node # NoNode PROVE t \in SessionState
  <2>1. node \in Node
    BY <1>2 DEF SessionState
  <2>2. dropped.coverage[node] \in CoverageCell
    BY <1>1, <2>1 DEF SessionState
  <2>3. [dropped.coverage EXCEPT ![node] = [dropped.coverage[node] EXCEPT !.assessment_failed = TRUE]]
          \in [Node -> CoverageCell]
    BY <1>1, <2>1, <2>2, CellUpdates DEF SessionState
  <2>4. t = [dropped EXCEPT !.coverage = [dropped.coverage EXCEPT ![node] =
               [dropped.coverage[node] EXCEPT !.assessment_failed = TRUE]]]
    OBVIOUS
  <2> HIDE DEF dropped, t
  <2> QED BY <1>1, <2>3, <2>4, Zenon DEF SessionState
<1>3. \/ on_assessment_failed(s, e) = ignore(s)
      \/ node # NoNode /\ on_assessment_failed(s, e) = Result(t, <<PersistState>>)
  BY Zenon DEF on_assessment_failed, AssessmentFailed, pending_assessments
<1> HIDE DEF e, t, node
<1> QED BY <1>2, <1>3 DEF ignore, Result, e

\* So does a tick.
LEMMA TickType ==
  ASSUME NEW s \in SessionState, NEW now \in Int
  PROVE  on_timer_tick(s, TimerTick(now)).new_state \in SessionState
<1> DEFINE e == TimerTick(now)
<1>1. e.now = now /\ "candidate_timeout" \in AbortReason
  BY DEF TimerTick, AbortReason
<1>2. \/ on_timer_tick(s, e) = abort(s, "candidate_timeout", "timeout", TRUE)
      \/ on_timer_tick(s, e) = Result(enter_qa(s, e.now), <<enter_qa(s, e.now).pending_command>>)
      \/ on_timer_tick(s, e) = enter_close(s)
      \/ on_timer_tick(s, e) = complete(s)
      \/ on_timer_tick(s, e) = ignore(s)
  BY Zenon DEF on_timer_tick
<1>3. ignore(s).new_state = s
  BY DEF ignore, Result
<1>4. \A c : Result(enter_qa(s, e.now), c).new_state = enter_qa(s, now)
  BY <1>1 DEF Result
<1>5. enter_qa(s, now) \in SessionState
  BY QaType
<1> HIDE DEF e
<1>6. on_timer_tick(s, e).new_state \in SessionState
  BY <1>1, <1>2, <1>3, <1>4, <1>5, AbortType, CloseType, CompleteType, Zenon
<1> QED BY <1>6 DEF e

\* Which handler takes which event.
LEMMA Dispatch ==
  ASSUME NEW s, s.phase \notin TerminalPhases, NEW e
  PROVE  /\ e.kind = "session_started" =>
              /\ s.phase = "created" => transition(s, e) = on_session_started(s, e)
              /\ s.phase # "created" => transition(s, e) = ignore(s)
         /\ e.kind = "candidate_turn" =>
              /\ s.phase = "created" => transition(s, e) = ignore(s)
              /\ s.phase # "created" => transition(s, e) = on_candidate_turn(s, e)
         /\ e.kind = "interviewer_reply" =>
              /\ s.phase = "created" => transition(s, e) = ignore(s)
              /\ s.phase # "created" => transition(s, e) = on_interviewer_reply(s, e)
         /\ e.kind = "interviewer_failed" =>
              /\ s.phase = "created" => transition(s, e) = ignore(s)
              /\ s.phase # "created" => transition(s, e) = on_interviewer_failed(s, e)
         /\ e.kind = "assessment_completed" => transition(s, e) = on_assessment_completed(s, e)
         /\ e.kind = "assessment_failed" => transition(s, e) = on_assessment_failed(s, e)
         /\ e.kind = "timer_tick" => transition(s, e) = on_timer_tick(s, e)
         /\ e.kind = "reconnected" => transition(s, e) = on_reconnected(s)
         /\ e.kind = "operator_abort" => transition(s, e) = abort(s, e.reason, "operator", TRUE)
<1>1. ASSUME e.kind = "session_started"
      PROVE  /\ s.phase = "created" => transition(s, e) = on_session_started(s, e)
             /\ s.phase # "created" => transition(s, e) = ignore(s)
  BY <1>1, SMT DEF transition, handle
<1>2. ASSUME e.kind = "candidate_turn"
      PROVE  /\ s.phase = "created" => transition(s, e) = ignore(s)
             /\ s.phase # "created" => transition(s, e) = on_candidate_turn(s, e)
  BY <1>2, SMT DEF transition, handle
<1>3. ASSUME e.kind = "interviewer_reply"
      PROVE  /\ s.phase = "created" => transition(s, e) = ignore(s)
             /\ s.phase # "created" => transition(s, e) = on_interviewer_reply(s, e)
  BY <1>3, SMT DEF transition, handle
<1>4. ASSUME e.kind = "interviewer_failed"
      PROVE  /\ s.phase = "created" => transition(s, e) = ignore(s)
             /\ s.phase # "created" => transition(s, e) = on_interviewer_failed(s, e)
  BY <1>4, SMT DEF transition, handle
<1>5. ASSUME e.kind = "assessment_completed"
      PROVE  transition(s, e) = on_assessment_completed(s, e)
  BY <1>5, SMT DEF transition, handle
<1>6. ASSUME e.kind = "assessment_failed"
      PROVE  transition(s, e) = on_assessment_failed(s, e)
  BY <1>6, SMT DEF transition, handle
<1>7. ASSUME e.kind = "timer_tick"
      PROVE  transition(s, e) = on_timer_tick(s, e)
  BY <1>7, SMT DEF transition, handle
<1>8. ASSUME e.kind = "reconnected"
      PROVE  transition(s, e) = on_reconnected(s)
  BY <1>8, SMT DEF transition, handle
<1>9. ASSUME e.kind = "operator_abort"
      PROVE  transition(s, e) = abort(s, e.reason, "operator", TRUE)
  BY <1>9, SMT DEF transition, handle
<1> QED BY <1>1, <1>2, <1>3, <1>4, <1>5, <1>6, <1>7, <1>8, <1>9

\* transition() keeps the type of the state, whatever the event.
LEMMA TransitionType ==
  ASSUME NEW s \in SessionState, PlanHoldsIn(s), NEW e \in SessionEvent
  PROVE  transition(s, e).new_state \in SessionState
<1>1. ignore(s).new_state \in SessionState
  BY DEF ignore, Result
<1>2. CASE s.phase \in TerminalPhases
  BY <1>1, <1>2 DEF transition, handle
<1> SUFFICES ASSUME s.phase \notin TerminalPhases
             PROVE  transition(s, e).new_state \in SessionState
  BY <1>2
<1>3. CASE \E now \in Int : e = SessionStarted(now)
  <2>1. e.kind = "session_started"
    BY <1>3 DEF SessionStarted
  <2>2. transition(s, e) = on_session_started(s, e) \/ transition(s, e) = ignore(s)
    BY <2>1, Dispatch
  <2> QED BY <1>1, <1>3, <2>2, StartType
<1>4. CASE \E t \in TurnId, now \in Int : e = CandidateTurnReceived(t, now)
  <2>1. e.kind = "candidate_turn"
    BY <1>4 DEF CandidateTurnReceived
  <2>2. transition(s, e) = on_candidate_turn(s, e) \/ transition(s, e) = ignore(s)
    BY <2>1, Dispatch
  <2> QED BY <1>1, <1>4, <2>2, TurnType
<1>5. CASE \E t \in Int, m \in InterviewerMove : e = InterviewerReplyReady(t, m)
  <2>1. e.kind = "interviewer_reply"
    BY <1>5 DEF InterviewerReplyReady
  <2>2. transition(s, e) = on_interviewer_reply(s, e) \/ transition(s, e) = ignore(s)
    BY <2>1, Dispatch
  <2> QED BY <1>1, <1>5, <2>2, ReplyType
<1>6. CASE \E t \in Int : e = InterviewerFailed(t)
  <2>1. e.kind = "interviewer_failed"
    BY <1>6 DEF InterviewerFailed
  <2>2. transition(s, e) = on_interviewer_failed(s, e) \/ transition(s, e) = ignore(s)
    BY <2>1, Dispatch
  <2> QED BY <1>1, <1>6, <2>2, FailedType
<1>7. CASE \E t \in TurnId, out \in AssessorOutput : e = AssessmentCompleted(t, out)
  <2>1. e.kind = "assessment_completed"
    BY <1>7 DEF AssessmentCompleted
  <2>2. transition(s, e) = on_assessment_completed(s, e)
    BY <2>1, Dispatch
  <2> QED BY <1>7, <2>2, AssessedType
<1>8. CASE \E t \in TurnId : e = AssessmentFailed(t)
  <2>1. e.kind = "assessment_failed"
    BY <1>8 DEF AssessmentFailed
  <2>2. transition(s, e) = on_assessment_failed(s, e)
    BY <2>1, Dispatch
  <2> QED BY <1>8, <2>2, UnassessedType
<1>9. CASE \E now \in Int : e = TimerTick(now)
  <2>1. e.kind = "timer_tick"
    BY <1>9 DEF TimerTick
  <2>2. transition(s, e) = on_timer_tick(s, e)
    BY <2>1, Dispatch
  <2> QED BY <1>9, <2>2, TickType
<1>10. CASE e = Reconnected
  <2>1. e.kind = "reconnected"
    BY <1>10 DEF Reconnected
  <2>2. transition(s, e) = on_reconnected(s)
    BY <2>1, Dispatch
  <2> QED BY <2>2 DEF on_reconnected, Result
<1>11. CASE \E reason \in AbortReason : e = OperatorAbort(reason)
  <2>1. e.kind = "operator_abort" /\ e.reason \in AbortReason
    BY <1>11 DEF OperatorAbort
  <2>2. transition(s, e) = abort(s, e.reason, "operator", TRUE)
    BY <2>1, Dispatch
  <2> QED BY <2>1, <2>2, AbortType
<1> QED BY <1>3, <1>4, <1>5, <1>6, <1>7, <1>8, <1>9, <1>10, <1>11 DEF SessionEvent

-----------------------------------------------------------------------------
\* What a result emits.

\* The kinds of the commands.
LEMMA CommandKinds ==
  /\ PersistState.kind = "persist_state" /\ EndSession.kind = "end_session"
  /\ \A x : RecordDecision(x).kind = "record_decision" /\ RecordDecision(x).reason = x
  /\ \A x : FlagTurnDegraded(x).kind = "flag_turn_degraded"
  /\ \A x : ReissuePendingCommand(x).kind = "reissue"
  /\ \A x, y : RunAssessor(x, y).kind = "run_assessor" /\ RecordGap(x, y).kind = "record_gap"
  /\ \A x, y, z : /\ RunInterviewer(x, y, z).kind = "run_interviewer"
                  /\ RunInterviewer(x, y, z).turn_id = x
  /\ \A k, x : Outbound(k, x).kind = k /\ Outbound(k, x).turn_id = x
  /\ NoCommand.kind = "none"
  BY DEF PersistState, EndSession, RecordDecision, FlagTurnDegraded, ReissuePendingCommand,
         RunAssessor, RecordGap, RunInterviewer, Outbound, NoCommand

\* Emitted finds nothing when no command has the kind.
LEMMA EmittedNone ==
  ASSUME NEW r, NEW k, \A i \in DOMAIN r.commands : r.commands[i].kind # k
  PROVE  Emitted(r, k) = <<>>
  BY Zenon DEF Emitted

\* It finds the only command of the kind.
LEMMA EmittedOne ==
  ASSUME NEW r, NEW k, NEW j \in DOMAIN r.commands, r.commands[j].kind = k,
         \A i \in DOMAIN r.commands : r.commands[i].kind = k => i = j
  PROVE  Emitted(r, k) = <<r.commands[j]>>
<1> DEFINE D == {i \in DOMAIN r.commands : r.commands[i].kind = k}
<1>1. D # {} /\ (CHOOSE i \in D : TRUE) = j
  <2>1. j \in D /\ \A i \in D : i = j
    OBVIOUS
  <2>2. (CHOOSE i \in D : TRUE) \in D
    BY <2>1, Zenon
  <2> QED BY <2>1, <2>2
<1>2. Emitted(r, k) = <<r.commands[CHOOSE i \in D : TRUE]>>
  <2>1. Emitted(r, k) = IF D = {} THEN <<>> ELSE <<r.commands[CHOOSE i \in D : TRUE]>>
    BY Zenon DEF Emitted
  <2> HIDE DEF D
  <2> QED BY <1>1, <2>1
<1> HIDE DEF D
<1> QED BY <1>1, <1>2

\* It is empty or one command of the kind.
LEMMA EmittedAny ==
  ASSUME NEW r, NEW k
  PROVE  \/ Emitted(r, k) = <<>>
         \/ \E i \in DOMAIN r.commands : r.commands[i].kind = k /\ Emitted(r, k) = <<r.commands[i]>>
<1> DEFINE D == {i \in DOMAIN r.commands : r.commands[i].kind = k}
<1>1. CASE D = {}
  BY <1>1, EmittedNone
<1>2. CASE D # {}
  <2>1. (CHOOSE i \in D : TRUE) \in D
    BY <1>2, Zenon
  <2>2. Emitted(r, k) = IF D = {} THEN <<>> ELSE <<r.commands[CHOOSE i \in D : TRUE]>>
    BY Zenon DEF Emitted
  <2>3. Emitted(r, k) = <<r.commands[CHOOSE i \in D : TRUE]>>
    <3> HIDE DEF D
    <3> QED BY <1>2, <2>2
  <2> QED BY <2>1, <2>3
<1> QED BY <1>1, <1>2

\* A result without commands, with one, with two, emits by kind.
LEMMA EmittedEmpty ==
  ASSUME NEW t, NEW k
  PROVE  Emitted(Result(t, <<>>), k) = <<>>
  BY EmittedNone DEF Result

\* One command.
LEMMA EmittedSingle ==
  ASSUME NEW t, NEW c
  PROVE  /\ Emitted(Result(t, <<c>>), c.kind) = <<c>>
         /\ \A k : c.kind # k => Emitted(Result(t, <<c>>), k) = <<>>
<1>1. Result(t, <<c>>).commands = <<c>>
  BY DEF Result
<1>2. 1 \in DOMAIN <<c>> /\ <<c>>[1] = c /\ \A i \in DOMAIN <<c>> : i = 1
  OBVIOUS
<1> QED BY <1>1, <1>2, EmittedOne, EmittedNone

\* Two commands.
LEMMA EmittedPair ==
  ASSUME NEW t, NEW c, NEW d
  PROVE  /\ c.kind # d.kind => Emitted(Result(t, <<c, d>>), c.kind) = <<c>>
         /\ c.kind # d.kind => Emitted(Result(t, <<c, d>>), d.kind) = <<d>>
         /\ \A k : c.kind # k /\ d.kind # k => Emitted(Result(t, <<c, d>>), k) = <<>>
<1>1. Result(t, <<c, d>>).commands = <<c, d>>
  BY DEF Result
<1>2. /\ 1 \in DOMAIN <<c, d>> /\ <<c, d>>[1] = c
      /\ 2 \in DOMAIN <<c, d>> /\ <<c, d>>[2] = d
      /\ \A i \in DOMAIN <<c, d>> : i = 1 \/ i = 2
  OBVIOUS
<1>3. c.kind # d.kind => Emitted(Result(t, <<c, d>>), c.kind) = <<c>>
  BY <1>1, <1>2, EmittedOne
<1>4. c.kind # d.kind => Emitted(Result(t, <<c, d>>), d.kind) = <<d>>
  BY <1>1, <1>2, EmittedOne
<1>5. \A k : c.kind # k /\ d.kind # k => Emitted(Result(t, <<c, d>>), k) = <<>>
  BY <1>1, <1>2, EmittedNone
<1> QED BY <1>3, <1>4, <1>5

-----------------------------------------------------------------------------
\* The kinds of step.

Decided(r) == Emitted(r, "record_decision")
Delivered(r) == Emitted(r, "deliver_utterance")
Silent(r) == Decided(r) = <<>> /\ Delivered(r) = <<>>

\* The dialog fields are untouched.
Quiet(s, r) ==
  LET t == r.new_state
  IN  /\ t.phase = s.phase /\ t.awaiting = s.awaiting /\ t.turn_seq = s.turn_seq
      /\ t.pending_command = s.pending_command /\ t.abort_reason = s.abort_reason
      /\ Silent(r)

\* The call in flight is made again.
Retries(s, r) ==
  LET t == r.new_state
  IN  /\ t.phase = s.phase /\ t.awaiting = s.awaiting /\ t.turn_seq = s.turn_seq
      /\ t.abort_reason = s.abort_reason
      /\ s.pending_command.kind = "run_interviewer"
      /\ t.pending_command = [s.pending_command EXCEPT !.retry = TRUE]
      /\ Silent(r)

\* A new move is issued, to the model or as a script.
Moves(s, r, from, to, kind) ==
  LET t == r.new_state
  IN  /\ s.phase = from /\ t.phase = to /\ t.awaiting = "interviewer"
      /\ t.turn_seq = s.turn_seq + 1
      /\ t.pending_command.kind = kind /\ t.pending_command.turn_id = s.turn_seq
      /\ t.abort_reason = s.abort_reason
      /\ Silent(r)

\* The reply of the call in flight goes to the candidate.
Delivers(s, r) ==
  LET t == r.new_state
      delivery == Outbound("deliver_utterance", s.pending_command.turn_id)
  IN  /\ InFlight(s)
      /\ t.phase = s.phase /\ t.awaiting = "candidate" /\ t.turn_seq = s.turn_seq
      /\ t.pending_command = delivery
      /\ t.abort_reason = s.abort_reason
      /\ Decided(r) = <<>> /\ Delivered(r) = <<delivery>>

\* The session ends.
Ends(s, r, to, reason, decision) ==
  LET t == r.new_state
  IN  /\ s.phase \notin TerminalPhases
      /\ t.phase = to /\ t.awaiting = "none" /\ t.turn_seq = s.turn_seq
      /\ t.pending_command = NoCommand /\ t.abort_reason = reason
      /\ Decided(r) = <<RecordDecision(decision)>> /\ Delivered(r) = <<>>

Step(s, r) ==
  \/ Quiet(s, r) \/ Retries(s, r) \/ Delivers(s, r)
  \/ Moves(s, r, "created", "intro", "opening")
  \/ Moves(s, r, "intro", "tech", "run_interviewer")
  \/ Moves(s, r, "tech", "tech", "run_interviewer") /\ s.awaiting = "candidate"
  \/ Moves(s, r, "tech", "qa", "run_interviewer")
  \/ Moves(s, r, "qa", "qa", "run_interviewer")
  \/ Moves(s, r, "qa", "close", "closing")
  \/ Ends(s, r, "completed", s.abort_reason, "completed") /\ s.phase = "close"
  \/ Ends(s, r, "aborted", "operator_abort", "plan_invalid") /\ s.phase = "created"
  \/ Ends(s, r, "aborted", "fatal_agent_error", "agent_failure") /\ InFlight(s)
  \/ Ends(s, r, "aborted", "candidate_timeout", "timeout") /\ s.last_candidate_activity # Never
  \/ \E reason \in AbortReason : Ends(s, r, "aborted", reason, "operator")

\* The fields PlanHoldsIn and FlaggedIn read, besides the phase.
SamePlan(s, t) ==
  /\ t.plan = s.plan /\ t.plan_input = s.plan_input
  /\ t.competency_index = s.competency_index /\ t.seed_index = s.seed_index
SameFlags(s, t) ==
  /\ t.flagged_for_review = s.flagged_for_review
  /\ t.cheat_flag_count = s.cheat_flag_count /\ t.drift_count = s.drift_count

\* What a handler owes its caller.
Sound(s, r) ==
  /\ Step(s, r)
  /\ PlanHoldsIn(r.new_state) /\ FlaggedIn(r.new_state)
  /\ r.new_state.last_candidate_activity # s.last_candidate_activity =>
       r.new_state.phase # "created"

-----------------------------------------------------------------------------
\* The building blocks.

\* The plan and the flags only matter through their fields.
LEMMA PlanFrame ==
  ASSUME NEW s, NEW t, PlanHoldsIn(s), SamePlan(s, t),
         t.phase = "tech" => s.phase = "tech",
         t.phase \in {"intro", "tech", "qa", "close", "completed"} => s.plan # NoPlan
  PROVE  PlanHoldsIn(t)
<1>1. current_competency(t) = current_competency(s)
  BY DEF SamePlan, current_competency
<1> QED BY <1>1, SMT DEF SamePlan, PlanHoldsIn

\* FlaggedIn reads the flag and the two counters only.
LEMMA FlagFrame ==
  ASSUME NEW s, NEW t, FlaggedIn(s), SameFlags(s, t)
  PROVE  FlaggedIn(t)
  BY DEF FlaggedIn, SameFlags

\* Commands that neither decide nor speak to the candidate.
Other(c) == c.kind \notin {"record_decision", "deliver_utterance"}

\* Every command but the two is of the other kinds.
LEMMA OtherCommands ==
  /\ Other(PersistState) /\ Other(EndSession)
  /\ \A x : Other(FlagTurnDegraded(x)) /\ Other(ReissuePendingCommand(x))
            /\ Other(Outbound("opening", x)) /\ Other(Outbound("closing", x))
  /\ \A x, y : Other(RunAssessor(x, y)) /\ Other(RecordGap(x, y))
  /\ \A x, y, z : Other(RunInterviewer(x, y, z))
  BY CommandKinds DEF Other

\* Results of other commands are silent.
LEMMA SilentOther ==
  ASSUME NEW r, \A i \in DOMAIN r.commands : Other(r.commands[i])
  PROVE  Silent(r)
<1>1. Emitted(r, "record_decision") = <<>>
  BY EmittedNone DEF Other
<1>2. Emitted(r, "deliver_utterance") = <<>>
  BY EmittedNone DEF Other
<1> QED BY <1>1, <1>2 DEF Silent, Decided, Delivered

\* Up to four of them, as the handlers list them.
LEMMA SilentTuples ==
  ASSUME NEW t, NEW c1, NEW c2, NEW c3, NEW c4
  PROVE  /\ Silent(Result(t, <<>>))
         /\ Other(c1) => Silent(Result(t, <<c1>>))
         /\ Other(c1) /\ Other(c2) => Silent(Result(t, <<c1, c2>>))
         /\ Other(c1) /\ Other(c2) /\ Other(c3) => Silent(Result(t, <<c1, c2, c3>>))
         /\ Other(c1) /\ Other(c2) /\ Other(c3) /\ Other(c4) =>
              Silent(Result(t, <<c1, c2, c3, c4>>))
<1>1. \A q : Result(t, q).commands = q
  BY DEF Result
<1>2. Silent(Result(t, <<>>))
  BY <1>1, SilentOther
<1>3. Other(c1) => Silent(Result(t, <<c1>>))
  BY <1>1, SilentOther
<1>4. Other(c1) /\ Other(c2) => Silent(Result(t, <<c1, c2>>))
  BY <1>1, SilentOther
<1>5. Other(c1) /\ Other(c2) /\ Other(c3) => Silent(Result(t, <<c1, c2, c3>>))
  BY <1>1, SilentOther
<1>6. Other(c1) /\ Other(c2) /\ Other(c3) /\ Other(c4) =>
        Silent(Result(t, <<c1, c2, c3, c4>>))
  BY <1>1, SilentOther
<1> QED BY <1>2, <1>3, <1>4, <1>5, <1>6

\* Results with one command that decides.
LEMMA DecidingTuples ==
  ASSUME NEW t, NEW x, NEW c, Other(c)
  PROVE  LET d == RecordDecision(x)
         IN  /\ Decided(Result(t, <<d>>)) = <<d>> /\ Delivered(Result(t, <<d>>)) = <<>>
             /\ Decided(Result(t, <<d, c>>)) = <<d>> /\ Delivered(Result(t, <<d, c>>)) = <<>>
             /\ Decided(Result(t, <<c, d>>)) = <<d>> /\ Delivered(Result(t, <<c, d>>)) = <<>>
<1> DEFINE d == RecordDecision(x)
<1>1. d.kind = "record_decision" /\ d.kind # "deliver_utterance"
  BY CommandKinds
<1>2. c.kind # "record_decision" /\ c.kind # "deliver_utterance"
  BY DEF Other
<1> HIDE DEF d
<1>3. Decided(Result(t, <<d>>)) = <<d>> /\ Delivered(Result(t, <<d>>)) = <<>>
  BY <1>1, EmittedSingle DEF Decided, Delivered
<1>4. Decided(Result(t, <<d, c>>)) = <<d>> /\ Delivered(Result(t, <<d, c>>)) = <<>>
  BY <1>1, <1>2, EmittedPair DEF Decided, Delivered
<1>5. Decided(Result(t, <<c, d>>)) = <<d>> /\ Delivered(Result(t, <<c, d>>)) = <<>>
  BY <1>1, <1>2, EmittedPair DEF Decided, Delivered
<1> QED BY <1>3, <1>4, <1>5, Zenon DEF d

\* Ignoring an event leaves everything.
LEMMA IgnoreStep ==
  ASSUME NEW s
  PROVE  Quiet(s, ignore(s))
  BY SilentTuples DEF Quiet, ignore, Result

\* Issuing a move sets the dialog fields and leaves the others the plan and
\* the flags live in.
LEMMA IssueFields ==
  ASSUME NEW s \in SessionState, NEW move, NEW node
  PROVE  LET t == issue_interviewer(s, move, node)
         IN  /\ t.phase = s.phase /\ t.awaiting = "interviewer" /\ t.turn_seq = s.turn_seq + 1
             /\ t.pending_command = RunInterviewer(s.turn_seq, move, node)
             /\ t.abort_reason = s.abort_reason
             /\ SamePlan(s, t) /\ SameFlags(s, t)
             /\ t.last_candidate_activity = s.last_candidate_activity
  BY SMT DEF issue_interviewer, SessionState, SamePlan, SameFlags

\* A result that issues t after s, with commands that decide nothing.
LEMMA IssueStep ==
  ASSUME NEW s \in SessionState, NEW u \in SessionState, NEW move, NEW node, NEW q,
         NEW to, u.phase = to, u.turn_seq = s.turn_seq, u.abort_reason = s.abort_reason,
         Silent(Result(issue_interviewer(u, move, node), q))
  PROVE  Moves(s, Result(issue_interviewer(u, move, node), q), s.phase, to, "run_interviewer")
<1> DEFINE t == issue_interviewer(u, move, node)
<1>1. /\ t.phase = to /\ t.awaiting = "interviewer" /\ t.turn_seq = s.turn_seq + 1
      /\ t.pending_command = RunInterviewer(s.turn_seq, move, node)
      /\ t.abort_reason = s.abort_reason
  BY IssueFields
<1>2. Result(t, q).new_state = t
  BY DEF Result
<1> HIDE DEF t
<1> QED BY <1>1, <1>2, CommandKinds DEF Moves, t

\* _abort ends the session with the decision it is given.
LEMMA AbortStep ==
  ASSUME NEW s \in SessionState, s.phase \notin TerminalPhases,
         NEW reason, NEW decision, NEW persist
  PROVE  Ends(s, abort(s, reason, decision, persist), "aborted", reason, decision)
<1> DEFINE r == abort(s, reason, decision, persist)
           t == [s EXCEPT !.phase = "aborted", !.abort_reason = reason,
                          !.awaiting = "none", !.pending_command = NoCommand]
<1>1. r.new_state = t
  BY DEF abort, Result
<1>2. /\ t.phase = "aborted" /\ t.awaiting = "none" /\ t.turn_seq = s.turn_seq
      /\ t.pending_command = NoCommand /\ t.abort_reason = reason
  BY SMT DEF SessionState
<1>3. r = Result(t, <<RecordDecision(decision), PersistState>>)
        \/ r = Result(t, <<RecordDecision(decision)>>)
  BY Zenon DEF abort
<1>4. Decided(r) = <<RecordDecision(decision)>> /\ Delivered(r) = <<>>
  <2> HIDE DEF t, r
  <2> QED BY <1>3, OtherCommands, DecidingTuples
<1> HIDE DEF r, t
<1> QED BY <1>1, <1>2, <1>4 DEF Ends, r

\* _enter_close scripts the closing.
LEMMA CloseStep ==
  ASSUME NEW s \in SessionState, NEW u \in SessionState,
         u.turn_seq = s.turn_seq, u.abort_reason = s.abort_reason
  PROVE  Moves(s, enter_close(u), s.phase, "close", "closing")
<1> DEFINE r == enter_close(u)
           closing == Outbound("closing", u.turn_seq)
           t == [u EXCEPT !.phase = "close", !.awaiting = "interviewer",
                          !.last_issued_move = "none", !.turn_seq = @ + 1,
                          !.pending_command = closing]
<1>1. r = Result(t, <<closing, PersistState>>) /\ r.new_state = t
  BY DEF enter_close, Result
<1>2. /\ t.phase = "close" /\ t.awaiting = "interviewer" /\ t.turn_seq = s.turn_seq + 1
      /\ t.pending_command = closing /\ t.abort_reason = s.abort_reason
  BY SMT DEF SessionState
<1>3. closing.kind = "closing" /\ closing.turn_id = s.turn_seq /\ Other(closing)
  BY CommandKinds, OtherCommands
<1> HIDE DEF r, t, closing
<1>4. Silent(r)
  BY <1>1, <1>3, OtherCommands, SilentTuples
<1> QED BY <1>1, <1>2, <1>3, <1>4 DEF Moves, r

\* _complete ends the session as completed.
LEMMA CompleteStep ==
  ASSUME NEW s \in SessionState, s.phase = "close"
  PROVE  Ends(s, complete(s), "completed", s.abort_reason, "completed")
<1> DEFINE r == complete(s)
           t == [s EXCEPT !.phase = "completed", !.awaiting = "none",
                          !.pending_command = NoCommand]
<1>1. r = Result(t, <<EndSession, RecordDecision("completed")>>) /\ r.new_state = t
  BY DEF complete, Result
<1>2. /\ t.phase = "completed" /\ t.awaiting = "none" /\ t.turn_seq = s.turn_seq
      /\ t.pending_command = NoCommand /\ t.abort_reason = s.abort_reason
  BY SMT DEF SessionState
<1> HIDE DEF r, t
<1>3. Decided(r) = <<RecordDecision("completed")>> /\ Delivered(r) = <<>>
  BY <1>1, OtherCommands, DecidingTuples
<1> QED BY <1>1, <1>2, <1>3 DEF Ends, r, TerminalPhases

-----------------------------------------------------------------------------
\* Each handler.

\* An ignored event.
LEMMA IgnoreSound ==
  ASSUME NEW s, PlanHoldsIn(s), FlaggedIn(s)
  PROVE  Sound(s, ignore(s))
  BY IgnoreStep DEF Sound, Step, ignore, Result

\* An abort, whatever its reason.
LEMMA AbortSound ==
  ASSUME NEW s \in SessionState, PlanHoldsIn(s), FlaggedIn(s), s.phase \notin TerminalPhases,
         NEW reason \in AbortReason, NEW decision, NEW persist,
         Step(s, abort(s, reason, decision, persist))
  PROVE  Sound(s, abort(s, reason, decision, persist))
<1> DEFINE t == [s EXCEPT !.phase = "aborted", !.abort_reason = reason,
                          !.awaiting = "none", !.pending_command = NoCommand]
<1>1. abort(s, reason, decision, persist).new_state = t
  BY DEF abort, Result
<1>2. /\ SamePlan(s, t) /\ SameFlags(s, t) /\ t.phase = "aborted"
      /\ t.last_candidate_activity = s.last_candidate_activity
  BY SMT DEF SessionState, SamePlan, SameFlags
<1> HIDE DEF t
<1> QED BY <1>1, <1>2, PlanFrame, FlagFrame DEF Sound

\* Entering CLOSE, after the state u that heard the event.
LEMMA CloseSound ==
  ASSUME NEW s \in SessionState, NEW u \in SessionState, PlanHoldsIn(u), FlaggedIn(u),
         s.phase = "qa", u.phase = "qa",
         u.turn_seq = s.turn_seq, u.abort_reason = s.abort_reason
  PROVE  Sound(s, enter_close(u))
<1> DEFINE t == [u EXCEPT !.phase = "close", !.awaiting = "interviewer",
                          !.last_issued_move = "none", !.turn_seq = @ + 1,
                          !.pending_command = Outbound("closing", u.turn_seq)]
<1>1. enter_close(u).new_state = t
  BY DEF enter_close, Result
<1>2. SamePlan(u, t) /\ SameFlags(u, t) /\ t.phase = "close"
  BY SMT DEF SessionState, SamePlan, SameFlags
<1>3. u.plan # NoPlan
  BY DEF PlanHoldsIn
<1>4. Step(s, enter_close(u))
  BY CloseStep DEF Step
<1> HIDE DEF t
<1> QED BY <1>1, <1>2, <1>3, <1>4, PlanFrame, FlagFrame DEF Sound

\* Completing.
LEMMA CompleteSound ==
  ASSUME NEW s \in SessionState, PlanHoldsIn(s), FlaggedIn(s), s.phase = "close"
  PROVE  Sound(s, complete(s))
<1> DEFINE t == [s EXCEPT !.phase = "completed", !.awaiting = "none",
                          !.pending_command = NoCommand]
<1>1. complete(s).new_state = t
  BY DEF complete, Result
<1>2. SamePlan(s, t) /\ SameFlags(s, t) /\ t.phase = "completed"
  BY SMT DEF SessionState, SamePlan, SameFlags
<1>3. s.plan # NoPlan
  BY DEF PlanHoldsIn
<1>4. Step(s, complete(s))
  BY CompleteStep DEF Step
<1> HIDE DEF t
<1> QED BY <1>1, <1>2, <1>3, <1>4, PlanFrame, FlagFrame DEF Sound

\* Entering Q&A, with commands that decide nothing.
LEMMA QaSound ==
  ASSUME NEW s \in SessionState, NEW u \in SessionState, PlanHoldsIn(u), FlaggedIn(u),
         s.phase = "tech", u.phase = "tech",
         u.turn_seq = s.turn_seq, u.abort_reason = s.abort_reason,
         NEW now \in Int, NEW q, Silent(Result(enter_qa(u, now), q))
  PROVE  Sound(s, Result(enter_qa(u, now), q))
<1> DEFINE v == [u EXCEPT !.phase = "qa", !.qa_started_at = now]
           t == enter_qa(u, now)
<1>1. v \in SessionState
  BY Zenon DEF SessionState, Phase
<1>2. /\ SamePlan(u, v) /\ SameFlags(u, v) /\ v.phase = "qa"
      /\ v.turn_seq = s.turn_seq /\ v.abort_reason = s.abort_reason
  BY SMT DEF SessionState, SamePlan, SameFlags
<1>3. t = issue_interviewer(v, "acknowledge_and_transition", NoNode)
  BY DEF enter_qa
<1>4. SamePlan(u, t) /\ SameFlags(u, t) /\ t.phase = "qa"
  <2> HIDE DEF v, t
  <2> QED BY <1>1, <1>2, <1>3, IssueFields DEF SamePlan, SameFlags
<1>5. Moves(s, Result(t, q), "tech", "qa", "run_interviewer")
  <2> HIDE DEF v
  <2>1. Silent(Result(issue_interviewer(v, "acknowledge_and_transition", NoNode), q))
    BY <1>3
  <2> QED BY <1>1, <1>2, <1>3, <2>1, IssueStep
<1>6. u.plan # NoPlan
  BY DEF PlanHoldsIn
<1>7. Result(t, q).new_state = t
  BY DEF Result
<1> HIDE DEF t, v
<1>8. PlanHoldsIn(t) /\ FlaggedIn(t)
  BY <1>4, <1>6, PlanFrame, FlagFrame
<1>9. Sound(s, Result(t, q))
  BY <1>4, <1>5, <1>7, <1>8 DEF Sound, Step
<1> QED BY <1>9 DEF t

\* Edges 1 and 2.
LEMMA StartSound ==
  ASSUME NEW s \in SessionState, PlanHoldsIn(s), FlaggedIn(s), s.phase = "created", NEW now \in Int
  PROVE  Sound(s, on_session_started(s, SessionStarted(now)))
<1> DEFINE e == SessionStarted(now)
           opening == Outbound("opening", s.turn_seq)
           t == [s EXCEPT !.phase = "intro", !.awaiting = "interviewer",
                          !.plan = s.plan_input, !.session_started_at = e.now,
                          !.last_candidate_activity = e.now,
                          !.turn_seq = @ + 1, !.pending_command = opening]
           r == Result(t, <<opening, PersistState>>)
<1>1. CASE ~validate_plan(s.plan_input)
  <2>1. on_session_started(s, e) = abort(s, "operator_abort", "plan_invalid", FALSE)
    BY <1>1 DEF on_session_started
  <2>2. Ends(s, abort(s, "operator_abort", "plan_invalid", FALSE), "aborted", "operator_abort", "plan_invalid")
    BY AbortStep DEF TerminalPhases
  <2>3. "operator_abort" \in AbortReason
    BY DEF AbortReason
  <2> QED BY <2>1, <2>2, <2>3, AbortSound DEF Step, TerminalPhases
<1>2. CASE validate_plan(s.plan_input)
  <2>1. on_session_started(s, e) = r
    BY <1>2, Zenon DEF on_session_started
  <2>2. /\ t.phase = "intro" /\ t.awaiting = "interviewer" /\ t.turn_seq = s.turn_seq + 1
        /\ t.pending_command = opening /\ t.abort_reason = s.abort_reason
        /\ t.plan = s.plan_input /\ t.plan_input = s.plan_input
        /\ t.competency_index = s.competency_index
        /\ SameFlags(s, t)
    BY SMT DEF SessionState, SameFlags
  <2>3. opening.kind = "opening" /\ opening.turn_id = s.turn_seq /\ Silent(r)
    <3>1. opening.kind = "opening" /\ opening.turn_id = s.turn_seq
      BY CommandKinds
    <3>2. Other(opening) /\ Other(PersistState)
      BY OtherCommands
    <3> HIDE DEF t, opening
    <3> QED BY <3>1, <3>2, SilentTuples
  <2>4. r.new_state = t
    BY DEF Result
  <2>5. s.plan_input # NoPlan
    BY PlanAssumption DEF SessionState
  <2>6. HasCompetency(s.plan_input, t.competency_index)
    <3>1. s.competency_index \in Nat /\ s.plan_input \in Plans
      BY DEF SessionState
    <3>2. CASE s.plan = NoPlan
      <4>1. t.competency_index = 0
        BY <2>2, <3>2 DEF PlanHoldsIn
      <4>2. Len(s.plan_input.competencies) \in Nat
        <5>1. s.plan_input \in PlanPayload
          BY <3>1, PlanAssumption
        <5> QED BY <5>1 DEF PlanPayload
      <4> QED BY <1>2, <4>1, <4>2, SMT DEF validate_plan, HasCompetency
    <3>3. CASE s.plan # NoPlan
      BY <2>2, <3>3 DEF PlanHoldsIn
    <3> QED BY <3>2, <3>3
  <2> HIDE DEF t, r, opening
  <2>7. PlanHoldsIn(t) /\ FlaggedIn(t)
    BY <1>2, <2>2, <2>5, <2>6, FlagFrame DEF PlanHoldsIn
  <2>8. Moves(s, r, "created", "intro", "opening")
    BY <2>2, <2>3, <2>4 DEF Moves
  <2>9. Sound(s, r)
    BY <2>2, <2>4, <2>7, <2>8 DEF Sound, Step
  <2> QED BY <2>1, <2>9
<1> QED BY <1>1, <1>2

\* Issuing a move after a state u, and how the plan fields come out.
LEMMA IssueSound ==
  ASSUME NEW s \in SessionState, NEW u \in SessionState, FlaggedIn(s), SameFlags(s, u),
         NEW move, NEW node, NEW q,
         \/ s.phase = "intro" /\ u.phase = "tech"
         \/ s.phase = "tech" /\ u.phase = "tech" /\ s.awaiting = "candidate"
         \/ s.phase = "qa" /\ u.phase = "qa",
         PlanHoldsIn(u), u.turn_seq = s.turn_seq, u.abort_reason = s.abort_reason,
         Silent(Result(issue_interviewer(u, move, node), q))
  PROVE  Sound(s, Result(issue_interviewer(u, move, node), q))
<1> DEFINE t == issue_interviewer(u, move, node)
           r == Result(t, q)
<1>1. SamePlan(u, t) /\ SameFlags(u, t) /\ t.phase = u.phase
  BY IssueFields
<1>2. Moves(s, r, s.phase, u.phase, "run_interviewer")
  BY IssueStep
<1>3. r.new_state = t
  BY DEF Result
<1> HIDE DEF t, r
<1>4. PlanHoldsIn(t)
  <2>1. u.phase \in {"intro", "tech", "qa", "close", "completed"} => u.plan # NoPlan
    BY DEF PlanHoldsIn
  <2> QED BY <1>1, <2>1, PlanFrame
<1>5. FlaggedIn(t)
  <2>1. FlaggedIn(u)
    BY FlagFrame
  <2> QED BY <1>1, <2>1, FlagFrame
<1>6. Step(s, r)
  BY <1>2 DEF Step
<1>7. Sound(s, r)
  BY <1>1, <1>3, <1>4, <1>5, <1>6 DEF Sound
<1> QED BY <1>7 DEF r, t

\* The commands of a result that issues.
LEMMA IssueSilent ==
  ASSUME NEW u \in SessionState, NEW move, NEW node, NEW a, NEW g, Other(a), Other(g)
  PROVE  LET t == issue_interviewer(u, move, node)
             c == t.pending_command
         IN  /\ Silent(Result(t, <<c>>))
             /\ Silent(Result(t, <<c, PersistState>>))
             /\ Silent(Result(t, <<a, c, PersistState>>))
             /\ Silent(Result(t, <<a, c, g, PersistState>>))
<1> DEFINE t == issue_interviewer(u, move, node)
           c == t.pending_command
<1>1. Other(c) /\ Other(PersistState)
  <2>1. c = RunInterviewer(u.turn_seq, move, node)
    BY IssueFields
  <2> HIDE DEF c
  <2> QED BY <2>1, OtherCommands
<1> HIDE DEF t, c
<1>2. /\ Silent(Result(t, <<c>>))
      /\ Silent(Result(t, <<c, PersistState>>))
      /\ Silent(Result(t, <<a, c, PersistState>>))
      /\ Silent(Result(t, <<a, c, g, PersistState>>))
  BY <1>1, SilentTuples
<1> QED BY <1>2 DEF t, c

\* Edge 3.
LEMMA IntroSound ==
  ASSUME NEW s \in SessionState, PlanHoldsIn(s), FlaggedIn(s), s.phase = "intro",
         NEW turn \in TurnId, NEW now \in Int
  PROVE  Sound(s, on_intro_candidate_turn(s, CandidateTurnReceived(turn, now)))
<1> DEFINE e == CandidateTurnReceived(turn, now)
           t == [s EXCEPT !.phase = "tech", !.last_candidate_activity = e.now,
                          !.competency_index = 0, !.seed_index = 0, !.probes_used = 0,
                          !.competency_started_at = e.now]
           node == competency(s.plan, 0).node_id
           issued == issue_interviewer(t, "ask_seed", node)
           r == Result(issued, <<issued.pending_command, PersistState>>)
<1>1. e.now \in Int /\ 0 \in Nat
  BY DEF CandidateTurnReceived
<1>2. t \in SessionState
  BY <1>1, Zenon DEF SessionState, Phase
<1>3. /\ t.phase = "tech" /\ t.plan = s.plan /\ t.plan_input = s.plan_input
      /\ t.competency_index = 0 /\ t.seed_index = 0
      /\ t.turn_seq = s.turn_seq /\ t.abort_reason = s.abort_reason
      /\ SameFlags(s, t)
  BY SMT DEF SessionState, SameFlags
<1>4. s.plan # NoPlan /\ s.plan = s.plan_input /\ validate_plan(s.plan)
  BY DEF PlanHoldsIn
<1>5. HasCompetency(s.plan, 0) /\ 0 < competency(s.plan, 0).seeds
  <2>1. s.plan \in PlanPayload
    BY <1>4, PlanAssumption DEF SessionState
  <2>2. /\ s.plan.competencies \in Seq(PlannedCompetency)
        /\ Len(s.plan.competencies) >= 1
        /\ \A i \in DOMAIN s.plan.competencies : s.plan.competencies[i].seeds >= 1
    BY <1>4, <2>1 DEF PlanPayload, validate_plan
  <2>3. 1 \in DOMAIN s.plan.competencies /\ Len(s.plan.competencies) \in Nat
    BY <2>2
  <2>4. HasCompetency(s.plan, 0)
    BY <2>2, <2>3, SMT DEF HasCompetency
  <2>5. competency(s.plan, 0) = s.plan.competencies[1]
    BY DEF competency
  <2>6. competency(s.plan, 0) \in PlannedCompetency
    BY <1>4, <2>4, PlanTypes
  <2>7. competency(s.plan, 0).seeds \in Nat /\ competency(s.plan, 0).seeds >= 1
    BY <2>2, <2>3, <2>5, <2>6 DEF PlannedCompetency
  <2> QED BY <2>4, <2>7, SMT
<1> HIDE DEF t
<1>6. PlanHoldsIn(t)
  BY <1>3, <1>4, <1>5 DEF PlanHoldsIn, current_competency
<1>7. Silent(r)
  BY <1>2, IssueSilent, OtherCommands
<1>8. Sound(s, r)
  BY <1>2, <1>3, <1>6, <1>7, IssueSound
<1> QED BY <1>8 DEF on_intro_candidate_turn, t

\* Leaving a competency is entering Q&A or issuing the next one's first move
\* from a state that is in the plan.
LEMMA LeaveSound ==
  ASSUME NEW s \in SessionState, NEW u \in SessionState, FlaggedIn(s), PlanHoldsIn(u),
         SameFlags(s, u), s.phase = "tech", u.phase = "tech", s.awaiting = "candidate",
         u.turn_seq = s.turn_seq, u.abort_reason = s.abort_reason,
         NEW verdict, NEW now \in Int, NEW a, Other(a), NEW g, Other(g)
  PROVE  LET t == leave_competency(u, verdict, now)
         IN  /\ Sound(s, Result(t, <<a, t.pending_command, PersistState>>))
             /\ Sound(s, Result(t, <<a, t.pending_command, g, PersistState>>))
<1> DEFINE t == leave_competency(u, verdict, now)
           next == u.competency_index + 1
           v == [u EXCEPT !.competency_index = @ + 1, !.seed_index = 0, !.probes_used = 0,
                          !.competency_started_at = now]
           w == [u EXCEPT !.phase = "qa", !.qa_started_at = now]
           q1 == <<a, t.pending_command, PersistState>>
           q2 == <<a, t.pending_command, g, PersistState>>
<1>1. u.plan # NoPlan /\ u.plan \in PlanPayload /\ validate_plan(u.plan) /\ u.competency_index \in Nat
  <2>1. u.plan # NoPlan /\ validate_plan(u.plan)
    BY DEF PlanHoldsIn
  <2> QED BY <2>1, PlanAssumption DEF SessionState
<1>2. CASE ~HasCompetency(u.plan, next)
  <2>1. t = enter_qa(u, now)
    BY <1>2 DEF leave_competency
  <2>2. t = issue_interviewer(w, "acknowledge_and_transition", NoNode) /\ w \in SessionState
    <3>1. w \in SessionState
      BY Zenon DEF SessionState, Phase
    <3> QED BY <2>1, <3>1 DEF enter_qa
  <2>3. FlaggedIn(u)
    BY FlagFrame
  <2> HIDE DEF w, t
  <2>4. Silent(Result(t, <<a, t.pending_command, PersistState>>))
          /\ Silent(Result(t, <<a, t.pending_command, g, PersistState>>))
    BY <2>2, IssueSilent
  <2>5. Sound(s, Result(t, <<a, t.pending_command, PersistState>>))
          /\ Sound(s, Result(t, <<a, t.pending_command, g, PersistState>>))
    BY <2>1, <2>3, <2>4, QaSound
  <2> QED BY <2>5 DEF t
<1>3. CASE HasCompetency(u.plan, next)
  <2> DEFINE move == IF verdict = "ANSWERED" THEN "acknowledge_and_transition" ELSE "close_competency"
             node == competency(u.plan, u.competency_index + 1).node_id
  <2>1. t = issue_interviewer(v, move, node)
    BY <1>3 DEF leave_competency
  <2>2. next \in Nat /\ 0 \in Nat
    BY <1>1, SMT
  <2>3. v \in SessionState
    BY <2>2, Zenon DEF SessionState
  <2>4. /\ v.plan = u.plan /\ v.plan_input = u.plan_input /\ v.competency_index = next
        /\ v.seed_index = 0 /\ v.phase = "tech" /\ SameFlags(u, v)
        /\ v.turn_seq = s.turn_seq /\ v.abort_reason = s.abort_reason
    BY SMT DEF SessionState, SameFlags
  <2>5. 0 < competency(u.plan, next).seeds
    <3>1. next + 1 \in DOMAIN u.plan.competencies
      BY <1>1, <1>3, <2>2, SMT DEF PlanPayload, HasCompetency
    <3>2. competency(u.plan, next).seeds >= 1
      BY <1>1, <3>1 DEF validate_plan, competency
    <3>3. competency(u.plan, next).seeds \in Nat
      BY <1>1, <1>3, <2>2, PlanTypes DEF PlannedCompetency
    <3> QED BY <3>2, <3>3, SMT
  <2> HIDE DEF v, next, t
  <2>6. PlanHoldsIn(v)
    <3>1. u.plan = u.plan_input
      BY <1>1 DEF PlanHoldsIn
    <3>2. current_competency(v).seeds = competency(u.plan, next).seeds
      BY <2>4 DEF current_competency
    <3> QED BY <1>1, <1>3, <2>4, <2>5, <3>1, <3>2 DEF PlanHoldsIn
  <2>7. SameFlags(s, v)
    BY <2>4 DEF SameFlags
  <2> HIDE DEF move, node
  <2>8. Silent(Result(t, <<a, t.pending_command, PersistState>>))
          /\ Silent(Result(t, <<a, t.pending_command, g, PersistState>>))
    BY <2>1, <2>3, IssueSilent
  <2>9. Sound(s, Result(t, <<a, t.pending_command, PersistState>>))
          /\ Sound(s, Result(t, <<a, t.pending_command, g, PersistState>>))
    BY <2>1, <2>3, <2>4, <2>6, <2>7, <2>8, IssueSound
  <2> QED BY <2>9 DEF t
<1> QED BY <1>2, <1>3

\* Edges 9 to 13.
LEMMA TechSound ==
  ASSUME NEW s \in SessionState, PlanHoldsIn(s), FlaggedIn(s),
         s.phase = "tech", s.awaiting = "candidate",
         NEW turn \in TurnId, NEW now \in Int
  PROVE  Sound(s, on_tech_candidate_turn(s, CandidateTurnReceived(turn, now)))
<1> DEFINE e == CandidateTurnReceived(turn, now)
           c == current_competency(s)
           assessor == RunAssessor(e.turn_id, c.node_id)
           heard == [s EXCEPT !.last_candidate_activity = e.now,
                              !.assessment_focus[e.turn_id] = c.node_id]
           remaining == seconds_remaining(c, s.competency_started_at, e.now)
           v == adjudicate(s.coverage[c.node_id], c.target_level, s.probes_used, remaining)
           spent == [heard EXCEPT !.coverage[c.node_id].gap_budget_exhausted = TRUE]
           marked == IF v.gap_marker = "gap_budget_exhausted" THEN spent ELSE heard
           gap == RecordGap(c.node_id, v.gap_marker)
           left == leave_competency(marked, v.verdict, e.now)
           probed == depth_probe(heard, c)
           seeded == next_seed(heard, c)
           r == on_tech_candidate_turn(s, e)
<1>1. e.now = now /\ e.turn_id = turn
  BY DEF CandidateTurnReceived
<1>2. s.plan # NoPlan /\ c \in PlannedCompetency /\ c.node_id \in Node /\ c.seeds \in Nat
  <2>1. s.plan # NoPlan /\ HasCompetency(s.plan, s.competency_index)
    BY DEF PlanHoldsIn
  <2>2. s.competency_index \in Nat
    BY DEF SessionState
  <2>3. c \in PlannedCompetency
    BY <2>1, <2>2, PlanTypes DEF current_competency
  <2> QED BY <2>1, <2>3 DEF PlannedCompetency
<1>3. heard \in SessionState
  <2>1. [s.assessment_focus EXCEPT ![turn] = c.node_id] \in [TurnId -> Node \cup {NoNode}]
    BY <1>2 DEF SessionState
  <2> HIDE DEF c
  <2> QED BY <1>1, <2>1, Zenon DEF SessionState
<1>4. /\ SamePlan(s, heard) /\ SameFlags(s, heard) /\ heard.phase = "tech"
      /\ heard.turn_seq = s.turn_seq /\ heard.abort_reason = s.abort_reason
  <2> HIDE DEF c, e
  <2> QED BY Zenon DEF SessionState, SamePlan, SameFlags
<1>5. /\ spent \in SessionState
      /\ SamePlan(heard, spent) /\ SameFlags(heard, spent) /\ spent.phase = heard.phase
      /\ spent.turn_seq = heard.turn_seq /\ spent.abort_reason = heard.abort_reason
  <2> DEFINE coverage == [heard.coverage EXCEPT ![c.node_id] =
                            [heard.coverage[c.node_id] EXCEPT !.gap_budget_exhausted = TRUE]]
  <2>1. coverage \in [Node -> CoverageCell]
    <3>1. heard.coverage[c.node_id] \in CoverageCell
      BY <1>2, <1>3 DEF SessionState
    <3> QED BY <1>2, <1>3, <3>1, CellUpdates DEF SessionState
  <2>2. spent = [heard EXCEPT !.coverage = coverage]
    OBVIOUS
  <2> HIDE DEF c, heard, spent, coverage
  <2>3. spent \in SessionState
    BY <1>3, <2>1, <2>2, Zenon DEF SessionState
  <2> QED BY <1>3, <2>2, <2>3, Zenon DEF SessionState, SamePlan, SameFlags
<1> HIDE DEF c, spent
<1>6. /\ marked \in SessionState /\ SameFlags(s, marked) /\ SamePlan(s, marked)
      /\ marked.phase = "tech" /\ marked.turn_seq = s.turn_seq
      /\ marked.abort_reason = s.abort_reason
  <2> HIDE DEF heard
  <2> QED BY <1>3, <1>4, <1>5 DEF SamePlan, SameFlags
<1>7. PlanHoldsIn(heard) /\ PlanHoldsIn(marked)
  <2> HIDE DEF heard, marked
  <2> QED BY <1>2, <1>4, <1>6, PlanFrame
<1>8. Other(assessor) /\ Other(gap)
  BY OtherCommands
<1>9. /\ Sound(s, Result(left, <<assessor, left.pending_command, PersistState>>))
      /\ Sound(s, Result(left, <<assessor, left.pending_command, gap, PersistState>>))
  <2> HIDE DEF marked, v, assessor, gap, e
  <2>1. e.now \in Int
    BY <1>1
  <2> QED BY <1>6, <1>7, <1>8, <2>1, LeaveSound
<1>10. Sound(s, Result(probed, <<assessor, probed.pending_command, PersistState>>))
  <2> DEFINE u == [heard EXCEPT !.probes_used = @ + 1]
  <2> HIDE DEF heard, assessor
  <2>1. heard.probes_used + 1 \in Nat
    BY <1>3, SMT DEF SessionState
  <2>2. u \in SessionState
    BY <1>3, <2>1, Zenon DEF SessionState
  <2>3. /\ SamePlan(heard, u) /\ SameFlags(heard, u) /\ u.phase = heard.phase
        /\ u.turn_seq = heard.turn_seq /\ u.abort_reason = heard.abort_reason
    BY <1>3, SMT DEF SessionState, SamePlan, SameFlags
  <2>4. probed = issue_interviewer(u, "depth_probe", c.node_id)
    BY DEF depth_probe
  <2> HIDE DEF u, probed
  <2>5. PlanHoldsIn(u) /\ SameFlags(s, u)
    BY <1>2, <1>4, <1>7, <2>3, PlanFrame DEF SameFlags, SamePlan
  <2>6. Silent(Result(probed, <<assessor, probed.pending_command, PersistState>>))
    BY <1>8, <2>2, <2>4, IssueSilent
  <2> QED BY <1>4, <2>2, <2>3, <2>4, <2>5, <2>6, IssueSound
<1>11. ASSUME s.seed_index + 1 < c.seeds
       PROVE  Sound(s, Result(seeded, <<assessor, seeded.pending_command, PersistState>>))
  <2> DEFINE u == [heard EXCEPT !.seed_index = @ + 1]
  <2>0. heard.seed_index = s.seed_index
    BY <1>4 DEF SamePlan
  <2> HIDE DEF heard, assessor
  <2>1. heard.seed_index + 1 \in Nat
    BY <1>3, SMT DEF SessionState
  <2>2. u \in SessionState
    BY <1>3, <2>1, Zenon DEF SessionState
  <2>3. /\ u.plan = heard.plan /\ u.plan_input = heard.plan_input
        /\ u.competency_index = heard.competency_index /\ u.seed_index = heard.seed_index + 1
        /\ SameFlags(heard, u) /\ u.phase = heard.phase
        /\ u.turn_seq = heard.turn_seq /\ u.abort_reason = heard.abort_reason
    BY <1>3, SMT DEF SessionState, SameFlags
  <2>4. seeded = issue_interviewer(u, "acknowledge_and_transition", c.node_id)
    BY DEF next_seed
  <2> HIDE DEF u, seeded
  <2>5. current_competency(u) = c
    BY <1>4, <2>3 DEF current_competency, SamePlan, c
  <2>6. PlanHoldsIn(u) /\ SameFlags(s, u)
    BY <1>2, <1>4, <1>7, <1>11, <2>0, <2>3, <2>5 DEF SameFlags, SamePlan, PlanHoldsIn
  <2>7. Silent(Result(seeded, <<assessor, seeded.pending_command, PersistState>>))
    BY <1>8, <2>2, <2>4, IssueSilent
  <2> QED BY <1>4, <2>2, <2>3, <2>4, <2>6, <2>7, IssueSound
<1>12. \/ r = Result(probed, <<assessor, probed.pending_command, PersistState>>)
       \/ /\ s.seed_index + 1 < c.seeds
          /\ r = Result(seeded, <<assessor, seeded.pending_command, PersistState>>)
       \/ r = Result(left, <<assessor, left.pending_command, PersistState>>)
       \/ r = Result(left, <<assessor, left.pending_command, gap, PersistState>>)
  BY Zenon DEF on_tech_candidate_turn, c, spent
<1> HIDE DEF r, probed, seeded, left, assessor, gap
<1>13. Sound(s, r)
  BY <1>9, <1>10, <1>11, <1>12
<1> QED BY <1>13 DEF r

\* Edge 15, and edge 16 on a candidate turn.
LEMMA QaTurnSound ==
  ASSUME NEW s \in SessionState, PlanHoldsIn(s), FlaggedIn(s), s.phase = "qa",
         NEW turn \in TurnId, NEW now \in Int
  PROVE  Sound(s, on_qa_candidate_turn(s, CandidateTurnReceived(turn, now)))
<1> DEFINE e == CandidateTurnReceived(turn, now)
           u == [s EXCEPT !.last_candidate_activity = e.now]
           t == issue_interviewer(u, "acknowledge_and_transition", NoNode)
           r == on_qa_candidate_turn(s, e)
<1>1. e.now \in Int
  BY DEF CandidateTurnReceived
<1>2. u \in SessionState
  BY <1>1, Zenon DEF SessionState
<1>3. /\ SamePlan(s, u) /\ SameFlags(s, u) /\ u.phase = "qa"
      /\ u.turn_seq = s.turn_seq /\ u.abort_reason = s.abort_reason
  BY SMT DEF SessionState, SamePlan, SameFlags
<1>4. r = enter_close(u) \/ r = Result(t, <<t.pending_command>>)
  BY Zenon DEF on_qa_candidate_turn
<1> HIDE DEF u, e, r
<1>5. PlanHoldsIn(u) /\ FlaggedIn(u)
  <2>1. s.plan # NoPlan
    BY DEF PlanHoldsIn
  <2> QED BY <1>3, <2>1, PlanFrame, FlagFrame
<1>6. Sound(s, enter_close(u))
  BY <1>2, <1>3, <1>5, CloseSound
<1>7. Silent(Result(t, <<t.pending_command>>))
  BY <1>2, IssueSilent, OtherCommands
<1>8. Sound(s, Result(t, <<t.pending_command>>))
  BY <1>2, <1>3, <1>5, <1>7, IssueSound
<1> QED BY <1>4, <1>6, <1>8 DEF r, e

\* A candidate turn in any phase.
LEMMA TurnSound ==
  ASSUME NEW s \in SessionState, PlanHoldsIn(s), FlaggedIn(s),
         NEW turn \in TurnId, NEW now \in Int
  PROVE  Sound(s, on_candidate_turn(s, CandidateTurnReceived(turn, now)))
  BY IntroSound, TechSound, QaTurnSound, IgnoreSound DEF on_candidate_turn

\* Edges 4, 8 and 17.
LEMMA ReplySound ==
  ASSUME NEW s \in SessionState, PlanHoldsIn(s), FlaggedIn(s), NEW turn \in Int, NEW move
  PROVE  Sound(s, on_interviewer_reply(s, InterviewerReplyReady(turn, move)))
<1> DEFINE e == InterviewerReplyReady(turn, move)
           drifted == s.last_issued_move # "none" /\ e.move # s.last_issued_move
           drift_count == IF drifted THEN s.drift_count + 1 ELSE s.drift_count
           flag == s.flagged_for_review \/ (drifted /\ drift_count >= DriftToReview)
           delivery == Outbound("deliver_utterance", e.turn_id)
           t == [s EXCEPT !.awaiting = "candidate", !.interviewer_failure_streak = 0,
                          !.drift_count = drift_count, !.flagged_for_review = flag,
                          !.pending_command = delivery]
           q == <<delivery, PersistState>>
           r == on_interviewer_reply(s, e)
<1>1. \/ r = ignore(s)
      \/ s.phase = "close" /\ r = complete(s)
      \/ InFlight(s) /\ s.pending_command.turn_id = e.turn_id /\ r = Result(t, q)
  BY Zenon DEF on_interviewer_reply, answers_pending_command
<1>2. /\ t.phase = s.phase /\ t.awaiting = "candidate" /\ t.turn_seq = s.turn_seq
      /\ t.pending_command = delivery /\ t.abort_reason = s.abort_reason
      /\ SamePlan(s, t) /\ t.cheat_flag_count = s.cheat_flag_count
      /\ t.last_candidate_activity = s.last_candidate_activity
      /\ t.drift_count = drift_count /\ t.flagged_for_review = flag
  <2> HIDE DEF drift_count, flag, delivery
  <2> QED BY SMT DEF SessionState, SamePlan
<1>3. FlaggedIn(t)
  <2>1. s.drift_count \in Nat
    BY DEF SessionState
  <2>2. drift_count \in Nat /\ s.drift_count <= drift_count /\ (~drifted => drift_count = s.drift_count)
    BY <2>1, SMT
  <2>3. s.drift_count >= DriftToReview => drift_count >= DriftToReview
    BY <2>1, <2>2, ConfigAssumption, SMT
  <2> HIDE DEF t, drifted, drift_count
  <2> QED BY <1>2, <2>2, <2>3, Zenon DEF FlaggedIn
<1>4. PlanHoldsIn(t)
  <2>1. s.phase \in {"intro", "tech", "qa", "close", "completed"} => s.plan # NoPlan
    BY DEF PlanHoldsIn
  <2> HIDE DEF t
  <2> QED BY <1>2, <2>1, PlanFrame
<1>5. Result(t, q).new_state = t
  BY DEF Result
<1>6. Decided(Result(t, q)) = <<>> /\ Delivered(Result(t, q)) = <<delivery>>
  <2>1. delivery.kind = "deliver_utterance" /\ PersistState.kind = "persist_state"
    BY CommandKinds
  <2> HIDE DEF t, delivery
  <2> QED BY <2>1, EmittedPair DEF Decided, Delivered
<1> HIDE DEF e, t, delivery, q, r
<1>7. ASSUME InFlight(s), s.pending_command.turn_id = e.turn_id
      PROVE  Sound(s, Result(t, q))
  <2>1. delivery = Outbound("deliver_utterance", s.pending_command.turn_id)
    BY <1>7 DEF delivery
  <2>2. Delivers(s, Result(t, q))
    BY <1>2, <1>5, <1>6, <1>7, <2>1 DEF Delivers
  <2> QED BY <1>2, <1>3, <1>4, <1>5, <2>2 DEF Sound, Step
<1> QED BY <1>1, <1>7, IgnoreSound, CompleteSound DEF r, e

\* Edges 5 and 6.
LEMMA FailedSound ==
  ASSUME NEW s \in SessionState, PlanHoldsIn(s), FlaggedIn(s), NEW turn \in Int
  PROVE  Sound(s, on_interviewer_failed(s, InterviewerFailed(turn)))
<1> DEFINE e == InterviewerFailed(turn)
           retry == [s.pending_command EXCEPT !.retry = TRUE]
           t == [s EXCEPT !.interviewer_failure_streak = @ + 1, !.pending_command = retry]
           q == <<retry, FlagTurnDegraded(e.turn_id), PersistState>>
           r == on_interviewer_failed(s, e)
<1>1. \/ r = ignore(s)
      \/ InFlight(s) /\ r = abort(s, "fatal_agent_error", "agent_failure", TRUE)
      \/ s.pending_command.kind = "run_interviewer" /\ r = Result(t, q)
  BY Zenon DEF on_interviewer_failed
<1>2. /\ t.phase = s.phase /\ t.awaiting = s.awaiting /\ t.turn_seq = s.turn_seq
      /\ t.pending_command = retry /\ t.abort_reason = s.abort_reason
      /\ SamePlan(s, t) /\ SameFlags(s, t)
      /\ t.last_candidate_activity = s.last_candidate_activity
  <2> HIDE DEF retry
  <2> QED BY SMT DEF SessionState, SamePlan, SameFlags
<1>3. ASSUME s.pending_command.kind = "run_interviewer" PROVE Silent(Result(t, q))
  <2>1. retry.kind = "run_interviewer"
    <3>1. s.pending_command \in PendingCommand
      BY DEF SessionState
    <3> QED BY <1>3, <3>1 DEF PendingCommand
  <2>2. Other(retry)
    BY <2>1 DEF Other
  <2> HIDE DEF retry, t
  <2> QED BY <2>2, OtherCommands, SilentTuples
<1>4. Result(t, q).new_state = t
  BY DEF Result
<1> HIDE DEF t, q
<1>5. ASSUME s.pending_command.kind = "run_interviewer" PROVE Sound(s, Result(t, q))
  <2>1. Retries(s, Result(t, q))
    BY <1>2, <1>3, <1>4, <1>5 DEF Retries
  <2>2. s.phase \in {"intro", "tech", "qa", "close", "completed"} => s.plan # NoPlan
    BY DEF PlanHoldsIn
  <2>3. PlanHoldsIn(t) /\ FlaggedIn(t)
    BY <1>2, <2>2, PlanFrame, FlagFrame
  <2> QED BY <1>2, <1>4, <2>1, <2>3 DEF Sound, Step
<1>6. ASSUME InFlight(s)
      PROVE  Sound(s, abort(s, "fatal_agent_error", "agent_failure", TRUE))
  <2>1. s.phase \notin TerminalPhases
    BY <1>6 DEF InFlight, TerminalPhases
  <2>2. Ends(s, abort(s, "fatal_agent_error", "agent_failure", TRUE),
             "aborted", "fatal_agent_error", "agent_failure")
    BY <2>1, AbortStep
  <2>3. "fatal_agent_error" \in AbortReason
    BY DEF AbortReason
  <2> QED BY <1>6, <2>1, <2>2, <2>3, AbortSound DEF Step
<1> HIDE DEF r
<1>7. Sound(s, r)
  BY <1>1, <1>5, <1>6, IgnoreSound
<1> QED BY <1>7 DEF r

\* A result that touches neither the dialog nor the plan nor what FlaggedIn
\* says, and persists.
LEMMA QuietSound ==
  ASSUME NEW s \in SessionState, NEW t, PlanHoldsIn(s), FlaggedIn(t), SamePlan(s, t),
         t.phase = s.phase, t.awaiting = s.awaiting, t.turn_seq = s.turn_seq,
         t.pending_command = s.pending_command, t.abort_reason = s.abort_reason,
         t.last_candidate_activity = s.last_candidate_activity,
         NEW q, Silent(Result(t, q))
  PROVE  Sound(s, Result(t, q))
<1>1. Result(t, q).new_state = t
  BY DEF Result
<1>2. Quiet(s, Result(t, q))
  BY <1>1 DEF Quiet
<1>3. PlanHoldsIn(t)
  <2>1. s.phase \in {"intro", "tech", "qa", "close", "completed"} => s.plan # NoPlan
    BY DEF PlanHoldsIn
  <2> QED BY <2>1, PlanFrame
<1> QED BY <1>1, <1>2, <1>3 DEF Sound, Step

\* Edge 18: an assessment folds into coverage and flags only.
LEMMA AssessedSound ==
  ASSUME NEW s \in SessionState, PlanHoldsIn(s), FlaggedIn(s),
         NEW turn \in TurnId, NEW out \in AssessorOutput
  PROVE  Sound(s, on_assessment_completed(s, AssessmentCompleted(turn, out)))
<1> DEFINE e == AssessmentCompleted(turn, out)
           total == s.cheat_flag_count + out.cheat_flags
           folded == record_review_signals(record_levels(s.coverage, out), out)
           dropped == drop_pending(s, turn)
           t == [dropped EXCEPT !.coverage = folded, !.cheat_flag_count = total,
                                !.needs_manual_review = @ \/ out.needs_manual_review,
                                !.flagged_for_review = @ \/ total >= CheatFlagsToReview]
           r == on_assessment_completed(s, e)
<1>1. r = ignore(s) \/ r = Result(t, <<PersistState>>)
  BY Zenon DEF on_assessment_completed, AssessmentCompleted
<1>2. /\ dropped.phase = s.phase /\ dropped.awaiting = s.awaiting
      /\ dropped.turn_seq = s.turn_seq /\ dropped.pending_command = s.pending_command
      /\ dropped.abort_reason = s.abort_reason
      /\ dropped.last_candidate_activity = s.last_candidate_activity
      /\ SamePlan(s, dropped) /\ SameFlags(s, dropped)
  BY Zenon DEF drop_pending, SessionState, SamePlan, SameFlags
<1>3. dropped \in SessionState
  <2>1. [s.assessment_focus EXCEPT ![turn] = NoNode] \in [TurnId -> Node \cup {NoNode}]
    BY DEF SessionState
  <2>2. dropped = [s EXCEPT !.assessment_focus = [s.assessment_focus EXCEPT ![turn] = NoNode]]
    BY DEF drop_pending
  <2> HIDE DEF dropped
  <2> QED BY <2>1, <2>2, Zenon DEF SessionState
<1>4. /\ t.phase = dropped.phase /\ t.awaiting = dropped.awaiting
      /\ t.turn_seq = dropped.turn_seq /\ t.pending_command = dropped.pending_command
      /\ t.abort_reason = dropped.abort_reason
      /\ t.last_candidate_activity = dropped.last_candidate_activity
      /\ SamePlan(dropped, t) /\ t.drift_count = dropped.drift_count
      /\ t.cheat_flag_count = total
      /\ t.flagged_for_review = (dropped.flagged_for_review \/ total >= CheatFlagsToReview)
  <2> HIDE DEF dropped, folded, total
  <2> QED BY <1>3, Zenon DEF SessionState, SamePlan
<1>5. FlaggedIn(t)
  <2>1. s.cheat_flag_count \in Nat /\ out.cheat_flags \in Nat
    BY DEF SessionState, AssessorOutput
  <2>2. s.cheat_flag_count >= CheatFlagsToReview => total >= CheatFlagsToReview
    BY <2>1, ConfigAssumption, SMT
  <2> HIDE DEF t, dropped, total
  <2> QED BY <1>2, <1>4, <2>2, Zenon DEF FlaggedIn, SameFlags
<1>6. Silent(Result(t, <<PersistState>>))
  <2> HIDE DEF t
  <2> QED BY OtherCommands, SilentTuples
<1> HIDE DEF t, dropped, r
<1>7. Sound(s, Result(t, <<PersistState>>))
  <2>1. SamePlan(s, t)
    BY <1>2, <1>4 DEF SamePlan
  <2> QED BY <1>2, <1>4, <1>5, <1>6, <2>1, QuietSound
<1> QED BY <1>1, <1>7, IgnoreSound DEF r

\* Edge 19.
LEMMA UnassessedSound ==
  ASSUME NEW s \in SessionState, PlanHoldsIn(s), FlaggedIn(s), NEW turn \in TurnId
  PROVE  Sound(s, on_assessment_failed(s, AssessmentFailed(turn)))
<1> DEFINE e == AssessmentFailed(turn)
           node == s.assessment_focus[turn]
           dropped == drop_pending(s, turn)
           t == [dropped EXCEPT !.coverage[node].assessment_failed = TRUE]
           r == on_assessment_failed(s, e)
<1>1. r = ignore(s) \/ r = Result(t, <<PersistState>>)
  BY Zenon DEF on_assessment_failed, AssessmentFailed
<1>2. dropped \in SessionState
  <2>1. [s.assessment_focus EXCEPT ![turn] = NoNode] \in [TurnId -> Node \cup {NoNode}]
    BY DEF SessionState
  <2>2. dropped = [s EXCEPT !.assessment_focus = [s.assessment_focus EXCEPT ![turn] = NoNode]]
    BY DEF drop_pending
  <2> HIDE DEF dropped
  <2> QED BY <2>1, <2>2, Zenon DEF SessionState
<1>3. /\ dropped.phase = s.phase /\ dropped.awaiting = s.awaiting
      /\ dropped.turn_seq = s.turn_seq /\ dropped.pending_command = s.pending_command
      /\ dropped.abort_reason = s.abort_reason
      /\ dropped.last_candidate_activity = s.last_candidate_activity
      /\ SamePlan(s, dropped) /\ SameFlags(s, dropped)
  BY Zenon DEF drop_pending, SessionState, SamePlan, SameFlags
<1>4. /\ t.phase = dropped.phase /\ t.awaiting = dropped.awaiting
      /\ t.turn_seq = dropped.turn_seq /\ t.pending_command = dropped.pending_command
      /\ t.abort_reason = dropped.abort_reason
      /\ t.last_candidate_activity = dropped.last_candidate_activity
      /\ SamePlan(dropped, t) /\ SameFlags(dropped, t)
  <2> HIDE DEF dropped, node
  <2> QED BY <1>2, Zenon DEF SessionState, SamePlan, SameFlags
<1>5. Silent(Result(t, <<PersistState>>))
  <2> HIDE DEF t
  <2> QED BY OtherCommands, SilentTuples
<1> HIDE DEF t, dropped, r
<1>6. SamePlan(s, t) /\ FlaggedIn(t)
  <2>1. SameFlags(s, t)
    BY <1>3, <1>4 DEF SameFlags
  <2> QED BY <1>3, <1>4, <2>1, FlagFrame DEF SamePlan
<1>7. Sound(s, Result(t, <<PersistState>>))
  BY <1>3, <1>4, <1>5, <1>6, QuietSound
<1> QED BY <1>1, <1>7, IgnoreSound DEF r

\* Edges 7, 14, 16 and 17, in the handler's order.
LEMMA TickSound ==
  ASSUME NEW s \in SessionState, PlanHoldsIn(s), FlaggedIn(s), s.phase \notin TerminalPhases,
         NEW now \in Int
  PROVE  Sound(s, on_timer_tick(s, TimerTick(now)))
<1> DEFINE e == TimerTick(now)
           asked == enter_qa(s, now)
           r == on_timer_tick(s, e)
<1>1. e.now = now
  BY DEF TimerTick
<1>2. \/ /\ s.last_candidate_activity # Never
         /\ r = abort(s, "candidate_timeout", "timeout", TRUE)
      \/ s.phase = "tech" /\ r = Result(asked, <<asked.pending_command>>)
      \/ s.phase = "qa" /\ r = enter_close(s)
      \/ s.phase = "close" /\ r = complete(s)
      \/ r = ignore(s)
  BY <1>1, Zenon DEF on_timer_tick, candidate_timed_out
<1>3. ASSUME s.last_candidate_activity # Never
      PROVE  Sound(s, abort(s, "candidate_timeout", "timeout", TRUE))
  <2>1. Ends(s, abort(s, "candidate_timeout", "timeout", TRUE),
             "aborted", "candidate_timeout", "timeout")
    BY AbortStep
  <2>2. "candidate_timeout" \in AbortReason
    BY DEF AbortReason
  <2> QED BY <1>3, <2>1, <2>2, AbortSound DEF Step
<1>4. ASSUME s.phase = "tech" PROVE Sound(s, Result(asked, <<asked.pending_command>>))
  <2> DEFINE w == [s EXCEPT !.phase = "qa", !.qa_started_at = now]
  <2>1. w \in SessionState
    BY Zenon DEF SessionState, Phase
  <2>2. asked = issue_interviewer(w, "acknowledge_and_transition", NoNode)
    BY DEF enter_qa
  <2> HIDE DEF w, asked
  <2>3. Silent(Result(asked, <<asked.pending_command>>))
    BY <2>1, <2>2, IssueSilent, OtherCommands
  <2> QED BY <1>4, <2>3, QaSound DEF asked
<1>5. ASSUME s.phase = "qa" PROVE Sound(s, enter_close(s))
  BY <1>5, CloseSound
<1> HIDE DEF r, asked
<1>6. Sound(s, r)
  BY <1>2, <1>3, <1>4, <1>5, CompleteSound, IgnoreSound
<1> QED BY <1>6 DEF r

\* A resume.
LEMMA ReconnectedSound ==
  ASSUME NEW s \in SessionState, PlanHoldsIn(s), FlaggedIn(s)
  PROVE  Sound(s, on_reconnected(s))
<1> DEFINE again == ReissuePendingCommand(s.pending_command)
<1>1. \/ on_reconnected(s) = Result(s, <<PersistState>>)
      \/ on_reconnected(s) = Result(s, <<again, PersistState>>)
  BY Zenon DEF on_reconnected
<1>2. Other(again) /\ Other(PersistState)
  BY OtherCommands
<1> HIDE DEF again
<1>3. Silent(Result(s, <<PersistState>>)) /\ Silent(Result(s, <<again, PersistState>>))
  BY <1>2, SilentTuples
<1>4. SamePlan(s, s)
  BY DEF SamePlan
<1> QED BY <1>1, <1>3, <1>4, QuietSound

\* Every transition is one of the steps and keeps the plan and the flags right.
LEMMA TransitionSound ==
  ASSUME NEW s \in SessionState, PlanHoldsIn(s), FlaggedIn(s), NEW e \in SessionEvent
  PROVE  Sound(s, transition(s, e))
<1>1. Sound(s, ignore(s))
  BY IgnoreSound
<1>2. CASE s.phase \in TerminalPhases
  BY <1>1, <1>2 DEF transition, handle
<1> SUFFICES ASSUME s.phase \notin TerminalPhases
             PROVE  Sound(s, transition(s, e))
  BY <1>2
<1>3. CASE \E now \in Int : e = SessionStarted(now)
  <2>1. e.kind = "session_started"
    BY <1>3 DEF SessionStarted
  <2>2. \/ s.phase = "created" /\ transition(s, e) = on_session_started(s, e)
        \/ transition(s, e) = ignore(s)
    BY <2>1, Dispatch
  <2> QED BY <1>1, <1>3, <2>2, StartSound
<1>4. CASE \E t \in TurnId, now \in Int : e = CandidateTurnReceived(t, now)
  <2>1. e.kind = "candidate_turn"
    BY <1>4 DEF CandidateTurnReceived
  <2>2. transition(s, e) = on_candidate_turn(s, e) \/ transition(s, e) = ignore(s)
    BY <2>1, Dispatch
  <2> QED BY <1>1, <1>4, <2>2, TurnSound
<1>5. CASE \E t \in Int, m \in InterviewerMove : e = InterviewerReplyReady(t, m)
  <2>1. e.kind = "interviewer_reply"
    BY <1>5 DEF InterviewerReplyReady
  <2>2. transition(s, e) = on_interviewer_reply(s, e) \/ transition(s, e) = ignore(s)
    BY <2>1, Dispatch
  <2> QED BY <1>1, <1>5, <2>2, ReplySound
<1>6. CASE \E t \in Int : e = InterviewerFailed(t)
  <2>1. e.kind = "interviewer_failed"
    BY <1>6 DEF InterviewerFailed
  <2>2. transition(s, e) = on_interviewer_failed(s, e) \/ transition(s, e) = ignore(s)
    BY <2>1, Dispatch
  <2> QED BY <1>1, <1>6, <2>2, FailedSound
<1>7. CASE \E t \in TurnId, out \in AssessorOutput : e = AssessmentCompleted(t, out)
  <2>1. e.kind = "assessment_completed"
    BY <1>7 DEF AssessmentCompleted
  <2>2. transition(s, e) = on_assessment_completed(s, e)
    BY <2>1, Dispatch
  <2> QED BY <1>7, <2>2, AssessedSound
<1>8. CASE \E t \in TurnId : e = AssessmentFailed(t)
  <2>1. e.kind = "assessment_failed"
    BY <1>8 DEF AssessmentFailed
  <2>2. transition(s, e) = on_assessment_failed(s, e)
    BY <2>1, Dispatch
  <2> QED BY <1>8, <2>2, UnassessedSound
<1>9. CASE \E now \in Int : e = TimerTick(now)
  <2>1. e.kind = "timer_tick"
    BY <1>9 DEF TimerTick
  <2>2. transition(s, e) = on_timer_tick(s, e)
    BY <2>1, Dispatch
  <2> QED BY <1>9, <2>2, TickSound
<1>10. CASE e = Reconnected
  <2>1. e.kind = "reconnected"
    BY <1>10 DEF Reconnected
  <2>2. transition(s, e) = on_reconnected(s)
    BY <2>1, Dispatch
  <2> QED BY <2>2, ReconnectedSound
<1>11. CASE \E reason \in AbortReason : e = OperatorAbort(reason)
  <2>1. e.kind = "operator_abort" /\ e.reason \in AbortReason
    BY <1>11 DEF OperatorAbort
  <2>2. transition(s, e) = abort(s, e.reason, "operator", TRUE)
    BY <2>1, Dispatch
  <2>3. Ends(s, abort(s, e.reason, "operator", TRUE), "aborted", e.reason, "operator")
    BY AbortStep
  <2>4. Step(s, abort(s, e.reason, "operator", TRUE))
    BY <2>1, <2>3 DEF Step
  <2>5. Sound(s, abort(s, e.reason, "operator", TRUE))
    BY <2>1, <2>4, AbortSound
  <2> QED BY <2>2, <2>5
<1> QED BY <1>3, <1>4, <1>5, <1>6, <1>7, <1>8, <1>9, <1>10, <1>11 DEF SessionEvent

\* The dialog invariant survives every step.
LEMMA StepTurnTaking ==
  ASSUME NEW s \in SessionState, NEW r, TurnTakingIn(s), Step(s, r)
  PROVE  TurnTakingIn(r.new_state)
<1> DEFINE t == r.new_state
<1>1. s.turn_seq \in Nat /\ s.turn_seq + 1 - 1 = s.turn_seq /\ NoCommand.kind = "none"
  BY CommandKinds, SMT DEF SessionState
<1> HIDE DEF t
<1>2. CASE Quiet(s, r)
  BY <1>2, Zenon DEF Quiet, TurnTakingIn, t
<1>3. CASE Retries(s, r)
  <2>1. /\ t.pending_command.kind = "run_interviewer"
        /\ t.pending_command.turn_id = s.pending_command.turn_id
    <3>1. s.pending_command \in PendingCommand
      BY DEF SessionState
    <3> QED BY <1>3, <3>1 DEF Retries, PendingCommand, t
  <2>2. t.pending_command # NoCommand /\ s.pending_command # NoCommand
    BY <1>1, <1>3, <2>1 DEF Retries
  <2> QED BY <1>3, <2>1, <2>2 DEF Retries, TurnTakingIn, t
<1>4. CASE Delivers(s, r)
  <2>1. /\ t.pending_command.kind = "deliver_utterance" /\ t.pending_command # NoCommand
        /\ t.pending_command.turn_id = s.pending_command.turn_id
    BY <1>1, <1>4, CommandKinds DEF Delivers, t
  <2> QED BY <1>4, <2>1 DEF Delivers, InFlight, TurnTakingIn, TerminalPhases, t
<1>5. ASSUME NEW from, NEW to, NEW kind, Moves(s, r, from, to, kind),
             \/ to \in {"tech", "qa"} /\ kind = "run_interviewer"
             \/ to = "intro" /\ kind = "opening"
             \/ to = "close" /\ kind = "closing"
      PROVE  TurnTakingIn(t)
  <2>1. t.pending_command # NoCommand
    BY <1>1, <1>5 DEF Moves, t
  <2> QED BY <1>1, <1>5, <2>1 DEF Moves, TurnTakingIn, TerminalPhases, t
<1>6. ASSUME NEW to \in TerminalPhases, NEW reason, NEW decision, Ends(s, r, to, reason, decision)
      PROVE  TurnTakingIn(t)
  BY <1>1, <1>6 DEF Ends, TurnTakingIn, TerminalPhases, t
<1>7. "completed" \in TerminalPhases /\ "aborted" \in TerminalPhases
  BY DEF TerminalPhases
<1>8. TurnTakingIn(t)
  BY <1>2, <1>3, <1>4, <1>5, <1>6, <1>7 DEF Step, t
<1> QED BY <1>8 DEF t

Over(phases) == phases \cup TerminalPhases

\* No step goes back from Q&A, CLOSE or an end.
LEMMA PhasesAdvance ==
  ASSUME NEW s, NEW r, Step(s, r)
  PROVE  /\ s.phase \in Over({"qa", "close"}) => r.new_state.phase \in Over({"qa", "close"})
         /\ s.phase \in Over({"close"}) => r.new_state.phase \in Over({"close"})
         /\ s.phase \in TerminalPhases => r.new_state.phase \in TerminalPhases
<1> DEFINE t == r.new_state
<1>1. CASE Quiet(s, r) \/ Retries(s, r) \/ Delivers(s, r)
  <2>1. t.phase = s.phase
    BY <1>1 DEF Quiet, Retries, Delivers
  <2> QED BY <2>1
<1>2. ASSUME NEW from, NEW to, NEW kind, Moves(s, r, from, to, kind)
      PROVE  s.phase = from /\ t.phase = to
  BY <1>2 DEF Moves
<1>3. ASSUME NEW to, NEW reason, NEW decision, Ends(s, r, to, reason, decision)
      PROVE  t.phase = to
  BY <1>3 DEF Ends
<1> HIDE DEF t
<1>4. \/ t.phase = s.phase
      \/ t.phase \in TerminalPhases
      \/ s.phase \in {"created", "intro", "tech"} /\ t.phase \in {"intro", "tech", "qa"}
      \/ s.phase = "qa" /\ t.phase \in {"qa", "close"}
  BY <1>1, <1>2, <1>3, Zenon DEF Step, TerminalPhases, Quiet, Retries, Delivers, t
<1> QED BY <1>4 DEF Over, TerminalPhases, t

-----------------------------------------------------------------------------
\* The commands the environment acts on.

AssessorCall == [kind : {"run_assessor"}, turn_id : TurnId, node : Node]
GapRecord == [kind : {"record_gap"}, node : Node, marker : GapMarker]

\* An assessor is asked, and a gap recorded, for a competency of the rubric.
Typed(c) ==
  /\ c.kind = "run_assessor" => c \in AssessorCall
  /\ c.kind = "record_gap" => c \in GapRecord
TypedCommands(r) == \A i \in DOMAIN r.commands : Typed(r.commands[i])

\* A row that fails the competency names the gap.
LEMMA GapHasMarker ==
  ASSUME NEW cell, NEW target, NEW probes, NEW remaining,
         NEW v, v = adjudicate(cell, target, probes, remaining),
         v.verdict # "CLARIFY", v.verdict # "ANSWERED"
  PROVE  v.gap_marker \in GapMarker
  BY DEF adjudicate, Verdict, GapMarker

\* Every command but those two is typed.
LEMMA TypedKinds ==
  /\ Typed(PersistState) /\ Typed(EndSession)
  /\ \A x : Typed(RecordDecision(x)) /\ Typed(FlagTurnDegraded(x)) /\ Typed(ReissuePendingCommand(x))
  /\ \A x : /\ Typed(Outbound("opening", x)) /\ Typed(Outbound("closing", x))
            /\ Typed(Outbound("deliver_utterance", x))
  /\ \A x, y, z : Typed(RunInterviewer(x, y, z))
  /\ \A x \in TurnId, y \in Node : Typed(RunAssessor(x, y))
  /\ \A y \in Node, m \in GapMarker : Typed(RecordGap(y, m))
<1>1. \A x \in TurnId, y \in Node : Typed(RunAssessor(x, y))
  BY DEF RunAssessor, Typed, AssessorCall
<1>2. \A y \in Node, m \in GapMarker : Typed(RecordGap(y, m))
  BY DEF RecordGap, Typed, GapRecord
<1> QED BY <1>1, <1>2, CommandKinds DEF Typed

\* A result of typed commands.
LEMMA TypedTuples ==
  ASSUME NEW t, NEW c1, NEW c2, NEW c3, NEW c4
  PROVE  /\ TypedCommands(Result(t, <<>>))
         /\ Typed(c1) => TypedCommands(Result(t, <<c1>>))
         /\ Typed(c1) /\ Typed(c2) => TypedCommands(Result(t, <<c1, c2>>))
         /\ Typed(c1) /\ Typed(c2) /\ Typed(c3) => TypedCommands(Result(t, <<c1, c2, c3>>))
         /\ Typed(c1) /\ Typed(c2) /\ Typed(c3) /\ Typed(c4) =>
              TypedCommands(Result(t, <<c1, c2, c3, c4>>))
<1>1. \A q : Result(t, q).commands = q
  BY DEF Result
<1>2. TypedCommands(Result(t, <<>>))
  BY <1>1 DEF TypedCommands
<1>3. Typed(c1) => TypedCommands(Result(t, <<c1>>))
  BY <1>1 DEF TypedCommands
<1>4. Typed(c1) /\ Typed(c2) => TypedCommands(Result(t, <<c1, c2>>))
  BY <1>1 DEF TypedCommands
<1>5. Typed(c1) /\ Typed(c2) /\ Typed(c3) => TypedCommands(Result(t, <<c1, c2, c3>>))
  BY <1>1 DEF TypedCommands
<1>6. Typed(c1) /\ Typed(c2) /\ Typed(c3) /\ Typed(c4) =>
        TypedCommands(Result(t, <<c1, c2, c3, c4>>))
  BY <1>1 DEF TypedCommands
<1> QED BY <1>2, <1>3, <1>4, <1>5, <1>6

\* The results shared by the handlers.
LEMMA TypedBlocks ==
  /\ \A s : TypedCommands(ignore(s))
  /\ \A s, reason, decision, persist : TypedCommands(abort(s, reason, decision, persist))
  /\ \A s : TypedCommands(enter_close(s))
  /\ \A s : TypedCommands(complete(s))
  /\ \A s : TypedCommands(on_reconnected(s))
<1>1. ASSUME NEW s PROVE TypedCommands(ignore(s))
  BY TypedTuples DEF ignore
<1>2. ASSUME NEW s, NEW reason, NEW decision, NEW persist
      PROVE  TypedCommands(abort(s, reason, decision, persist))
  <2>1. \A t, c, d : Typed(c) /\ Typed(d) => TypedCommands(Result(t, <<c>>)) /\ TypedCommands(Result(t, <<c, d>>))
    BY TypedTuples
  <2> QED BY <2>1, TypedKinds, Zenon DEF abort
<1>3. ASSUME NEW s PROVE TypedCommands(enter_close(s))
  <2>1. \A t, c, d : Typed(c) /\ Typed(d) => TypedCommands(Result(t, <<c, d>>))
    BY TypedTuples
  <2> QED BY <2>1, TypedKinds, Zenon DEF enter_close
<1>4. ASSUME NEW s PROVE TypedCommands(complete(s))
  <2>1. \A t, c, d : Typed(c) /\ Typed(d) => TypedCommands(Result(t, <<c, d>>))
    BY TypedTuples
  <2> QED BY <2>1, TypedKinds, Zenon DEF complete
<1>5. ASSUME NEW s PROVE TypedCommands(on_reconnected(s))
  <2>1. \A t, c, d : Typed(c) /\ Typed(d) => TypedCommands(Result(t, <<c>>)) /\ TypedCommands(Result(t, <<c, d>>))
    BY TypedTuples
  <2> QED BY <2>1, TypedKinds, Zenon DEF on_reconnected
<1> QED BY <1>1, <1>2, <1>3, <1>4, <1>5

\* A pending command is never an assessor call or a gap record.
LEMMA TypedPending ==
  ASSUME NEW t \in SessionState
  PROVE  Typed(t.pending_command)
<1>1. t.pending_command \in PendingCommand
  BY DEF SessionState
<1> QED BY <1>1 DEF PendingCommand, Typed

\* A result that issues its state's pending command.
LEMMA TypedIssue ==
  ASSUME NEW t, NEW q, Result(t, q).new_state \in SessionState, NEW a, NEW g,
         Typed(a), Typed(g),
         \/ q = <<t.pending_command>>
         \/ q = <<t.pending_command, PersistState>>
         \/ q = <<a, t.pending_command, PersistState>>
         \/ q = <<a, t.pending_command, g, PersistState>>
  PROVE  TypedCommands(Result(t, q))
<1>1. Typed(t.pending_command)
  BY TypedPending DEF Result
<1> QED BY <1>1, TypedKinds, TypedTuples

\* The commands of a candidate turn in TECH.
LEMMA TechTyped ==
  ASSUME NEW s \in SessionState, PlanHoldsIn(s), s.phase = "tech",
         NEW turn \in TurnId, NEW now \in Int
  PROVE  TypedCommands(on_tech_candidate_turn(s, CandidateTurnReceived(turn, now)))
<1> DEFINE e == CandidateTurnReceived(turn, now)
           c == current_competency(s)
           a == RunAssessor(e.turn_id, c.node_id)
           remaining == seconds_remaining(c, s.competency_started_at, e.now)
           v == adjudicate(s.coverage[c.node_id], c.target_level, s.probes_used, remaining)
           g == RecordGap(c.node_id, v.gap_marker)
           r == on_tech_candidate_turn(s, e)
<1>1. e.turn_id = turn
  BY DEF CandidateTurnReceived
<1>2. c.node_id \in Node
  <2>1. s.plan # NoPlan /\ HasCompetency(s.plan, s.competency_index)
    BY DEF PlanHoldsIn
  <2>2. s.competency_index \in Nat
    BY DEF SessionState
  <2>3. c \in PlannedCompetency
    BY <2>1, <2>2, PlanTypes DEF current_competency
  <2> QED BY <2>3 DEF PlannedCompetency
<1>3. Typed(a)
  BY <1>1, <1>2, TypedKinds
<1>4. v.verdict # "CLARIFY" /\ v.verdict # "ANSWERED" => Typed(g)
  <2> HIDE DEF c
  <2>1. v.verdict # "CLARIFY" /\ v.verdict # "ANSWERED" => v.gap_marker \in GapMarker
    BY GapHasMarker
  <2> HIDE DEF v
  <2> QED BY <1>2, <2>1, TypedKinds
<1>5. r.new_state \in SessionState
  BY TechType
<1>6. \E t : \/ r = Result(t, <<a, t.pending_command, PersistState>>)
             \/ /\ v.verdict # "CLARIFY" /\ v.verdict # "ANSWERED"
                /\ r = Result(t, <<a, t.pending_command, g, PersistState>>)
  BY Zenon DEF on_tech_candidate_turn
<1> HIDE DEF r, a, g, v
<1>7. TypedCommands(r)
  BY <1>3, <1>4, <1>5, <1>6, TypedIssue
<1> QED BY <1>7 DEF r

\* The commands of the other handlers.
LEMMA StartTyped ==
  ASSUME NEW s, NEW now
  PROVE  TypedCommands(on_session_started(s, SessionStarted(now)))
<1> DEFINE opening == Outbound("opening", s.turn_seq)
           e == SessionStarted(now)
<1>1. \E t : \/ on_session_started(s, e) = Result(t, <<opening, PersistState>>)
             \/ on_session_started(s, e) = abort(s, "operator_abort", "plan_invalid", FALSE)
  BY Zenon DEF on_session_started
<1>2. Typed(opening) /\ Typed(PersistState)
  BY TypedKinds
<1> HIDE DEF opening
<1> QED BY <1>1, <1>2, TypedTuples, TypedBlocks

\* A candidate turn.
LEMMA TurnTyped ==
  ASSUME NEW s \in SessionState, PlanHoldsIn(s), NEW turn \in TurnId, NEW now \in Int
  PROVE  TypedCommands(on_candidate_turn(s, CandidateTurnReceived(turn, now)))
<1> DEFINE e == CandidateTurnReceived(turn, now)
           r == on_candidate_turn(s, e)
<1>1. r.new_state \in SessionState
  BY TurnType
<1>2. \/ s.phase = "tech" /\ r = on_tech_candidate_turn(s, e)
      \/ r = ignore(s)
      \/ \E u : r = enter_close(u)
      \/ \E t : r = Result(t, <<t.pending_command>>)
      \/ \E t : r = Result(t, <<t.pending_command, PersistState>>)
  BY Zenon DEF on_candidate_turn, on_intro_candidate_turn, on_qa_candidate_turn
<1> HIDE DEF r
<1>3. ASSUME NEW t, NEW q, r = Result(t, q),
             q = <<t.pending_command>> \/ q = <<t.pending_command, PersistState>>
      PROVE  TypedCommands(r)
  BY <1>1, <1>3, TypedIssue, TypedKinds
<1>4. TypedCommands(r)
  BY <1>2, <1>3, TechTyped, TypedBlocks
<1> QED BY <1>4 DEF r

\* An interviewer reply.
LEMMA ReplyTyped ==
  ASSUME NEW s \in SessionState, NEW turn \in Int, NEW move
  PROVE  TypedCommands(on_interviewer_reply(s, InterviewerReplyReady(turn, move)))
<1> DEFINE e == InterviewerReplyReady(turn, move)
           delivery == Outbound("deliver_utterance", e.turn_id)
<1>1. \/ on_interviewer_reply(s, e) = ignore(s)
      \/ on_interviewer_reply(s, e) = complete(s)
      \/ \E t : on_interviewer_reply(s, e) = Result(t, <<delivery, PersistState>>)
  BY Zenon DEF on_interviewer_reply
<1>2. Typed(delivery) /\ Typed(PersistState)
  BY TypedKinds
<1> HIDE DEF delivery
<1> QED BY <1>1, <1>2, TypedTuples, TypedBlocks

\* An interviewer failure.
LEMMA FailedTyped ==
  ASSUME NEW s \in SessionState, NEW turn \in Int
  PROVE  TypedCommands(on_interviewer_failed(s, InterviewerFailed(turn)))
<1> DEFINE e == InterviewerFailed(turn)
           retry == [s.pending_command EXCEPT !.retry = TRUE]
           flag == FlagTurnDegraded(e.turn_id)
<1>1. \/ on_interviewer_failed(s, e) = ignore(s)
      \/ on_interviewer_failed(s, e) = abort(s, "fatal_agent_error", "agent_failure", TRUE)
      \/ \E t : on_interviewer_failed(s, e) = Result(t, <<retry, flag, PersistState>>)
  BY Zenon DEF on_interviewer_failed
<1>2. Typed(retry)
  <2>1. s.pending_command \in PendingCommand
    BY DEF SessionState
  <2>2. retry.kind = s.pending_command.kind
    BY <2>1 DEF PendingCommand
  <2>3. retry.kind # "run_assessor" /\ retry.kind # "record_gap"
    BY <2>1, <2>2 DEF PendingCommand
  <2> HIDE DEF retry
  <2> QED BY <2>3 DEF Typed
<1>3. Typed(flag) /\ Typed(PersistState)
  BY TypedKinds
<1> HIDE DEF retry, flag
<1> QED BY <1>1, <1>2, <1>3, TypedTuples, TypedBlocks

\* The assessor's results.
LEMMA AssessedTyped ==
  ASSUME NEW s, NEW turn, NEW out
  PROVE  TypedCommands(on_assessment_completed(s, AssessmentCompleted(turn, out)))
<1> DEFINE e == AssessmentCompleted(turn, out)
<1>1. \/ on_assessment_completed(s, e) = ignore(s)
      \/ \E t : on_assessment_completed(s, e) = Result(t, <<PersistState>>)
  BY Zenon DEF on_assessment_completed
<1> QED BY <1>1, TypedKinds, TypedTuples, TypedBlocks

\* A failed assessment.
LEMMA UnassessedTyped ==
  ASSUME NEW s, NEW turn
  PROVE  TypedCommands(on_assessment_failed(s, AssessmentFailed(turn)))
<1> DEFINE e == AssessmentFailed(turn)
<1>1. \/ on_assessment_failed(s, e) = ignore(s)
      \/ \E t : on_assessment_failed(s, e) = Result(t, <<PersistState>>)
  BY Zenon DEF on_assessment_failed
<1> QED BY <1>1, TypedKinds, TypedTuples, TypedBlocks

\* A tick.
LEMMA TickTyped ==
  ASSUME NEW s \in SessionState, NEW now \in Int
  PROVE  TypedCommands(on_timer_tick(s, TimerTick(now)))
<1> DEFINE e == TimerTick(now)
           r == on_timer_tick(s, e)
<1>1. r.new_state \in SessionState
  BY TickType
<1>2. \/ r = abort(s, "candidate_timeout", "timeout", TRUE)
      \/ \E t : r = Result(t, <<t.pending_command>>)
      \/ r = enter_close(s)
      \/ r = complete(s)
      \/ r = ignore(s)
  BY Zenon DEF on_timer_tick
<1> HIDE DEF r
<1>3. ASSUME NEW t, r = Result(t, <<t.pending_command>>) PROVE TypedCommands(r)
  BY <1>1, <1>3, TypedIssue, TypedKinds
<1>4. TypedCommands(r)
  BY <1>2, <1>3, TypedBlocks
<1> QED BY <1>4 DEF r

\* Every transition's commands are typed.
LEMMA TransitionTyped ==
  ASSUME NEW s \in SessionState, PlanHoldsIn(s), NEW e \in SessionEvent
  PROVE  TypedCommands(transition(s, e))
<1>1. TypedCommands(ignore(s))
  BY TypedBlocks
<1>2. CASE s.phase \in TerminalPhases
  BY <1>1, <1>2 DEF transition, handle
<1> SUFFICES ASSUME s.phase \notin TerminalPhases
             PROVE  TypedCommands(transition(s, e))
  BY <1>2
<1>3. CASE \E now \in Int : e = SessionStarted(now)
  <2>1. e.kind = "session_started"
    BY <1>3 DEF SessionStarted
  <2>2. \/ s.phase = "created" /\ transition(s, e) = on_session_started(s, e)
        \/ transition(s, e) = ignore(s)
    BY <2>1, Dispatch
  <2> QED BY <1>1, <1>3, <2>2, StartTyped
<1>4. CASE \E t \in TurnId, now \in Int : e = CandidateTurnReceived(t, now)
  <2>1. e.kind = "candidate_turn"
    BY <1>4 DEF CandidateTurnReceived
  <2>2. transition(s, e) = on_candidate_turn(s, e) \/ transition(s, e) = ignore(s)
    BY <2>1, Dispatch
  <2> QED BY <1>1, <1>4, <2>2, TurnTyped
<1>5. CASE \E t \in Int, m \in InterviewerMove : e = InterviewerReplyReady(t, m)
  <2>1. e.kind = "interviewer_reply"
    BY <1>5 DEF InterviewerReplyReady
  <2>2. transition(s, e) = on_interviewer_reply(s, e) \/ transition(s, e) = ignore(s)
    BY <2>1, Dispatch
  <2> QED BY <1>1, <1>5, <2>2, ReplyTyped
<1>6. CASE \E t \in Int : e = InterviewerFailed(t)
  <2>1. e.kind = "interviewer_failed"
    BY <1>6 DEF InterviewerFailed
  <2>2. transition(s, e) = on_interviewer_failed(s, e) \/ transition(s, e) = ignore(s)
    BY <2>1, Dispatch
  <2> QED BY <1>1, <1>6, <2>2, FailedTyped
<1>7. CASE \E t \in TurnId, out \in AssessorOutput : e = AssessmentCompleted(t, out)
  <2>1. e.kind = "assessment_completed"
    BY <1>7 DEF AssessmentCompleted
  <2>2. transition(s, e) = on_assessment_completed(s, e)
    BY <2>1, Dispatch
  <2> QED BY <1>7, <2>2, AssessedTyped
<1>8. CASE \E t \in TurnId : e = AssessmentFailed(t)
  <2>1. e.kind = "assessment_failed"
    BY <1>8 DEF AssessmentFailed
  <2>2. transition(s, e) = on_assessment_failed(s, e)
    BY <2>1, Dispatch
  <2> QED BY <1>8, <2>2, UnassessedTyped
<1>9. CASE \E now \in Int : e = TimerTick(now)
  <2>1. e.kind = "timer_tick"
    BY <1>9 DEF TimerTick
  <2>2. transition(s, e) = on_timer_tick(s, e)
    BY <2>1, Dispatch
  <2> QED BY <1>9, <2>2, TickTyped
<1>10. CASE e = Reconnected
  <2>1. e.kind = "reconnected"
    BY <1>10 DEF Reconnected
  <2>2. transition(s, e) = on_reconnected(s)
    BY <2>1, Dispatch
  <2> QED BY <2>2, TypedBlocks
<1>11. CASE \E reason \in AbortReason : e = OperatorAbort(reason)
  <2>1. e.kind = "operator_abort" /\ e.reason \in AbortReason
    BY <1>11 DEF OperatorAbort
  <2>2. transition(s, e) = abort(s, e.reason, "operator", TRUE)
    BY <2>1, Dispatch
  <2> QED BY <2>2, TypedBlocks
<1> QED BY <1>3, <1>4, <1>5, <1>6, <1>7, <1>8, <1>9, <1>10, <1>11 DEF SessionEvent

-----------------------------------------------------------------------------
\* The failure ladder.

\* The result does not end the session for an agent's failure.
Spares(r) ==
  \/ Decided(r) = <<>>
  \/ \E d : d # "agent_failure" /\ Decided(r) = <<RecordDecision(d)>>

\* The failure of the call in flight climbs one rung, or was on the last.
Climbs(s, e, r) ==
  /\ e.kind = "interviewer_failed" /\ e.turn_id = s.pending_command.turn_id /\ InFlight(s)
  /\ r.new_state.turn_seq = s.turn_seq
  /\ \/ /\ r.new_state.interviewer_failure_streak = s.interviewer_failure_streak + 1
        /\ Spares(r)
     \/ /\ s.interviewer_failure_streak >= 1
        /\ r.new_state.phase = "aborted"

\* Otherwise the streak is out of use, starts again, or is as it was, for the
\* same turn.
Ladder(s, e, r) ==
  LET t == r.new_state
  IN  \/ Spares(r) /\ t.phase \notin {"tech", "qa"}
      \/ Spares(r) /\ t.interviewer_failure_streak = 0
      \/ /\ Spares(r) /\ t.phase = s.phase /\ t.turn_seq = s.turn_seq
         /\ t.interviewer_failure_streak = s.interviewer_failure_streak
      \/ Climbs(s, e, r)

\* Whatever the state it issues from, a new call starts with a clean streak.
LEMMA IssueResets ==
  ASSUME NEW u, NEW move, NEW node, issue_interviewer(u, move, node) \in SessionState
  PROVE  /\ issue_interviewer(u, move, node).interviewer_failure_streak = 0
         /\ Other(issue_interviewer(u, move, node).pending_command)
<1> DEFINE t == issue_interviewer(u, move, node)
<1>1. DOMAIN t = DOMAIN u
  BY DEF issue_interviewer
<1>2. "interviewer_failure_streak" \in DOMAIN t /\ "pending_command" \in DOMAIN t
  <2>1. t \in SessionState
    OBVIOUS
  <2> HIDE DEF t
  <2> QED BY <2>1, SMT DEF SessionState
<1>3. "interviewer_failure_streak" \in DOMAIN u /\ "pending_command" \in DOMAIN u
  BY <1>1, <1>2
<1>4. t.interviewer_failure_streak = 0 /\ t.pending_command = RunInterviewer(u.turn_seq, move, node)
  BY <1>3, SMT DEF issue_interviewer
<1> HIDE DEF t
<1> QED BY <1>4, OtherCommands DEF t

\* The results the handlers share.
LEMMA IgnoreLadder ==
  ASSUME NEW s, NEW e
  PROVE  Ladder(s, e, ignore(s))
<1>1. Decided(ignore(s)) = <<>> /\ ignore(s).new_state = s
  BY IgnoreStep DEF Quiet, Silent, ignore, Result
<1> QED BY <1>1 DEF Ladder, Spares

\* An end, other than by an agent's failure.
LEMMA EndLadder ==
  ASSUME NEW s, NEW e, NEW r, NEW to \in TerminalPhases, NEW reason,
         NEW decision, decision # "agent_failure", Ends(s, r, to, reason, decision)
  PROVE  Ladder(s, e, r)
<1>1. Decided(r) = <<RecordDecision(decision)>> /\ r.new_state.phase \notin {"tech", "qa"}
  BY DEF Ends, TerminalPhases
<1> QED BY <1>1 DEF Ladder, Spares

\* A closing.
LEMMA CloseLadder ==
  ASSUME NEW s \in SessionState, NEW e
  PROVE  Ladder(s, e, enter_close(s))
<1>1. Moves(s, enter_close(s), s.phase, "close", "closing")
  BY CloseStep
<1> QED BY <1>1 DEF Moves, Silent, Ladder, Spares

\* A new call, with the commands of the handlers that issue.
LEMMA IssueLadder ==
  ASSUME NEW s, NEW e, NEW u, NEW move, NEW node, NEW q, NEW a, NEW g, Other(a), Other(g),
         LET t == issue_interviewer(u, move, node)
             c == t.pending_command
         IN  /\ t \in SessionState
             /\ q \in {<<c>>, <<c, PersistState>>, <<a, c, PersistState>>, <<a, c, g, PersistState>>}
  PROVE  Ladder(s, e, Result(issue_interviewer(u, move, node), q))
<1> DEFINE t == issue_interviewer(u, move, node)
           c == t.pending_command
<1>1. t.interviewer_failure_streak = 0 /\ Other(c) /\ Other(PersistState)
  BY IssueResets, OtherCommands
<1>2. q \in {<<c>>, <<c, PersistState>>, <<a, c, PersistState>>, <<a, c, g, PersistState>>}
  OBVIOUS
<1> HIDE DEF t, c
<1>3. Silent(Result(t, q))
  BY <1>1, <1>2, SilentTuples
<1>4. Ladder(s, e, Result(t, q))
  BY <1>1, <1>3 DEF Ladder, Spares, Silent, Result
<1> QED BY <1>4 DEF t

-----------------------------------------------------------------------------
\* Each handler.

\* A start.
LEMMA StartLadder ==
  ASSUME NEW s \in SessionState, PlanHoldsIn(s), FlaggedIn(s), s.phase = "created", NEW now \in Int
  PROVE  LET e == SessionStarted(now) IN Ladder(s, e, on_session_started(s, e))
<1> DEFINE e == SessionStarted(now)
           opening == Outbound("opening", s.turn_seq)
           t == [s EXCEPT !.phase = "intro", !.awaiting = "interviewer",
                          !.plan = s.plan_input, !.session_started_at = e.now,
                          !.last_candidate_activity = e.now,
                          !.turn_seq = @ + 1, !.pending_command = opening]
           r == on_session_started(s, e)
           refused == abort(s, "operator_abort", "plan_invalid", FALSE)
<1>1. r = refused \/ r = Result(t, <<opening, PersistState>>)
  BY Zenon DEF on_session_started
<1>2. Ladder(s, e, refused)
  <2>1. s.phase \notin TerminalPhases /\ "aborted" \in TerminalPhases
    BY DEF TerminalPhases
  <2>2. Ends(s, refused, "aborted", "operator_abort", "plan_invalid")
    BY <2>1, AbortStep
  <2> HIDE DEF refused, e
  <2> QED BY <2>1, <2>2, EndLadder
<1>3. t.phase = "intro"
  BY SMT DEF SessionState
<1>4. Other(opening) /\ Other(PersistState)
  BY OtherCommands
<1> HIDE DEF t, opening, e, r, refused
<1>5. Silent(Result(t, <<opening, PersistState>>))
  BY <1>4, SilentTuples
<1>6. Ladder(s, e, Result(t, <<opening, PersistState>>))
  BY <1>3, <1>5 DEF Ladder, Spares, Silent, Result
<1> QED BY <1>1, <1>2, <1>6 DEF r, e

\* A candidate turn, in any phase, issues or closes.
LEMMA TurnLadder ==
  ASSUME NEW s \in SessionState, PlanHoldsIn(s), FlaggedIn(s), NEW turn \in TurnId, NEW now \in Int
  PROVE  LET e == CandidateTurnReceived(turn, now) IN Ladder(s, e, on_candidate_turn(s, e))
<1> DEFINE e == CandidateTurnReceived(turn, now)
           r == on_candidate_turn(s, e)
           Issued(q) == \E u, move, node, a, g :
                          LET t == issue_interviewer(u, move, node)
                              c == t.pending_command
                          IN  /\ q = Result(t, <<c>>) \/ q = Result(t, <<c, PersistState>>)
                                   \/ q = Result(t, <<a, c, PersistState>>)
                                   \/ q = Result(t, <<a, c, g, PersistState>>)
                              /\ Other(a) /\ Other(g)
<1>1. r.new_state \in SessionState
  BY TurnType
<1>2. Issued(on_intro_candidate_turn(s, e))
  <2>1. Other(PersistState)
    BY OtherCommands
  <2> QED BY <2>1, Zenon DEF on_intro_candidate_turn
<1>3. Issued(on_tech_candidate_turn(s, e))
  <2> DEFINE c == current_competency(s)
             a == RunAssessor(e.turn_id, c.node_id)
             remaining == seconds_remaining(c, s.competency_started_at, e.now)
             v == adjudicate(s.coverage[c.node_id], c.target_level, s.probes_used, remaining)
             g == RecordGap(c.node_id, v.gap_marker)
             IsIssued(t) == \E u, move, node : t = issue_interviewer(u, move, node)
  <2>1. Other(a) /\ Other(g)
    BY OtherCommands
  <2>2. /\ \A u : IsIssued(depth_probe(u, c)) /\ IsIssued(next_seed(u, c))
        /\ \A u, now1 : IsIssued(enter_qa(u, now1))
    BY Zenon DEF depth_probe, next_seed, enter_qa
  <2>3. \A u, verdict, now1 : IsIssued(leave_competency(u, verdict, now1))
    <3> TAKE u, verdict, now1
    <3>1. \/ leave_competency(u, verdict, now1) = enter_qa(u, now1)
          \/ \E w, move, node : leave_competency(u, verdict, now1) = issue_interviewer(w, move, node)
      BY Zenon DEF leave_competency
    <3>2. \A w, move, node : IsIssued(issue_interviewer(w, move, node))
      BY Zenon
    <3> HIDE DEF IsIssued
    <3> QED BY <2>2, <3>1, <3>2, Zenon
  <2> HIDE DEF IsIssued
  <2>4. \E t : /\ IsIssued(t)
               /\ \/ on_tech_candidate_turn(s, e) = Result(t, <<a, t.pending_command, PersistState>>)
                  \/ on_tech_candidate_turn(s, e) = Result(t, <<a, t.pending_command, g, PersistState>>)
    BY <2>2, <2>3, Zenon DEF on_tech_candidate_turn
  <2> HIDE DEF a, g, e
  <2> QED BY <2>1, <2>4, Zenon DEF IsIssued
<1>4. \/ Issued(on_qa_candidate_turn(s, e))
      \/ \E u \in SessionState : on_qa_candidate_turn(s, e) = enter_close(u)
  <2> DEFINE u == [s EXCEPT !.last_candidate_activity = e.now]
  <2>1. e.now \in Int /\ Other(PersistState)
    BY OtherCommands DEF CandidateTurnReceived
  <2>2. u \in SessionState
    BY <2>1, Zenon DEF SessionState
  <2>3. \/ on_qa_candidate_turn(s, e) = enter_close(u)
        \/ \E t : /\ t = issue_interviewer(u, "acknowledge_and_transition", NoNode)
                 /\ on_qa_candidate_turn(s, e) = Result(t, <<t.pending_command>>)
    BY Zenon DEF on_qa_candidate_turn
  <2>4. ASSUME NEW t, t = issue_interviewer(u, "acknowledge_and_transition", NoNode)
        PROVE  Issued(Result(t, <<t.pending_command>>))
    <3> HIDE DEF u
    <3> QED BY <2>1, <2>4, Zenon
  <2> HIDE DEF u, e, Issued
  <2> QED BY <2>2, <2>3, <2>4
<1>5. \/ r = ignore(s) \/ Issued(r)
      \/ \E u \in SessionState : r = enter_close(u)
  <2>1. \/ r = ignore(s) \/ r = on_intro_candidate_turn(s, e)
        \/ r = on_tech_candidate_turn(s, e) \/ r = on_qa_candidate_turn(s, e)
    BY Zenon DEF on_candidate_turn
  <2> HIDE DEF Issued, r, e
  <2> QED BY <1>2, <1>3, <1>4, <2>1
<1> HIDE DEF r, e
<1>6. ASSUME Issued(r) PROVE Ladder(s, e, r)
  <2>1. PICK u, move, node, a, g :
               LET t == issue_interviewer(u, move, node)
                   c == t.pending_command
               IN  /\ r = Result(t, <<c>>) \/ r = Result(t, <<c, PersistState>>)
                        \/ r = Result(t, <<a, c, PersistState>>)
                        \/ r = Result(t, <<a, c, g, PersistState>>)
                   /\ Other(a) /\ Other(g)
    BY <1>6
  <2> DEFINE t == issue_interviewer(u, move, node)
             c == t.pending_command
  <2>2. r.new_state = t
    BY <2>1 DEF Result
  <2>3. PICK q \in {<<c>>, <<c, PersistState>>, <<a, c, PersistState>>, <<a, c, g, PersistState>>} :
          r = Result(t, q)
    BY <2>1
  <2> QED BY <1>1, <2>1, <2>2, <2>3, IssueLadder
<1>7. ASSUME NEW u \in SessionState PROVE Ladder(s, e, enter_close(u))
  <2>1. Moves(u, enter_close(u), u.phase, "close", "closing")
    BY CloseStep
  <2> QED BY <2>1 DEF Moves, Silent, Ladder, Spares
<1>8. Ladder(s, e, r)
  BY <1>5, <1>6, <1>7, IgnoreLadder
<1> QED BY <1>8 DEF r, e

\* A reply clears the streak; the closing's completes.
LEMMA ReplyLadder ==
  ASSUME NEW s \in SessionState, PlanHoldsIn(s), FlaggedIn(s), NEW turn \in Int,
         NEW move \in InterviewerMove
  PROVE  LET e == InterviewerReplyReady(turn, move) IN Ladder(s, e, on_interviewer_reply(s, e))
<1> DEFINE e == InterviewerReplyReady(turn, move)
           r == on_interviewer_reply(s, e)
           delivery == Outbound("deliver_utterance", e.turn_id)
<1>1. \/ r = ignore(s)
      \/ s.phase = "close" /\ r = complete(s)
      \/ \E d, f : r = Result([s EXCEPT !.awaiting = "candidate", !.interviewer_failure_streak = 0,
                                        !.drift_count = d, !.flagged_for_review = f,
                                        !.pending_command = delivery],
                              <<delivery, PersistState>>)
  BY Zenon DEF on_interviewer_reply
<1>2. delivery.kind = "deliver_utterance" /\ PersistState.kind = "persist_state"
  BY CommandKinds
<1> HIDE DEF e, r, delivery
<1>3. ASSUME NEW d, NEW f,
             r = Result([s EXCEPT !.awaiting = "candidate", !.interviewer_failure_streak = 0,
                                  !.drift_count = d, !.flagged_for_review = f,
                                  !.pending_command = delivery],
                        <<delivery, PersistState>>)
      PROVE  Ladder(s, e, r)
  <2> DEFINE t == [s EXCEPT !.awaiting = "candidate", !.interviewer_failure_streak = 0,
                            !.drift_count = d, !.flagged_for_review = f,
                            !.pending_command = delivery]
  <2>1. t.interviewer_failure_streak = 0
    BY SMT DEF SessionState
  <2> HIDE DEF t
  <2>2. Decided(Result(t, <<delivery, PersistState>>)) = <<>>
    BY <1>2, EmittedPair DEF Decided
  <2>3. r = Result(t, <<delivery, PersistState>>) /\ r.new_state = t
    BY <1>3 DEF t, Result
  <2> QED BY <2>1, <2>2, <2>3 DEF Ladder, Spares
<1>4. ASSUME s.phase = "close" PROVE Ladder(s, e, complete(s))
  <2>1. Ends(s, complete(s), "completed", s.abort_reason, "completed")
    BY <1>4, CompleteStep
  <2> QED BY <2>1, EndLadder DEF TerminalPhases
<1>5. Ladder(s, e, r)
  BY <1>1, <1>3, <1>4, IgnoreLadder
<1> QED BY <1>5 DEF r, e

\* A failure of the call in flight, and only that, climbs.
LEMMA FailedLadder ==
  ASSUME NEW s \in SessionState, PlanHoldsIn(s), FlaggedIn(s), NEW turn \in Int
  PROVE  LET e == InterviewerFailed(turn) IN Ladder(s, e, on_interviewer_failed(s, e))
<1> DEFINE e == InterviewerFailed(turn)
           r == on_interviewer_failed(s, e)
           retry == [s.pending_command EXCEPT !.retry = TRUE]
           t == [s EXCEPT !.interviewer_failure_streak = @ + 1, !.pending_command = retry]
           q == <<retry, FlagTurnDegraded(e.turn_id), PersistState>>
           given_up == abort(s, "fatal_agent_error", "agent_failure", TRUE)
<1>1. e.kind = "interviewer_failed"
  BY DEF InterviewerFailed
<1>2. \/ r = ignore(s)
      \/ /\ e.turn_id = s.pending_command.turn_id /\ InFlight(s)
         /\ s.pending_command.kind = "run_interviewer"
         /\ \/ s.interviewer_failure_streak >= 1 /\ r = given_up
            \/ r = Result(t, q)
  BY Zenon DEF on_interviewer_failed, answers_pending_command
<1>3. t.turn_seq = s.turn_seq /\ t.interviewer_failure_streak = s.interviewer_failure_streak + 1
  <2> HIDE DEF retry
  <2> QED BY SMT DEF SessionState
<1>4. ASSUME InFlight(s)
      PROVE  given_up.new_state.phase = "aborted" /\ given_up.new_state.turn_seq = s.turn_seq
  <2>1. s.phase \notin TerminalPhases
    BY <1>4 DEF InFlight, TerminalPhases
  <2>2. Ends(s, given_up, "aborted", "fatal_agent_error", "agent_failure")
    BY <2>1, AbortStep
  <2> QED BY <2>2, Zenon DEF Ends
<1>5. ASSUME s.pending_command.kind = "run_interviewer"
      PROVE  Decided(Result(t, q)) = <<>>
  <2>1. retry.kind = "run_interviewer"
    <3>1. s.pending_command \in PendingCommand
      BY DEF SessionState
    <3> QED BY <1>5, <3>1 DEF PendingCommand
  <2>2. Other(retry)
    BY <2>1 DEF Other
  <2> HIDE DEF retry, t
  <2> QED BY <2>2, OtherCommands, SilentTuples DEF Silent
<1>6. Result(t, q).new_state = t
  BY DEF Result
<1> HIDE DEF e, r, t, q, given_up
<1>7. Ladder(s, e, r)
  BY <1>1, <1>2, <1>3, <1>4, <1>5, <1>6, IgnoreLadder DEF Ladder, Climbs, Spares
<1> QED BY <1>7 DEF r, e

\* A result that persists a state with the streak, the phase and the turn of
\* the old one.
LEMMA QuietLadder ==
  ASSUME NEW s, NEW e, NEW t, t.phase = s.phase, t.turn_seq = s.turn_seq,
         t.interviewer_failure_streak = s.interviewer_failure_streak
  PROVE  Ladder(s, e, Result(t, <<PersistState>>))
<1>1. Silent(Result(t, <<PersistState>>))
  BY OtherCommands, SilentTuples
<1> QED BY <1>1 DEF Ladder, Spares, Silent, Result

\* An assessment.
LEMMA AssessedLadder ==
  ASSUME NEW s \in SessionState, NEW turn \in TurnId, NEW out \in AssessorOutput
  PROVE  LET e == AssessmentCompleted(turn, out) IN Ladder(s, e, on_assessment_completed(s, e))
<1> DEFINE e == AssessmentCompleted(turn, out)
           r == on_assessment_completed(s, e)
           Folded(cov, total, manual, flag) ==
             [drop_pending(s, turn) EXCEPT !.coverage = cov, !.cheat_flag_count = total,
                                           !.needs_manual_review = manual,
                                           !.flagged_for_review = flag]
<1>1. r = ignore(s) \/ \E c, n, m, f : r = Result(Folded(c, n, m, f), <<PersistState>>)
  BY Zenon DEF on_assessment_completed, AssessmentCompleted
<1>2. ASSUME NEW c, NEW n, NEW m, NEW f
      PROVE  /\ Folded(c, n, m, f).phase = s.phase /\ Folded(c, n, m, f).turn_seq = s.turn_seq
             /\ Folded(c, n, m, f).interviewer_failure_streak = s.interviewer_failure_streak
  BY SMT DEF drop_pending, SessionState
<1> HIDE DEF r, e, Folded
<1>3. Ladder(s, e, r)
  BY <1>1, <1>2, IgnoreLadder, QuietLadder
<1> QED BY <1>3 DEF r, e

\* A failed assessment.
LEMMA UnassessedLadder ==
  ASSUME NEW s \in SessionState, NEW turn \in TurnId
  PROVE  LET e == AssessmentFailed(turn) IN Ladder(s, e, on_assessment_failed(s, e))
<1> DEFINE e == AssessmentFailed(turn)
           r == on_assessment_failed(s, e)
           node == s.assessment_focus[turn]
           t == [drop_pending(s, turn) EXCEPT !.coverage[node].assessment_failed = TRUE]
<1>1. r = ignore(s) \/ r = Result(t, <<PersistState>>)
  BY Zenon DEF on_assessment_failed, AssessmentFailed
<1>2. /\ t.phase = s.phase /\ t.turn_seq = s.turn_seq
      /\ t.interviewer_failure_streak = s.interviewer_failure_streak
  <2> HIDE DEF node
  <2> QED BY SMT DEF drop_pending, SessionState
<1> HIDE DEF r, e, t
<1>3. Ladder(s, e, r)
  BY <1>1, <1>2, IgnoreLadder, QuietLadder
<1> QED BY <1>3 DEF r, e

\* A tick ends, closes, or issues the first Q&A move.
LEMMA TickLadder ==
  ASSUME NEW s \in SessionState, s.phase \notin TerminalPhases, NEW now \in Int
  PROVE  LET e == TimerTick(now) IN Ladder(s, e, on_timer_tick(s, e))
<1> DEFINE e == TimerTick(now)
           r == on_timer_tick(s, e)
           asked == enter_qa(s, now)
           late == abort(s, "candidate_timeout", "timeout", TRUE)
<1>1. e.now = now
  BY DEF TimerTick
<1>2. \/ r = late
      \/ r = Result(asked, <<asked.pending_command>>)
      \/ r = enter_close(s)
      \/ s.phase = "close" /\ r = complete(s)
      \/ r = ignore(s)
  BY <1>1, Zenon DEF on_timer_tick
<1>3. Ladder(s, e, late)
  <2>1. Ends(s, late, "aborted", "candidate_timeout", "timeout")
    BY AbortStep
  <2> HIDE DEF late, e
  <2> QED BY <2>1, EndLadder DEF TerminalPhases
<1>4. Ladder(s, e, Result(asked, <<asked.pending_command>>))
  <2>1. asked \in SessionState
    BY QaType
  <2>2. \E u, move, node : asked = issue_interviewer(u, move, node)
    BY Zenon DEF enter_qa
  <2> HIDE DEF asked, e
  <2> QED BY <2>1, <2>2, OtherCommands, IssueLadder
<1>5. ASSUME s.phase = "close" PROVE Ladder(s, e, complete(s))
  <2>1. Ends(s, complete(s), "completed", s.abort_reason, "completed")
    BY <1>5, CompleteStep
  <2> HIDE DEF e
  <2> QED BY <2>1, EndLadder DEF TerminalPhases
<1>6. Ladder(s, e, enter_close(s))
  BY CloseLadder
<1> HIDE DEF r, e, asked, late
<1>7. Ladder(s, e, r)
  BY <1>2, <1>3, <1>4, <1>5, <1>6, IgnoreLadder
<1> QED BY <1>7 DEF r, e

\* A resume.
LEMMA ReconnectedLadder ==
  ASSUME NEW s, NEW e
  PROVE  Ladder(s, e, on_reconnected(s))
<1> DEFINE again == ReissuePendingCommand(s.pending_command)
<1>1. \/ on_reconnected(s) = Result(s, <<PersistState>>)
      \/ on_reconnected(s) = Result(s, <<again, PersistState>>)
  BY Zenon DEF on_reconnected
<1>2. Silent(Result(s, <<again, PersistState>>))
  <2>1. Other(again)
    BY OtherCommands
  <2> HIDE DEF again
  <2> QED BY <2>1, OtherCommands, SilentTuples
<1> HIDE DEF again
<1>3. Ladder(s, e, Result(s, <<again, PersistState>>))
  BY <1>2 DEF Ladder, Spares, Silent, Result
<1> QED BY <1>1, <1>3, QuietLadder

\* Every transition keeps to the ladder.
LEMMA TransitionLadder ==
  ASSUME NEW s \in SessionState, PlanHoldsIn(s), FlaggedIn(s), NEW e \in SessionEvent
  PROVE  Ladder(s, e, transition(s, e))
<1>1. CASE s.phase \in TerminalPhases
  BY <1>1, IgnoreLadder DEF transition
<1> SUFFICES ASSUME s.phase \notin TerminalPhases
             PROVE  Ladder(s, e, transition(s, e))
  BY <1>1
<1>2. CASE \E now \in Int : e = SessionStarted(now)
  <2>1. e.kind = "session_started"
    BY <1>2 DEF SessionStarted
  <2>2. \/ s.phase = "created" /\ transition(s, e) = on_session_started(s, e)
        \/ transition(s, e) = ignore(s)
    BY <2>1, Dispatch
  <2> QED BY <1>2, <2>2, IgnoreLadder, StartLadder
<1>3. CASE \E t \in TurnId, now \in Int : e = CandidateTurnReceived(t, now)
  <2>1. e.kind = "candidate_turn"
    BY <1>3 DEF CandidateTurnReceived
  <2>2. transition(s, e) = on_candidate_turn(s, e) \/ transition(s, e) = ignore(s)
    BY <2>1, Dispatch
  <2> QED BY <1>3, <2>2, IgnoreLadder, TurnLadder
<1>4. CASE \E t \in Int, m \in InterviewerMove : e = InterviewerReplyReady(t, m)
  <2>1. e.kind = "interviewer_reply"
    BY <1>4 DEF InterviewerReplyReady
  <2>2. transition(s, e) = on_interviewer_reply(s, e) \/ transition(s, e) = ignore(s)
    BY <2>1, Dispatch
  <2> QED BY <1>4, <2>2, IgnoreLadder, ReplyLadder
<1>5. CASE \E t \in Int : e = InterviewerFailed(t)
  <2>1. e.kind = "interviewer_failed"
    BY <1>5 DEF InterviewerFailed
  <2>2. transition(s, e) = on_interviewer_failed(s, e) \/ transition(s, e) = ignore(s)
    BY <2>1, Dispatch
  <2> QED BY <1>5, <2>2, IgnoreLadder, FailedLadder
<1>6. CASE \E t \in TurnId, out \in AssessorOutput : e = AssessmentCompleted(t, out)
  <2>1. e.kind = "assessment_completed"
    BY <1>6 DEF AssessmentCompleted
  <2>2. transition(s, e) = on_assessment_completed(s, e)
    BY <2>1, Dispatch
  <2> QED BY <1>6, <2>2, AssessedLadder
<1>7. CASE \E t \in TurnId : e = AssessmentFailed(t)
  <2>1. e.kind = "assessment_failed"
    BY <1>7 DEF AssessmentFailed
  <2>2. transition(s, e) = on_assessment_failed(s, e)
    BY <2>1, Dispatch
  <2> QED BY <1>7, <2>2, UnassessedLadder
<1>8. CASE \E now \in Int : e = TimerTick(now)
  <2>1. e.kind = "timer_tick"
    BY <1>8 DEF TimerTick
  <2>2. transition(s, e) = on_timer_tick(s, e)
    BY <2>1, Dispatch
  <2> QED BY <1>8, <2>2, TickLadder
<1>9. CASE e = Reconnected
  <2>1. e.kind = "reconnected"
    BY <1>9 DEF Reconnected
  <2>2. transition(s, e) = on_reconnected(s)
    BY <2>1, Dispatch
  <2> QED BY <2>2, ReconnectedLadder
<1>10. CASE \E reason \in AbortReason : e = OperatorAbort(reason)
  <2>1. e.kind = "operator_abort"
    BY <1>10 DEF OperatorAbort
  <2>2. transition(s, e) = abort(s, e.reason, "operator", TRUE)
    BY <2>1, Dispatch
  <2>3. Ends(s, abort(s, e.reason, "operator", TRUE), "aborted", e.reason, "operator")
    BY AbortStep
  <2> QED BY <2>2, <2>3, EndLadder DEF TerminalPhases
<1> QED BY <1>2, <1>3, <1>4, <1>5, <1>6, <1>7, <1>8, <1>9, <1>10 DEF SessionEvent

-----------------------------------------------------------------------------
\* The assessments asked for.

Asked(r) == Emitted(r, "run_assessor")

\* Nothing is asked and nothing is heard; an answer that is not heard changes nothing.
Keeps(s, e, r) ==
  /\ r.new_state.assessment_focus = s.assessment_focus /\ Asked(r) = <<>>
  /\ e.kind \in {"assessment_completed", "assessment_failed"} => r.new_state = s
\* The assessment of a candidate's turn is asked for and noted.
Asks(s, e, r) ==
  /\ e.kind = "candidate_turn"
  /\ \E n \in Node : /\ Asked(r) = <<RunAssessor(e.turn_id, n)>>
                     /\ r.new_state.assessment_focus = [s.assessment_focus EXCEPT ![e.turn_id] = n]
\* A pending assessment is answered.
Hears(s, e, r) ==
  /\ e.kind \in {"assessment_completed", "assessment_failed"}
  /\ Asked(r) = <<>> /\ s.assessment_focus[e.turn_id] # NoNode
  /\ r.new_state.assessment_focus = [s.assessment_focus EXCEPT ![e.turn_id] = NoNode]
Booked(s, e, r) == Keeps(s, e, r) \/ Asks(s, e, r) \/ Hears(s, e, r)

AssessorEvents == {"assessment_completed", "assessment_failed"}

\* Commands that ask for no assessment.
Unasked(c) == c.kind # "run_assessor"
LEMMA UnaskedTuples ==
  ASSUME NEW t, NEW c1, NEW c2, NEW c3
  PROVE  /\ Asked(Result(t, <<>>)) = <<>>
         /\ Unasked(c1) => Asked(Result(t, <<c1>>)) = <<>>
         /\ Unasked(c1) /\ Unasked(c2) => Asked(Result(t, <<c1, c2>>)) = <<>>
         /\ Unasked(c1) /\ Unasked(c2) /\ Unasked(c3) => Asked(Result(t, <<c1, c2, c3>>)) = <<>>
<1>1. \A q : Result(t, q).commands = q
  BY DEF Result
<1>2. Asked(Result(t, <<>>)) = <<>>
  BY <1>1, EmittedNone DEF Asked
<1>3. Unasked(c1) => Asked(Result(t, <<c1>>)) = <<>>
  BY <1>1, EmittedNone DEF Asked, Unasked
<1>4. Unasked(c1) /\ Unasked(c2) => Asked(Result(t, <<c1, c2>>)) = <<>>
  BY <1>1, EmittedNone DEF Asked, Unasked
<1>5. Unasked(c1) /\ Unasked(c2) /\ Unasked(c3) => Asked(Result(t, <<c1, c2, c3>>)) = <<>>
  BY <1>1, EmittedNone DEF Asked, Unasked
<1> QED BY <1>2, <1>3, <1>4, <1>5

\* Every command but RunAssessor, the pending one included.
LEMMA UnaskedCommands ==
  /\ Unasked(PersistState) /\ Unasked(EndSession)
  /\ \A x : Unasked(RecordDecision(x)) /\ Unasked(FlagTurnDegraded(x))
            /\ Unasked(ReissuePendingCommand(x)) /\ Unasked(Outbound("opening", x))
            /\ Unasked(Outbound("closing", x)) /\ Unasked(Outbound("deliver_utterance", x))
  /\ \A x, y : Unasked(RecordGap(x, y))
  /\ \A s \in SessionState : Unasked(s.pending_command)
<1>1. \A s \in SessionState : Unasked(s.pending_command)
  BY DEF SessionState, PendingCommand, Unasked
<1> QED BY <1>1, CommandKinds DEF Unasked

\* The building blocks leave the focus alone.
LEMMA BlocksKeep ==
  ASSUME NEW u, "assessment_focus" \in DOMAIN u
  PROVE  /\ \A move, node :
              issue_interviewer(u, move, node).assessment_focus = u.assessment_focus
         /\ \A now : enter_qa(u, now).assessment_focus = u.assessment_focus
         /\ \A c : /\ depth_probe(u, c).assessment_focus = u.assessment_focus
                   /\ next_seed(u, c).assessment_focus = u.assessment_focus
         /\ \A verdict, now : leave_competency(u, verdict, now).assessment_focus = u.assessment_focus
         /\ enter_close(u).new_state.assessment_focus = u.assessment_focus
         /\ complete(u).new_state.assessment_focus = u.assessment_focus
         /\ \A reason, decision, persist :
              abort(u, reason, decision, persist).new_state.assessment_focus = u.assessment_focus
<1>1. \A v : "assessment_focus" \in DOMAIN v =>
        \A move, node : issue_interviewer(v, move, node).assessment_focus = v.assessment_focus
  BY SMT DEF issue_interviewer
<1>2. ASSUME NEW now PROVE enter_qa(u, now).assessment_focus = u.assessment_focus
  <2> DEFINE v == [u EXCEPT !.phase = "qa", !.qa_started_at = now]
  <2>1. "assessment_focus" \in DOMAIN v /\ v.assessment_focus = u.assessment_focus
    OBVIOUS
  <2>2. enter_qa(u, now) = issue_interviewer(v, "acknowledge_and_transition", NoNode)
    BY DEF enter_qa
  <2> HIDE DEF v
  <2> QED BY <1>1, <2>1, <2>2
<1>3. \A c : /\ depth_probe(u, c).assessment_focus = u.assessment_focus
             /\ next_seed(u, c).assessment_focus = u.assessment_focus
  BY <1>1, SMT DEF depth_probe, next_seed
<1>4. ASSUME NEW verdict, NEW now
      PROVE  leave_competency(u, verdict, now).assessment_focus = u.assessment_focus
  <2> DEFINE v == [u EXCEPT !.competency_index = @ + 1, !.seed_index = 0, !.probes_used = 0,
                            !.competency_started_at = now]
  <2>1. "assessment_focus" \in DOMAIN v /\ v.assessment_focus = u.assessment_focus
    OBVIOUS
  <2>2. \/ leave_competency(u, verdict, now) = enter_qa(u, now)
        \/ \E move, node : leave_competency(u, verdict, now) = issue_interviewer(v, move, node)
    BY Zenon DEF leave_competency
  <2> HIDE DEF v
  <2> QED BY <1>1, <1>2, <2>1, <2>2
<1>5. enter_close(u).new_state.assessment_focus = u.assessment_focus
  <2> DEFINE t == [u EXCEPT !.phase = "close", !.awaiting = "interviewer",
                            !.last_issued_move = "none", !.turn_seq = @ + 1,
                            !.pending_command = Outbound("closing", u.turn_seq)]
  <2>1. t.assessment_focus = u.assessment_focus
    OBVIOUS
  <2>2. enter_close(u).new_state = t
    BY DEF enter_close, Result
  <2> QED BY <2>1, <2>2
<1>6. complete(u).new_state.assessment_focus = u.assessment_focus
  <2> DEFINE t == [u EXCEPT !.phase = "completed", !.awaiting = "none",
                            !.pending_command = NoCommand]
  <2>1. t.assessment_focus = u.assessment_focus
    OBVIOUS
  <2>2. complete(u).new_state = t
    BY DEF complete, Result
  <2> QED BY <2>1, <2>2
<1>7. ASSUME NEW reason, NEW decision, NEW persist
      PROVE  abort(u, reason, decision, persist).new_state.assessment_focus = u.assessment_focus
  <2> DEFINE t == [u EXCEPT !.phase = "aborted", !.abort_reason = reason,
                            !.awaiting = "none", !.pending_command = NoCommand]
  <2>1. t.assessment_focus = u.assessment_focus
    OBVIOUS
  <2>2. abort(u, reason, decision, persist).new_state = t
    BY DEF abort, Result
  <2> QED BY <2>1, <2>2
<1> QED BY <1>1, <1>2, <1>3, <1>4, <1>5, <1>6, <1>7

\* The results the handlers share.
LEMMA EndsKeep ==
  ASSUME NEW s, NEW e, e.kind \notin AssessorEvents, NEW u \in SessionState,
         u.assessment_focus = s.assessment_focus
  PROVE  /\ Booked(s, e, enter_close(u)) /\ Booked(s, e, complete(u))
         /\ \A reason, decision, persist : Booked(s, e, abort(u, reason, decision, persist))
<1>1. "assessment_focus" \in DOMAIN u
  BY SMT DEF SessionState
<1>2. Asked(enter_close(u)) = <<>>
  BY UnaskedTuples, UnaskedCommands DEF enter_close
<1>3. Asked(complete(u)) = <<>>
  BY UnaskedTuples, UnaskedCommands DEF complete
<1>4. ASSUME NEW reason, NEW decision, NEW persist
      PROVE  Asked(abort(u, reason, decision, persist)) = <<>>
  <2>1. PICK t : \/ abort(u, reason, decision, persist) = Result(t, <<RecordDecision(decision), PersistState>>)
                \/ abort(u, reason, decision, persist) = Result(t, <<RecordDecision(decision)>>)
    BY Zenon DEF abort
  <2>2. Unasked(RecordDecision(decision)) /\ Unasked(PersistState)
    BY UnaskedCommands
  <2>3. /\ Asked(Result(t, <<RecordDecision(decision), PersistState>>)) = <<>>
        /\ Asked(Result(t, <<RecordDecision(decision)>>)) = <<>>
    BY <2>2, UnaskedTuples
  <2> QED BY <2>1, <2>3
<1> QED BY <1>1, <1>2, <1>3, <1>4, BlocksKeep DEF Booked, Keeps, AssessorEvents

\* An ignored event.
LEMMA IgnoreKeeps ==
  ASSUME NEW s, NEW e
  PROVE  Booked(s, e, ignore(s))
  BY UnaskedTuples DEF Booked, Keeps, ignore, Result

\* A result with one command, or two, that asks nothing.
LEMMA StayKeeps ==
  ASSUME NEW s, NEW e, e.kind \notin AssessorEvents, NEW t, NEW c1, NEW c2, NEW c3,
         Unasked(c1), Unasked(c2), Unasked(c3),
         t.assessment_focus = s.assessment_focus
  PROVE  /\ Booked(s, e, Result(t, <<c1>>)) /\ Booked(s, e, Result(t, <<c1, c2>>))
         /\ Booked(s, e, Result(t, <<c1, c2, c3>>))
<1>1. \A q : Result(t, q).new_state = t
  BY DEF Result
<1>2. /\ Asked(Result(t, <<c1>>)) = <<>> /\ Asked(Result(t, <<c1, c2>>)) = <<>>
      /\ Asked(Result(t, <<c1, c2, c3>>)) = <<>>
  BY UnaskedTuples
<1>3. ASSUME NEW q, Asked(Result(t, q)) = <<>> PROVE Booked(s, e, Result(t, q))
  BY <1>1, <1>3 DEF Booked, Keeps, AssessorEvents
<1> QED BY <1>2, <1>3

\* A start.
LEMMA StartBooked ==
  ASSUME NEW s \in SessionState, NEW now \in Int
  PROVE  LET e == SessionStarted(now) IN Booked(s, e, on_session_started(s, e))
<1> DEFINE e == SessionStarted(now)
           opening == Outbound("opening", s.turn_seq)
           t == [s EXCEPT !.phase = "intro", !.awaiting = "interviewer",
                          !.plan = s.plan_input, !.session_started_at = e.now,
                          !.last_candidate_activity = e.now,
                          !.turn_seq = @ + 1, !.pending_command = opening]
           r == on_session_started(s, e)
           refused == abort(s, "operator_abort", "plan_invalid", FALSE)
<1>1. r = refused \/ r = Result(t, <<opening, PersistState>>)
  BY Zenon DEF on_session_started
<1>2. e.kind \notin AssessorEvents
  BY DEF SessionStarted, AssessorEvents
<1>3. t.assessment_focus = s.assessment_focus
  BY Zenon DEF SessionState
<1>4. Unasked(opening) /\ Unasked(PersistState)
  BY UnaskedCommands
<1> HIDE DEF t, opening, e, r
<1>5. Booked(s, e, refused)
  BY <1>2, EndsKeep
<1>6. Booked(s, e, Result(t, <<opening, PersistState>>))
  BY <1>2, <1>3, <1>4, StayKeeps
<1> HIDE DEF refused
<1> QED BY <1>1, <1>5, <1>6 DEF r, e

\* A candidate turn outside TECH asks nothing.
LEMMA OtherTurnsBooked ==
  ASSUME NEW s \in SessionState, NEW turn \in TurnId, NEW now \in Int
  PROVE  LET e == CandidateTurnReceived(turn, now)
         IN  /\ Booked(s, e, on_intro_candidate_turn(s, e))
             /\ Booked(s, e, on_qa_candidate_turn(s, e))
<1> DEFINE e == CandidateTurnReceived(turn, now)
<1>1. e.kind \notin AssessorEvents /\ e.now = now
  BY DEF CandidateTurnReceived, AssessorEvents
<1>2. \A u, move, node : Unasked(issue_interviewer(u, move, node).pending_command)
                         \/ "pending_command" \notin DOMAIN u
  BY SMT DEF issue_interviewer, RunInterviewer, Unasked
<1>3. Unasked(PersistState)
  BY UnaskedCommands
<1>4. Booked(s, e, on_intro_candidate_turn(s, e))
  <2> DEFINE u == [s EXCEPT !.phase = "tech", !.last_candidate_activity = e.now,
                            !.competency_index = 0, !.seed_index = 0, !.probes_used = 0,
                            !.competency_started_at = e.now]
             first == competency(s.plan, 0).node_id
             t == issue_interviewer(u, "ask_seed", first)
  <2>1. on_intro_candidate_turn(s, e) = Result(t, <<t.pending_command, PersistState>>)
    BY Zenon DEF on_intro_candidate_turn
  <2>2. /\ "assessment_focus" \in DOMAIN u /\ "pending_command" \in DOMAIN u
        /\ u.assessment_focus = s.assessment_focus
    BY Zenon DEF SessionState
  <2> HIDE DEF u, e, first
  <2>3. t.assessment_focus = s.assessment_focus /\ Unasked(t.pending_command)
    BY <1>2, <2>2, BlocksKeep
  <2> HIDE DEF t
  <2> QED BY <1>1, <1>3, <2>1, <2>3, StayKeeps
<1>5. Booked(s, e, on_qa_candidate_turn(s, e))
  <2> DEFINE u == [s EXCEPT !.last_candidate_activity = e.now]
             t == issue_interviewer(u, "acknowledge_and_transition", NoNode)
  <2>1. \/ on_qa_candidate_turn(s, e) = enter_close(u)
        \/ on_qa_candidate_turn(s, e) = Result(t, <<t.pending_command>>)
    BY Zenon DEF on_qa_candidate_turn
  <2>2. u \in SessionState
    BY <1>1, Zenon DEF SessionState
  <2>3. /\ "assessment_focus" \in DOMAIN u /\ "pending_command" \in DOMAIN u
        /\ u.assessment_focus = s.assessment_focus
    BY Zenon DEF SessionState
  <2> HIDE DEF u, e
  <2>4. t.assessment_focus = s.assessment_focus /\ Unasked(t.pending_command)
    BY <1>2, <2>3, BlocksKeep
  <2> HIDE DEF t
  <2>5. Booked(s, e, Result(t, <<t.pending_command>>))
    BY <1>1, <1>3, <2>4, StayKeeps
  <2>6. Booked(s, e, enter_close(u))
    BY <1>1, <2>2, <2>3, EndsKeep
  <2> QED BY <2>1, <2>5, <2>6
<1> QED BY <1>4, <1>5

\* A turn of the TECH loop asks for its assessment, whatever the verdict.
LEMMA TechBooked ==
  ASSUME NEW s \in SessionState, PlanHoldsIn(s), s.phase = "tech", NEW turn \in TurnId,
         NEW now \in Int
  PROVE  LET e == CandidateTurnReceived(turn, now) IN Booked(s, e, on_tech_candidate_turn(s, e))
<1> DEFINE e == CandidateTurnReceived(turn, now)
           r == on_tech_candidate_turn(s, e)
           c == current_competency(s)
           n == c.node_id
           a == RunAssessor(e.turn_id, n)
           remaining == seconds_remaining(c, s.competency_started_at, e.now)
           v == adjudicate(s.coverage[n], c.target_level, s.probes_used, remaining)
           g == RecordGap(n, v.gap_marker)
           heard == [s EXCEPT !.last_candidate_activity = e.now,
                              !.assessment_focus[e.turn_id] = n]
           gapped == [heard EXCEPT !.coverage[n].gap_budget_exhausted = TRUE]
           Focused(t) == t.assessment_focus = heard.assessment_focus
<1>1. e.kind = "candidate_turn" /\ e.turn_id = turn /\ e.now = now
  BY DEF CandidateTurnReceived
<1>2. n \in Node
  <2>1. s.plan # NoPlan /\ HasCompetency(s.plan, s.competency_index) /\ s.competency_index \in Nat
    BY DEF PlanHoldsIn, SessionState
  <2>2. c \in PlannedCompetency
    BY <2>1, PlanTypes DEF current_competency
  <2> QED BY <2>2 DEF PlannedCompetency
<1>3. /\ "assessment_focus" \in DOMAIN heard /\ "assessment_focus" \in DOMAIN gapped
      /\ gapped.assessment_focus = heard.assessment_focus
      /\ heard.assessment_focus = [s.assessment_focus EXCEPT ![e.turn_id] = n]
  <2> HIDE DEF c, e
  <2> QED BY Zenon DEF SessionState
<1>4. r.new_state \in SessionState
  BY TechType
<1>5. \E t : /\ Focused(t)
             /\ \/ r = Result(t, <<a, t.pending_command, PersistState>>)
                \/ r = Result(t, <<a, t.pending_command, g, PersistState>>)
  <2>1. Focused(depth_probe(heard, c)) /\ Focused(next_seed(heard, c))
    <3> HIDE DEF heard, c
    <3> QED BY <1>3, BlocksKeep
  <2>2. \A verdict : /\ Focused(leave_competency(heard, verdict, e.now))
                     /\ Focused(leave_competency(gapped, verdict, e.now))
    <3> HIDE DEF heard, gapped, e
    <3>1. \A verdict, time : /\ Focused(leave_competency(heard, verdict, time))
                             /\ Focused(leave_competency(gapped, verdict, time))
      BY <1>3, BlocksKeep
    <3> QED BY <3>1
  <2> HIDE DEF Focused
  <2> QED BY <2>1, <2>2, Zenon DEF on_tech_candidate_turn
<1> HIDE DEF r, e, v, heard, c, remaining, gapped
<1>6. PICK t : /\ Focused(t)
               /\ \/ r = Result(t, <<a, t.pending_command, PersistState>>)
                  \/ r = Result(t, <<a, t.pending_command, g, PersistState>>)
  BY <1>5
<1>7. r.new_state = t /\ Unasked(t.pending_command) /\ Unasked(g) /\ Unasked(PersistState)
  BY <1>4, <1>6, UnaskedCommands DEF Result
<1>8. a.kind = "run_assessor"
  BY CommandKinds
<1>9. Asked(r) = <<a>>
  <2> DEFINE p == t.pending_command
             k == PersistState
  <2>1. r.commands = <<a, p, k>> \/ r.commands = <<a, p, g, k>>
    BY <1>6 DEF Result
  <2> HIDE DEF p, k, a, g
  <2>2. 1 \in DOMAIN r.commands /\ r.commands[1] = a
    BY <2>1
  <2>3. \A i \in DOMAIN r.commands : r.commands[i].kind = "run_assessor" => i = 1
    BY <1>7, <2>1 DEF Unasked, p, k
  <2> QED BY <1>8, <2>2, <2>3, EmittedOne DEF Asked
<1>10. Asks(s, e, r)
  BY <1>1, <1>2, <1>3, <1>6, <1>7, <1>9 DEF Asks
<1> QED BY <1>10 DEF Booked, r, e

\* A candidate turn, in any phase.
LEMMA TurnBooked ==
  ASSUME NEW s \in SessionState, PlanHoldsIn(s), NEW turn \in TurnId, NEW now \in Int
  PROVE  LET e == CandidateTurnReceived(turn, now) IN Booked(s, e, on_candidate_turn(s, e))
  BY IgnoreKeeps, OtherTurnsBooked, TechBooked, Zenon DEF on_candidate_turn

\* A reply.
LEMMA ReplyBooked ==
  ASSUME NEW s \in SessionState, NEW turn \in Int, NEW move \in InterviewerMove
  PROVE  LET e == InterviewerReplyReady(turn, move) IN Booked(s, e, on_interviewer_reply(s, e))
<1> DEFINE e == InterviewerReplyReady(turn, move)
           r == on_interviewer_reply(s, e)
           delivery == Outbound("deliver_utterance", e.turn_id)
           Heard(d, f) == [s EXCEPT !.awaiting = "candidate", !.interviewer_failure_streak = 0,
                                    !.drift_count = d, !.flagged_for_review = f,
                                    !.pending_command = delivery]
<1>1. \/ r = ignore(s) \/ r = complete(s)
      \/ \E d, f : r = Result(Heard(d, f), <<delivery, PersistState>>)
  BY Zenon DEF on_interviewer_reply
<1>2. Unasked(delivery) /\ Unasked(PersistState)
  BY UnaskedCommands
<1>3. \A d, f : Heard(d, f).assessment_focus = s.assessment_focus
  <2> HIDE DEF delivery
  <2> QED BY Zenon DEF SessionState
<1>4. e.kind \notin AssessorEvents
  BY DEF InterviewerReplyReady, AssessorEvents
<1> HIDE DEF e, r, delivery, Heard
<1>5. \A d, f : Booked(s, e, Result(Heard(d, f), <<delivery, PersistState>>))
  BY <1>2, <1>3, <1>4, StayKeeps
<1>6. Booked(s, e, complete(s))
  BY <1>4, EndsKeep
<1> QED BY <1>1, <1>5, <1>6, IgnoreKeeps DEF r, e

\* A failure of the interviewer.
LEMMA FailedBooked ==
  ASSUME NEW s \in SessionState, NEW turn \in Int
  PROVE  LET e == InterviewerFailed(turn) IN Booked(s, e, on_interviewer_failed(s, e))
<1> DEFINE e == InterviewerFailed(turn)
           r == on_interviewer_failed(s, e)
           retry == [s.pending_command EXCEPT !.retry = TRUE]
           t == [s EXCEPT !.interviewer_failure_streak = @ + 1, !.pending_command = retry]
           flag == FlagTurnDegraded(e.turn_id)
           given_up == abort(s, "fatal_agent_error", "agent_failure", TRUE)
<1>1. r = ignore(s) \/ r = given_up \/ r = Result(t, <<retry, flag, PersistState>>)
  BY Zenon DEF on_interviewer_failed
<1>2. Unasked(retry) /\ Unasked(flag) /\ Unasked(PersistState)
  <2>1. s.pending_command \in PendingCommand /\ Unasked(s.pending_command)
    BY UnaskedCommands DEF SessionState
  <2>2. retry.kind = s.pending_command.kind
    BY <2>1 DEF PendingCommand
  <2> HIDE DEF retry
  <2> QED BY <2>1, <2>2, UnaskedCommands DEF Unasked
<1>3. t.assessment_focus = s.assessment_focus
  <2> HIDE DEF retry
  <2> QED BY Zenon DEF SessionState
<1>4. e.kind \notin AssessorEvents
  BY DEF InterviewerFailed, AssessorEvents
<1>5. Booked(s, e, given_up)
  <2> HIDE DEF e
  <2> QED BY <1>4, EndsKeep
<1> HIDE DEF e, r, t, retry, flag, given_up
<1>6. Booked(s, e, Result(t, <<retry, flag, PersistState>>))
  BY <1>2, <1>3, <1>4, StayKeeps
<1> QED BY <1>1, <1>5, <1>6, IgnoreKeeps DEF r, e

\* Hearing a pending turn: its focus, and only its, is cleared.
LEMMA HearsPending ==
  ASSUME NEW s \in SessionState, NEW e, e.kind \in AssessorEvents, e.turn_id \in TurnId,
         e.turn_id \in pending_assessments(s), NEW t,
         t.assessment_focus = drop_pending(s, e.turn_id).assessment_focus
  PROVE  Booked(s, e, Result(t, <<PersistState>>))
<1>1. drop_pending(s, e.turn_id).assessment_focus = [s.assessment_focus EXCEPT ![e.turn_id] = NoNode]
  BY Zenon DEF drop_pending, SessionState
<1>2. s.assessment_focus[e.turn_id] # NoNode
  BY DEF pending_assessments
<1>3. Asked(Result(t, <<PersistState>>)) = <<>>
  BY UnaskedCommands, UnaskedTuples
<1>4. Result(t, <<PersistState>>).new_state = t
  BY DEF Result
<1> QED BY <1>1, <1>2, <1>3, <1>4 DEF Booked, Hears, AssessorEvents

\* An assessment.
LEMMA AssessedBooked ==
  ASSUME NEW s \in SessionState, NEW turn \in TurnId, NEW out \in AssessorOutput
  PROVE  LET e == AssessmentCompleted(turn, out) IN Booked(s, e, on_assessment_completed(s, e))
<1> DEFINE e == AssessmentCompleted(turn, out)
           r == on_assessment_completed(s, e)
           Folded(cov, total, manual, flag) ==
             [drop_pending(s, turn) EXCEPT !.coverage = cov, !.cheat_flag_count = total,
                                           !.needs_manual_review = manual,
                                           !.flagged_for_review = flag]
<1>1. e.kind \in AssessorEvents /\ e.turn_id = turn
  BY DEF AssessmentCompleted, AssessorEvents
<1>2. \/ r = ignore(s)
      \/ /\ turn \in pending_assessments(s)
         /\ \E c, n, m, f : r = Result(Folded(c, n, m, f), <<PersistState>>)
  BY <1>1, Zenon DEF on_assessment_completed
<1>3. \A c, n, m, f : Folded(c, n, m, f).assessment_focus = drop_pending(s, turn).assessment_focus
  BY SMT DEF drop_pending, SessionState
<1> HIDE DEF e, r, Folded
<1> QED BY <1>1, <1>2, <1>3, HearsPending, IgnoreKeeps DEF r, e

\* A failed assessment.
LEMMA UnassessedBooked ==
  ASSUME NEW s \in SessionState, NEW turn \in TurnId
  PROVE  LET e == AssessmentFailed(turn) IN Booked(s, e, on_assessment_failed(s, e))
<1> DEFINE e == AssessmentFailed(turn)
           r == on_assessment_failed(s, e)
           node == s.assessment_focus[turn]
           t == [drop_pending(s, turn) EXCEPT !.coverage[node].assessment_failed = TRUE]
<1>1. e.kind \in AssessorEvents /\ e.turn_id = turn
  BY DEF AssessmentFailed, AssessorEvents
<1>2. r = ignore(s) \/ (turn \in pending_assessments(s) /\ r = Result(t, <<PersistState>>))
  BY <1>1, Zenon DEF on_assessment_failed
<1>3. t.assessment_focus = drop_pending(s, turn).assessment_focus
  <2> HIDE DEF node
  <2> QED BY SMT DEF drop_pending, SessionState
<1> HIDE DEF e, r, t
<1> QED BY <1>1, <1>2, <1>3, HearsPending, IgnoreKeeps DEF r, e

\* A tick.
LEMMA TickBooked ==
  ASSUME NEW s \in SessionState, NEW now \in Int
  PROVE  LET e == TimerTick(now) IN Booked(s, e, on_timer_tick(s, e))
<1> DEFINE e == TimerTick(now)
           r == on_timer_tick(s, e)
           asked == enter_qa(s, now)
           late == abort(s, "candidate_timeout", "timeout", TRUE)
<1>1. e.kind \notin AssessorEvents /\ e.now = now
  BY DEF TimerTick, AssessorEvents
<1>2. \/ r = late \/ r = enter_close(s) \/ r = complete(s) \/ r = ignore(s)
      \/ r = Result(asked, <<asked.pending_command>>)
  BY <1>1, Zenon DEF on_timer_tick
<1>3. Booked(s, e, late) /\ Booked(s, e, enter_close(s)) /\ Booked(s, e, complete(s))
  <2> HIDE DEF e
  <2> QED BY <1>1, EndsKeep
<1>4. asked.assessment_focus = s.assessment_focus /\ Unasked(asked.pending_command)
  <2>1. asked \in SessionState
    BY QaType
  <2>2. "assessment_focus" \in DOMAIN s
    BY SMT DEF SessionState
  <2> QED BY <2>1, <2>2, BlocksKeep, UnaskedCommands
<1> HIDE DEF e, r, asked, late
<1>5. Booked(s, e, Result(asked, <<asked.pending_command>>))
  BY <1>1, <1>4, StayKeeps
<1> QED BY <1>2, <1>3, <1>5, IgnoreKeeps DEF r, e

\* A resume.
LEMMA ReconnectedBooked ==
  ASSUME NEW s \in SessionState
  PROVE  Booked(s, Reconnected, on_reconnected(s))
<1> DEFINE again == ReissuePendingCommand(s.pending_command)
<1>1. \/ on_reconnected(s) = Result(s, <<PersistState>>)
      \/ on_reconnected(s) = Result(s, <<again, PersistState>>)
  BY Zenon DEF on_reconnected
<1>2. Unasked(again) /\ Unasked(PersistState)
  BY UnaskedCommands
<1>3. Reconnected.kind \notin AssessorEvents
  BY DEF Reconnected, AssessorEvents
<1> HIDE DEF again
<1> QED BY <1>1, <1>2, <1>3, StayKeeps

\* Every transition keeps the books.
LEMMA TransitionBooked ==
  ASSUME NEW s \in SessionState, PlanHoldsIn(s), NEW e \in SessionEvent
  PROVE  Booked(s, e, transition(s, e))
<1>1. CASE s.phase \in TerminalPhases
  BY <1>1, IgnoreKeeps DEF transition
<1> SUFFICES ASSUME s.phase \notin TerminalPhases
             PROVE  Booked(s, e, transition(s, e))
  BY <1>1
<1>2. CASE \E now \in Int : e = SessionStarted(now)
  <2>1. e.kind = "session_started"
    BY <1>2 DEF SessionStarted
  <2>2. transition(s, e) = on_session_started(s, e) \/ transition(s, e) = ignore(s)
    BY <2>1, Dispatch
  <2> QED BY <1>2, <2>2, IgnoreKeeps, StartBooked
<1>3. CASE \E t \in TurnId, now \in Int : e = CandidateTurnReceived(t, now)
  <2>1. e.kind = "candidate_turn"
    BY <1>3 DEF CandidateTurnReceived
  <2>2. transition(s, e) = on_candidate_turn(s, e) \/ transition(s, e) = ignore(s)
    BY <2>1, Dispatch
  <2> QED BY <1>3, <2>2, IgnoreKeeps, TurnBooked
<1>4. CASE \E t \in Int, m \in InterviewerMove : e = InterviewerReplyReady(t, m)
  <2>1. e.kind = "interviewer_reply"
    BY <1>4 DEF InterviewerReplyReady
  <2>2. transition(s, e) = on_interviewer_reply(s, e) \/ transition(s, e) = ignore(s)
    BY <2>1, Dispatch
  <2> QED BY <1>4, <2>2, IgnoreKeeps, ReplyBooked
<1>5. CASE \E t \in Int : e = InterviewerFailed(t)
  <2>1. e.kind = "interviewer_failed"
    BY <1>5 DEF InterviewerFailed
  <2>2. transition(s, e) = on_interviewer_failed(s, e) \/ transition(s, e) = ignore(s)
    BY <2>1, Dispatch
  <2> QED BY <1>5, <2>2, IgnoreKeeps, FailedBooked
<1>6. CASE \E t \in TurnId, out \in AssessorOutput : e = AssessmentCompleted(t, out)
  <2>1. e.kind = "assessment_completed"
    BY <1>6 DEF AssessmentCompleted
  <2>2. transition(s, e) = on_assessment_completed(s, e)
    BY <2>1, Dispatch
  <2> QED BY <1>6, <2>2, AssessedBooked
<1>7. CASE \E t \in TurnId : e = AssessmentFailed(t)
  <2>1. e.kind = "assessment_failed"
    BY <1>7 DEF AssessmentFailed
  <2>2. transition(s, e) = on_assessment_failed(s, e)
    BY <2>1, Dispatch
  <2> QED BY <1>7, <2>2, UnassessedBooked
<1>8. CASE \E now \in Int : e = TimerTick(now)
  <2>1. e.kind = "timer_tick"
    BY <1>8 DEF TimerTick
  <2>2. transition(s, e) = on_timer_tick(s, e)
    BY <2>1, Dispatch
  <2> QED BY <1>8, <2>2, TickBooked
<1>9. CASE e = Reconnected
  <2>1. e.kind = "reconnected"
    BY <1>9 DEF Reconnected
  <2>2. transition(s, e) = on_reconnected(s)
    BY <2>1, Dispatch
  <2> QED BY <1>9, <2>2, ReconnectedBooked
<1>10. CASE \E reason \in AbortReason : e = OperatorAbort(reason)
  <2>1. e.kind = "operator_abort" /\ e.kind \notin AssessorEvents
    BY <1>10 DEF OperatorAbort, AssessorEvents
  <2>2. transition(s, e) = abort(s, e.reason, "operator", TRUE)
    BY <2>1, Dispatch
  <2> QED BY <2>1, <2>2, EndsKeep
<1> QED BY <1>2, <1>3, <1>4, <1>5, <1>6, <1>7, <1>8, <1>9, <1>10 DEF SessionEvent

-----------------------------------------------------------------------------
\* The gaps recorded.

Recorded(r) == Emitted(r, "record_gap")
Placed(u) == "phase" \in DOMAIN u /\ "competency_index" \in DOMAIN u
SamePlace(t, u) == t.phase = u.phase /\ t.competency_index = u.competency_index

\* Where the building blocks of the TECH loop leave the session: a probe and a
\* next seed stay, leaving goes to Q&A or to the next competency.
LEMMA BlocksPlace ==
  ASSUME NEW u, Placed(u)
  PROVE  /\ \A move, node : SamePlace(issue_interviewer(u, move, node), u)
         /\ \A c : SamePlace(depth_probe(u, c), u) /\ SamePlace(next_seed(u, c), u)
         /\ \A verdict, now : leave_competency(u, verdict, now).competency_index
                                \in {u.competency_index, u.competency_index + 1}
<1>1. \A v : Placed(v) => \A move, node : SamePlace(issue_interviewer(v, move, node), v)
  BY SMT DEF issue_interviewer, Placed, SamePlace
<1>2. ASSUME NEW c PROVE SamePlace(depth_probe(u, c), u) /\ SamePlace(next_seed(u, c), u)
  <2> DEFINE v == [u EXCEPT !.probes_used = @ + 1]
             w == [u EXCEPT !.seed_index = @ + 1]
  <2>1. Placed(v) /\ SamePlace(v, u) /\ Placed(w) /\ SamePlace(w, u)
    BY DEF Placed, SamePlace
  <2>2. /\ depth_probe(u, c) = issue_interviewer(v, "depth_probe", c.node_id)
        /\ next_seed(u, c) = issue_interviewer(w, "acknowledge_and_transition", c.node_id)
    BY DEF depth_probe, next_seed
  <2> HIDE DEF v, w
  <2> QED BY <1>1, <2>1, <2>2 DEF SamePlace
<1>3. ASSUME NEW verdict, NEW now
      PROVE  leave_competency(u, verdict, now).competency_index
               \in {u.competency_index, u.competency_index + 1}
  <2> DEFINE v == [u EXCEPT !.competency_index = @ + 1, !.seed_index = 0, !.probes_used = 0,
                            !.competency_started_at = now]
             w == [u EXCEPT !.phase = "qa", !.qa_started_at = now]
  <2>1. /\ Placed(v) /\ v.competency_index = u.competency_index + 1
        /\ Placed(w) /\ w.competency_index = u.competency_index
    BY DEF Placed
  <2>2. \/ \E move, node : leave_competency(u, verdict, now) = issue_interviewer(w, move, node)
        \/ \E move, node : leave_competency(u, verdict, now) = issue_interviewer(v, move, node)
    BY Zenon DEF leave_competency, enter_qa
  <2> HIDE DEF v, w
  <2> QED BY <1>1, <2>1, <2>2 DEF SamePlace
<1> QED BY <1>1, <1>2, <1>3

\* The 2/1/0 table says answered exactly when the evidence does.
LEMMA AnsweredVerdict ==
  ASSUME NEW cell, NEW target, NEW probes, NEW remaining
  PROVE  adjudicate(cell, target, probes, remaining).verdict = "ANSWERED" <=> answered(cell, target)
  BY DEF adjudicate, Verdict

\* A turn of the TECH loop accounts for the competency it leaves.
Accounts(s, r) ==
  LET c == current_competency(s)
      t == r.new_state
  IN  t.phase = "qa" \/ t.competency_index # s.competency_index =>
        /\ t.competency_index \in {s.competency_index, s.competency_index + 1}
        /\ \/ answered(s.coverage[c.node_id], c.target_level) /\ Recorded(r) = <<>>
           \/ /\ ~answered(s.coverage[c.node_id], c.target_level)
              /\ \E m : Recorded(r) = <<RecordGap(c.node_id, m)>>

LEMMA TechAccounts ==
  ASSUME NEW s \in SessionState, PlanHoldsIn(s), s.phase = "tech", NEW turn \in TurnId,
         NEW now \in Int
  PROVE  Accounts(s, on_tech_candidate_turn(s, CandidateTurnReceived(turn, now)))
<1> DEFINE e == CandidateTurnReceived(turn, now)
           r == on_tech_candidate_turn(s, e)
           c == current_competency(s)
           n == c.node_id
           a == RunAssessor(e.turn_id, n)
           remaining == seconds_remaining(c, s.competency_started_at, e.now)
           v == adjudicate(s.coverage[n], c.target_level, s.probes_used, remaining)
           g == RecordGap(n, v.gap_marker)
           heard == [s EXCEPT !.last_candidate_activity = e.now,
                              !.assessment_focus[e.turn_id] = n]
           gapped == [heard EXCEPT !.coverage[n].gap_budget_exhausted = TRUE]
           k == PersistState
           Stays(t) == SamePlace(t, s)
           Goes(t) == t.competency_index \in {s.competency_index, s.competency_index + 1}
<1>1. r.new_state \in SessionState
  BY TechType
<1>2. /\ Placed(heard) /\ SamePlace(heard, s) /\ Placed(gapped) /\ SamePlace(gapped, s)
  <2> HIDE DEF c, e
  <2> QED BY Zenon DEF SessionState, Placed, SamePlace
<1>3. Stays(depth_probe(heard, c)) /\ Stays(next_seed(heard, c))
  <2> HIDE DEF heard, c
  <2> QED BY <1>2, BlocksPlace DEF SamePlace
<1>4. \A verdict, time : /\ Goes(leave_competency(heard, verdict, time))
                         /\ Goes(leave_competency(gapped, verdict, time))
  <2> HIDE DEF heard, gapped
  <2> QED BY <1>2, BlocksPlace DEF SamePlace
<1>5. v.verdict = "ANSWERED" <=> answered(s.coverage[n], c.target_level)
  BY AnsweredVerdict
<1>6. \/ \E t : Stays(t) /\ r = Result(t, <<a, t.pending_command, k>>)
      \/ \E t : Goes(t) /\ v.verdict = "ANSWERED" /\ r = Result(t, <<a, t.pending_command, k>>)
      \/ \E t : Goes(t) /\ v.verdict # "ANSWERED" /\ r = Result(t, <<a, t.pending_command, g, k>>)
  <2> HIDE DEF Stays, Goes
  <2> QED BY <1>3, <1>4, Zenon DEF on_tech_candidate_turn
<1>7. a.kind # "record_gap" /\ g.kind = "record_gap" /\ k.kind # "record_gap"
  BY CommandKinds
<1>8. \A p \in PendingCommand : p.kind # "record_gap"
  BY DEF PendingCommand
<1> HIDE DEF r, v, a, k, heard, gapped, remaining, c, e
<1>9. ASSUME NEW t, Stays(t), r = Result(t, <<a, t.pending_command, k>>)
      PROVE  Accounts(s, r)
  <2>1. r.new_state.phase = "tech" /\ r.new_state.competency_index = s.competency_index
    BY <1>9 DEF Result, SamePlace
  <2> QED BY <2>1 DEF Accounts
<1>10. ASSUME NEW t, Goes(t), v.verdict = "ANSWERED", r = Result(t, <<a, t.pending_command, k>>)
       PROVE  Accounts(s, r)
  <2> DEFINE p == t.pending_command
  <2>1. r.new_state = t /\ r.commands = <<a, p, k>>
    BY <1>10 DEF Result
  <2>2. p.kind # "record_gap"
    BY <1>1, <1>8, <2>1 DEF SessionState
  <2> HIDE DEF p
  <2>3. \A i \in DOMAIN r.commands : r.commands[i].kind # "record_gap"
    BY <1>7, <2>1, <2>2
  <2>4. Recorded(r) = <<>>
    BY <2>3, EmittedNone DEF Recorded
  <2> QED BY <1>5, <1>10, <2>1, <2>4 DEF Accounts, c
<1>11. ASSUME NEW t, Goes(t), v.verdict # "ANSWERED", r = Result(t, <<a, t.pending_command, g, k>>)
       PROVE  Accounts(s, r)
  <2> DEFINE p == t.pending_command
             m == v.gap_marker
  <2>1. r.new_state = t /\ r.commands = <<a, p, g, k>>
    BY <1>11 DEF Result
  <2>2. p.kind # "record_gap"
    BY <1>1, <1>8, <2>1 DEF SessionState
  <2>3. Recorded(r) = <<g>>
    <3> HIDE DEF p, g
    <3>1. 3 \in DOMAIN r.commands /\ r.commands[3] = g
      BY <2>1
    <3>2. \A i \in DOMAIN r.commands : r.commands[i].kind = "record_gap" => i = 3
      BY <1>7, <2>1, <2>2
    <3> QED BY <1>7, <3>1, <3>2, EmittedOne DEF Recorded
  <2>4. \E x : Recorded(r) = <<RecordGap(n, x)>>
    BY <2>3
  <2> HIDE DEF p
  <2> QED BY <1>5, <1>11, <2>1, <2>4 DEF Accounts, c
<1>12. Accounts(s, r)
  <2> HIDE DEF Stays, Goes
  <2> QED BY <1>6, <1>9, <1>10, <1>11
<1> QED BY <1>12 DEF r, e

-----------------------------------------------------------------------------
\* What the outside is asked for.

\* What the outside is asked to say is what the new state has pending: a
\* resume re-issues the command that was issued.
OutboundKinds == {"run_interviewer", "deliver_utterance", "opening", "closing"}
Promise(t, c) == c.kind \in OutboundKinds => c = t.pending_command

\* A call of the interviewer is for a move of the catalogue.
Callable(c) == c.kind = "run_interviewer" => c.move \in InterviewerMove

Promised(s, r) ==
  /\ \A i \in DOMAIN r.commands : Promise(r.new_state, r.commands[i])
  /\ Callable(s.pending_command) => Callable(r.new_state.pending_command)

\* Commands that ask nothing of the outside.
LEMMA InwardCommands ==
  ASSUME NEW t
  PROVE  /\ Promise(t, PersistState) /\ Promise(t, EndSession) /\ Promise(t, t.pending_command)
         /\ \A x : /\ Promise(t, RecordDecision(x)) /\ Promise(t, FlagTurnDegraded(x))
                   /\ Promise(t, ReissuePendingCommand(x))
         /\ \A x, y : Promise(t, RunAssessor(x, y)) /\ Promise(t, RecordGap(x, y))
  BY CommandKinds DEF Promise, OutboundKinds

\* A result of promises, as the handlers list them.
LEMMA PromisedTuples ==
  ASSUME NEW s, NEW t, Callable(s.pending_command) => Callable(t.pending_command),
         NEW c1, NEW c2, NEW c3, NEW c4
  PROVE  /\ Promised(s, Result(t, <<>>))
         /\ Promise(t, c1) => Promised(s, Result(t, <<c1>>))
         /\ Promise(t, c1) /\ Promise(t, c2) => Promised(s, Result(t, <<c1, c2>>))
         /\ Promise(t, c1) /\ Promise(t, c2) /\ Promise(t, c3) =>
              Promised(s, Result(t, <<c1, c2, c3>>))
         /\ Promise(t, c1) /\ Promise(t, c2) /\ Promise(t, c3) /\ Promise(t, c4) =>
              Promised(s, Result(t, <<c1, c2, c3, c4>>))
<1>1. \A q : Result(t, q).commands = q /\ Result(t, q).new_state = t
  BY DEF Result
<1>2. \A q : (\A i \in DOMAIN q : Promise(t, q[i])) => Promised(s, Result(t, q))
  BY <1>1 DEF Promised
<1>3. Promised(s, Result(t, <<>>))
  BY <1>2
<1>4. Promise(t, c1) => Promised(s, Result(t, <<c1>>))
  BY <1>2
<1>5. Promise(t, c1) /\ Promise(t, c2) => Promised(s, Result(t, <<c1, c2>>))
  BY <1>2
<1>6. Promise(t, c1) /\ Promise(t, c2) /\ Promise(t, c3) => Promised(s, Result(t, <<c1, c2, c3>>))
  BY <1>2
<1>7. Promise(t, c1) /\ Promise(t, c2) /\ Promise(t, c3) /\ Promise(t, c4) =>
        Promised(s, Result(t, <<c1, c2, c3, c4>>))
  BY <1>2
<1> QED BY <1>3, <1>4, <1>5, <1>6, <1>7

\* A state a move was just issued in, whatever it was issued from.
Issued(t) == \E u, move, node : move \in InterviewerMove /\ t = issue_interviewer(u, move, node)

\* The building blocks of the handlers issue moves of the catalogue.
LEMMA BlocksIssue ==
  ASSUME NEW u
  PROVE  /\ \A now : Issued(enter_qa(u, now))
         /\ \A c : Issued(depth_probe(u, c)) /\ Issued(next_seed(u, c))
         /\ \A verdict, now : Issued(leave_competency(u, verdict, now))
<1>1. \A v, move, node : move \in InterviewerMove => Issued(issue_interviewer(v, move, node))
  BY Zenon DEF Issued
<1>2. /\ "acknowledge_and_transition" \in InterviewerMove /\ "depth_probe" \in InterviewerMove
      /\ "close_competency" \in InterviewerMove
  BY DEF InterviewerMove
<1>3. ASSUME NEW now PROVE Issued(enter_qa(u, now))
  BY <1>1, <1>2, Zenon DEF enter_qa
<1>4. ASSUME NEW c PROVE Issued(depth_probe(u, c)) /\ Issued(next_seed(u, c))
  BY <1>1, <1>2, Zenon DEF depth_probe, next_seed
<1>5. ASSUME NEW verdict, NEW now PROVE Issued(leave_competency(u, verdict, now))
  <2> DEFINE v == [u EXCEPT !.competency_index = @ + 1, !.seed_index = 0, !.probes_used = 0,
                            !.competency_started_at = now]
             move == IF verdict = "ANSWERED" THEN "acknowledge_and_transition" ELSE "close_competency"
             node == competency(u.plan, u.competency_index + 1).node_id
  <2>1. \/ leave_competency(u, verdict, now) = enter_qa(u, now)
        \/ leave_competency(u, verdict, now) = issue_interviewer(v, move, node)
    BY Zenon DEF leave_competency
  <2>2. move \in InterviewerMove
    BY <1>2
  <2> HIDE DEF v, move, node
  <2> QED BY <1>1, <1>3, <2>1, <2>2
<1> QED BY <1>3, <1>4, <1>5

\* Its pending command is a call for such a move.
LEMMA IssuedCallable ==
  ASSUME NEW t \in SessionState, Issued(t)
  PROVE  Callable(t.pending_command)
<1>1. PICK u, move, node : move \in InterviewerMove /\ t = issue_interviewer(u, move, node)
  BY DEF Issued
<1> DEFINE c == RunInterviewer(u.turn_seq, move, node)
<1>2. c.move = move
  BY DEF RunInterviewer
<1>3. "pending_command" \in DOMAIN t /\ DOMAIN t = DOMAIN u
  BY <1>1, SMT DEF issue_interviewer, SessionState
<1>4. t.pending_command = c
  <2> HIDE DEF c
  <2>1. t = [u EXCEPT !.turn_seq = @ + 1, !.awaiting = "interviewer", !.last_issued_move = move,
                      !.interviewer_failure_streak = 0, !.pending_command = c]
    BY <1>1 DEF issue_interviewer, c
  <2> QED BY <1>3, <2>1
<1> HIDE DEF c
<1> QED BY <1>1, <1>2, <1>4 DEF Callable

\* Results that issue a move keep the promise.
LEMMA IssuedPromised ==
  ASSUME NEW s, NEW t \in SessionState, Issued(t), NEW a, NEW g, Promise(t, a), Promise(t, g)
  PROVE  /\ Promised(s, Result(t, <<t.pending_command>>))
         /\ Promised(s, Result(t, <<t.pending_command, PersistState>>))
         /\ Promised(s, Result(t, <<a, t.pending_command, PersistState>>))
         /\ Promised(s, Result(t, <<a, t.pending_command, g, PersistState>>))
<1> DEFINE p == t.pending_command
<1>1. Callable(t.pending_command)
  BY IssuedCallable
<1>2. Promise(t, p) /\ Promise(t, PersistState)
  BY InwardCommands
<1> HIDE DEF p
<1>3. /\ Promised(s, Result(t, <<p>>)) /\ Promised(s, Result(t, <<p, PersistState>>))
      /\ Promised(s, Result(t, <<a, p, PersistState>>))
      /\ Promised(s, Result(t, <<a, p, g, PersistState>>))
  BY <1>1, <1>2, PromisedTuples
<1> QED BY <1>3 DEF p

\* The results the handlers share.
LEMMA EndsPromised ==
  ASSUME NEW s, NEW u \in SessionState
  PROVE  /\ Promised(u, ignore(u))
         /\ Promised(s, enter_close(u)) /\ Promised(s, complete(u))
         /\ \A reason, decision, persist : Promised(s, abort(u, reason, decision, persist))
<1>1. Promised(u, ignore(u))
  BY PromisedTuples DEF ignore
<1>2. NoCommand.kind = "none" /\ \A x : Outbound("closing", x).kind = "closing"
  BY CommandKinds
<1>3. Promised(s, enter_close(u))
  <2> DEFINE closing == Outbound("closing", u.turn_seq)
             t == [u EXCEPT !.phase = "close", !.awaiting = "interviewer",
                            !.last_issued_move = "none", !.turn_seq = @ + 1,
                            !.pending_command = closing]
  <2>1. enter_close(u) = Result(t, <<closing, PersistState>>)
    BY DEF enter_close
  <2>2. t.pending_command = closing /\ closing.kind = "closing"
    BY <1>2, SMT DEF SessionState
  <2> HIDE DEF t, closing
  <2>3. Promise(t, closing) /\ Promise(t, PersistState) /\ Callable(t.pending_command)
    BY <2>2, InwardCommands DEF Callable
  <2>4. Promised(s, Result(t, <<closing, PersistState>>))
    BY <2>3, PromisedTuples
  <2> QED BY <2>1, <2>4
<1>4. Promised(s, complete(u))
  <2> DEFINE t == [u EXCEPT !.phase = "completed", !.awaiting = "none",
                            !.pending_command = NoCommand]
             d == RecordDecision("completed")
  <2>1. complete(u) = Result(t, <<EndSession, d>>)
    BY DEF complete
  <2>2. t.pending_command = NoCommand
    BY SMT DEF SessionState
  <2> HIDE DEF t
  <2>3. Promise(t, EndSession) /\ Promise(t, d) /\ Callable(t.pending_command)
    BY <1>2, <2>2, InwardCommands DEF Callable
  <2> HIDE DEF d
  <2>4. Promised(s, Result(t, <<EndSession, d>>))
    BY <2>3, PromisedTuples
  <2> QED BY <2>1, <2>4
<1>5. ASSUME NEW reason, NEW decision, NEW persist
      PROVE  Promised(s, abort(u, reason, decision, persist))
  <2> DEFINE t == [u EXCEPT !.phase = "aborted", !.abort_reason = reason,
                            !.awaiting = "none", !.pending_command = NoCommand]
             d == RecordDecision(decision)
  <2>1. \/ abort(u, reason, decision, persist) = Result(t, <<d, PersistState>>)
        \/ abort(u, reason, decision, persist) = Result(t, <<d>>)
    BY Zenon DEF abort
  <2>2. t.pending_command = NoCommand
    BY SMT DEF SessionState
  <2> HIDE DEF t
  <2>3. Promise(t, d) /\ Promise(t, PersistState) /\ Callable(t.pending_command)
    BY <1>2, <2>2, InwardCommands DEF Callable
  <2> HIDE DEF d
  <2>4. Promised(s, Result(t, <<d>>)) /\ Promised(s, Result(t, <<d, PersistState>>))
    BY <2>3, PromisedTuples
  <2> QED BY <2>1, <2>4
<1> QED BY <1>1, <1>3, <1>4, <1>5

\* The session's start.
LEMMA StartPromised ==
  ASSUME NEW s \in SessionState, NEW now
  PROVE  Promised(s, on_session_started(s, SessionStarted(now)))
<1> DEFINE opening == Outbound("opening", s.turn_seq)
           e == SessionStarted(now)
           t == [s EXCEPT !.phase = "intro", !.awaiting = "interviewer",
                          !.plan = s.plan_input, !.session_started_at = e.now,
                          !.last_candidate_activity = e.now,
                          !.turn_seq = @ + 1, !.pending_command = opening]
<1>1. \/ on_session_started(s, e) = Result(t, <<opening, PersistState>>)
      \/ on_session_started(s, e) = abort(s, "operator_abort", "plan_invalid", FALSE)
  BY Zenon DEF on_session_started
<1>2. t.pending_command = opening
  BY SMT DEF SessionState
<1>3. opening.kind = "opening"
  BY CommandKinds
<1> HIDE DEF opening, t
<1>4. Promise(t, opening) /\ Promise(t, PersistState) /\ Callable(t.pending_command)
  BY <1>2, <1>3, InwardCommands DEF Callable
<1>5. Promised(s, Result(t, <<opening, PersistState>>))
  BY <1>4, PromisedTuples
<1> QED BY <1>1, <1>5, EndsPromised

\* A candidate turn in TECH.
LEMMA TechPromised ==
  ASSUME NEW s \in SessionState, PlanHoldsIn(s), s.phase = "tech",
         NEW turn \in TurnId, NEW now \in Int
  PROVE  Promised(s, on_tech_candidate_turn(s, CandidateTurnReceived(turn, now)))
<1> DEFINE e == CandidateTurnReceived(turn, now)
           c == current_competency(s)
           a == RunAssessor(e.turn_id, c.node_id)
           remaining == seconds_remaining(c, s.competency_started_at, e.now)
           v == adjudicate(s.coverage[c.node_id], c.target_level, s.probes_used, remaining)
           g == RecordGap(c.node_id, v.gap_marker)
           r == on_tech_candidate_turn(s, e)
<1>1. r.new_state \in SessionState
  BY TechType
<1>2. \E t : Issued(t) /\ \/ r = Result(t, <<a, t.pending_command, PersistState>>)
                          \/ r = Result(t, <<a, t.pending_command, g, PersistState>>)
  <2>1. \A u, x : Issued(depth_probe(u, x)) /\ Issued(next_seed(u, x))
    BY BlocksIssue
  <2>2. \A u, verdict, time : Issued(leave_competency(u, verdict, time))
    BY BlocksIssue
  <2> QED BY <2>1, <2>2, Zenon DEF on_tech_candidate_turn
<1>3. \A t : Promise(t, a) /\ Promise(t, g)
  BY InwardCommands
<1> HIDE DEF r, a, g, v
<1>4. PICK t : Issued(t) /\ \/ r = Result(t, <<a, t.pending_command, PersistState>>)
                            \/ r = Result(t, <<a, t.pending_command, g, PersistState>>)
  BY <1>2
<1>5. t \in SessionState
  BY <1>1, <1>4 DEF Result
<1>6. Promised(s, r)
  BY <1>3, <1>4, <1>5, IssuedPromised
<1> QED BY <1>6 DEF r

\* A candidate turn in any phase.
LEMMA TurnPromised ==
  ASSUME NEW s \in SessionState, PlanHoldsIn(s), NEW turn \in TurnId, NEW now \in Int
  PROVE  Promised(s, on_candidate_turn(s, CandidateTurnReceived(turn, now)))
<1> DEFINE e == CandidateTurnReceived(turn, now)
           r == on_candidate_turn(s, e)
           u == [s EXCEPT !.last_candidate_activity = e.now]
<1>1. r.new_state \in SessionState
  BY TurnType
<1>2. u \in SessionState
  BY Zenon DEF SessionState, CandidateTurnReceived
<1>3. \/ s.phase = "tech" /\ r = on_tech_candidate_turn(s, e)
      \/ r = ignore(s)
      \/ r = enter_close(u)
      \/ \E t : Issued(t) /\ \/ r = Result(t, <<t.pending_command>>)
                             \/ r = Result(t, <<t.pending_command, PersistState>>)
  <2>1. "ask_seed" \in InterviewerMove /\ "acknowledge_and_transition" \in InterviewerMove
    BY DEF InterviewerMove
  <2>2. \A x, move, node : move \in InterviewerMove => Issued(issue_interviewer(x, move, node))
    BY Zenon DEF Issued
  <2> QED BY <2>1, <2>2, Zenon DEF on_candidate_turn, on_intro_candidate_turn, on_qa_candidate_turn
<1> HIDE DEF r, u
<1>4. ASSUME NEW t, Issued(t), \/ r = Result(t, <<t.pending_command>>)
                               \/ r = Result(t, <<t.pending_command, PersistState>>)
      PROVE  Promised(s, r)
  <2>1. t \in SessionState
    BY <1>1, <1>4 DEF Result
  <2>2. Promise(t, PersistState)
    BY InwardCommands
  <2> QED BY <1>4, <2>1, <2>2, IssuedPromised
<1>5. Promised(s, r)
  BY <1>2, <1>3, <1>4, TechPromised, EndsPromised
<1> QED BY <1>5 DEF r

\* An interviewer reply.
LEMMA ReplyPromised ==
  ASSUME NEW s \in SessionState, NEW turn \in Int, NEW move
  PROVE  Promised(s, on_interviewer_reply(s, InterviewerReplyReady(turn, move)))
<1> DEFINE e == InterviewerReplyReady(turn, move)
           drifted == s.last_issued_move # "none" /\ e.move # s.last_issued_move
           drift_count == IF drifted THEN s.drift_count + 1 ELSE s.drift_count
           flag == s.flagged_for_review \/ (drifted /\ drift_count >= DriftToReview)
           delivery == Outbound("deliver_utterance", e.turn_id)
           t == [s EXCEPT !.awaiting = "candidate", !.interviewer_failure_streak = 0,
                          !.drift_count = drift_count, !.flagged_for_review = flag,
                          !.pending_command = delivery]
<1>1. \/ on_interviewer_reply(s, e) = ignore(s)
      \/ on_interviewer_reply(s, e) = complete(s)
      \/ on_interviewer_reply(s, e) = Result(t, <<delivery, PersistState>>)
  BY Zenon DEF on_interviewer_reply
<1> HIDE DEF flag, drift_count, drifted
<1>2. t.pending_command = delivery
  BY SMT DEF SessionState
<1>3. delivery.kind = "deliver_utterance"
  BY CommandKinds
<1> HIDE DEF delivery, t
<1>4. Promise(t, delivery) /\ Promise(t, PersistState) /\ Callable(t.pending_command)
  BY <1>2, <1>3, InwardCommands DEF Callable
<1>5. Promised(s, Result(t, <<delivery, PersistState>>))
  BY <1>4, PromisedTuples
<1> QED BY <1>1, <1>5, EndsPromised

\* An interviewer failure: the retry is for the same move.
LEMMA FailedPromised ==
  ASSUME NEW s \in SessionState, NEW turn \in Int
  PROVE  Promised(s, on_interviewer_failed(s, InterviewerFailed(turn)))
<1> DEFINE e == InterviewerFailed(turn)
           retry == [s.pending_command EXCEPT !.retry = TRUE]
           flag == FlagTurnDegraded(e.turn_id)
           t == [s EXCEPT !.interviewer_failure_streak = @ + 1, !.pending_command = retry]
<1>1. \/ on_interviewer_failed(s, e) = ignore(s)
      \/ on_interviewer_failed(s, e) = abort(s, "fatal_agent_error", "agent_failure", TRUE)
      \/ on_interviewer_failed(s, e) = Result(t, <<retry, flag, PersistState>>)
  BY Zenon DEF on_interviewer_failed
<1>2. retry.kind = s.pending_command.kind /\ retry.move = s.pending_command.move
  <2>1. s.pending_command \in PendingCommand
    BY DEF SessionState
  <2> QED BY <2>1 DEF PendingCommand
<1> HIDE DEF retry
<1>3. t.pending_command = retry
  BY SMT DEF SessionState
<1> HIDE DEF t
<1>4. Promise(t, flag) /\ Promise(t, PersistState)
  BY InwardCommands
<1> HIDE DEF flag
<1>5. Promise(t, retry) /\ (Callable(s.pending_command) => Callable(t.pending_command))
  BY <1>2, <1>3 DEF Promise, Callable
<1>6. Promised(s, Result(t, <<retry, flag, PersistState>>))
  BY <1>4, <1>5, PromisedTuples
<1> QED BY <1>1, <1>6, EndsPromised

\* The assessor's answers ask for nothing and leave the pending command.
LEMMA AssessedPromised ==
  ASSUME NEW s \in SessionState, NEW turn, NEW out
  PROVE  Promised(s, on_assessment_completed(s, AssessmentCompleted(turn, out)))
<1> DEFINE e == AssessmentCompleted(turn, out)
           dropped == drop_pending(s, e.turn_id)
           total == s.cheat_flag_count + e.output.cheat_flags
           folded == record_review_signals(record_levels(s.coverage, e.output), e.output)
           review == dropped.needs_manual_review \/ e.output.needs_manual_review
           flag == dropped.flagged_for_review \/ total >= CheatFlagsToReview
           t == [dropped EXCEPT !.coverage = folded, !.cheat_flag_count = total,
                                !.needs_manual_review = review, !.flagged_for_review = flag]
<1>1. \/ on_assessment_completed(s, e) = ignore(s)
      \/ on_assessment_completed(s, e) = Result(t, <<PersistState>>)
  BY Zenon DEF on_assessment_completed
<1>2. dropped.pending_command = s.pending_command /\ "pending_command" \in DOMAIN dropped
  BY SMT DEF SessionState, drop_pending
<1> HIDE DEF dropped, total, folded, review, flag
<1>3. t.pending_command = s.pending_command
  BY <1>2
<1> HIDE DEF t
<1>4. Promise(t, PersistState)
  BY InwardCommands
<1>5. Promised(s, Result(t, <<PersistState>>))
  BY <1>3, <1>4, PromisedTuples
<1> QED BY <1>1, <1>5, EndsPromised

\* A failed assessment.
LEMMA UnassessedPromised ==
  ASSUME NEW s \in SessionState, NEW turn
  PROVE  Promised(s, on_assessment_failed(s, AssessmentFailed(turn)))
<1> DEFINE e == AssessmentFailed(turn)
           dropped == drop_pending(s, e.turn_id)
           t == [dropped EXCEPT !.coverage[s.assessment_focus[e.turn_id]].assessment_failed = TRUE]
<1>1. \/ on_assessment_failed(s, e) = ignore(s)
      \/ on_assessment_failed(s, e) = Result(t, <<PersistState>>)
  BY Zenon DEF on_assessment_failed
<1>2. dropped.pending_command = s.pending_command /\ "pending_command" \in DOMAIN dropped
  BY SMT DEF SessionState, drop_pending
<1> HIDE DEF dropped
<1>3. t.pending_command = s.pending_command
  BY <1>2
<1> HIDE DEF t
<1>4. Promise(t, PersistState)
  BY InwardCommands
<1>5. Promised(s, Result(t, <<PersistState>>))
  BY <1>3, <1>4, PromisedTuples
<1> QED BY <1>1, <1>5, EndsPromised

\* A tick.
LEMMA TickPromised ==
  ASSUME NEW s \in SessionState, NEW now \in Int
  PROVE  Promised(s, on_timer_tick(s, TimerTick(now)))
<1> DEFINE e == TimerTick(now)
           asked == enter_qa(s, e.now)
           r == on_timer_tick(s, e)
<1>1. r.new_state \in SessionState
  BY TickType
<1>2. \/ r = abort(s, "candidate_timeout", "timeout", TRUE)
      \/ r = Result(asked, <<asked.pending_command>>)
      \/ r = enter_close(s)
      \/ r = complete(s)
      \/ r = ignore(s)
  BY Zenon DEF on_timer_tick
<1>3. Issued(asked)
  BY BlocksIssue
<1> HIDE DEF r, asked
<1>4. ASSUME r = Result(asked, <<asked.pending_command>>) PROVE Promised(s, r)
  <2>1. asked \in SessionState
    BY <1>1, <1>4 DEF Result
  <2>2. Promise(asked, PersistState)
    BY InwardCommands
  <2> QED BY <1>3, <1>4, <2>1, <2>2, IssuedPromised
<1>5. Promised(s, r)
  BY <1>2, <1>4, EndsPromised
<1> QED BY <1>5 DEF r

\* A resume: the pending command is wrapped, not emitted as it is.
LEMMA ReconnectedPromised ==
  ASSUME NEW s \in SessionState
  PROVE  Promised(s, on_reconnected(s))
<1> DEFINE again == ReissuePendingCommand(s.pending_command)
<1>1. \/ on_reconnected(s) = Result(s, <<PersistState>>)
      \/ on_reconnected(s) = Result(s, <<again, PersistState>>)
  BY Zenon DEF on_reconnected
<1>2. Promise(s, again) /\ Promise(s, PersistState)
  BY InwardCommands
<1> HIDE DEF again
<1> QED BY <1>1, <1>2, PromisedTuples

\* Every transition promises what it asks for.
LEMMA TransitionPromised ==
  ASSUME NEW s \in SessionState, PlanHoldsIn(s), NEW e \in SessionEvent
  PROVE  Promised(s, transition(s, e))
<1>1. CASE s.phase \in TerminalPhases
  BY <1>1, EndsPromised DEF transition
<1> SUFFICES ASSUME s.phase \notin TerminalPhases
             PROVE  Promised(s, transition(s, e))
  BY <1>1
<1>2. CASE \E now \in Int : e = SessionStarted(now)
  <2>1. e.kind = "session_started"
    BY <1>2 DEF SessionStarted
  <2>2. transition(s, e) = on_session_started(s, e) \/ transition(s, e) = ignore(s)
    BY <2>1, Dispatch
  <2> QED BY <1>2, <2>2, EndsPromised, StartPromised
<1>3. CASE \E t \in TurnId, now \in Int : e = CandidateTurnReceived(t, now)
  <2>1. e.kind = "candidate_turn"
    BY <1>3 DEF CandidateTurnReceived
  <2>2. transition(s, e) = on_candidate_turn(s, e) \/ transition(s, e) = ignore(s)
    BY <2>1, Dispatch
  <2> QED BY <1>3, <2>2, EndsPromised, TurnPromised
<1>4. CASE \E t \in Int, m \in InterviewerMove : e = InterviewerReplyReady(t, m)
  <2>1. e.kind = "interviewer_reply"
    BY <1>4 DEF InterviewerReplyReady
  <2>2. transition(s, e) = on_interviewer_reply(s, e) \/ transition(s, e) = ignore(s)
    BY <2>1, Dispatch
  <2> QED BY <1>4, <2>2, EndsPromised, ReplyPromised
<1>5. CASE \E t \in Int : e = InterviewerFailed(t)
  <2>1. e.kind = "interviewer_failed"
    BY <1>5 DEF InterviewerFailed
  <2>2. transition(s, e) = on_interviewer_failed(s, e) \/ transition(s, e) = ignore(s)
    BY <2>1, Dispatch
  <2> QED BY <1>5, <2>2, EndsPromised, FailedPromised
<1>6. CASE \E t \in TurnId, out \in AssessorOutput : e = AssessmentCompleted(t, out)
  <2>1. e.kind = "assessment_completed"
    BY <1>6 DEF AssessmentCompleted
  <2>2. transition(s, e) = on_assessment_completed(s, e)
    BY <2>1, Dispatch
  <2> QED BY <1>6, <2>2, AssessedPromised
<1>7. CASE \E t \in TurnId : e = AssessmentFailed(t)
  <2>1. e.kind = "assessment_failed"
    BY <1>7 DEF AssessmentFailed
  <2>2. transition(s, e) = on_assessment_failed(s, e)
    BY <2>1, Dispatch
  <2> QED BY <1>7, <2>2, UnassessedPromised
<1>8. CASE \E now \in Int : e = TimerTick(now)
  <2>1. e.kind = "timer_tick"
    BY <1>8 DEF TimerTick
  <2>2. transition(s, e) = on_timer_tick(s, e)
    BY <2>1, Dispatch
  <2> QED BY <1>8, <2>2, TickPromised
<1>9. CASE e = Reconnected
  <2>1. e.kind = "reconnected"
    BY <1>9 DEF Reconnected
  <2>2. transition(s, e) = on_reconnected(s)
    BY <2>1, Dispatch
  <2> QED BY <2>2, ReconnectedPromised
<1>10. CASE \E reason \in AbortReason : e = OperatorAbort(reason)
  <2>1. e.kind = "operator_abort"
    BY <1>10 DEF OperatorAbort
  <2>2. transition(s, e) = abort(s, e.reason, "operator", TRUE)
    BY <2>1, Dispatch
  <2> QED BY <2>2, EndsPromised
<1> QED BY <1>2, <1>3, <1>4, <1>5, <1>6, <1>7, <1>8, <1>9, <1>10 DEF SessionEvent

\* An assessor's answer, and the abort of a spent budget, leave nothing to say.
Inward(r) == \A i \in DOMAIN r.commands : r.commands[i].kind \notin OutboundKinds
BackgroundEvents == AssessorEvents \cup {"operator_abort"}
LEMMA TransitionInward ==
  ASSUME NEW s, NEW e, e.kind \in BackgroundEvents
  PROVE  Inward(transition(s, e))
<1>1. PersistState.kind \notin OutboundKinds /\ \A x : RecordDecision(x).kind \notin OutboundKinds
  BY CommandKinds DEF OutboundKinds
<1>2. \A t, q : (\A i \in DOMAIN q : q[i].kind \notin OutboundKinds) => Inward(Result(t, q))
  BY DEF Inward, Result
<1>3. \A t : Inward(Result(t, <<>>)) /\ Inward(Result(t, <<PersistState>>))
  BY <1>1, <1>2
<1>4. \A t, x : Inward(Result(t, <<RecordDecision(x)>>)) /\ Inward(Result(t, <<RecordDecision(x), PersistState>>))
  <2> SUFFICES ASSUME NEW t, NEW x
               PROVE  Inward(Result(t, <<RecordDecision(x)>>)) /\ Inward(Result(t, <<RecordDecision(x), PersistState>>))
    OBVIOUS
  <2> DEFINE d == RecordDecision(x)
  <2>1. d.kind \notin OutboundKinds
    BY <1>1
  <2> HIDE DEF d
  <2>2. Inward(Result(t, <<d>>)) /\ Inward(Result(t, <<d, PersistState>>))
    BY <1>1, <1>2, <2>1
  <2> QED BY <2>2 DEF d
<1>5. CASE s.phase \in TerminalPhases
  BY <1>3, <1>5, Zenon DEF transition, ignore
<1>6. CASE s.phase \notin TerminalPhases
  <2>1. CASE e.kind = "assessment_completed"
    <3>1. transition(s, e) = on_assessment_completed(s, e)
      BY <1>6, <2>1, Dispatch
    <3> QED BY <1>3, <3>1, Zenon DEF on_assessment_completed, ignore
  <2>2. CASE e.kind = "assessment_failed"
    <3>1. transition(s, e) = on_assessment_failed(s, e)
      BY <1>6, <2>2, Dispatch
    <3> QED BY <1>3, <3>1, Zenon DEF on_assessment_failed, ignore
  <2>3. CASE e.kind = "operator_abort"
    <3>1. transition(s, e) = abort(s, e.reason, "operator", TRUE)
      BY <1>6, <2>3, Dispatch
    <3> QED BY <1>4, <3>1, Zenon DEF abort
  <2> QED BY <2>1, <2>2, <2>3 DEF BackgroundEvents, AssessorEvents
<1> QED BY <1>5, <1>6

-----------------------------------------------------------------------------
\* The evidence.

\* What the assessor's outputs leave of a cell, and of the session.
SameCell(a, b) ==
  /\ b.best_level = a.best_level /\ b.best_confidence = a.best_confidence
  /\ b.latest_level = a.latest_level /\ b.latest_confidence = a.latest_confidence
  /\ b.gap_not_assessable = a.gap_not_assessable /\ b.cheat_flags = a.cheat_flags
SameEvidence(s, t) ==
  /\ t.cheat_flag_count = s.cheat_flag_count
  /\ \A n \in Node : SameCell(s.coverage[n], t.coverage[n])

\* An output is folded into the coverage and the count.
TakesIn(s, t, out) ==
  /\ t # s
  /\ t.cheat_flag_count = s.cheat_flag_count + out.cheat_flags
  /\ t.coverage = record_review_signals(record_levels(s.coverage, out), out)

Evident(s, e, t) ==
  \/ t = s
  \/ e.kind # "assessment_completed" /\ SameEvidence(s, t)
  \/ e.kind = "assessment_completed" /\ TakesIn(s, t, e.output)

\* The fields the evidence is in are untouched.
SameFields(u, t) == t.coverage = u.coverage /\ t.cheat_flag_count = u.cheat_flag_count
Evidenced(u) == {"coverage", "cheat_flag_count"} \subseteq DOMAIN u
LEMMA SameFieldsKeep ==
  ASSUME NEW s, NEW u, SameEvidence(s, u)
  PROVE  /\ SameEvidence(s, s)
         /\ \A t : SameFields(u, t) => SameEvidence(s, t)
  BY DEF SameFields, SameEvidence, SameCell

\* The building blocks leave them alone.
LEMMA BlocksAreBlind ==
  ASSUME NEW u, Evidenced(u)
  PROVE  /\ \A move, node : SameFields(u, issue_interviewer(u, move, node))
         /\ \A now : SameFields(u, enter_qa(u, now))
         /\ \A c : SameFields(u, depth_probe(u, c)) /\ SameFields(u, next_seed(u, c))
         /\ \A verdict, now : SameFields(u, leave_competency(u, verdict, now))
         /\ SameFields(u, enter_close(u).new_state)
         /\ SameFields(u, complete(u).new_state)
         /\ \A reason, decision, persist :
              SameFields(u, abort(u, reason, decision, persist).new_state)
<1>1. \A v : Evidenced(v) => \A move, node : SameFields(v, issue_interviewer(v, move, node))
  BY SMT DEF issue_interviewer, SameFields, Evidenced
<1>2. ASSUME NEW now PROVE SameFields(u, enter_qa(u, now))
  <2> DEFINE v == [u EXCEPT !.phase = "qa", !.qa_started_at = now]
  <2>1. Evidenced(v) /\ SameFields(u, v)
    BY DEF Evidenced, SameFields
  <2>2. enter_qa(u, now) = issue_interviewer(v, "acknowledge_and_transition", NoNode)
    BY DEF enter_qa
  <2> HIDE DEF v
  <2> QED BY <1>1, <2>1, <2>2 DEF SameFields
<1>3. ASSUME NEW c PROVE SameFields(u, depth_probe(u, c)) /\ SameFields(u, next_seed(u, c))
  <2> DEFINE v == [u EXCEPT !.probes_used = @ + 1]
             w == [u EXCEPT !.seed_index = @ + 1]
  <2>1. Evidenced(v) /\ SameFields(u, v) /\ Evidenced(w) /\ SameFields(u, w)
    BY DEF Evidenced, SameFields
  <2>2. \E move, node : depth_probe(u, c) = issue_interviewer(v, move, node)
    BY DEF depth_probe
  <2>3. \E move, node : next_seed(u, c) = issue_interviewer(w, move, node)
    BY DEF next_seed
  <2> HIDE DEF v, w
  <2> QED BY <1>1, <2>1, <2>2, <2>3 DEF SameFields
<1>4. ASSUME NEW verdict, NEW now
      PROVE  SameFields(u, leave_competency(u, verdict, now))
  <2> DEFINE v == [u EXCEPT !.competency_index = @ + 1, !.seed_index = 0, !.probes_used = 0,
                            !.competency_started_at = now]
  <2>1. Evidenced(v) /\ SameFields(u, v)
    BY DEF Evidenced, SameFields
  <2>2. \/ leave_competency(u, verdict, now) = enter_qa(u, now)
        \/ \E move, node : leave_competency(u, verdict, now) = issue_interviewer(v, move, node)
    BY Zenon DEF leave_competency
  <2> HIDE DEF v
  <2> QED BY <1>1, <1>2, <2>1, <2>2 DEF SameFields
<1>5. SameFields(u, enter_close(u).new_state)
  <2> DEFINE t == [u EXCEPT !.phase = "close", !.awaiting = "interviewer",
                            !.last_issued_move = "none", !.turn_seq = @ + 1,
                            !.pending_command = Outbound("closing", u.turn_seq)]
  <2>1. SameFields(u, t)
    BY DEF SameFields, Evidenced
  <2>2. enter_close(u).new_state = t
    BY DEF enter_close, Result
  <2> QED BY <2>1, <2>2
<1>6. SameFields(u, complete(u).new_state)
  <2> DEFINE t == [u EXCEPT !.phase = "completed", !.awaiting = "none",
                            !.pending_command = NoCommand]
  <2>1. SameFields(u, t)
    BY DEF SameFields, Evidenced
  <2>2. complete(u).new_state = t
    BY DEF complete, Result
  <2> QED BY <2>1, <2>2
<1>7. ASSUME NEW reason, NEW decision, NEW persist
      PROVE  SameFields(u, abort(u, reason, decision, persist).new_state)
  <2> DEFINE t == [u EXCEPT !.phase = "aborted", !.abort_reason = reason,
                            !.awaiting = "none", !.pending_command = NoCommand]
  <2>1. SameFields(u, t)
    BY DEF SameFields, Evidenced
  <2>2. abort(u, reason, decision, persist).new_state = t
    BY DEF abort, Result
  <2> QED BY <2>1, <2>2
<1> QED BY <1>1, <1>2, <1>3, <1>4, <1>5, <1>6, <1>7

\* And so does whatever is made of a state that holds the same evidence.
LEMMA BlocksKeepEvidence ==
  ASSUME NEW s, NEW u \in SessionState, SameEvidence(s, u)
  PROVE  /\ \A move, node : SameEvidence(s, issue_interviewer(u, move, node))
         /\ \A now : SameEvidence(s, enter_qa(u, now))
         /\ \A c : SameEvidence(s, depth_probe(u, c)) /\ SameEvidence(s, next_seed(u, c))
         /\ \A verdict, now : SameEvidence(s, leave_competency(u, verdict, now))
         /\ SameEvidence(s, enter_close(u).new_state)
         /\ SameEvidence(s, complete(u).new_state)
         /\ \A reason, decision, persist :
              SameEvidence(s, abort(u, reason, decision, persist).new_state)
<1>1. Evidenced(u)
  BY SMT DEF SessionState, Evidenced
<1>2. \A t : SameFields(u, t) => SameEvidence(s, t)
  BY SameFieldsKeep
<1> QED BY <1>1, <1>2, BlocksAreBlind, Zenon

\* The start.
LEMMA StartKeepsEvidence ==
  ASSUME NEW s \in SessionState, NEW now \in Int
  PROVE  SameEvidence(s, on_session_started(s, SessionStarted(now)).new_state)
<1> DEFINE e == SessionStarted(now)
           opening == Outbound("opening", s.turn_seq)
           t == [s EXCEPT !.phase = "intro", !.awaiting = "interviewer",
                          !.plan = s.plan_input, !.session_started_at = e.now,
                          !.last_candidate_activity = e.now,
                          !.turn_seq = @ + 1, !.pending_command = opening]
<1>1. \/ on_session_started(s, e) = abort(s, "operator_abort", "plan_invalid", FALSE)
      \/ on_session_started(s, e).new_state = t
  BY Zenon DEF on_session_started, Result
<1>2. SameFields(s, t)
  BY Zenon DEF SameFields, SessionState
<1>3. SameEvidence(s, s) /\ \A u : SameFields(s, u) => SameEvidence(s, u)
  BY DEF SameFields, SameEvidence, SameCell
<1> HIDE DEF t, e
<1>4. SameEvidence(s, on_session_started(s, e).new_state)
  BY <1>1, <1>2, <1>3, BlocksKeepEvidence
<1> QED BY <1>4 DEF e

\* A candidate's turn.
LEMMA TurnsKeepEvidence ==
  ASSUME NEW s \in SessionState, PlanHoldsIn(s), NEW turn \in TurnId, NEW now \in Int
  PROVE  SameEvidence(s, on_candidate_turn(s, CandidateTurnReceived(turn, now)).new_state)
<1>0. SameEvidence(s, s) /\ \A u, t : SameEvidence(s, u) /\ SameFields(u, t) => SameEvidence(s, t)
  BY DEF SameFields, SameEvidence, SameCell
<1> DEFINE e == CandidateTurnReceived(turn, now)
<1>2. e.now = now /\ e.turn_id = turn
  BY DEF CandidateTurnReceived
<1>3. SameEvidence(s, on_intro_candidate_turn(s, e).new_state)
  <2> DEFINE u == [s EXCEPT !.phase = "tech", !.last_candidate_activity = e.now,
                            !.competency_index = 0, !.seed_index = 0, !.probes_used = 0,
                            !.competency_started_at = e.now]
  <2>1. \E move, node : on_intro_candidate_turn(s, e).new_state = issue_interviewer(u, move, node)
    BY Zenon DEF on_intro_candidate_turn, Result
  <2>2. SameFields(s, u) /\ Evidenced(u)
    <3> HIDE DEF e
    <3> QED BY SMT DEF SameFields, SessionState, Evidenced
  <2> HIDE DEF u
  <2> QED BY <1>0, <2>1, <2>2, BlocksAreBlind
<1>4. SameEvidence(s, on_qa_candidate_turn(s, e).new_state)
  <2> DEFINE u == [s EXCEPT !.last_candidate_activity = e.now]
  <2>1. \/ on_qa_candidate_turn(s, e) = enter_close(u)
        \/ \E move, node : on_qa_candidate_turn(s, e).new_state = issue_interviewer(u, move, node)
    BY Zenon DEF on_qa_candidate_turn, Result
  <2>2. SameFields(s, u) /\ Evidenced(u)
    <3> HIDE DEF e
    <3> QED BY SMT DEF SameFields, SessionState, Evidenced
  <2> HIDE DEF u
  <2> QED BY <1>0, <2>1, <2>2, BlocksAreBlind
<1>5. ASSUME s.phase = "tech" PROVE SameEvidence(s, on_tech_candidate_turn(s, e).new_state)
  <2> DEFINE c == current_competency(s)
             n == c.node_id
             heard == [s EXCEPT !.last_candidate_activity = e.now,
                                !.assessment_focus[e.turn_id] = n]
             gapped == [heard EXCEPT !.coverage[n].gap_budget_exhausted = TRUE]
  <2>1. SameFields(s, heard) /\ Evidenced(heard)
    <3> HIDE DEF e, c
    <3> QED BY SMT DEF SameFields, SessionState, Evidenced
  <2>2. SameEvidence(s, gapped) /\ Evidenced(gapped)
    <3>1. gapped.coverage = [s.coverage EXCEPT ![n].gap_budget_exhausted = TRUE]
      <4> HIDE DEF c, e
      <4> QED BY SMT DEF SessionState
    <3>2. gapped.cheat_flag_count = s.cheat_flag_count /\ Evidenced(gapped)
      <4> HIDE DEF c, e
      <4> QED BY SMT DEF SessionState, Evidenced
    <3>3. s.coverage \in [Node -> CoverageCell]
      BY DEF SessionState
    <3> HIDE DEF gapped, c
    <3>4. \A m \in Node : SameCell(s.coverage[m], gapped.coverage[m])
      BY <3>1, <3>3, SMT DEF SameCell, CoverageCell
    <3> QED BY <3>2, <3>4 DEF SameEvidence
  <2>3. LET t == on_tech_candidate_turn(s, e).new_state
        IN  \/ t = depth_probe(heard, c) \/ t = next_seed(heard, c)
            \/ \E verdict, time : t = leave_competency(heard, verdict, time)
                                  \/ t = leave_competency(gapped, verdict, time)
    BY Zenon DEF on_tech_candidate_turn, Result
  <2> HIDE DEF heard, gapped, c, e
  <2>4. SameEvidence(s, heard)
    BY <1>0, <2>1
  <2>5. \A t : SameFields(heard, t) \/ SameFields(gapped, t) => SameEvidence(s, t)
    BY <1>0, <2>2, <2>4
  <2>6. /\ SameFields(heard, depth_probe(heard, c)) /\ SameFields(heard, next_seed(heard, c))
        /\ \A verdict, time : /\ SameFields(heard, leave_competency(heard, verdict, time))
                              /\ SameFields(gapped, leave_competency(gapped, verdict, time))
    BY <2>1, <2>2, BlocksAreBlind
  <2> QED BY <2>3, <2>5, <2>6
<1>6. ignore(s).new_state = s
  BY DEF ignore, Result
<1> QED BY <1>0, <1>3, <1>4, <1>5, <1>6, Zenon DEF on_candidate_turn

\* The interviewer's answers, a failed assessment, a tick and a resume.
LEMMA AnswersKeepEvidence ==
  ASSUME NEW s \in SessionState, NEW turn \in Int, NEW now \in Int, NEW move \in InterviewerMove
  PROVE  /\ SameEvidence(s, on_interviewer_reply(s, InterviewerReplyReady(turn, move)).new_state)
         /\ SameEvidence(s, on_interviewer_failed(s, InterviewerFailed(turn)).new_state)
         /\ turn \in TurnId =>
              SameEvidence(s, on_assessment_failed(s, AssessmentFailed(turn)).new_state)
         /\ SameEvidence(s, on_timer_tick(s, TimerTick(now)).new_state)
         /\ SameEvidence(s, on_reconnected(s).new_state)
<1>0. SameEvidence(s, s) /\ \A t : SameFields(s, t) => SameEvidence(s, t)
  BY DEF SameFields, SameEvidence, SameCell
<1>1. ignore(s).new_state = s
  BY DEF ignore, Result
<1>2. SameEvidence(s, on_interviewer_reply(s, InterviewerReplyReady(turn, move)).new_state)
  <2> DEFINE e == InterviewerReplyReady(turn, move)
             delivery == Outbound("deliver_utterance", e.turn_id)
             Heard(d, f) == [s EXCEPT !.awaiting = "candidate", !.interviewer_failure_streak = 0,
                                      !.drift_count = d, !.flagged_for_review = f,
                                      !.pending_command = delivery]
  <2>1. \/ on_interviewer_reply(s, e) = ignore(s) \/ on_interviewer_reply(s, e) = complete(s)
        \/ \E d, f : on_interviewer_reply(s, e).new_state = Heard(d, f)
    BY Zenon DEF on_interviewer_reply, Result
  <2>2. \A d, f : SameFields(s, Heard(d, f))
    <3> HIDE DEF delivery
    <3> QED BY Zenon DEF SessionState, SameFields
  <2> HIDE DEF Heard, e
  <2>6. SameEvidence(s, on_interviewer_reply(s, e).new_state)
    BY <1>0, <1>1, <2>1, <2>2, BlocksKeepEvidence
  <2> QED BY <2>6 DEF e
<1>3. SameEvidence(s, on_interviewer_failed(s, InterviewerFailed(turn)).new_state)
  <2> DEFINE e == InterviewerFailed(turn)
             retry == [s.pending_command EXCEPT !.retry = TRUE]
             t == [s EXCEPT !.interviewer_failure_streak = @ + 1, !.pending_command = retry]
  <2>1. \/ on_interviewer_failed(s, e) = ignore(s)
        \/ on_interviewer_failed(s, e) = abort(s, "fatal_agent_error", "agent_failure", TRUE)
        \/ on_interviewer_failed(s, e).new_state = t
    BY Zenon DEF on_interviewer_failed, Result
  <2>2. SameFields(s, t)
    <3> HIDE DEF retry
    <3> QED BY Zenon DEF SessionState, SameFields
  <2> HIDE DEF t, e
  <2>6. SameEvidence(s, on_interviewer_failed(s, e).new_state)
    BY <1>0, <1>1, <2>1, <2>2, BlocksKeepEvidence
  <2> QED BY <2>6 DEF e
<1>4. ASSUME turn \in TurnId
      PROVE  SameEvidence(s, on_assessment_failed(s, AssessmentFailed(turn)).new_state)
  <2> DEFINE e == AssessmentFailed(turn)
             node == s.assessment_focus[turn]
             t == [drop_pending(s, turn) EXCEPT !.coverage[node].assessment_failed = TRUE]
  <2>1. e.turn_id = turn
    BY DEF AssessmentFailed
  <2>2. on_assessment_failed(s, e) = ignore(s) \/ on_assessment_failed(s, e).new_state = t
    BY <2>1, Zenon DEF on_assessment_failed, Result
  <2> HIDE DEF node
  <2>3. /\ t.coverage = [s.coverage EXCEPT ![node].assessment_failed = TRUE]
        /\ t.cheat_flag_count = s.cheat_flag_count
    BY SMT DEF drop_pending, SessionState
  <2>4. s.coverage \in [Node -> CoverageCell]
    BY DEF SessionState
  <2> HIDE DEF t, e
  <2>5. \A m \in Node : SameCell(s.coverage[m], t.coverage[m])
    BY <2>3, <2>4, SMT DEF SameCell, CoverageCell
  <2>6. SameEvidence(s, on_assessment_failed(s, e).new_state)
    BY <1>0, <1>1, <2>2, <2>3, <2>5 DEF SameEvidence
  <2> QED BY <2>6 DEF e
<1>5. SameEvidence(s, on_timer_tick(s, TimerTick(now)).new_state)
  <2> DEFINE e == TimerTick(now)
             r == on_timer_tick(s, e)
  <2>1. \/ r = abort(s, "candidate_timeout", "timeout", TRUE)
        \/ r = enter_close(s) \/ r = complete(s) \/ r = ignore(s)
        \/ r.new_state = enter_qa(s, e.now)
    BY Zenon DEF on_timer_tick, Result
  <2> HIDE DEF e, r
  <2>2. SameEvidence(s, r.new_state)
    BY <1>0, <1>1, <2>1, BlocksKeepEvidence
  <2> QED BY <2>2 DEF r, e
<1>6. SameEvidence(s, on_reconnected(s).new_state)
  BY <1>0, Zenon DEF on_reconnected, Result
<1> QED BY <1>2, <1>3, <1>4, <1>5, <1>6

\* An assessment is ignored or taken in.
LEMMA AssessmentTakenIn ==
  ASSUME NEW s \in SessionState, NEW turn \in TurnId, NEW out \in AssessorOutput
  PROVE  LET e == AssessmentCompleted(turn, out)
             t == on_assessment_completed(s, e).new_state
         IN  t = s \/ TakesIn(s, t, out)
<1> DEFINE e == AssessmentCompleted(turn, out)
           r == on_assessment_completed(s, e)
           cov == record_review_signals(record_levels(s.coverage, out), out)
           total == s.cheat_flag_count + out.cheat_flags
           Folded(manual, flag) ==
             [drop_pending(s, turn) EXCEPT !.coverage = cov, !.cheat_flag_count = total,
                                           !.needs_manual_review = manual,
                                           !.flagged_for_review = flag]
<1>1. e.turn_id = turn /\ e.output = out
  BY DEF AssessmentCompleted
<1>2. \/ r.new_state = s
      \/ turn \in pending_assessments(s) /\ \E m, f : r.new_state = Folded(m, f)
  BY <1>1, Zenon DEF on_assessment_completed, Result, ignore
<1>3. ASSUME turn \in pending_assessments(s), NEW m, NEW f
      PROVE  TakesIn(s, Folded(m, f), out)
  <2> HIDE DEF cov, total
  <2>1. /\ Folded(m, f).coverage = cov /\ Folded(m, f).cheat_flag_count = total
        /\ Folded(m, f).assessment_focus = [s.assessment_focus EXCEPT ![turn] = NoNode]
    BY SMT DEF drop_pending, SessionState
  <2>2. s.assessment_focus[turn] # NoNode
    BY <1>3 DEF pending_assessments
  <2>3. s.assessment_focus \in [TurnId -> Node \cup {NoNode}]
    BY DEF SessionState
  <2>4. Folded(m, f).assessment_focus[turn] = NoNode
    <3> HIDE DEF Folded
    <3> QED BY <2>1, <2>3
  <2> HIDE DEF Folded
  <2>5. Folded(m, f) # s
    BY <2>2, <2>4
  <2> QED BY <2>1, <2>5 DEF TakesIn, cov, total
<1> HIDE DEF r, e, Folded
<1> QED BY <1>2, <1>3 DEF r, e

\* Only an assessment that is taken in changes the evidence.
LEMMA TransitionEvident ==
  ASSUME NEW s \in SessionState, PlanHoldsIn(s), NEW e \in SessionEvent
  PROVE  Evident(s, e, transition(s, e).new_state)
<1> DEFINE t == transition(s, e).new_state
<1>0. ignore(s).new_state = s
  BY DEF ignore, Result
<1>1. CASE s.phase \in TerminalPhases
  BY <1>0, <1>1 DEF transition, Evident
<1> SUFFICES ASSUME s.phase \notin TerminalPhases PROVE Evident(s, e, t)
  BY <1>1
<1>a. ASSUME e.kind # "assessment_completed", t = s \/ SameEvidence(s, t)
      PROVE  Evident(s, e, t)
  BY <1>a DEF Evident
<1>b. SameEvidence(s, s)
  BY DEF SameEvidence, SameCell
<1>2. CASE \E now \in Int : e = SessionStarted(now)
  <2>1. e.kind = "session_started"
    BY <1>2 DEF SessionStarted
  <2>2. transition(s, e) = on_session_started(s, e) \/ transition(s, e) = ignore(s)
    BY <2>1, Dispatch
  <2>3. e.kind # "assessment_completed"
    BY <2>1
  <2>4. SameEvidence(s, on_session_started(s, e).new_state)
    BY <1>2, StartKeepsEvidence
  <2> QED BY <1>0, <1>2, <1>a, <2>2, <2>3, <2>4
<1>3. CASE \E id \in TurnId, now \in Int : e = CandidateTurnReceived(id, now)
  <2>1. e.kind = "candidate_turn"
    BY <1>3 DEF CandidateTurnReceived
  <2>2. transition(s, e) = on_candidate_turn(s, e) \/ transition(s, e) = ignore(s)
    BY <2>1, Dispatch
  <2>3. e.kind # "assessment_completed"
    BY <2>1
  <2>4. SameEvidence(s, on_candidate_turn(s, e).new_state)
    BY <1>3, TurnsKeepEvidence
  <2> QED BY <1>0, <1>a, <2>2, <2>3, <2>4
<1>4. CASE \E id \in Int, m \in InterviewerMove : e = InterviewerReplyReady(id, m)
  <2>1. e.kind = "interviewer_reply"
    BY <1>4 DEF InterviewerReplyReady
  <2>2. transition(s, e) = on_interviewer_reply(s, e) \/ transition(s, e) = ignore(s)
    BY <2>1, Dispatch
  <2>3. SameEvidence(s, on_interviewer_reply(s, e).new_state)
    BY <1>4, AnswersKeepEvidence
  <2>4. e.kind # "assessment_completed"
    BY <2>1
  <2> QED BY <1>0, <1>a, <2>2, <2>3, <2>4
<1>5. CASE \E id \in Int : e = InterviewerFailed(id)
  <2>1. e.kind = "interviewer_failed"
    BY <1>5 DEF InterviewerFailed
  <2>2. transition(s, e) = on_interviewer_failed(s, e) \/ transition(s, e) = ignore(s)
    BY <2>1, Dispatch
  <2>3. SameEvidence(s, on_interviewer_failed(s, e).new_state)
    <3>1. \E m : m \in InterviewerMove
      BY DEF InterviewerMove
    <3>2. 0 \in Int
      OBVIOUS
    <3> QED BY <1>5, <3>1, <3>2, AnswersKeepEvidence
  <2>4. e.kind # "assessment_completed"
    BY <2>1
  <2> QED BY <1>0, <1>a, <2>2, <2>3, <2>4
<1>6. CASE \E id \in TurnId, out \in AssessorOutput : e = AssessmentCompleted(id, out)
  <2>1. PICK id \in TurnId, out \in AssessorOutput : e = AssessmentCompleted(id, out)
    BY <1>6
  <2>2. e.kind = "assessment_completed" /\ e.output = out
    BY <2>1 DEF AssessmentCompleted
  <2>3. transition(s, e) = on_assessment_completed(s, e)
    BY <2>2, Dispatch
  <2>4. t = s \/ TakesIn(s, t, out)
    BY <2>1, <2>3, AssessmentTakenIn
  <2> QED BY <2>2, <2>4 DEF Evident
<1>7. CASE \E id \in TurnId : e = AssessmentFailed(id)
  <2>1. e.kind = "assessment_failed"
    BY <1>7 DEF AssessmentFailed
  <2>2. transition(s, e) = on_assessment_failed(s, e)
    BY <2>1, Dispatch
  <2>3. SameEvidence(s, on_assessment_failed(s, e).new_state)
    <3>1. \E m : m \in InterviewerMove
      BY DEF InterviewerMove
    <3>2. 0 \in Int /\ \A id \in TurnId : id \in Int
      BY PlanAssumption
    <3> QED BY <1>7, <3>1, <3>2, AnswersKeepEvidence
  <2>4. e.kind # "assessment_completed"
    BY <2>1
  <2> QED BY <1>a, <2>2, <2>3, <2>4
<1>8. CASE \E now \in Int : e = TimerTick(now)
  <2>1. e.kind = "timer_tick"
    BY <1>8 DEF TimerTick
  <2>2. transition(s, e) = on_timer_tick(s, e)
    BY <2>1, Dispatch
  <2>3. SameEvidence(s, on_timer_tick(s, e).new_state)
    <3>1. \E m : m \in InterviewerMove
      BY DEF InterviewerMove
    <3> QED BY <1>8, <3>1, AnswersKeepEvidence
  <2>4. e.kind # "assessment_completed"
    BY <2>1
  <2> QED BY <1>a, <2>2, <2>3, <2>4
<1>9. CASE e = Reconnected
  <2>1. e.kind = "reconnected"
    BY <1>9 DEF Reconnected
  <2>2. transition(s, e) = on_reconnected(s)
    BY <2>1, Dispatch
  <2>3. on_reconnected(s).new_state = s
    BY Zenon DEF on_reconnected, Result
  <2> QED BY <2>2, <2>3 DEF Evident
<1>10. CASE \E reason \in AbortReason : e = OperatorAbort(reason)
  <2>1. e.kind = "operator_abort"
    BY <1>10 DEF OperatorAbort
  <2>2. transition(s, e) = abort(s, e.reason, "operator", TRUE)
    BY <2>1, Dispatch
  <2>3. SameEvidence(s, transition(s, e).new_state)
    BY <1>b, <2>2, BlocksKeepEvidence
  <2>4. e.kind # "assessment_completed"
    BY <2>1
  <2> QED BY <1>a, <2>3, <2>4
<1> QED BY <1>2, <1>3, <1>4, <1>5, <1>6, <1>7, <1>8, <1>9, <1>10 DEF SessionEvent

-----------------------------------------------------------------------------
\* Where a session and its events come from.

\* A new session.
LEMMA InitialState ==
  ASSUME NEW p \in Plans
  PROVE  LET s == initial_state(p)
         IN  /\ s \in SessionState /\ TurnTakingIn(s) /\ PlanHoldsIn(s) /\ FlaggedIn(s)
             /\ s.phase = "created" /\ s.awaiting = "none" /\ s.pending_command = NoCommand
             /\ s.abort_reason = "none" /\ s.turn_seq = 0
             /\ s.last_candidate_activity = Never
             /\ \A t \in TurnId : s.assessment_focus[t] = NoNode
<1> DEFINE s == initial_state(p)
<1>1. s \in SessionState
  <2>1. NoCommand \in PendingCommand /\ EmptyCell \in CoverageCell /\ Never \in Int
    <3>1. -1 \in Int /\ 0 \in Nat
      BY SMT
    <3>2. EmptyCell \in CoverageCell
      BY <3>1, Zenon DEF EmptyCell, CoverageCell, NoLevel
    <3> QED BY <3>1, <3>2, CommandTypes DEF Never
  <2>2. [n \in Node |-> EmptyCell] \in [Node -> CoverageCell]
    BY <2>1
  <2>3. [t \in TurnId |-> NoNode] \in [TurnId -> Node \cup {NoNode}]
    OBVIOUS
  <2>4. 0 \in Nat
    BY SMT
  <2> QED BY <2>1, <2>2, <2>3, <2>4, Zenon DEF initial_state, SessionState, Phase
<1>2. /\ s.phase = "created" /\ s.awaiting = "none" /\ s.pending_command = NoCommand
      /\ s.plan = NoPlan /\ s.competency_index = 0 /\ s.abort_reason = "none"
      /\ s.flagged_for_review = FALSE /\ s.cheat_flag_count = 0 /\ s.drift_count = 0
      /\ s.last_candidate_activity = Never /\ s.turn_seq = 0
      /\ \A t \in TurnId : s.assessment_focus[t] = NoNode
  BY DEF initial_state
<1> HIDE DEF s
<1>3. PlanHoldsIn(s)
  BY <1>2 DEF PlanHoldsIn
<1>4. FlaggedIn(s)
  BY <1>2, ConfigAssumption DEF FlaggedIn
<1>5. TurnTakingIn(s)
  BY <1>2, CommandKinds DEF TurnTakingIn, TerminalPhases
<1> QED BY <1>1, <1>2, <1>3, <1>4, <1>5 DEF s

\* The constructors build events.
LEMMA EventConstructors ==
  /\ \A now \in Int : SessionStarted(now) \in SessionEvent
  /\ \A now \in Int : TimerTick(now) \in SessionEvent
  /\ \A t \in TurnId, now \in Int : CandidateTurnReceived(t, now) \in SessionEvent
  /\ \A t \in Int, m \in InterviewerMove : InterviewerReplyReady(t, m) \in SessionEvent
  /\ \A t \in Int : InterviewerFailed(t) \in SessionEvent
  /\ \A t \in TurnId, out \in AssessorOutput : AssessmentCompleted(t, out) \in SessionEvent
  /\ \A t \in TurnId : AssessmentFailed(t) \in SessionEvent
  /\ \A reason \in AbortReason : OperatorAbort(reason) \in SessionEvent
  /\ Reconnected \in SessionEvent
<1>1. ASSUME NEW now \in Int PROVE SessionStarted(now) \in SessionEvent
  <2>1. SessionStarted(now) \in {SessionStarted(n1) : n1 \in Int}
    OBVIOUS
  <2> QED BY <2>1 DEF SessionEvent
<1>2. ASSUME NEW now \in Int PROVE TimerTick(now) \in SessionEvent
  <2>1. TimerTick(now) \in {TimerTick(n1) : n1 \in Int}
    OBVIOUS
  <2> QED BY <2>1 DEF SessionEvent
<1>3. ASSUME NEW t \in TurnId, NEW now \in Int PROVE CandidateTurnReceived(t, now) \in SessionEvent
  <2>1. CandidateTurnReceived(t, now) \in {CandidateTurnReceived(t1, n1) : t1 \in TurnId, n1 \in Int}
    OBVIOUS
  <2> QED BY <2>1 DEF SessionEvent
<1>4. ASSUME NEW t \in Int, NEW m \in InterviewerMove PROVE InterviewerReplyReady(t, m) \in SessionEvent
  <2>1. InterviewerReplyReady(t, m) \in {InterviewerReplyReady(t1, m1) : t1 \in Int, m1 \in InterviewerMove}
    OBVIOUS
  <2> QED BY <2>1 DEF SessionEvent
<1>5. ASSUME NEW t \in Int PROVE InterviewerFailed(t) \in SessionEvent
  <2>1. InterviewerFailed(t) \in {InterviewerFailed(t1) : t1 \in Int}
    OBVIOUS
  <2> QED BY <2>1 DEF SessionEvent
<1>6. ASSUME NEW t \in TurnId, NEW out \in AssessorOutput PROVE AssessmentCompleted(t, out) \in SessionEvent
  <2>1. AssessmentCompleted(t, out) \in {AssessmentCompleted(t1, o1) : t1 \in TurnId, o1 \in AssessorOutput}
    OBVIOUS
  <2> QED BY <2>1 DEF SessionEvent
<1>7. ASSUME NEW t \in TurnId PROVE AssessmentFailed(t) \in SessionEvent
  <2>1. AssessmentFailed(t) \in {AssessmentFailed(t1) : t1 \in TurnId}
    OBVIOUS
  <2> QED BY <2>1 DEF SessionEvent
<1>8. ASSUME NEW reason \in AbortReason PROVE OperatorAbort(reason) \in SessionEvent
  <2>1. OperatorAbort(reason) \in {OperatorAbort(r1) : r1 \in AbortReason}
    OBVIOUS
  <2> QED BY <2>1 DEF SessionEvent
<1>9. Reconnected \in SessionEvent
  BY DEF SessionEvent
<1> QED BY <1>1, <1>2, <1>3, <1>4, <1>5, <1>6, <1>7, <1>8, <1>9
=============================================================================
