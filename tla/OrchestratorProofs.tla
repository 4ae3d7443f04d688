------------------------- MODULE OrchestratorProofs -------------------------
(***************************************************************************)
(* Theorems about a session driven by any sequence of events, for every    *)
(* plan, threshold and number of turns.                                    *)
(*                                                                         *)
(* Typing alone is not inductive: the handlers read the plan, so TypeOK    *)
(* needs PlanHolds.  OneDecision needs the abort reason's record and the   *)
(* refinement needs that an unstarted session has no candidate activity;   *)
(* IInv is the conjunction.                                                *)
(***************************************************************************)
EXTENDS Orchestrator, TransitionSteps, FiniteSetTheorems

\* Nothing has been heard before the session starts.
NotYetActive == st.phase = "created" => st.last_candidate_activity = Never

IInv == TypeOK /\ PlanHolds /\ FlaggedIffThreshold /\ TurnTaking /\ OneDecision /\ NotYetActive

-----------------------------------------------------------------------------
\* What one event does to the state and to the record of commands.
LEMMA ApplyStep ==
  ASSUME IInv, NEW e \in SessionEvent, NEW raised, Apply(e, raised)
  PROVE  /\ st' = transition(st, e).new_state /\ st' \in SessionState
         /\ Sound(st, transition(st, e))
         /\ decisions' = decisions \o Decided(transition(st, e))
         /\ deliveries' = deliveries \o Delivered(transition(st, e))
<1>1. st \in SessionState /\ PlanHoldsIn(st) /\ FlaggedIn(st)
  BY DEF IInv, TypeOK, PlanHolds, FlaggedIffThreshold
<1>2. Sound(st, transition(st, e)) /\ transition(st, e).new_state \in SessionState
  BY <1>1, TransitionSound, TransitionType
<1> QED BY <1>2 DEF Apply, Decided, Delivered

\* A history grows by at most one entry.
LEMMA GrowSeq ==
  ASSUME NEW S, NEW q \in Seq(S), NEW w, w = <<>> \/ \E x \in S : w = <<x>>
  PROVE  q \o w \in Seq(S)
<1>1. <<>> \in Seq(S) /\ \A x \in S : <<x>> \in Seq(S)
  OBVIOUS
<1>2. w \in Seq(S)
  BY <1>1
<1> QED BY <1>2, ConcatProperties

\* One command is recorded at a time.
LEMMA RecordTypes ==
  ASSUME IInv, NEW e \in SessionEvent, NEW raised, Apply(e, raised)
  PROVE  /\ scheduled' \in [TurnId -> Node \cup {NoNode}]
         /\ gaps' \in Seq([kind : {"record_gap"}, node : Node, marker : GapMarker])
<1> DEFINE r == transition(st, e)
<1>1. TypedCommands(r)
  BY TransitionTyped DEF IInv, TypeOK, PlanHolds
<1>2. Emitted(r, "record_gap") = <<>> \/ \E c \in GapRecord : Emitted(r, "record_gap") = <<c>>
  BY <1>1, EmittedAny DEF TypedCommands, Typed
<1>3. Emitted(r, "run_assessor") = <<>> \/ \E c \in AssessorCall : Emitted(r, "run_assessor") = <<c>>
  BY <1>1, EmittedAny DEF TypedCommands, Typed
<1>4. gaps \in Seq(GapRecord) /\ scheduled \in [TurnId -> Node \cup {NoNode}]
  BY DEF IInv, TypeOK, GapRecord
<1>5. gaps' = gaps \o Emitted(r, "record_gap")
  BY DEF Apply
<1>6. gaps' \in Seq(GapRecord)
  <2> HIDE DEF r
  <2> QED BY <1>2, <1>4, <1>5, GrowSeq
<1>7. scheduled' \in [TurnId -> Node \cup {NoNode}]
  <2>1. scheduled' = IF Emitted(r, "run_assessor") = <<>> THEN scheduled
                     ELSE [scheduled EXCEPT ![Emitted(r, "run_assessor")[1].turn_id] =
                                               Emitted(r, "run_assessor")[1].node]
    BY DEF Apply
  <2> HIDE DEF r
  <2>2. CASE Emitted(r, "run_assessor") = <<>>
    BY <1>4, <2>1, <2>2
  <2>3. ASSUME NEW c \in AssessorCall, Emitted(r, "run_assessor") = <<c>>
        PROVE  scheduled' \in [TurnId -> Node \cup {NoNode}]
    <3>1. Emitted(r, "run_assessor") # <<>> /\ Emitted(r, "run_assessor")[1] = c
      BY <2>3
    <3>2. c.turn_id \in TurnId /\ c.node \in Node
      BY DEF AssessorCall
    <3>3. scheduled' = [scheduled EXCEPT ![c.turn_id] = c.node]
      BY <2>1, <3>1
    <3> QED BY <1>4, <3>2, <3>3
  <2> QED BY <1>3, <2>2, <2>3
<1> QED BY <1>6, <1>7 DEF GapRecord

\* The decisions and deliveries recorded, by step.
LEMMA DecisionTypes ==
  ASSUME IInv, NEW e \in SessionEvent, NEW raised, Apply(e, raised)
  PROVE  /\ decisions' \in Seq([kind : {"record_decision"}, reason : DecisionReason])
         /\ deliveries' \in Seq(PendingCommand)
<1> DEFINE r == transition(st, e)
           D == [kind : {"record_decision"}, reason : DecisionReason]
<1>1. decisions \in Seq(D) /\ deliveries \in Seq(PendingCommand) /\ st \in SessionState
  BY DEF IInv, TypeOK
<1>2. Step(st, r)
  BY ApplyStep DEF Sound
<1>3. \A x \in DecisionReason : RecordDecision(x) \in D
  BY DEF RecordDecision
<1>4. Outbound("deliver_utterance", st.pending_command.turn_id) \in PendingCommand
  <2>1. st.pending_command.turn_id \in Int
    BY <1>1 DEF SessionState, PendingCommand
  <2> QED BY <2>1, CommandTypes
<1>5. Decided(r) = <<>> \/ \E x \in DecisionReason : Decided(r) = <<RecordDecision(x)>>
  <2> HIDE DEF r
  <2>1. /\ "plan_invalid" \in DecisionReason /\ "agent_failure" \in DecisionReason
        /\ "timeout" \in DecisionReason /\ "operator" \in DecisionReason
        /\ "completed" \in DecisionReason
    BY DEF DecisionReason
  <2>2. ASSUME NEW to, NEW reason, NEW decision \in DecisionReason, Ends(st, r, to, reason, decision)
        PROVE  \E x \in DecisionReason : Decided(r) = <<RecordDecision(x)>>
    BY <2>2 DEF Ends
  <2>3. ASSUME NEW from, NEW to, NEW kind, Moves(st, r, from, to, kind) PROVE Decided(r) = <<>>
    BY <2>3 DEF Moves, Silent
  <2>4. Quiet(st, r) \/ Retries(st, r) \/ Delivers(st, r) => Decided(r) = <<>>
    BY DEF Quiet, Retries, Delivers, Silent
  <2> QED BY <1>2, <2>1, <2>2, <2>3, <2>4 DEF Step
<1>6. Delivered(r) = <<>> \/ \E x \in PendingCommand : Delivered(r) = <<x>>
  <2> HIDE DEF r
  <2>1. ASSUME NEW from, NEW to, NEW kind, Moves(st, r, from, to, kind) PROVE Delivered(r) = <<>>
    BY <2>1 DEF Moves, Silent
  <2>2. ASSUME NEW to, NEW reason, NEW decision, Ends(st, r, to, reason, decision)
        PROVE  Delivered(r) = <<>>
    BY <2>2 DEF Ends
  <2>3. Quiet(st, r) \/ Retries(st, r) => Delivered(r) = <<>>
    BY DEF Quiet, Retries, Silent
  <2>4. Delivers(st, r) => Delivered(r) = <<Outbound("deliver_utterance", st.pending_command.turn_id)>>
    BY DEF Delivers
  <2> QED BY <1>2, <1>4, <2>1, <2>2, <2>3, <2>4 DEF Step
<1>7. decisions' = decisions \o Decided(r) /\ deliveries' = deliveries \o Delivered(r)
  BY ApplyStep
<1> HIDE DEF r, D
<1>8. decisions' \in Seq(D)
  BY <1>1, <1>3, <1>5, <1>7, GrowSeq
<1>9. deliveries' \in Seq(PendingCommand)
  BY <1>1, <1>6, <1>7, GrowSeq
<1> QED BY <1>8, <1>9 DEF D

\* One decision, by step.
LEMMA StepOneDecision ==
  ASSUME IInv, NEW e \in SessionEvent, NEW raised, Apply(e, raised)
  PROVE  OneDecision'
<1> DEFINE r == transition(st, e)
<1>1. st' = r.new_state /\ Step(st, r) /\ decisions' = decisions \o Decided(r)
  BY ApplyStep DEF Sound
<1>2. OneDecision /\ decisions \in Seq([kind : {"record_decision"}, reason : DecisionReason])
  BY DEF IInv, TypeOK
<1> HIDE DEF r
<1>3. ASSUME Decided(r) = <<>>, st'.abort_reason = st.abort_reason,
             st'.phase = st.phase \/ (st.phase \notin TerminalPhases /\ st'.phase \notin TerminalPhases)
      PROVE  OneDecision'
  <2>1. decisions' = decisions
    BY <1>1, <1>2, <1>3
  <2> QED BY <1>2, <1>3, <2>1 DEF OneDecision, Live, TerminalPhases
<1>4. CASE Quiet(st, r) \/ Retries(st, r)
  BY <1>1, <1>3, <1>4 DEF Quiet, Retries, Silent
<1>5. CASE Delivers(st, r)
  BY <1>1, <1>3, <1>5 DEF Delivers
<1>6. ASSUME NEW from, NEW to, NEW kind, Moves(st, r, from, to, kind),
             from \notin TerminalPhases, to \notin TerminalPhases
      PROVE  OneDecision'
  BY <1>1, <1>3, <1>6 DEF Moves, Silent
<1>7. ASSUME NEW to, NEW reason, NEW decision, Ends(st, r, to, reason, decision),
             \/ to = "completed" /\ reason = st.abort_reason /\ decision = "completed"
             \/ to = "aborted" /\ reason = "candidate_timeout" /\ decision = "timeout"
             \/ to = "aborted" /\ reason = "fatal_agent_error" /\ decision = "agent_failure"
             \/ to = "aborted" /\ reason \in AbortReason /\ decision \in {"operator", "plan_invalid"}
      PROVE  OneDecision'
  <2>1. decisions = <<>> /\ st.abort_reason = "none"
    BY <1>2, <1>7 DEF OneDecision, Live, Ends, TerminalPhases
  <2>2. decisions' = <<RecordDecision(decision)>> /\ RecordDecision(decision).reason = decision
    BY <1>1, <1>7, <2>1, CommandKinds DEF Ends
  <2>3. Len(decisions') = 1 /\ decisions'[1] = RecordDecision(decision) /\ decisions' # <<>>
    BY <2>2
  <2>4. st'.phase = to /\ st'.abort_reason = reason
    BY <1>1, <1>7 DEF Ends
  <2> QED BY <1>7, <2>1, <2>2, <2>3, <2>4 DEF OneDecision, Live, TerminalPhases, AbortReason
<1>8. "operator_abort" \in AbortReason
  BY DEF AbortReason
<1> QED BY <1>1, <1>4, <1>5, <1>6, <1>7, <1>8 DEF Step, TerminalPhases

\* An event keeps the part of the invariant that speaks of the session.
LEMMA ApplyInvariant ==
  ASSUME IInv, NEW e \in SessionEvent, NEW raised, Apply(e, raised)
  PROVE  /\ st' \in SessionState /\ PlanHolds' /\ FlaggedIffThreshold'
         /\ TurnTaking' /\ OneDecision' /\ NotYetActive'
         /\ scheduled' \in [TurnId -> Node \cup {NoNode}]
         /\ decisions' \in Seq([kind : {"record_decision"}, reason : DecisionReason])
         /\ deliveries' \in Seq(PendingCommand)
         /\ gaps' \in Seq([kind : {"record_gap"}, node : Node, marker : GapMarker])
         /\ overtime' \in Nat
<1> DEFINE r == transition(st, e)
<1>1. st' = r.new_state /\ st' \in SessionState /\ Sound(st, r)
  BY ApplyStep
<1>2. PlanHolds' /\ FlaggedIffThreshold'
  BY <1>1 DEF Sound, PlanHolds, FlaggedIffThreshold
<1>3. TurnTaking'
  <2>1. st \in SessionState /\ TurnTakingIn(st)
    BY DEF IInv, TypeOK, TurnTaking
  <2> HIDE DEF r
  <2>2. TurnTakingIn(r.new_state)
    BY <1>1, <2>1, StepTurnTaking DEF Sound
  <2> QED BY <1>1, <2>2 DEF TurnTaking
<1>4. NotYetActive'
  <2>1. CASE r.new_state.phase = "created"
    <3> HIDE DEF r
    <3>1. st.phase = "created"
      BY <1>1, <2>1 DEF Sound, Step, Quiet, Retries, Delivers, Moves, Ends, TerminalPhases
    <3>2. st.last_candidate_activity = Never
      BY <3>1 DEF IInv, NotYetActive
    <3> QED BY <1>1, <2>1, <3>2 DEF Sound, NotYetActive
  <2>2. CASE r.new_state.phase # "created"
    BY <1>1, <2>2 DEF NotYetActive
  <2> QED BY <2>1, <2>2
<1>5. overtime' \in Nat
  BY DEF Apply, IInv, TypeOK
<1> QED BY <1>1, <1>2, <1>3, <1>4, <1>5, RecordTypes, DecisionTypes, StepOneDecision

\* The failures raised for the newest turn stay within the environment's bound.
LEMMA MissesType ==
  ASSUME IInv, NEW e, NEW raised, Apply(e, raised),
         raised = 0 \/ (raised = 1 /\ misses < MaxMisses)
  PROVE  misses' \in 0..MaxMisses
<1>1. misses \in 0..MaxMisses /\ MaxMisses = 2
  BY DEF IInv, TypeOK, MaxMisses
<1>2. misses' = misses + raised \/ misses' = 0
  BY DEF Apply
<1> QED BY <1>1, <1>2, SMT

-----------------------------------------------------------------------------
\* The initial states.
LEMMA InitIInv == Init => IInv
<1> SUFFICES ASSUME Init PROVE IInv
  OBVIOUS
<1>1. PICK p \in Plans : st = initial_state(p)
  BY DEF Init
<1>2. /\ st \in SessionState /\ TurnTakingIn(st) /\ PlanHoldsIn(st) /\ FlaggedIn(st)
      /\ st.phase = "created" /\ st.abort_reason = "none" /\ st.last_candidate_activity = Never
  BY <1>1, InitialState, Zenon
<1>4. PlanHolds /\ NotYetActive
  BY <1>2 DEF PlanHolds, NotYetActive
<1>5. FlaggedIffThreshold
  BY <1>2 DEF FlaggedIffThreshold
<1>6. TurnTaking
  BY <1>2 DEF TurnTaking
<1>7. OneDecision
  BY <1>2 DEF Init, OneDecision, Live, TerminalPhases
<1>8. TypeOK
  <2>1. /\ accepted \in Seq(AssessorOutput) /\ deliveries \in Seq(PendingCommand)
        /\ decisions \in Seq([kind : {"record_decision"}, reason : DecisionReason])
        /\ gaps \in Seq([kind : {"record_gap"}, node : Node, marker : GapMarker])
    BY EmptySeq DEF Init
  <2>2. clock \in Nat /\ turns \in Nat /\ misses \in 0..MaxMisses /\ overtime \in Nat
    BY SMT DEF Init, MaxMisses
  <2> QED BY <1>2, <2>1, <2>2 DEF Init, TypeOK
<1> QED BY <1>4, <1>5, <1>6, <1>7, <1>8 DEF IInv

\* The events of the actions.
LEMMA EventTypes ==
  ASSUME IInv
  PROVE  /\ SessionStarted(clock) \in SessionEvent /\ TimerTick(clock) \in SessionEvent
         /\ Reconnected \in SessionEvent
         /\ turns \in TurnId => CandidateTurnReceived(turns, clock) \in SessionEvent
         /\ \A t \in 1..(st.turn_seq - 1), m \in {st.last_issued_move, "redirect"} \ {"none"} :
              InterviewerReplyReady(t, m) \in SessionEvent
         /\ \A t \in 1..(st.turn_seq - 1) : InterviewerFailed(t) \in SessionEvent
         /\ \A t \in TurnId, out \in AssessorOutputs : AssessmentCompleted(t, out) \in SessionEvent
         /\ \A t \in TurnId : AssessmentFailed(t) \in SessionEvent
         /\ \A reason \in {"operator_abort", "cost_ceiling"} : OperatorAbort(reason) \in SessionEvent
<1>1. clock \in Int /\ st.turn_seq \in Nat
      /\ st.last_issued_move \in InterviewerMove \cup {"none"}
  BY DEF IInv, TypeOK, SessionState
<1>2. \A t \in 1..(st.turn_seq - 1) : t \in Int
  BY <1>1, SMT
<1>3. \A m \in {st.last_issued_move, "redirect"} \ {"none"} : m \in InterviewerMove
  BY <1>1 DEF InterviewerMove
<1>4. "operator_abort" \in AbortReason /\ "cost_ceiling" \in AbortReason
  BY DEF AbortReason
<1>5. \A out \in AssessorOutputs : out \in AssessorOutput
  BY OutputAssumption
<1> QED BY <1>1, <1>2, <1>3, <1>4, <1>5, EventConstructors, Zenon

\* One event, and what it leaves to be shown of the invariant.
LEMMA ApplyIInv ==
  ASSUME IInv, NEW e \in SessionEvent, NEW raised, Apply(e, raised),
         raised = 0 \/ (raised = 1 /\ misses < MaxMisses),
         clock' = clock, turns' \in Nat, accepted' \in Seq(AssessorOutput), resolved' \subseteq TurnId
  PROVE  IInv'
<1>1. clock' \in Nat
  BY DEF IInv, TypeOK
<1> QED BY <1>1, ApplyInvariant, MissesType DEF IInv, TypeOK

\* The invariant is inductive.
LEMMA NextIInv == IInv /\ [Next]_vars => IInv'
<1> SUFFICES ASSUME IInv, [Next]_vars PROVE IInv'
  OBVIOUS
<1> USE EventTypes
<1>0. /\ clock \in Nat /\ turns \in Nat /\ accepted \in Seq(AssessorOutput)
      /\ resolved \subseteq TurnId
  BY DEF IInv, TypeOK
<1>1. CASE Start
  BY <1>0, <1>1, ApplyIInv DEF Start
<1>2. CASE CandidateTurn
  <2>1. turns' \in Nat
    BY <1>0, <1>2 DEF CandidateTurn
  <2> QED BY <1>0, <1>2, <2>1, ApplyIInv DEF CandidateTurn
<1>3. CASE InterviewerReply
  BY <1>0, <1>3, ApplyIInv DEF InterviewerReply
<1>4. CASE InterviewerFailure
  <2>1. PICK t \in 1..(st.turn_seq - 1) :
          /\ t = st.turn_seq - 1 => misses < MaxMisses
          /\ Apply(InterviewerFailed(t), IF t = st.turn_seq - 1 THEN 1 ELSE 0)
    BY <1>4 DEF InterviewerFailure
  <2> DEFINE raised == IF t = st.turn_seq - 1 THEN 1 ELSE 0
  <2>2. raised = 0 \/ (raised = 1 /\ misses < MaxMisses)
    BY <2>1
  <2>3. UNCHANGED <<clock, turns, accepted, resolved>>
    BY <1>4 DEF InterviewerFailure
  <2> HIDE DEF raised
  <2>4. Apply(InterviewerFailed(t), raised)
    BY <2>1 DEF raised
  <2> QED BY <1>0, <2>2, <2>3, <2>4, ApplyIInv
<1>5. CASE Assessment
  <2>1. PICK t \in TurnId, out \in AssessorOutputs :
          /\ Apply(AssessmentCompleted(t, out), 0)
          /\ IF st' = st THEN UNCHANGED <<accepted, resolved>>
             ELSE accepted' = Append(accepted, out) /\ resolved' = resolved \cup {t}
    BY <1>5 DEF Assessment
  <2>2. accepted' \in Seq(AssessorOutput) /\ resolved' \subseteq TurnId
    <3>1. out \in AssessorOutput
      BY OutputAssumption
    <3>2. Append(accepted, out) \in Seq(AssessorOutput)
      BY <1>0, <3>1
    <3> QED BY <1>0, <2>1, <3>2
  <2>3. UNCHANGED <<clock, turns>>
    BY <1>5 DEF Assessment
  <2> QED BY <1>0, <2>1, <2>2, <2>3, ApplyIInv
<1>6. CASE AssessmentFailure
  <2>1. PICK t \in TurnId :
          /\ Apply(AssessmentFailed(t), 0)
          /\ resolved' = IF st' = st THEN resolved ELSE resolved \cup {t}
    BY <1>6 DEF AssessmentFailure
  <2>2. resolved' \subseteq TurnId
    BY <1>0, <2>1
  <2>3. UNCHANGED <<clock, turns, accepted>>
    BY <1>6 DEF AssessmentFailure
  <2> QED BY <1>0, <2>1, <2>2, <2>3, ApplyIInv
<1>7. CASE Tick
  BY <1>0, <1>7, ApplyIInv DEF Tick
<1>8. CASE Resume
  BY <1>0, <1>8, ApplyIInv DEF Resume
<1>9. CASE Operator
  BY <1>0, <1>9, ApplyIInv DEF Operator
<1>10. CASE Elapse
  <2>1. clock' \in Nat
    BY <1>0, <1>10 DEF Elapse
  <2> QED BY <1>10, <2>1
      DEF Elapse, IInv, TypeOK, PlanHolds, FlaggedIffThreshold, TurnTaking, OneDecision, Live,
          NotYetActive
<1>11. CASE UNCHANGED vars
  BY <1>11 DEF vars, IInv, TypeOK, PlanHolds, FlaggedIffThreshold, TurnTaking, OneDecision, Live,
               NotYetActive
<1> QED BY <1>1, <1>2, <1>3, <1>4, <1>5, <1>6, <1>7, <1>8, <1>9, <1>10, <1>11 DEF Next

-----------------------------------------------------------------------------
\* The invariant, and the properties that are its parts.
THEOREM Invariance == Spec => []IInv
  BY InitIInv, NextIInv, PTL DEF Spec

\* Every session state is a record of the declared type and every history is
\* well typed.
THEOREM TypeCorrect == Spec => []TypeOK
<1>1. IInv => TypeOK
  BY DEF IInv
<1> QED BY <1>1, Invariance, PTL

\* No sequence of events makes a handler raise OrchestratorStateError: past
\* CREATED there is a validated plan, and the competency loop stays in it.
THEOREM PlanAlwaysHolds == Spec => []PlanHolds
<1>1. IInv => PlanHolds
  BY DEF IInv
<1> QED BY <1>1, Invariance, PTL

\* The machine never waits for what no pending command can bring, and a resume
\* re-issues exactly the newest outstanding turn.
THEOREM TurnTakingHolds == Spec => []TurnTaking
<1>1. IInv => TurnTaking
  BY DEF IInv
<1> QED BY <1>1, Invariance, PTL

\* Sections 5 and 6.4: the review flag is up exactly when one of the two
\* thresholds was reached, whatever order drift and assessments come in.
THEOREM FlagIsExact == Spec => []FlaggedIffThreshold
<1>1. IInv => FlaggedIffThreshold
  BY DEF IInv
<1> QED BY <1>1, Invariance, PTL

\* A session records one decision, when it ends, and the one its abort
\* reason stands for.
THEOREM OneDecisionHolds == Spec => []OneDecision
<1>1. IInv => OneDecision
  BY DEF IInv
<1> QED BY <1>1, Invariance, PTL

-----------------------------------------------------------------------------
\* The order of deliveries.

\* One event delivers the outstanding turn, which is newer than all before,
\* or moves turn_seq past everything delivered.
LEMMA ApplyInOrder ==
  ASSUME IInv, InOrderDelivery, NEW e \in SessionEvent, NEW raised, Apply(e, raised)
  PROVE  InOrderDelivery'
<1> DEFINE r == transition(st, e)
<1>1. /\ st' = r.new_state /\ Step(st, r)
      /\ deliveries' = deliveries \o Delivered(r)
  BY ApplyStep DEF Sound
<1>2. /\ TurnTaking /\ st.turn_seq \in Nat
      /\ deliveries \in Seq(PendingCommand)
  <2>1. /\ TurnTaking /\ st \in SessionState
        /\ deliveries \in Seq(PendingCommand)
    BY DEF IInv, TypeOK
  <2>2. st.turn_seq \in Nat
    BY <2>1 DEF SessionState
  <2> QED BY <2>1, <2>2
<1> HIDE DEF r
<1>3. \A i \in DOMAIN deliveries : deliveries[i].turn_id \in Int
  <2>1. \A i \in DOMAIN deliveries : deliveries[i] \in PendingCommand
    BY <1>2
  <2>2. \A p \in PendingCommand : p.turn_id \in Int
    BY DEF PendingCommand
  <2> QED BY <2>1, <2>2
<1>4. Delivered(r) = <<>> => deliveries' = deliveries
  BY <1>1, <1>2
<1>5. CASE Delivers(st, r)
  <2> DEFINE d == Outbound("deliver_utterance", st.pending_command.turn_id)
  <2>1. st.awaiting = "interviewer" /\ st'.awaiting = "candidate" /\ st'.turn_seq = st.turn_seq
    BY <1>1, <1>5 DEF Delivers, InFlight
  <2>2. d.turn_id = st.turn_seq - 1
    <3>1. d.turn_id = st.pending_command.turn_id
      BY CommandKinds DEF Outbound
    <3> QED BY <1>2, <2>1, <3>1 DEF TurnTaking, TurnTakingIn
  <2>3. deliveries' = Append(deliveries, d)
    <3>1. Delivered(r) = <<d>>
      BY <1>5 DEF Delivers
    <3> HIDE DEF d
    <3>2. deliveries \o <<d>> = Append(deliveries, d)
      BY <1>2, <3>1
    <3> QED BY <1>1, <3>1, <3>2
  <2> HIDE DEF d
  <2>4. /\ Len(deliveries) \in Nat /\ DOMAIN deliveries = 1..Len(deliveries)
        /\ DOMAIN deliveries' = 1..(Len(deliveries) + 1)
        /\ \A i \in 1..Len(deliveries) : deliveries'[i] = deliveries[i]
        /\ deliveries'[Len(deliveries) + 1] = d
    BY <1>2, <2>3
  <2>5. \A i \in DOMAIN deliveries : deliveries[i].turn_id < st.turn_seq - 1
    BY <2>1 DEF InOrderDelivery
  <2>6. \A i, j \in DOMAIN deliveries' : i < j => deliveries'[i].turn_id < deliveries'[j].turn_id
    <3> SUFFICES ASSUME NEW i \in DOMAIN deliveries', NEW j \in DOMAIN deliveries', i < j
                 PROVE  deliveries'[i].turn_id < deliveries'[j].turn_id
      OBVIOUS
    <3>1. i \in 1..Len(deliveries)
      BY <2>4
    <3>2. CASE j \in 1..Len(deliveries)
      BY <2>4, <3>1, <3>2 DEF InOrderDelivery
    <3>3. CASE j = Len(deliveries) + 1
      BY <2>2, <2>4, <2>5, <3>1, <3>3
    <3> QED BY <2>4, <3>2, <3>3
  <2>7. \A i \in DOMAIN deliveries' : deliveries'[i].turn_id < st'.turn_seq
    <3> SUFFICES ASSUME NEW i \in DOMAIN deliveries' PROVE deliveries'[i].turn_id < st'.turn_seq
      OBVIOUS
    <3>1. CASE i \in 1..Len(deliveries)
      BY <2>1, <2>4, <3>1 DEF InOrderDelivery
    <3>2. CASE i = Len(deliveries) + 1
      BY <1>2, <2>1, <2>2, <2>4, <3>2
    <3> QED BY <2>4, <3>1, <3>2
  <2> QED BY <2>1, <2>6, <2>7 DEF InOrderDelivery
<1>6. ASSUME NEW from, NEW to, NEW kind, Moves(st, r, from, to, kind)
      PROVE  InOrderDelivery'
  <2>1. st'.turn_seq = st.turn_seq + 1 /\ deliveries' = deliveries
    BY <1>1, <1>4, <1>6 DEF Moves, Silent
  <2>2. \A i \in DOMAIN deliveries :
          deliveries[i].turn_id < st'.turn_seq /\ deliveries[i].turn_id < st'.turn_seq - 1
    BY <1>2, <1>3, <2>1 DEF InOrderDelivery
  <2> QED BY <2>1, <2>2 DEF InOrderDelivery
<1>7. ASSUME NEW to, NEW reason, NEW decision, Ends(st, r, to, reason, decision)
      PROVE  InOrderDelivery'
  <2>1. st'.turn_seq = st.turn_seq /\ deliveries' = deliveries /\ st'.awaiting = "none"
    BY <1>1, <1>4, <1>7 DEF Ends
  <2> QED BY <2>1 DEF InOrderDelivery
<1>8. CASE Quiet(st, r) \/ Retries(st, r)
  <2>1. st'.turn_seq = st.turn_seq /\ deliveries' = deliveries /\ st'.awaiting = st.awaiting
    BY <1>1, <1>4, <1>8 DEF Quiet, Retries, Silent
  <2> QED BY <2>1 DEF InOrderDelivery
<1> QED BY <1>1, <1>5, <1>6, <1>7, <1>8 DEF Step

\* Section 6.9a: whatever is answered late, twice or after a resume, the
\* candidate hears the turns in order, each at most once.
THEOREM DeliveredInOrder == Spec => []InOrderDelivery
<1>1. Init => InOrderDelivery
  BY DEF Init, InOrderDelivery
<1>2. ASSUME IInv, InOrderDelivery, [Next]_vars PROVE InOrderDelivery'
  <2>1. ASSUME NEW e \in SessionEvent, NEW raised, Apply(e, raised)
        PROVE  InOrderDelivery'
    BY <1>2, <2>1, ApplyInOrder
  <2>2. CASE Elapse \/ UNCHANGED vars
    BY <1>2, <2>2 DEF Elapse, vars, InOrderDelivery
  <2>3. CASE Start \/ CandidateTurn \/ Tick \/ Resume
    BY <1>2, <2>1, <2>3, EventTypes DEF Start, CandidateTurn, Tick, Resume
  <2>4. CASE InterviewerReply \/ InterviewerFailure
    BY <1>2, <2>1, <2>4, EventTypes DEF InterviewerReply, InterviewerFailure
  <2>5. CASE Assessment \/ AssessmentFailure \/ Operator
    BY <1>2, <2>1, <2>5, EventTypes DEF Assessment, AssessmentFailure, Operator
  <2> QED BY <1>2, <2>2, <2>3, <2>4, <2>5 DEF Next
<1> QED BY <1>1, <1>2, Invariance, PTL DEF Spec

-----------------------------------------------------------------------------
\* The end of an overdue session.

\* The k-th overtime tick has pushed the session k phases on; it can only
\* have been in TECH before the first.
OvertimeInv ==
  /\ overtime \in 0..3
  /\ overtime >= 1 => st.phase \in Over({"qa", "close"})
  /\ overtime >= 2 => st.phase \in Over({"close"})
  /\ overtime >= 3 => st.phase \in TerminalPhases

\* A tick past the session limit takes the session out of its phase.
LEMMA TickAdvances ==
  ASSUME NEW s \in SessionState, s.phase \in {"tech", "qa", "close"},
         NEW now \in Int, session_budget_exhausted(s, now)
  PROVE  LET to == transition(s, TimerTick(now)).new_state.phase
         IN  /\ s.phase = "tech" => to \in Over({"qa"})
             /\ s.phase = "qa" => to \in Over({"close"})
             /\ s.phase = "close" => to \in TerminalPhases
<1> DEFINE e == TimerTick(now)
           r == on_timer_tick(s, e)
           asked == enter_qa(s, now)
           late == abort(s, "candidate_timeout", "timeout", TRUE)
<1>1. e.kind = "timer_tick" /\ e.now = now /\ s.phase \notin TerminalPhases
  BY DEF TimerTick, TerminalPhases
<1>2. transition(s, e) = r /\ session_budget_exhausted(s, e.now)
  BY <1>1, Dispatch
<1>3. \/ r = late
      \/ s.phase = "tech" /\ r = Result(asked, <<asked.pending_command>>)
      \/ s.phase = "qa" /\ r = enter_close(s)
      \/ s.phase = "close" /\ r = complete(s)
  BY <1>1, <1>2, Zenon DEF on_timer_tick
<1>4. late.new_state.phase = "aborted"
  <2>1. Ends(s, late, "aborted", "candidate_timeout", "timeout")
    BY <1>1, AbortStep
  <2> QED BY <2>1, Zenon DEF Ends
<1>5. Result(asked, <<asked.pending_command>>).new_state.phase = "qa"
  <2> DEFINE w == [s EXCEPT !.phase = "qa", !.qa_started_at = now]
  <2>1. w \in SessionState /\ w.phase = "qa"
    BY Zenon DEF SessionState, Phase
  <2>2. asked = issue_interviewer(w, "acknowledge_and_transition", NoNode)
    BY DEF enter_qa
  <2> HIDE DEF w, asked
  <2>3. asked.phase = "qa"
    BY <2>1, <2>2, IssueFields
  <2> QED BY <2>3 DEF Result
<1>6. enter_close(s).new_state.phase = "close"
  BY CloseStep DEF Moves
<1>7. s.phase = "close" => complete(s).new_state.phase = "completed"
  BY CompleteStep DEF Ends
<1> HIDE DEF r, asked, late
<1>8. \/ r.new_state.phase = "aborted"
      \/ s.phase = "tech" /\ r.new_state.phase = "qa"
      \/ s.phase = "qa" /\ r.new_state.phase = "close"
      \/ s.phase = "close" /\ r.new_state.phase = "completed"
  BY <1>3, <1>4, <1>5, <1>6, <1>7
<1> QED BY <1>2, <1>8 DEF Over, TerminalPhases

\* Every event but a tick leaves the count alone; a tick of an overdue session
\* raises it and moves the phase.
LEMMA ApplyOvertime ==
  ASSUME IInv, OvertimeInv, NEW e \in SessionEvent, NEW raised, Apply(e, raised),
         e.kind # "timer_tick" \/ e = TimerTick(clock)
  PROVE  OvertimeInv'
<1> DEFINE r == transition(st, e)
           to == r.new_state.phase
<1>1. st' = r.new_state /\ Step(st, r)
  BY ApplyStep DEF Sound
<1>2. st'.phase = to
  BY <1>1
<1>3. st \in SessionState /\ clock \in Int
  BY DEF IInv, TypeOK
<1>4. /\ st.phase \in Over({"qa", "close"}) => to \in Over({"qa", "close"})
      /\ st.phase \in Over({"close"}) => to \in Over({"close"})
      /\ st.phase \in TerminalPhases => to \in TerminalPhases
  BY <1>1, PhasesAdvance
<1> HIDE DEF r
<1>5. CASE overtime' = overtime
  BY <1>2, <1>4, <1>5 DEF OvertimeInv
<1>6. CASE /\ e.kind = "timer_tick" /\ st.phase \in {"tech", "qa", "close"}
           /\ session_budget_exhausted(st, clock) /\ overtime' = overtime + 1
  <2>1. /\ st.phase = "tech" => to \in Over({"qa"})
        /\ st.phase = "qa" => to \in Over({"close"})
        /\ st.phase = "close" => to \in TerminalPhases
    BY <1>3, <1>6, TickAdvances DEF r
  <2>2. /\ overtime \in {0, 1, 2, 3}
        /\ overtime = 3 => st.phase \in TerminalPhases
        /\ overtime >= 2 => st.phase \in Over({"close"})
        /\ overtime >= 1 => st.phase \in Over({"qa", "close"})
    BY DEF OvertimeInv
  <2> QED BY <1>2, <1>6, <2>1, <2>2 DEF OvertimeInv, Over, TerminalPhases
<1> QED BY <1>5, <1>6 DEF Apply

\* Edges 14, 16, 17: whatever the candidate and the agents do, three ticks past the
\* session limit end the session, one for each phase still to come.
THEOREM OvertimeEnds == Spec => []OvertimeIsBounded
<1>1. Init => OvertimeInv
  BY DEF Init, OvertimeInv
<1>2. ASSUME IInv, OvertimeInv, [Next]_vars PROVE OvertimeInv'
  <2>1. ASSUME NEW e \in SessionEvent, NEW raised, Apply(e, raised),
               e.kind # "timer_tick" \/ e = TimerTick(clock)
        PROVE  OvertimeInv'
    BY <1>2, <2>1, ApplyOvertime
  <2>2. CASE Elapse \/ UNCHANGED vars
    BY <1>2, <2>2 DEF Elapse, vars, OvertimeInv
  <2>3. CASE Start \/ CandidateTurn \/ Resume
    BY <1>2, <2>1, <2>3, EventTypes, EventConstructors
       DEF Start, CandidateTurn, Resume, SessionStarted, CandidateTurnReceived, Reconnected
  <2>4. CASE Tick
    BY <1>2, <2>1, <2>4, EventTypes DEF Tick
  <2>5. CASE InterviewerReply \/ InterviewerFailure
    BY <1>2, <2>1, <2>5, EventTypes
       DEF InterviewerReply, InterviewerFailure, InterviewerReplyReady, InterviewerFailed
  <2>6. CASE Assessment \/ AssessmentFailure \/ Operator
    BY <1>2, <2>1, <2>6, EventTypes
       DEF Assessment, AssessmentFailure, Operator, AssessmentCompleted, AssessmentFailed,
           OperatorAbort
  <2> QED BY <1>2, <2>2, <2>3, <2>4, <2>5, <2>6 DEF Next
<1>3. OvertimeInv => OvertimeIsBounded
  BY DEF OvertimeInv, OvertimeIsBounded, Over, Live, TerminalPhases
<1> QED BY <1>1, <1>2, <1>3, Invariance, PTL DEF Spec

-----------------------------------------------------------------------------
\* The refinement of InterviewLifecycle.

\* What the abstract specification sees of the decisions.
Reasons(q) == [i \in DOMAIN q |-> q[i].reason]

\* The first decision is the one recorded.
LEMMA FirstReason ==
  ASSUME NEW d
  PROVE  Reasons(<<>>) = <<>> /\ Reasons(<<d>>) = Append(<<>>, d.reason)
<1>1. Reasons(<<>>) = <<>>
  BY DEF Reasons
<1>2. Reasons(<<d>>) = <<d.reason>>
  BY DEF Reasons
<1>3. Append(<<>>, d.reason) = <<d.reason>>
  OBVIOUS
<1> QED BY <1>1, <1>2, <1>3

\* Every event is a step of the lifecycle, or invisible to it.
LEMMA ApplyRefines ==
  ASSUME IInv, NEW e \in SessionEvent, NEW raised, Apply(e, raised)
  PROVE  [Lifecycle!Next]_(Lifecycle!vars)
<1> DEFINE r == transition(st, e)
           rec == Reasons(decisions)
           told == Len(deliveries)
<1>1. /\ st' = r.new_state /\ Step(st, r)
      /\ decisions' = decisions \o Decided(r) /\ deliveries' = deliveries \o Delivered(r)
  BY ApplyStep DEF Sound
<1>2. /\ OneDecision /\ TurnTaking /\ NotYetActive /\ st \in SessionState
      /\ decisions \in Seq([kind : {"record_decision"}, reason : DecisionReason])
      /\ deliveries \in Seq(PendingCommand)
  BY DEF IInv, TypeOK
<1> HIDE DEF r
<1>3. Decided(r) = <<>> => decisions' = decisions
  BY <1>1, <1>2
<1>4. Delivered(r) = <<>> => deliveries' = deliveries
  BY <1>1, <1>2
<1>5. CASE Quiet(st, r) \/ Retries(st, r)
  <2>1. /\ st'.phase = st.phase /\ st'.awaiting = st.awaiting /\ st'.turn_seq = st.turn_seq
        /\ decisions' = decisions /\ deliveries' = deliveries
    BY <1>1, <1>3, <1>4, <1>5 DEF Quiet, Retries, Silent
  <2> QED BY <2>1 DEF Lifecycle!vars
<1>6. CASE Delivers(st, r)
  <2>1. /\ st'.phase = st.phase /\ st.phase \in {"tech", "qa"} /\ st.awaiting = "interviewer"
        /\ st'.awaiting = "candidate" /\ st'.turn_seq = st.turn_seq
    BY <1>1, <1>6 DEF Delivers, InFlight
  <2>2. decisions' = decisions
    BY <1>3, <1>6 DEF Delivers
  <2>3. Len(deliveries') = Len(deliveries) + 1
    <3>1. PICK d : Delivered(r) = <<d>> /\ d \in PendingCommand
      <4>1. st.pending_command.turn_id \in Int
        BY <1>2 DEF SessionState, PendingCommand
      <4> QED BY <1>6, <4>1, CommandTypes DEF Delivers
    <3> QED BY <1>1, <1>2, <3>1
  <2>4. Lifecycle!Speak
    BY <2>1, <2>2, <2>3 DEF Lifecycle!Speak
  <2> QED BY <2>4 DEF Lifecycle!Next
<1>7. ASSUME NEW from, NEW to, NEW kind, Moves(st, r, from, to, kind)
      PROVE  Lifecycle!Issue(from, to)
  <2>1. /\ st.phase = from /\ st'.phase = to /\ st'.awaiting = "interviewer"
        /\ st'.turn_seq = st.turn_seq + 1
        /\ decisions' = decisions /\ deliveries' = deliveries
    BY <1>1, <1>3, <1>4, <1>7 DEF Moves, Silent
  <2> QED BY <2>1 DEF Lifecycle!Issue
<1>8. ASSUME NEW to, NEW reason, NEW decision, Ends(st, r, to, reason, decision)
      PROVE  /\ st.phase \notin TerminalPhases
             /\ \A S : decision \in S => Lifecycle!End(to, S)
  <2>1. /\ st'.phase = to /\ st'.awaiting = "none" /\ st'.turn_seq = st.turn_seq
        /\ st.phase \notin TerminalPhases
        /\ deliveries' = deliveries /\ Decided(r) = <<RecordDecision(decision)>>
    BY <1>1, <1>4, <1>8 DEF Ends
  <2>2. decisions = <<>> /\ decisions' = <<RecordDecision(decision)>>
    <3>1. decisions = <<>>
      BY <1>2, <2>1 DEF OneDecision, Live
    <3>2. <<RecordDecision(decision)>> \in Seq({RecordDecision(decision)})
      OBVIOUS
    <3>3. <<>> \o <<RecordDecision(decision)>> = <<RecordDecision(decision)>>
      BY <3>2, ConcatEmptySeq
    <3> QED BY <1>1, <2>1, <3>1, <3>3
  <2>3. Reasons(decisions') = Append(Reasons(decisions), decision)
    <3> DEFINE d == RecordDecision(decision)
    <3>1. d.reason = decision
      BY CommandKinds
    <3> HIDE DEF d
    <3>2. Reasons(<<>>) = <<>> /\ Reasons(<<d>>) = Append(<<>>, d.reason)
      BY FirstReason
    <3>3. decisions = <<>> /\ decisions' = <<d>>
      BY <2>2 DEF d
    <3> QED BY <3>1, <3>2, <3>3
  <2>4. \A S : decision \in S => Lifecycle!End(to, S)
    BY <2>1, <2>3 DEF Lifecycle!End, Reasons
  <2> QED BY <2>1, <2>4
<1>9. CASE Moves(st, r, "created", "intro", "opening")
  BY <1>7, <1>9 DEF Lifecycle!Next, Lifecycle!Open
<1>10. CASE Moves(st, r, "intro", "tech", "run_interviewer")
  BY <1>7, <1>10 DEF Lifecycle!Next, Lifecycle!Begin
<1>11. CASE Moves(st, r, "tech", "tech", "run_interviewer") /\ st.awaiting = "candidate"
  BY <1>7, <1>11 DEF Lifecycle!Next, Lifecycle!Ask
<1>12. CASE Moves(st, r, "tech", "qa", "run_interviewer")
  BY <1>7, <1>12 DEF Lifecycle!Next, Lifecycle!Turn
<1>13. CASE Moves(st, r, "qa", "qa", "run_interviewer")
  BY <1>7, <1>13 DEF Lifecycle!Next, Lifecycle!Reply
<1>14. CASE Moves(st, r, "qa", "close", "closing")
  BY <1>7, <1>14 DEF Lifecycle!Next, Lifecycle!Wrap
<1>15. CASE Ends(st, r, "completed", st.abort_reason, "completed") /\ st.phase = "close"
  BY <1>8, <1>15 DEF Lifecycle!Next, Lifecycle!Complete
<1>16. CASE Ends(st, r, "aborted", "operator_abort", "plan_invalid") /\ st.phase = "created"
  BY <1>8, <1>16 DEF Lifecycle!Next, Lifecycle!Refuse
<1>17. CASE Ends(st, r, "aborted", "fatal_agent_error", "agent_failure") /\ InFlight(st)
  BY <1>8, <1>17 DEF Lifecycle!Next, Lifecycle!GiveUp, InFlight
<1>18. CASE /\ Ends(st, r, "aborted", "candidate_timeout", "timeout")
            /\ st.last_candidate_activity # Never
  BY <1>2, <1>8, <1>18 DEF Lifecycle!Next, Lifecycle!TimeOut, NotYetActive, TerminalPhases
<1>19. CASE \E reason \in AbortReason : Ends(st, r, "aborted", reason, "operator")
  BY <1>8, <1>19 DEF Lifecycle!Next, Lifecycle!Abort, Lifecycle!Ended, TerminalPhases
<1> QED BY <1>1, <1>5, <1>6, <1>9, <1>10, <1>11, <1>12, <1>13, <1>14, <1>15, <1>16, <1>17,
           <1>18, <1>19 DEF Step

\* Every step of the machine is a step of the lifecycle.
LEMMA NextRefines == IInv /\ [Next]_vars => [Lifecycle!Next]_(Lifecycle!vars)
<1> SUFFICES ASSUME IInv, [Next]_vars PROVE [Lifecycle!Next]_(Lifecycle!vars)
  OBVIOUS
<1>1. ASSUME NEW e \in SessionEvent, NEW raised, Apply(e, raised)
      PROVE  [Lifecycle!Next]_(Lifecycle!vars)
  BY <1>1, ApplyRefines
<1>2. CASE Elapse \/ UNCHANGED vars
  BY <1>2 DEF Elapse, vars, Lifecycle!vars
<1>3. CASE Start \/ CandidateTurn \/ Tick \/ Resume
  BY <1>1, <1>3, EventTypes DEF Start, CandidateTurn, Tick, Resume
<1>4. CASE InterviewerReply \/ InterviewerFailure
  BY <1>1, <1>4, EventTypes DEF InterviewerReply, InterviewerFailure
<1>5. CASE Assessment \/ AssessmentFailure \/ Operator
  BY <1>1, <1>5, EventTypes DEF Assessment, AssessmentFailure, Operator
<1> QED BY <1>2, <1>3, <1>4, <1>5 DEF Next

\* The detailed machine implements the lifecycle: phases only move forward,
\* a move is spoken at most once, and one decision ends the session.
THEOREM LifecycleRefined == Spec => RefinesLifecycle
<1>1. Init => Lifecycle!Init
  <2> SUFFICES ASSUME Init PROVE Lifecycle!Init
    OBVIOUS
  <2>1. /\ st.phase = "created" /\ st.awaiting = "none" /\ st.turn_seq = 0
        /\ deliveries = <<>> /\ decisions = <<>>
    BY DEF Init, initial_state
  <2>2. Reasons(decisions) = <<>> /\ Len(deliveries) = 0
    BY <2>1, FirstReason
  <2> QED BY <2>1, <2>2 DEF Lifecycle!Init, Reasons
<1> QED BY <1>1, NextRefines, Invariance, PTL DEF Spec, RefinesLifecycle, Lifecycle!Spec

-----------------------------------------------------------------------------
\* What was raised before: the failure ladder of section 6.2.

\* One event, with raised saying whether it is a failure of the latest turn.
LEMMA ApplyFailureLadder ==
  ASSUME IInv, FailureLadder, NEW e \in SessionEvent, NEW raised, Apply(e, raised),
         raised = 0 \/ (raised = 1 /\ misses < MaxMisses),
         e.kind = "interviewer_failed" /\ e.turn_id = st.turn_seq - 1 => raised = 1
  PROVE  FailureLadder'
<1> DEFINE r == transition(st, e)
<1>1. /\ st' = r.new_state /\ st' \in SessionState /\ st \in SessionState
      /\ decisions' = decisions \o Decided(r)
      /\ Ladder(st, e, r)
  BY ApplyStep, TransitionLadder DEF IInv, TypeOK, PlanHolds, FlaggedIffThreshold
<1>2. misses' = IF r.new_state.turn_seq = st.turn_seq THEN misses + raised ELSE 0
  BY DEF Apply
<1>3. /\ misses' \in 0..MaxMisses /\ misses \in 0..MaxMisses /\ MaxMisses = 2
      /\ st.interviewer_failure_streak \in Nat
      /\ st'.interviewer_failure_streak \in Nat
      /\ decisions \in Seq([kind : {"record_decision"}, reason : DecisionReason])
  BY <1>1, MissesType DEF SessionState, IInv, TypeOK, MaxMisses
<1>4. CASE ~Live
  <2>1. r = ignore(st)
    BY <1>4 DEF Live, transition
  <2>2. st' = st /\ decisions' = decisions
    <3>1. Decided(r) = <<>>
      BY <2>1, IgnoreStep DEF Quiet, Silent
    <3> HIDE DEF r
    <3>2. decisions' = decisions
      BY <1>1, <1>3, <3>1
    <3> QED BY <1>1, <2>1, <3>2 DEF ignore, Result
  <2>3. misses' >= misses
    BY <1>1, <1>2, <1>3, <2>2
  <2>4. st.phase \notin {"tech", "qa"}
    BY <1>4 DEF Live, TerminalPhases
  <2> QED BY <1>3, <2>2, <2>3, <2>4 DEF FailureLadder
<1>5. CASE Live
  <2>1. decisions' = Decided(r)
    <3>1. decisions = <<>>
      BY <1>5 DEF IInv, OneDecision
    <3>2. Decided(r) = <<>> \/ \E x : Decided(r) = <<x>>
      BY EmittedAny DEF Decided
    <3> HIDE DEF r
    <3> QED BY <1>1, <3>1, <3>2
  <2> HIDE DEF r
  <2>2. ASSUME Spares(r)
        PROVE  ~(Len(decisions') = 1 /\ decisions'[1].reason = "agent_failure")
    <3>1. CASE Decided(r) = <<>>
      BY <2>1, <3>1
    <3>2. ASSUME NEW d, d # "agent_failure", Decided(r) = <<RecordDecision(d)>>
          PROVE  decisions'[1].reason # "agent_failure"
      BY <2>1, <3>2, CommandKinds
    <3> QED BY <2>2, <3>1, <3>2 DEF Spares
  <2>3. CASE Spares(r) /\ st'.phase \notin {"tech", "qa"}
    BY <2>2, <2>3 DEF FailureLadder
  <2>4. CASE Spares(r) /\ st'.interviewer_failure_streak = 0
    BY <1>3, <2>2, <2>4 DEF FailureLadder
  <2>5. CASE /\ Spares(r) /\ st'.phase = st.phase /\ st'.turn_seq = st.turn_seq
             /\ st'.interviewer_failure_streak = st.interviewer_failure_streak
    <3>1. misses' >= misses
      BY <1>1, <1>2, <1>3, <2>5
    <3> QED BY <1>3, <2>2, <2>5, <3>1 DEF FailureLadder
  <2>6. CASE Climbs(st, e, r)
    <3>1. /\ InFlight(st) /\ e.turn_id = st.turn_seq - 1
      BY <2>6 DEF Climbs, InFlight, IInv, TurnTaking, TurnTakingIn
    <3>2. misses' = misses + 1 /\ st.interviewer_failure_streak <= misses
      BY <1>1, <1>2, <2>6, <3>1 DEF Climbs, InFlight, FailureLadder
    <3>3. CASE /\ st'.interviewer_failure_streak = st.interviewer_failure_streak + 1
               /\ Spares(r)
      BY <1>3, <2>2, <3>2, <3>3 DEF FailureLadder
    <3>4. CASE st.interviewer_failure_streak >= 1 /\ st'.phase = "aborted"
      BY <1>3, <3>2, <3>4 DEF FailureLadder
    <3> QED BY <1>1, <2>6, <3>3, <3>4 DEF Climbs
  <2> QED BY <1>1, <2>3, <2>4, <2>5, <2>6 DEF Ladder
<1> QED BY <1>4, <1>5

\* Section 6.2: the machine gives up on the interviewer after two failures of
\* one turn, never because failures of different turns add up.
THEOREM FailuresDoNotAddUp == Spec => []FailureLadder
<1>1. Init => FailureLadder
  <2> SUFFICES ASSUME Init PROVE FailureLadder
    OBVIOUS
  <2>1. st.phase = "created" /\ decisions = <<>>
    BY DEF Init, initial_state
  <2> QED BY <2>1 DEF FailureLadder
<1>2. ASSUME IInv, FailureLadder, [Next]_vars PROVE FailureLadder'
  <2>1. ASSUME NEW e \in SessionEvent, Apply(e, 0), e.kind # "interviewer_failed"
        PROVE  FailureLadder'
    BY <1>2, <2>1, ApplyFailureLadder
  <2>2. CASE Elapse \/ UNCHANGED vars
    BY <1>2, <2>2 DEF Elapse, vars, FailureLadder
  <2>3. CASE Start \/ CandidateTurn \/ Resume \/ Tick
    BY <1>2, <2>1, <2>3, EventTypes
       DEF Start, CandidateTurn, Resume, Tick, SessionStarted, CandidateTurnReceived,
           Reconnected, TimerTick
  <2>4. CASE InterviewerReply \/ Operator
    BY <1>2, <2>1, <2>4, EventTypes
       DEF InterviewerReply, Operator, InterviewerReplyReady, OperatorAbort
  <2>5. CASE Assessment \/ AssessmentFailure
    BY <1>2, <2>1, <2>5, EventTypes
       DEF Assessment, AssessmentFailure, AssessmentCompleted, AssessmentFailed
  <2>6. CASE InterviewerFailure
    <3>1. PICK t \in 1..(st.turn_seq - 1) :
            /\ t = st.turn_seq - 1 => misses < MaxMisses
            /\ Apply(InterviewerFailed(t), IF t = st.turn_seq - 1 THEN 1 ELSE 0)
      BY <2>6 DEF InterviewerFailure
    <3> DEFINE raised == IF t = st.turn_seq - 1 THEN 1 ELSE 0
               e == InterviewerFailed(t)
    <3>2. e \in SessionEvent /\ e.turn_id = t
      BY <1>2, EventTypes DEF InterviewerFailed
    <3>3. /\ raised = 0 \/ (raised = 1 /\ misses < MaxMisses)
          /\ t = st.turn_seq - 1 => raised = 1
      BY <3>1
    <3>4. Apply(e, raised)
      BY <3>1
    <3> HIDE DEF e, raised
    <3> QED BY <1>2, <3>2, <3>3, <3>4, ApplyFailureLadder
  <2> QED BY <1>2, <2>2, <2>3, <2>4, <2>5, <2>6 DEF Next
<1> QED BY <1>1, <1>2, Invariance, PTL DEF Spec

-----------------------------------------------------------------------------
\* What was asked before: the pending assessments of section 6.8.

\* The inductive form of PendingIsExact: in addition, nothing is on record for
\* the turns still to come.
PendingInv ==
  /\ PendingIsExact
  /\ \A t \in TurnId : t >= turns => scheduled[t] = NoNode /\ t \notin resolved

\* What one event leaves of the books.
LEMMA ApplyBooks ==
  ASSUME IInv, NEW e \in SessionEvent, NEW raised, Apply(e, raised)
  PROVE  /\ Live' => Live
         /\ st \in SessionState /\ st' \in SessionState
         /\ \/ /\ scheduled' = scheduled /\ st'.assessment_focus = st.assessment_focus
               /\ e.kind \in AssessorEvents => st' = st
            \/ /\ e.kind = "candidate_turn"
               /\ \E n \in Node :
                    /\ scheduled' = [scheduled EXCEPT ![e.turn_id] = n]
                    /\ st'.assessment_focus = [st.assessment_focus EXCEPT ![e.turn_id] = n]
            \/ /\ e.kind \in AssessorEvents /\ scheduled' = scheduled
               /\ st.assessment_focus[e.turn_id] # NoNode
               /\ st'.assessment_focus = [st.assessment_focus EXCEPT ![e.turn_id] = NoNode]
<1> DEFINE r == transition(st, e)
<1>1. /\ st' = r.new_state /\ Step(st, r) /\ st \in SessionState /\ st' \in SessionState
  BY ApplyStep DEF Sound, IInv, TypeOK
<1>2. Booked(st, e, r)
  BY TransitionBooked DEF IInv, TypeOK, PlanHolds
<1>3. scheduled' = IF Asked(r) = <<>> THEN scheduled
                   ELSE [scheduled EXCEPT ![Asked(r)[1].turn_id] = Asked(r)[1].node]
  BY DEF Apply, Asked
<1>4. Live' => Live
  BY <1>1, PhasesAdvance DEF Live
<1> HIDE DEF r
<1>5. CASE Keeps(st, e, r)
  BY <1>1, <1>3, <1>4, <1>5 DEF Keeps, AssessorEvents
<1>6. CASE Hears(st, e, r)
  BY <1>1, <1>3, <1>4, <1>6 DEF Hears, AssessorEvents
<1>7. CASE Asks(st, e, r)
  <2>1. PICK n \in Node : /\ Asked(r) = <<RunAssessor(e.turn_id, n)>>
                          /\ st'.assessment_focus = [st.assessment_focus EXCEPT ![e.turn_id] = n]
    BY <1>1, <1>7 DEF Asks
  <2>2. scheduled' = [scheduled EXCEPT ![e.turn_id] = n]
    <3> DEFINE a == RunAssessor(e.turn_id, n)
    <3>1. a.turn_id = e.turn_id /\ a.node = n
      BY DEF RunAssessor
    <3> HIDE DEF a
    <3>2. Asked(r) # <<>> /\ Asked(r)[1] = a
      BY <2>1 DEF a
    <3> QED BY <1>3, <3>1, <3>2
  <2> QED BY <1>1, <1>4, <1>7, <2>1, <2>2 DEF Asks
<1> QED BY <1>2, <1>5, <1>6, <1>7 DEF Booked

\* Every event but an assessor's answer.
LEMMA AskKeepsPending ==
  ASSUME IInv, PendingInv, NEW e \in SessionEvent, NEW raised, Apply(e, raised),
         e.kind \notin AssessorEvents, resolved' = resolved,
         IF e.kind = "candidate_turn" THEN e.turn_id = turns /\ turns \in TurnId /\ turns' = turns + 1
                                      ELSE turns' = turns
  PROVE  PendingInv'
<1>1. /\ TurnId \subseteq Nat /\ turns \in Nat
      /\ scheduled \in [TurnId -> Node \cup {NoNode}]
      /\ st.assessment_focus \in [TurnId -> Node \cup {NoNode}]
  BY PlanAssumption DEF IInv, TypeOK, SessionState
<1>2. CASE scheduled' = scheduled /\ st'.assessment_focus = st.assessment_focus
  <2>1. Live' => Live
    BY ApplyBooks
  <2>2. turns' = turns \/ turns' = turns + 1
    OBVIOUS
  <2>3. \A t \in TurnId : t >= turns' => t >= turns
    <3>1. CASE turns' = turns
      BY <3>1
    <3>2. CASE turns' = turns + 1
      BY <1>1, <3>2
    <3> QED BY <2>2, <3>1, <3>2
  <2>4. PendingIsExact'
    BY <1>2, <2>1 DEF PendingInv, PendingIsExact
  <2>5. \A t \in TurnId : t >= turns' => scheduled'[t] = NoNode /\ t \notin resolved'
    BY <1>2, <2>3 DEF PendingInv
  <2> QED BY <2>4, <2>5 DEF PendingInv
<1>3. ASSUME NEW n \in Node, e.kind = "candidate_turn",
             scheduled' = [scheduled EXCEPT ![e.turn_id] = n],
             st'.assessment_focus = [st.assessment_focus EXCEPT ![e.turn_id] = n]
      PROVE  PendingInv'
  <2>1. /\ e.turn_id = turns /\ turns \in TurnId /\ turns' = turns + 1 /\ turns \notin resolved
    BY <1>1, <1>3 DEF PendingInv
  <2>2. Live' => Live
    BY ApplyBooks
  <2>3. ASSUME NEW t \in TurnId, Live'
        PROVE  st'.assessment_focus[t] = IF t \in resolved' THEN NoNode ELSE scheduled'[t]
    BY <1>1, <1>3, <2>1, <2>2, <2>3 DEF PendingInv, PendingIsExact
  <2>4. ASSUME NEW t \in TurnId, t >= turns'
        PROVE  scheduled'[t] = NoNode /\ t \notin resolved'
    <3>1. t \in Nat /\ t >= turns /\ t # turns
      BY <1>1, <2>1, <2>4
    <3> QED BY <1>1, <1>3, <2>1, <3>1 DEF PendingInv
  <2> QED BY <2>3, <2>4 DEF PendingInv, PendingIsExact
<1> QED BY <1>2, <1>3, ApplyBooks

\* An assessor's answer: taken in when it changes the state.
LEMMA AnswerKeepsPending ==
  ASSUME IInv, PendingInv, NEW e \in SessionEvent, Apply(e, 0),
         e.kind \in AssessorEvents, e.turn_id \in TurnId, scheduled[e.turn_id] # NoNode,
         turns' = turns, resolved' = IF st' = st THEN resolved ELSE resolved \cup {e.turn_id}
  PROVE  PendingInv'
<1>1. /\ TurnId \subseteq Nat /\ turns \in Nat
      /\ st.assessment_focus \in [TurnId -> Node \cup {NoNode}]
  BY PlanAssumption DEF IInv, TypeOK, SessionState
<1>2. ~(e.turn_id >= turns) /\ e.kind # "candidate_turn"
  BY DEF PendingInv, AssessorEvents
<1>3. scheduled' = scheduled /\ (Live' => Live)
  BY <1>2, ApplyBooks
<1>4. \A t \in TurnId : t >= turns' => scheduled'[t] = NoNode /\ t \notin resolved'
  BY <1>2, <1>3 DEF PendingInv
<1>5. CASE st' = st
  BY <1>3, <1>4, <1>5 DEF PendingInv, PendingIsExact
<1>6. CASE /\ st.assessment_focus[e.turn_id] # NoNode
           /\ st'.assessment_focus = [st.assessment_focus EXCEPT ![e.turn_id] = NoNode]
  <2>1. st'.assessment_focus[e.turn_id] = NoNode
    BY <1>1, <1>6
  <2>2. resolved' = resolved \cup {e.turn_id}
    BY <1>6, <2>1
  <2>3. ASSUME NEW t \in TurnId, Live'
        PROVE  st'.assessment_focus[t] = IF t \in resolved' THEN NoNode ELSE scheduled'[t]
    BY <1>1, <1>3, <1>6, <2>1, <2>2, <2>3 DEF PendingInv, PendingIsExact
  <2> QED BY <1>4, <2>3 DEF PendingInv, PendingIsExact
<1> QED BY <1>2, <1>5, <1>6, ApplyBooks

\* Section 6.8: while the session lives, the pending assessments are exactly
\* the ones asked for and not yet answered, each with the competency asked.
THEOREM PendingExact == Spec => []PendingIsExact
<1>1. Init => PendingInv
  <2> SUFFICES ASSUME Init PROVE PendingInv
    OBVIOUS
  <2>1. /\ st.assessment_focus = [t \in TurnId |-> NoNode]
        /\ scheduled = [t \in TurnId |-> NoNode] /\ resolved = {}
    BY DEF Init, initial_state
  <2> QED BY <2>1 DEF PendingInv, PendingIsExact
<1>2. ASSUME IInv, PendingInv, [Next]_vars PROVE PendingInv'
  <2>1. ASSUME NEW e \in SessionEvent, NEW raised, Apply(e, raised),
               e.kind \notin AssessorEvents \cup {"candidate_turn"},
               turns' = turns, resolved' = resolved
        PROVE  PendingInv'
    BY <1>2, <2>1, AskKeepsPending
  <2>2. CASE Elapse \/ UNCHANGED vars
    BY <1>2, <2>2 DEF Elapse, vars, PendingInv, PendingIsExact, Live
  <2>3. CASE Start \/ Resume \/ Tick \/ Operator
    BY <1>2, <2>1, <2>3, EventTypes
       DEF Start, Resume, Tick, Operator, SessionStarted, Reconnected, TimerTick,
           OperatorAbort, AssessorEvents
  <2>4. CASE InterviewerReply \/ InterviewerFailure
    BY <1>2, <2>1, <2>4, EventTypes
       DEF InterviewerReply, InterviewerFailure, InterviewerReplyReady, InterviewerFailed,
           AssessorEvents
  <2>5. CASE CandidateTurn
    <3> DEFINE e == CandidateTurnReceived(turns, clock)
    <3>1. e \in SessionEvent /\ e.kind = "candidate_turn" /\ e.turn_id = turns
      BY <1>2, <2>5, EventTypes DEF CandidateTurn, CandidateTurnReceived
    <3>2. Apply(e, 0) /\ turns \in TurnId /\ turns' = turns + 1 /\ resolved' = resolved
      BY <2>5 DEF CandidateTurn
    <3>3. e.kind \notin AssessorEvents
      BY <3>1 DEF AssessorEvents
    <3> HIDE DEF e
    <3> QED BY <1>2, <3>1, <3>2, <3>3, AskKeepsPending
  <2>6. CASE Assessment
    <3>1. PICK t \in TurnId, out \in AssessorOutputs :
            /\ scheduled[t] # NoNode
            /\ Apply(AssessmentCompleted(t, out), 0)
            /\ IF st' = st THEN UNCHANGED <<accepted, resolved>>
               ELSE accepted' = Append(accepted, out) /\ resolved' = resolved \cup {t}
      BY <2>6 DEF Assessment
    <3> DEFINE e == AssessmentCompleted(t, out)
    <3>2. e \in SessionEvent /\ e.kind \in AssessorEvents /\ e.turn_id = t
      BY <1>2, EventTypes DEF AssessmentCompleted, AssessorEvents
    <3>3. turns' = turns /\ resolved' = IF st' = st THEN resolved ELSE resolved \cup {t}
      BY <2>6, <3>1 DEF Assessment
    <3>4. Apply(e, 0)
      BY <3>1
    <3> HIDE DEF e
    <3> QED BY <1>2, <3>1, <3>2, <3>3, <3>4, AnswerKeepsPending
  <2>7. CASE AssessmentFailure
    <3>1. PICK t \in TurnId :
            /\ scheduled[t] # NoNode
            /\ Apply(AssessmentFailed(t), 0)
            /\ resolved' = IF st' = st THEN resolved ELSE resolved \cup {t}
      BY <2>7 DEF AssessmentFailure
    <3> DEFINE e == AssessmentFailed(t)
    <3>2. e \in SessionEvent /\ e.kind \in AssessorEvents /\ e.turn_id = t
      BY <1>2, EventTypes DEF AssessmentFailed, AssessorEvents
    <3>3. turns' = turns
      BY <2>7 DEF AssessmentFailure
    <3>4. Apply(e, 0)
      BY <3>1
    <3> HIDE DEF e
    <3> QED BY <1>2, <3>1, <3>2, <3>3, <3>4, AnswerKeepsPending
  <2> QED BY <1>2, <2>2, <2>3, <2>4, <2>5, <2>6, <2>7 DEF Next
<1>3. PendingInv => PendingIsExact
  BY DEF PendingInv
<1> QED BY <1>1, <1>2, <1>3, Invariance, PTL DEF Spec

-----------------------------------------------------------------------------
\* The account given of every competency left.

\* The machine never walks away from a competency in silence: a turn that
\* leaves one finds it answered, or puts the gap on record.
THEOREM NoCompetencyLost == Spec => NoSilentExit
<1> DEFINE Exit == LeavesCompetency /\ turns' # turns =>
                     LET c == current_competency(st)
                     IN  /\ st'.competency_index \in {st.competency_index, st.competency_index + 1}
                         /\ \/ answered(st.coverage[c.node_id], c.target_level) /\ gaps' = gaps
                            \/ /\ ~answered(st.coverage[c.node_id], c.target_level)
                               /\ Len(gaps') = Len(gaps) + 1
                               /\ gaps'[Len(gaps')].node = c.node_id
<1>1. ASSUME IInv, [Next]_vars PROVE Exit
  <2> SUFFICES ASSUME LeavesCompetency, turns' # turns
               PROVE  LET c == current_competency(st)
                      IN  /\ st'.competency_index \in {st.competency_index, st.competency_index + 1}
                          /\ \/ answered(st.coverage[c.node_id], c.target_level) /\ gaps' = gaps
                             \/ /\ ~answered(st.coverage[c.node_id], c.target_level)
                                /\ Len(gaps') = Len(gaps) + 1
                                /\ gaps'[Len(gaps')].node = c.node_id
    OBVIOUS
  <2>1. CandidateTurn
    BY <1>1 DEF Next, vars, Start, InterviewerReply, InterviewerFailure, Assessment,
                AssessmentFailure, Tick, Resume, Operator, Elapse
  <2> DEFINE e == CandidateTurnReceived(turns, clock)
             r == transition(st, e)
             c == current_competency(st)
  <2>2. /\ turns \in TurnId /\ clock \in Int /\ st \in SessionState /\ PlanHoldsIn(st)
        /\ gaps \in Seq(GapRecord) /\ st.phase = "tech" /\ e.kind = "candidate_turn"
    <3>1. turns \in TurnId
      BY <2>1 DEF CandidateTurn
    <3>2. clock \in Int /\ st \in SessionState /\ gaps \in Seq(GapRecord)
      BY <1>1 DEF IInv, TypeOK, GapRecord
    <3>3. PlanHoldsIn(st)
      BY <1>1 DEF IInv, PlanHolds
    <3>4. st.phase = "tech"
      BY DEF LeavesCompetency
    <3>5. e.kind = "candidate_turn"
      BY DEF CandidateTurnReceived
    <3> QED BY <3>1, <3>2, <3>3, <3>4, <3>5
  <2>3. st' = r.new_state /\ gaps' = gaps \o Recorded(r)
    BY <2>1 DEF CandidateTurn, Apply, Recorded
  <2>4. r = on_candidate_turn(st, e)
    <3>1. st.phase \notin TerminalPhases /\ st.phase # "created"
      BY <2>2 DEF TerminalPhases
    <3> QED BY <2>2, <3>1, Dispatch
  <2>5. r = on_tech_candidate_turn(st, e) \/ r = ignore(st)
    BY <2>2, <2>4, Zenon DEF on_candidate_turn
  <2>6. r # ignore(st)
    <3>1. ASSUME r = ignore(st) PROVE st' = st
      BY <2>3, <3>1 DEF ignore, Result
    <3> HIDE DEF r
    <3> QED BY <2>2, <3>1 DEF LeavesCompetency
  <2>7. Accounts(st, r)
    BY <2>2, <2>5, <2>6, TechAccounts
  <2> HIDE DEF r, e
  <2>8. /\ st'.competency_index \in {st.competency_index, st.competency_index + 1}
        /\ \/ answered(st.coverage[c.node_id], c.target_level) /\ Recorded(r) = <<>>
           \/ /\ ~answered(st.coverage[c.node_id], c.target_level)
              /\ \E m : Recorded(r) = <<RecordGap(c.node_id, m)>>
    BY <2>3, <2>7 DEF Accounts, LeavesCompetency
  <2>9. ASSUME Recorded(r) = <<>> PROVE gaps' = gaps
    BY <2>2, <2>3, <2>9
  <2>10. ASSUME NEW m, Recorded(r) = <<RecordGap(c.node_id, m)>>
         PROVE  Len(gaps') = Len(gaps) + 1 /\ gaps'[Len(gaps')].node = c.node_id
    <3> DEFINE g == RecordGap(c.node_id, m)
    <3>1. g.node = c.node_id
      BY DEF RecordGap
    <3> HIDE DEF g, c
    <3>2. gaps' = gaps \o <<g>>
      BY <2>3, <2>10 DEF g
    <3>3. Len(gaps') = Len(gaps) + 1 /\ gaps'[Len(gaps')] = g
      BY <2>2, <3>2
    <3> QED BY <3>1, <3>3
  <2> QED BY <2>8, <2>9, <2>10
<1>2. Spec => [][Exit]_vars
  BY <1>1, Invariance, PTL DEF Spec
<1> QED BY <1>2 DEF NoSilentExit

-----------------------------------------------------------------------------
\* The cheat flags of the outputs.

\* f adds up the flags of every prefix of the outputs, the way FlagsOn does.
Gain(nodes, out) == IF out.competency_focus \in nodes THEN out.cheat_flags ELSE 0
UpTo(nodes, q, f, k) == IF k = 0 THEN 0 ELSE f[k - 1] + Gain(nodes, q[k])
Adds(nodes, q, f) == f = [k \in 0..Len(q) |-> UpTo(nodes, q, f, k)]

\* Some function does: the sum up to k needs only the one up to k - 1.
LEMMA AddsExists ==
  ASSUME NEW nodes, NEW q, Len(q) \in Nat
  PROVE  \E f : Adds(nodes, q, f)
<1> DEFINE N == 0..Len(q)
           Fn(f) == f = [n \in N |-> f[n]]
           Eq(f, n) == f[n] = UpTo(nodes, q, f, n)
           Good == {k \in Nat : \E f : Fn(f) /\ \A n \in N : n <= k => Eq(f, n)}
<1>1. 0 \in Good
  <2> DEFINE f == [n \in N |-> 0]
  <2>1. \A n \in N : n <= 0 => Eq(f, n)
    BY DEF UpTo
  <2>2. Fn(f)
    OBVIOUS
  <2> HIDE DEF f, Eq, Fn
  <2> QED BY <2>1, <2>2
<1>2. ASSUME NEW k \in Nat, k \in Good PROVE k + 1 \in Good
  <2>1. PICK f : Fn(f) /\ \A n \in N : n <= k => Eq(f, n)
    BY <1>2
  <2> DEFINE g == [n \in N |-> UpTo(nodes, q, f, n)]
  <2>2. \A n \in N : n <= k => g[n] = f[n]
    BY <2>1
  <2>3. ASSUME NEW n \in N, n <= k + 1 PROVE Eq(g, n)
    <3>1. g[n] = UpTo(nodes, q, f, n)
      OBVIOUS
    <3>2. CASE n = 0
      BY <3>1, <3>2 DEF UpTo
    <3>3. CASE n # 0
      <4>1. n - 1 \in N /\ n - 1 <= k
        BY <2>3, <3>3
      <4>2. g[n - 1] = f[n - 1]
        BY <2>2, <4>1
      <4> HIDE DEF g
      <4> QED BY <3>1, <3>3, <4>2 DEF UpTo
    <3> QED BY <3>2, <3>3
  <2>4. Fn(g)
    OBVIOUS
  <2> HIDE DEF g, Eq, Fn
  <2> QED BY <2>3, <2>4
<1>3. Len(q) \in Good
  <2> HIDE DEF Good
  <2> QED BY <1>1, <1>2, EveryNatural
<1>4. PICK f : Fn(f) /\ \A n \in N : Eq(f, n)
  BY <1>3
<1> DEFINE R(n) == UpTo(nodes, q, f, n)
<1>5. \A n \in N : f[n] = R(n)
  BY <1>4
<1> HIDE DEF R
<1>6. f = [n \in N |-> R(n)]
  BY <1>4, <1>5
<1> QED BY <1>6 DEF Adds, R

\* What such a function says of each prefix.
LEMMA AddsEquation ==
  ASSUME NEW nodes, NEW q, NEW f, Adds(nodes, q, f), NEW n \in 0..Len(q)
  PROVE  f[n] = UpTo(nodes, q, f, n)
<1> DEFINE R(k) == UpTo(nodes, q, f, k)
<1>1. f = [k \in 0..Len(q) |-> R(k)]
  BY DEF Adds
<1> HIDE DEF R
<1>2. f[n] = R(n)
  BY <1>1
<1> QED BY <1>2 DEF R

\* FlagsOn is the last value of one.
LEMMA FlagsAdd ==
  ASSUME NEW nodes, NEW q, Len(q) \in Nat
  PROVE  \E f : Adds(nodes, q, f) /\ FlagsOn(nodes, q) = f[Len(q)]
<1> DEFINE f == CHOOSE f : Adds(nodes, q, f)
<1>1. Adds(nodes, q, f)
  BY AddsExists
<1>2. FlagsOn(nodes, q) = f[Len(q)]
  BY DEF FlagsOn, Adds, UpTo, Gain
<1> HIDE DEF f
<1> QED BY <1>1, <1>2

\* No output has no flags.
LEMMA NoFlags ==
  ASSUME NEW nodes
  PROVE  FlagsOn(nodes, <<>>) = 0
<1>1. PICK f : Adds(nodes, <<>>, f) /\ FlagsOn(nodes, <<>>) = f[Len(<<>>)]
  BY FlagsAdd
<1>2. f[0] = UpTo(nodes, <<>>, f, 0)
  BY <1>1, AddsEquation
<1> QED BY <1>1, <1>2 DEF UpTo

\* One more output adds its own, when it is on one of the nodes.
LEMMA FlagsAppend ==
  ASSUME NEW nodes, NEW q \in Seq(AssessorOutput), NEW out
  PROVE  FlagsOn(nodes, Append(q, out)) = FlagsOn(nodes, q) + Gain(nodes, out)
<1> DEFINE more == Append(q, out)
<1>1. PICK n \in Nat : n = Len(q)
  OBVIOUS
<1>2. Len(more) = n + 1 /\ more[n + 1] = out /\ \A k \in 1..n : more[k] = q[k]
  BY <1>1
<1>3. PICK f : Adds(nodes, q, f) /\ FlagsOn(nodes, q) = f[n]
  BY <1>1, FlagsAdd
<1> HIDE DEF more
<1>4. PICK g : Adds(nodes, more, g) /\ FlagsOn(nodes, more) = g[n + 1]
  <2>1. Len(more) \in Nat
    BY <1>2
  <2> QED BY <1>2, <2>1, FlagsAdd
<1>5. \A k \in 0..n : f[k] = UpTo(nodes, q, f, k)
  BY <1>1, <1>3, AddsEquation
<1>6. \A k \in 0..(n + 1) : g[k] = UpTo(nodes, more, g, k)
  BY <1>2, <1>4, AddsEquation
<1> DEFINE Good == {k \in Nat : k <= n => g[k] = f[k]}
<1>7. 0 \in Good
  <2>1. 0 \in 0..n /\ 0 \in 0..(n + 1)
    OBVIOUS
  <2> QED BY <1>5, <1>6, <2>1 DEF UpTo
<1>8. ASSUME NEW k \in Nat, k \in Good PROVE k + 1 \in Good
  <2> SUFFICES ASSUME k + 1 <= n PROVE g[k + 1] = f[k + 1]
    OBVIOUS
  <2>1. k + 1 \in 1..n /\ k + 1 \in 0..n /\ k + 1 \in 0..(n + 1) /\ k + 1 # 0 /\ (k + 1) - 1 = k
    OBVIOUS
  <2>2. f[k + 1] = f[k] + Gain(nodes, q[k + 1])
    BY <1>5, <2>1 DEF UpTo
  <2>3. g[k + 1] = g[k] + Gain(nodes, more[k + 1])
    BY <1>6, <2>1 DEF UpTo
  <2>4. g[k] = f[k] /\ more[k + 1] = q[k + 1]
    BY <1>2, <1>8, <2>1
  <2> QED BY <2>2, <2>3, <2>4
<1>9. n \in Good
  <2> HIDE DEF Good
  <2> QED BY <1>7, <1>8, EveryNatural
<1>10. g[n + 1] = g[n] + Gain(nodes, out)
  <2>1. n + 1 \in 0..(n + 1) /\ n + 1 # 0 /\ (n + 1) - 1 = n
    OBVIOUS
  <2> QED BY <1>2, <1>6, <2>1 DEF UpTo
<1> QED BY <1>3, <1>4, <1>9, <1>10 DEF more

-----------------------------------------------------------------------------
\* The cells.

\* What folding an output in makes of a cell.
LEMMA FoldedCell ==
  ASSUME NEW cov \in [Node -> CoverageCell], NEW out \in AssessorOutput, NEW n \in Node
  PROVE  LET a == cov[n]
             b == record_review_signals(record_levels(cov, out), out)[n]
             J == ItemsOf(out, n)
             seq == out.assessments
         IN  /\ b.cheat_flags = a.cheat_flags + IF n = out.competency_focus THEN out.cheat_flags ELSE 0
             /\ b.gap_not_assessable <=>
                  a.gap_not_assessable \/ (n = out.competency_focus /\ seq = <<>>)
             /\ J = {} => /\ b.best_level = a.best_level /\ b.best_confidence = a.best_confidence
                          /\ b.latest_level = a.latest_level
                          /\ b.latest_confidence = a.latest_confidence
             /\ J # {} =>
                  /\ b.latest_level = LastItem(out, n).level
                  /\ b.latest_confidence = LastItem(out, n).confidence
                  /\ IF a.best_level = NoLevel \/ BestItem(out, n).level >= a.best_level
                     THEN /\ b.best_level = BestItem(out, n).level
                          /\ b.best_confidence = BestItem(out, n).confidence
                     ELSE b.best_level = a.best_level /\ b.best_confidence = a.best_confidence
<1> DEFINE a == cov[n]
           mid == record_levels(cov, out)
           m == mid[n]
           b == record_review_signals(mid, out)[n]
           J == ItemsOf(out, n)
           seq == out.assessments
<1>1. mid \in [Node -> CoverageCell] /\ out.competency_focus \in Node /\ out.cheat_flags \in Nat
      /\ out.needs_manual_review \in BOOLEAN
  BY CoverageTypes DEF AssessorOutput
<1>2. a \in CoverageCell /\ m \in CoverageCell
  BY <1>1
<1>3. /\ b.cheat_flags = m.cheat_flags + IF n = out.competency_focus THEN out.cheat_flags ELSE 0
      /\ b.gap_not_assessable = m.gap_not_assessable
      /\ b.best_level = m.best_level /\ b.best_confidence = m.best_confidence
      /\ b.latest_level = m.latest_level /\ b.latest_confidence = m.latest_confidence
  <2> HIDE DEF mid
  <2>1. b = IF n = out.competency_focus THEN WithSignals(m, out) ELSE m
    BY <1>1 DEF record_review_signals
  <2> HIDE DEF b, m
  <2> QED BY <1>1, <1>2, <2>1 DEF WithSignals, CoverageCell
<1>4. CASE seq = <<>>
  <2>1. mid = [cov EXCEPT ![out.competency_focus].gap_not_assessable = TRUE]
    BY <1>4 DEF record_levels
  <2>2. J = {}
    BY <1>4 DEF ItemsOf
  <2>3. m = IF n = out.competency_focus THEN [a EXCEPT !.gap_not_assessable = TRUE] ELSE a
    <3> HIDE DEF mid
    <3> QED BY <2>1
  <2> HIDE DEF a, b, m, mid
  <2>4. /\ m.cheat_flags = a.cheat_flags
        /\ m.gap_not_assessable <=> a.gap_not_assessable \/ n = out.competency_focus
        /\ m.best_level = a.best_level /\ m.best_confidence = a.best_confidence
        /\ m.latest_level = a.latest_level /\ m.latest_confidence = a.latest_confidence
    BY <1>2, <2>3 DEF CoverageCell
  <2>5. /\ b.gap_not_assessable <=>
             a.gap_not_assessable \/ (n = out.competency_focus /\ seq = <<>>)
        /\ b.cheat_flags = a.cheat_flags + IF n = out.competency_focus THEN out.cheat_flags ELSE 0
    BY <1>3, <1>4, <2>4
  <2> HIDE DEF J, seq
  <2>6. /\ b.best_level = a.best_level /\ b.best_confidence = a.best_confidence
        /\ b.latest_level = a.latest_level /\ b.latest_confidence = a.latest_confidence
    BY <1>3, <2>4
  <2> QED BY <2>2, <2>5, <2>6 DEF J, seq, a, b, mid
<1>5. CASE seq # <<>>
  <2>1. m = IF J = {} THEN a ELSE WithLatest(WithBest(a, BestItem(out, n)), LastItem(out, n))
    BY <1>5 DEF record_levels
  <2>2. J # {} => LastItem(out, n) \in Assessed /\ BestItem(out, n) \in Assessed
    <3>1. out.assessments \in Items
      BY DEF AssessorOutput, Items
    <3> QED BY <3>1, ItemsExist
  <2> HIDE DEF a, b, m, mid, J
  <2>3. /\ m.cheat_flags = a.cheat_flags /\ m.gap_not_assessable = a.gap_not_assessable
        /\ J = {} => /\ m.best_level = a.best_level /\ m.best_confidence = a.best_confidence
                     /\ m.latest_level = a.latest_level
                     /\ m.latest_confidence = a.latest_confidence
        /\ J # {} =>
             /\ m.latest_level = LastItem(out, n).level
             /\ m.latest_confidence = LastItem(out, n).confidence
             /\ IF a.best_level = NoLevel \/ BestItem(out, n).level >= a.best_level
                THEN /\ m.best_level = BestItem(out, n).level
                     /\ m.best_confidence = BestItem(out, n).confidence
                ELSE m.best_level = a.best_level /\ m.best_confidence = a.best_confidence
    <3> DEFINE l == LastItem(out, n)
               h == BestItem(out, n)
    <3>1. m = IF J = {} THEN a ELSE WithLatest(WithBest(a, h), l)
      BY <2>1
    <3> HIDE DEF l, h
    <3>2. /\ m.cheat_flags = a.cheat_flags /\ m.gap_not_assessable = a.gap_not_assessable
          /\ J = {} => /\ m.best_level = a.best_level /\ m.best_confidence = a.best_confidence
                       /\ m.latest_level = a.latest_level
                       /\ m.latest_confidence = a.latest_confidence
          /\ J # {} =>
               /\ m.latest_level = l.level /\ m.latest_confidence = l.confidence
               /\ IF a.best_level = NoLevel \/ h.level >= a.best_level
                  THEN m.best_level = h.level /\ m.best_confidence = h.confidence
                  ELSE m.best_level = a.best_level /\ m.best_confidence = a.best_confidence
      BY <1>2, <3>1, SMT DEF WithLatest, WithBest, CoverageCell
    <3> QED BY <3>2 DEF l, h
  <2>4. /\ b.gap_not_assessable <=>
             a.gap_not_assessable \/ (n = out.competency_focus /\ seq = <<>>)
        /\ b.cheat_flags = a.cheat_flags + IF n = out.competency_focus THEN out.cheat_flags ELSE 0
    BY <1>3, <1>5, <2>3
  <2>5. /\ b.best_level = m.best_level /\ b.best_confidence = m.best_confidence
        /\ b.latest_level = m.latest_level /\ b.latest_confidence = m.latest_confidence
    BY <1>3
  <2> HIDE DEF seq
  <2> QED BY <2>3, <2>4, <2>5 DEF J, seq, a, b, mid
<1> QED BY <1>4, <1>5

\* The items about a node in a sequence of outputs, and what is said of its cell.
About(q, n) ==
  {k \in Nat \X Nat : /\ k[1] \in DOMAIN q /\ k[2] \in DOMAIN q[k[1]].assessments
                      /\ q[k[1]].assessments[k[2]].node = n}
At(q, k) == q[k[1]].assessments[k[2]]
Levels(cell, q, n) ==
  /\ About(q, n) = {} => cell.best_level = NoLevel /\ cell.latest_level = NoLevel
  /\ About(q, n) # {} => \E k \in About(q, n) : At(q, k).level = cell.best_level
  /\ \A k \in About(q, n) :
       /\ At(q, k).level <= cell.best_level
       /\ (\A l \in About(q, n) : ~Precedes(k, l)) =>
            cell.latest_level = At(q, k).level /\ cell.latest_confidence = At(q, k).confidence
       /\ (At(q, k).level = cell.best_level
             /\ \A l \in About(q, n) : Precedes(k, l) => At(q, l).level < cell.best_level)
            => cell.best_confidence = At(q, k).confidence
Unassessable(cell, q, n) ==
  cell.gap_not_assessable <=>
    \E i \in DOMAIN q : q[i].competency_focus = n /\ q[i].assessments = <<>>

\* The items of one more output follow those before.
LEMMA AboutAppend ==
  ASSUME NEW q \in Seq(AssessorOutput), NEW out \in AssessorOutput, NEW n \in Node
  PROVE  LET p == Append(q, out)
             m == Len(q) + 1
             J == ItemsOf(out, n)
         IN  /\ m \in Nat
             /\ \A k \in About(q, n) : /\ k \in About(p, n) /\ At(p, k) = At(q, k)
                                       /\ At(q, k) \in Assessed
                                       /\ k[1] \in Nat /\ k[2] \in Nat /\ k[1] < m
             /\ \A j \in J : /\ <<m, j>> \in About(p, n) /\ At(p, <<m, j>>) = out.assessments[j]
                             /\ out.assessments[j] \in Assessed /\ j \in Nat
             /\ \A k \in About(p, n) : k \in About(q, n) \/ \E j \in J : k = <<m, j>>
<1> DEFINE p == Append(q, out)
           m == Len(q) + 1
           J == ItemsOf(out, n)
<1>1. m \in Nat /\ DOMAIN q = 1..Len(q) /\ Len(q) \in Nat
  OBVIOUS
<1>2. /\ DOMAIN p = 1..m /\ p[m] = out /\ \A i \in DOMAIN q : p[i] = q[i]
  OBVIOUS
<1>3. /\ \A i \in DOMAIN q : q[i].assessments \in Seq(Assessed)
      /\ out.assessments \in Seq(Assessed)
  <2>1. \A i \in DOMAIN q : q[i] \in AssessorOutput
    BY ElementOfSeq
  <2> QED BY <2>1 DEF AssessorOutput
<1>4. \A w \in Seq(Assessed) : \A j \in DOMAIN w : j \in Nat /\ w[j] \in Assessed
  BY ElementOfSeq
<1> HIDE DEF p, m
<1>5. ASSUME NEW k \in About(q, n)
      PROVE  /\ k \in About(p, n) /\ At(p, k) = At(q, k) /\ At(q, k) \in Assessed
             /\ k[1] \in Nat /\ k[2] \in Nat /\ k[1] < m
  <2>1. /\ k \in Nat \X Nat /\ k[1] \in DOMAIN q /\ k[2] \in DOMAIN q[k[1]].assessments
        /\ q[k[1]].assessments[k[2]].node = n
    BY DEF About
  <2>2. p[k[1]] = q[k[1]] /\ k[1] \in DOMAIN p /\ k[1] < m
    BY <1>1, <1>2, <2>1 DEF m
  <2> QED BY <1>3, <1>4, <2>1, <2>2 DEF About, At
<1>6. ASSUME NEW j \in J
      PROVE  /\ <<m, j>> \in About(p, n) /\ At(p, <<m, j>>) = out.assessments[j]
             /\ out.assessments[j] \in Assessed /\ j \in Nat
  <2>1. j \in DOMAIN out.assessments /\ out.assessments[j].node = n
    BY DEF ItemsOf
  <2>2. j \in Nat /\ out.assessments[j] \in Assessed
    BY <1>3, <1>4, <2>1
  <2>3. <<m, j>> \in Nat \X Nat /\ <<m, j>>[1] = m /\ <<m, j>>[2] = j /\ m \in DOMAIN p
    BY <1>1, <1>2, <2>2 DEF m
  <2> QED BY <1>2, <2>1, <2>2, <2>3 DEF About, At
<1>7. ASSUME NEW k \in About(p, n) PROVE k \in About(q, n) \/ \E j \in J : k = <<m, j>>
  <2>1. /\ k \in Nat \X Nat /\ k[1] \in DOMAIN p /\ k[2] \in DOMAIN p[k[1]].assessments
        /\ p[k[1]].assessments[k[2]].node = n
    BY DEF About
  <2>2. CASE k[1] = m
    <3>1. k[2] \in J /\ k = <<m, k[2]>>
      BY <1>2, <2>1, <2>2 DEF ItemsOf
    <3> QED BY <3>1
  <2>3. CASE k[1] # m
    <3>1. k[1] \in DOMAIN q
      BY <1>1, <1>2, <2>1, <2>3 DEF m
    <3> QED BY <1>2, <2>1, <3>1 DEF About
  <2> QED BY <2>2, <2>3
<1> HIDE DEF J
<1> QED BY <1>1, <1>5, <1>6, <1>7 DEF p, m, J

\* What is said of a cell stays true when one more output is folded into it.
LEMMA LevelsFold ==
  ASSUME NEW cov \in [Node -> CoverageCell], NEW out \in AssessorOutput, NEW n \in Node,
         NEW q \in Seq(AssessorOutput), Levels(cov[n], q, n)
  PROVE  Levels(record_review_signals(record_levels(cov, out), out)[n], Append(q, out), n)
<1> DEFINE a == cov[n]
           b == record_review_signals(record_levels(cov, out), out)[n]
           J == ItemsOf(out, n)
           p == Append(q, out)
           m == Len(q) + 1
           K == About(q, n)
           M == About(p, n)
<1>1. /\ m \in Nat
      /\ \A k \in K : /\ k \in M /\ At(p, k) = At(q, k) /\ At(q, k) \in Assessed
                      /\ k[1] \in Nat /\ k[2] \in Nat /\ k[1] < m
      /\ \A j \in J : /\ <<m, j>> \in M /\ At(p, <<m, j>>) = out.assessments[j]
                      /\ out.assessments[j] \in Assessed /\ j \in Nat
      /\ \A k \in M : k \in K \/ \E j \in J : k = <<m, j>>
  BY AboutAppend
<1>2. a \in CoverageCell
  OBVIOUS
<1>3. /\ K = {} => a.best_level = NoLevel /\ a.latest_level = NoLevel
      /\ K # {} => \E k \in K : At(q, k).level = a.best_level
      /\ \A k \in K :
           /\ At(q, k).level <= a.best_level
           /\ (\A l \in K : ~Precedes(k, l)) =>
                a.latest_level = At(q, k).level /\ a.latest_confidence = At(q, k).confidence
           /\ (At(q, k).level = a.best_level
                 /\ \A l \in K : Precedes(k, l) => At(q, l).level < a.best_level)
                => a.best_confidence = At(q, k).confidence
  BY DEF Levels
<1>4. CASE J = {}
  <2>1. /\ b.best_level = a.best_level /\ b.best_confidence = a.best_confidence
        /\ b.latest_level = a.latest_level /\ b.latest_confidence = a.latest_confidence
    BY <1>4, FoldedCell
  <2> HIDE DEF J, b
  <2>2. M = K
    <3> HIDE DEF M, K, m
    <3> QED BY <1>1, <1>4
  <2> HIDE DEF K, p, a
  <2>3. \A k \in K : At(p, k) = At(q, k)
    BY <1>1
  <2>4. Levels(b, p, n)
    BY <1>3, <2>1, <2>2, <2>3 DEF Levels, K
  <2> QED BY <2>4 DEF b, p
<1>5. CASE J # {}
  <2> DEFINE seq == out.assessments
             last == LastItem(out, n)
             best == BestItem(out, n)
  <2>1. /\ b.latest_level = last.level /\ b.latest_confidence = last.confidence
        /\ IF a.best_level = NoLevel \/ best.level >= a.best_level
           THEN b.best_level = best.level /\ b.best_confidence = best.confidence
           ELSE b.best_level = a.best_level /\ b.best_confidence = a.best_confidence
    BY <1>5, FoldedCell
  <2>2. /\ last \in Assessed /\ best \in Assessed
        /\ \E i \in J : last = seq[i] /\ \A j \in J : j <= i
        /\ \E i \in J : /\ best = seq[i]
                        /\ \A j \in J : \/ seq[j].level < seq[i].level
                                        \/ seq[j].level = seq[i].level /\ j <= i
    <3>1. out.assessments \in Items
      BY DEF AssessorOutput, Items
    <3> QED BY <1>5, <3>1, ItemsExist
  <2> HIDE DEF seq, last, best, J, b
  <2>3. PICK i \in J : last = seq[i] /\ \A j \in J : j <= i
    BY <2>2
  <2>4. PICK h \in J : /\ best = seq[h]
                       /\ \A j \in J : \/ seq[j].level < seq[h].level
                                       \/ seq[j].level = seq[h].level /\ j <= h
    BY <2>2
  <2> HIDE DEF K, M, m, a, p
  <2>5. /\ a.best_level \in Int /\ last.level \in 0..5 /\ best.level \in 0..5
        /\ \A k \in K : At(p, k) = At(q, k) /\ At(q, k).level \in 0..5
        /\ \A j \in J : seq[j].level \in 0..5 /\ j \in Nat /\ <<m, j>> \in M /\ At(p, <<m, j>>) = seq[j]
    BY <1>1, <1>2, <2>2 DEF CoverageCell, Assessed, seq
  <2>6. M # {} /\ \E k \in M : At(p, k).level = b.best_level
    <3>1. <<m, h>> \in M /\ At(p, <<m, h>>) = best
      BY <2>4, <2>5
    <3>2. CASE a.best_level = NoLevel \/ best.level >= a.best_level
      BY <2>1, <3>1, <3>2
    <3>3. CASE ~(a.best_level = NoLevel \/ best.level >= a.best_level)
      <4>1. PICK k \in K : At(q, k).level = a.best_level
        BY <1>3, <3>3
      <4>2. b.best_level = a.best_level /\ k \in M /\ At(p, k) = At(q, k)
        BY <1>1, <2>1, <3>3
      <4> QED BY <3>1, <4>1, <4>2
    <3> QED BY <3>2, <3>3
  <2>7. /\ \A k \in K, j \in J : Precedes(k, <<m, j>>) /\ ~Precedes(<<m, j>>, k)
        /\ \A j, l \in J : Precedes(<<m, j>>, <<m, l>>) <=> j < l
    BY <1>1, <2>5 DEF Precedes
  <2>8. b.best_level \in Int /\ b.best_level >= a.best_level /\ b.best_level >= best.level
    BY <2>1, <2>5 DEF NoLevel
  <2>9. ASSUME NEW k \in M
        PROVE  /\ At(p, k).level <= b.best_level
               /\ (\A l \in M : ~Precedes(k, l)) =>
                    b.latest_level = At(p, k).level /\ b.latest_confidence = At(p, k).confidence
               /\ (At(p, k).level = b.best_level
                     /\ \A l \in M : Precedes(k, l) => At(p, l).level < b.best_level)
                    => b.best_confidence = At(p, k).confidence
    <3>1. CASE k \in K
      <4>1. At(p, k).level <= b.best_level
        BY <1>3, <2>5, <2>8, <3>1
      <4>2. ~(\A l \in M : ~Precedes(k, l))
        BY <2>3, <2>5, <2>7, <3>1
      <4>3. ASSUME At(p, k).level = b.best_level,
                   \A l \in M : Precedes(k, l) => At(p, l).level < b.best_level
            PROVE  b.best_confidence = At(p, k).confidence
        <5>1. best.level < b.best_level
          BY <2>4, <2>5, <2>7, <3>1, <4>3
        <5>2. b.best_level = a.best_level /\ b.best_confidence = a.best_confidence
          BY <2>1, <2>5, <5>1
        <5>3. \A l \in K : Precedes(k, l) => At(q, l).level < a.best_level
          BY <1>1, <2>5, <4>3, <5>2
        <5> QED BY <1>3, <2>5, <3>1, <4>3, <5>2, <5>3
      <4> QED BY <4>1, <4>2, <4>3
    <3>2. ASSUME NEW j \in J, k = <<m, j>>
          PROVE  /\ At(p, k).level <= b.best_level
                 /\ (\A l \in M : ~Precedes(k, l)) =>
                      b.latest_level = At(p, k).level /\ b.latest_confidence = At(p, k).confidence
                 /\ (At(p, k).level = b.best_level
                       /\ \A l \in M : Precedes(k, l) => At(p, l).level < b.best_level)
                      => b.best_confidence = At(p, k).confidence
      <4>0. /\ At(p, k) = seq[j] /\ seq[j].level \in Int /\ seq[h].level \in Int
            /\ j \in Nat /\ i \in Nat /\ h \in Nat
        <5>1. /\ seq[j].level \in 0..5 /\ seq[h].level \in 0..5
              /\ j \in Nat /\ i \in Nat /\ h \in Nat /\ At(p, <<m, j>>) = seq[j]
          BY <2>5
        <5> QED BY <3>2, <5>1
      <4>a. /\ j <= i
            /\ seq[j].level < seq[h].level \/ (seq[j].level = seq[h].level /\ j <= h)
        BY <2>3, <2>4
      <4>1. At(p, k).level <= b.best_level
        BY <2>4, <2>5, <2>8, <4>0
      <4>2. ASSUME \A l \in M : ~Precedes(k, l)
            PROVE  At(p, k) = last
        <5>1. ~(j < i)
          BY <2>5, <2>7, <3>2, <4>2
        <5>2. j = i
          BY <4>0, <4>a, <5>1
        <5> QED BY <2>3, <4>0, <5>2
      <4>3. ASSUME At(p, k).level = b.best_level,
                   \A l \in M : Precedes(k, l) => At(p, l).level < b.best_level
            PROVE  b.best_confidence = At(p, k).confidence
        <5>1. seq[j].level = best.level /\ b.best_level = best.level
          BY <2>4, <2>5, <2>8, <4>0, <4>3
        <5>2. ~(j < h)
          <6>1. /\ <<m, h>> \in M /\ At(p, <<m, h>>) = best
                /\ j < h => Precedes(k, <<m, h>>)
            BY <2>4, <2>5, <2>7, <3>2
          <6>2. ~(best.level < b.best_level)
            BY <2>5, <5>1
          <6> QED BY <4>3, <6>1, <6>2
        <5>3. j = h
          BY <2>4, <4>0, <4>a, <5>1, <5>2
        <5>4. b.best_confidence = best.confidence
          <6>1. best.level >= a.best_level
            BY <2>5, <2>8, <5>1
          <6> QED BY <2>1, <6>1
        <5> QED BY <2>4, <4>0, <5>3, <5>4
      <4> QED BY <2>1, <4>1, <4>2, <4>3
    <3> QED BY <1>1, <3>1, <3>2
  <2>10. Levels(b, p, n)
    BY <2>6, <2>9 DEF Levels, M
  <2> QED BY <2>10 DEF b, p
<1> QED BY <1>4, <1>5

\* And so does what is said of its gap.
LEMMA UnassessableFold ==
  ASSUME NEW cov \in [Node -> CoverageCell], NEW out \in AssessorOutput, NEW n \in Node,
         NEW q \in Seq(AssessorOutput), Unassessable(cov[n], q, n)
  PROVE  Unassessable(record_review_signals(record_levels(cov, out), out)[n], Append(q, out), n)
<1> DEFINE a == cov[n]
           b == record_review_signals(record_levels(cov, out), out)[n]
           p == Append(q, out)
           m == Len(q) + 1
<1>1. b.gap_not_assessable <=>
        a.gap_not_assessable \/ (n = out.competency_focus /\ out.assessments = <<>>)
  BY FoldedCell
<1>2. DOMAIN p = DOMAIN q \cup {m} /\ p[m] = out /\ \A i \in DOMAIN q : p[i] = q[i]
  OBVIOUS
<1> HIDE DEF b, p, m
<1>3. Unassessable(b, p, n)
  BY <1>1, <1>2 DEF Unassessable
<1> QED BY <1>3 DEF b, p

\* And so does what is counted of its flags.
LEMMA FlagsFold ==
  ASSUME NEW cov \in [Node -> CoverageCell], NEW out \in AssessorOutput, NEW n \in Node,
         NEW q \in Seq(AssessorOutput), cov[n].cheat_flags = FlagsOn({n}, q)
  PROVE  record_review_signals(record_levels(cov, out), out)[n].cheat_flags
           = FlagsOn({n}, Append(q, out))
<1> DEFINE b == record_review_signals(record_levels(cov, out), out)[n]
<1>1. b.cheat_flags = cov[n].cheat_flags + IF n = out.competency_focus THEN out.cheat_flags ELSE 0
  BY FoldedCell
<1>2. Gain({n}, out) = IF n = out.competency_focus THEN out.cheat_flags ELSE 0
  BY DEF Gain
<1> HIDE DEF b
<1>3. b.cheat_flags = FlagsOn({n}, Append(q, out))
  BY <1>1, <1>2, FlagsAppend
<1> QED BY <1>3 DEF b

\* The invariant, cell by cell.
Told(cov, q) ==
  \A n \in Node : /\ Levels(cov[n], q, n) /\ Unassessable(cov[n], q, n)
                  /\ cov[n].cheat_flags = FlagsOn({n}, q)

\* The items about a node are found in the record of the outputs taken in.
LEMMA ItemsAreAbout ==
  ASSUME TypeOK, NEW n
  PROVE  ItemsAbout(n) = About(accepted, n)
<1>1. /\ \A i \in DOMAIN accepted : i \in Nat /\ accepted[i].assessments \in Seq(Assessed)
  <2>1. \A i \in DOMAIN accepted : i \in Nat /\ accepted[i] \in AssessorOutput
    BY ElementOfSeq DEF TypeOK
  <2> QED BY <2>1 DEF AssessorOutput
<1>2. \A i \in DOMAIN accepted : \A j \in DOMAIN accepted[i].assessments : j \in Nat
  BY <1>1
<1>3. ASSUME NEW k \in ItemsAbout(n) PROVE k \in About(accepted, n)
  <2>1. \E i \in DOMAIN accepted : \E j : k = <<i, j>>
    BY DEF ItemsAbout
  <2>2. PICK i \in DOMAIN accepted : \E j : k = <<i, j>>
    BY <2>1
  <2>3. PICK j : k = <<i, j>>
    BY <2>2
  <2>4. j \in DOMAIN accepted[i].assessments /\ accepted[i].assessments[j].node = n
    BY <2>3 DEF ItemsAbout
  <2> QED BY <1>1, <1>2, <2>3, <2>4 DEF About
<1>4. ASSUME NEW k \in About(accepted, n) PROVE k \in ItemsAbout(n)
  <2>1. /\ k = <<k[1], k[2]>> /\ k[1] \in DOMAIN accepted
        /\ k[2] \in DOMAIN accepted[k[1]].assessments
        /\ accepted[k[1]].assessments[k[2]].node = n
    BY DEF About
  <2>2. k[2] \in UNION {DOMAIN accepted[i].assessments : i \in DOMAIN accepted}
    BY <2>1
  <2> QED BY <2>1, <2>2 DEF ItemsAbout
<1> QED BY <1>3, <1>4

\* CoverageIsTheEvidence says no more and no less.
EvidenceIsTold ==
  TypeOK => (CoverageIsTheEvidence <=>
               st.cheat_flag_count = FlagsOn(Node, accepted) /\ Told(st.coverage, accepted))
\* It holds of every well-typed state.
LEMMA EvidenceReads == EvidenceIsTold
<1> SUFFICES ASSUME TypeOK
             PROVE  CoverageIsTheEvidence <=>
                      st.cheat_flag_count = FlagsOn(Node, accepted) /\ Told(st.coverage, accepted)
  BY DEF EvidenceIsTold
<1>1. \A n \in Node : ItemsAbout(n) = About(accepted, n)
  BY ItemsAreAbout
<1>2. \A k : ItemAt(k) = At(accepted, k)
  BY DEF ItemAt, At
<1>3. ASSUME NEW n \in Node
      PROVE  LET cell == st.coverage[n]
                 items == ItemsAbout(n)
             IN  Levels(cell, accepted, n) <=>
                   /\ items = {} => cell.best_level = NoLevel /\ cell.latest_level = NoLevel
                   /\ items # {} => \E k \in items : ItemAt(k).level = cell.best_level
                   /\ \A k \in items :
                        /\ ItemAt(k).level <= cell.best_level
                        /\ (\A l \in items : ~Precedes(k, l)) =>
                             cell.latest_level = ItemAt(k).level
                             /\ cell.latest_confidence = ItemAt(k).confidence
                        /\ (ItemAt(k).level = cell.best_level
                              /\ \A l \in items : Precedes(k, l) => ItemAt(l).level < cell.best_level)
                             => cell.best_confidence = ItemAt(k).confidence
  BY <1>1, Zenon DEF Levels, ItemAt, At
<1> QED BY <1>3, Zenon DEF CoverageIsTheEvidence, Told, Unassessable

\* In every state, and so in the next.
LEMMA EvidenceReadsNext == EvidenceIsTold'
  BY EvidenceReads, PTL

\* A step that takes an output in, and one that does not.
LEMMA StepEvidence ==
  ASSUME IInv, CoverageIsTheEvidence, IInv',
         \/ SameEvidence(st, st') /\ accepted' = accepted
         \/ \E out \in AssessorOutput : TakesIn(st, st', out) /\ accepted' = Append(accepted, out)
  PROVE  CoverageIsTheEvidence'
<1>1. /\ TypeOK /\ TypeOK' /\ accepted \in Seq(AssessorOutput)
      /\ st.coverage \in [Node -> CoverageCell] /\ st'.coverage \in [Node -> CoverageCell]
      /\ st.cheat_flag_count \in Nat
  BY DEF IInv, TypeOK, SessionState
<1>2. st.cheat_flag_count = FlagsOn(Node, accepted) /\ Told(st.coverage, accepted)
  BY <1>1, EvidenceReads DEF EvidenceIsTold
<1>4. CASE SameEvidence(st, st') /\ accepted' = accepted
  <2>1. Told(st'.coverage, accepted')
    <3>1. ASSUME NEW n \in Node PROVE Levels(st'.coverage[n], accepted, n)
      <4>1. SameCell(st.coverage[n], st'.coverage[n]) /\ Levels(st.coverage[n], accepted, n)
        BY <1>2, <1>4 DEF SameEvidence, Told
      <4> QED BY <4>1, Zenon DEF SameCell, Levels
    <3>2. ASSUME NEW n \in Node PROVE Unassessable(st'.coverage[n], accepted, n)
      <4>1. SameCell(st.coverage[n], st'.coverage[n]) /\ Unassessable(st.coverage[n], accepted, n)
        BY <1>2, <1>4 DEF SameEvidence, Told
      <4> QED BY <4>1, Zenon DEF SameCell, Unassessable
    <3>3. ASSUME NEW n \in Node PROVE st'.coverage[n].cheat_flags = FlagsOn({n}, accepted)
      BY <1>2, <1>4 DEF SameEvidence, SameCell, Told
    <3> QED BY <1>4, <3>1, <3>2, <3>3 DEF Told
  <2>2. st'.cheat_flag_count = FlagsOn(Node, accepted')
    BY <1>2, <1>4 DEF SameEvidence
  <2> QED BY <1>1, <2>1, <2>2, EvidenceReadsNext DEF EvidenceIsTold
<1>5. ASSUME NEW out \in AssessorOutput, TakesIn(st, st', out), accepted' = Append(accepted, out)
      PROVE  CoverageIsTheEvidence'
  <2>1. /\ st'.cheat_flag_count = st.cheat_flag_count + out.cheat_flags
        /\ st'.coverage = record_review_signals(record_levels(st.coverage, out), out)
    BY <1>5 DEF TakesIn
  <2>2. Told(st'.coverage, accepted')
    <3> SUFFICES ASSUME NEW n \in Node
                 PROVE  /\ Levels(st'.coverage[n], accepted', n)
                        /\ Unassessable(st'.coverage[n], accepted', n)
                        /\ st'.coverage[n].cheat_flags = FlagsOn({n}, accepted')
      BY DEF Told
    <3> DEFINE cov == record_review_signals(record_levels(st.coverage, out), out)
               q == Append(accepted, out)
    <3>1. /\ Levels(st.coverage[n], accepted, n) /\ Unassessable(st.coverage[n], accepted, n)
          /\ st.coverage[n].cheat_flags = FlagsOn({n}, accepted)
      BY <1>2 DEF Told
    <3>2. Levels(cov[n], q, n)
      BY <1>1, <3>1, LevelsFold
    <3>3. Unassessable(cov[n], q, n)
      BY <1>1, <3>1, UnassessableFold
    <3>4. cov[n].cheat_flags = FlagsOn({n}, q)
      BY <1>1, <3>1, FlagsFold
    <3> HIDE DEF cov, q
    <3> QED BY <1>5, <2>1, <3>2, <3>3, <3>4 DEF cov, q
  <2>3. st'.cheat_flag_count = FlagsOn(Node, accepted')
    <3>1. Gain(Node, out) = out.cheat_flags
      BY DEF AssessorOutput, Gain
    <3>2. FlagsOn(Node, Append(accepted, out)) = FlagsOn(Node, accepted) + Gain(Node, out)
      BY <1>1, FlagsAppend
    <3> QED BY <1>2, <1>5, <2>1, <3>1, <3>2
  <2> QED BY <1>1, <2>2, <2>3, EvidenceReadsNext DEF EvidenceIsTold
<1> QED BY <1>4, <1>5

\* One event: what it does to the evidence is on the record of outputs.
LEMMA ApplyEvidence ==
  ASSUME IInv, CoverageIsTheEvidence, IInv', NEW e \in SessionEvent, NEW raised, Apply(e, raised),
         IF e.kind = "assessment_completed" /\ st' # st
         THEN accepted' = Append(accepted, e.output) /\ e.output \in AssessorOutput
         ELSE accepted' = accepted
  PROVE  CoverageIsTheEvidence'
<1>1. Evident(st, e, st')
  BY TransitionEvident DEF Apply, IInv, TypeOK, PlanHolds
<1>2. SameEvidence(st, st)
  BY DEF SameEvidence, SameCell
<1> QED BY <1>1, <1>2, StepEvidence DEF Evident, TakesIn

\* Whatever order the assessors answer in, each cell of the coverage is what
\* the outputs taken in say of its node: its best level is said by one of them
\* and by none exceeded, its flags are those of the outputs on it, and the
\* session's are those of them all.
THEOREM EvidenceKept == Spec => []CoverageIsTheEvidence
<1>1. ASSUME Init PROVE CoverageIsTheEvidence
  <2>1. PICK p \in Plans : st = initial_state(p)
    BY <1>1 DEF Init
  <2>2. /\ st.coverage = [n \in Node |-> EmptyCell] /\ st.cheat_flag_count = 0 /\ accepted = <<>>
    BY <1>1, <2>1 DEF Init, initial_state
  <2>3. TypeOK
    BY <1>1, InitIInv DEF IInv
  <2>4. Told(st.coverage, accepted)
    <3>1. ASSUME NEW n \in Node PROVE Levels(st.coverage[n], accepted, n)
      <4>1. About(accepted, n) = {}
        BY <2>2 DEF About
      <4>2. st.coverage[n].best_level = NoLevel /\ st.coverage[n].latest_level = NoLevel
        BY <2>2 DEF EmptyCell
      <4> QED BY <4>1, <4>2 DEF Levels
    <3>2. ASSUME NEW n \in Node PROVE Unassessable(st.coverage[n], accepted, n)
      BY <2>2 DEF EmptyCell, Unassessable
    <3>3. ASSUME NEW n \in Node PROVE st.coverage[n].cheat_flags = FlagsOn({n}, accepted)
      BY <2>2, NoFlags DEF EmptyCell
    <3> QED BY <3>1, <3>2, <3>3, Zenon DEF Told
  <2>5. st.cheat_flag_count = FlagsOn(Node, accepted)
    BY <2>2, NoFlags
  <2> QED BY <2>2, <2>3, <2>4, <2>5, EvidenceReads DEF EvidenceIsTold
<1>2. ASSUME IInv, CoverageIsTheEvidence, [Next]_vars, IInv' PROVE CoverageIsTheEvidence'
  <2>1. ASSUME NEW e \in SessionEvent, NEW raised, Apply(e, raised),
               e.kind # "assessment_completed", accepted' = accepted
        PROVE  CoverageIsTheEvidence'
    BY <1>2, <2>1, ApplyEvidence
  <2>2. CASE Elapse \/ UNCHANGED vars
    <3>1. SameEvidence(st, st') /\ accepted' = accepted
      BY <2>2 DEF Elapse, vars, SameEvidence, SameCell
    <3> QED BY <1>2, <3>1, StepEvidence
  <2>3. CASE Start \/ CandidateTurn \/ Resume \/ Tick \/ Operator
    BY <1>2, <2>1, <2>3, EventTypes
       DEF Start, CandidateTurn, Resume, Tick, Operator, SessionStarted, CandidateTurnReceived,
           Reconnected, TimerTick, OperatorAbort
  <2>4. CASE InterviewerReply \/ InterviewerFailure \/ AssessmentFailure
    BY <1>2, <2>1, <2>4, EventTypes
       DEF InterviewerReply, InterviewerFailure, AssessmentFailure, InterviewerReplyReady,
           InterviewerFailed, AssessmentFailed
  <2>5. CASE Assessment
    <3>1. PICK t \in TurnId, out \in AssessorOutputs :
            /\ Apply(AssessmentCompleted(t, out), 0)
            /\ IF st' = st THEN UNCHANGED <<accepted, resolved>>
               ELSE accepted' = Append(accepted, out) /\ resolved' = resolved \cup {t}
      BY <2>5 DEF Assessment
    <3> DEFINE e == AssessmentCompleted(t, out)
    <3>2. e \in SessionEvent /\ e.kind = "assessment_completed" /\ e.output = out
      BY <1>2, EventTypes DEF AssessmentCompleted
    <3>3. out \in AssessorOutput
      BY OutputAssumption
    <3>4. Apply(e, 0)
      BY <3>1
    <3> HIDE DEF e
    <3> QED BY <1>2, <3>1, <3>2, <3>3, <3>4, ApplyEvidence
  <2> QED BY <1>2, <2>2, <2>3, <2>4, <2>5 DEF Next
<1>3. IInv /\ [Next]_vars => IInv'
  BY NextIInv
<1>4. Init => IInv
  BY InitIInv
<1> QED BY <1>1, <1>2, <1>3, <1>4, PTL DEF Spec
=============================================================================
