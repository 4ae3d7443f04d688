----------------------------- MODULE DevSession -----------------------------
(***************************************************************************)
(* The imperative shell around the core: app/backend/services/             *)
(* dev_session.py behind app/backend/api/dev_sessions.py, for one session. *)
(* The session lives in one interview_session row (session_state and       *)
(* dev_transcript) and in the append-only session_decision and turn_trace  *)
(* tables.  A worker is the coroutine of one request together with the     *)
(* background task it leaves behind, the assessor call, which runs after   *)
(* the response is sent.  Workers share the row and nothing else: there is *)
(* no lock and no version column.                                          *)
(*                                                                         *)
(* A step runs from one await to the next: a statement, or an agent call.  *)
(* Of the commands of a transition at most one awaits (CommandKinds in     *)
(* TransitionSteps lists them), so the others happen with the write        *)
(* that precedes them.                                                     *)
(*                                                                         *)
(* The shell sends no periodic TimerTick and no Reconnected, so all events *)
(* carry one instant, 0; Orchestrator is where time passes.  Costs are     *)
(* whole units of money.  A suffix in capitals marks a mutated form, as in *)
(* StateMachine.                                                           *)
(***************************************************************************)
EXTENDS StateMachine, FiniteSets

CONSTANTS
  Worker,           \* coroutines that may run at the same time
  NoRow,            \* before create_session
  AssessorOutputs,  \* outputs the assessor may return
  OtherMoves,       \* moves the interviewer may report in place of the one issued
  Costs,            \* what one model call may cost
  Ceiling,          \* session_cost_ceiling_usd and llm_budget_per_session_usd
  EnforceCeiling,   \* the enforce_session_cost_ceiling flag
  AgentsFail,       \* whether model calls fail
  Patient,          \* the client waits for a response before its next request
  MaxPosts,         \* bound on the turns posted
  MaxDeaths         \* bound on the workers that die

ASSUME BoundAssumption ==
  /\ MaxPosts \in Nat /\ MaxDeaths \in Nat
  /\ \A n \in 0..(MaxPosts - 1) : n \in TurnId

ASSUME WorkerAssumption == IsFiniteSet(Worker)

\* What the agents' contracts let through: agents/assessor.py and interviewer.py.
ASSUME AnswerAssumption ==
  AssessorOutputs \subseteq AssessorOutput /\ OtherMoves \subseteq InterviewerMove

\* limits_config.py wants the ceiling positive, cost_ledger.py no cost
\* negative.
ASSUME CostAssumption == Costs \subseteq Nat /\ Ceiling \in Nat \ {0}

TranscriptLine == [role : {"system", "interviewer", "candidate"}, turn_id : Int]
Row == [state : SessionState, transcript : Seq(TranscriptLine)]

ASSUME RowAssumption == NoRow \notin Row

VARIABLES
  row,        \* NoRow or [state, transcript]
  known,      \* the client has been told the session's id
  worker,     \* Worker -> what its coroutine holds
  decisions,  \* reasons of the session_decision rows
  spent,      \* SUM(turn_trace.cost_usd)
  asked,      \* turn id -> assessor calls scheduled for it
  landed,     \* turns whose assessment a worker has written to the row
  posts,      \* turns posted
  deaths      \* workers that died

vars == <<row, known, worker, decisions, spent, asked, landed, posts, deaths>>

Line(role, turn_id) == [role |-> role, turn_id |-> turn_id]
LinesOf(transcript, role) == {i \in DOMAIN transcript : transcript[i].role = role}

NoTask == RunAssessor(-1, NoNode)
Idle ==
  [pc |-> "idle", background |-> FALSE, state |-> NoRow, transcript |-> <<>>, events |-> <<>>,
   call |-> NoCommand, tries |-> 0, task |-> NoTask, grew |-> FALSE]

Init ==
  /\ row = NoRow /\ known = FALSE
  /\ worker = [w \in Worker |-> Idle]
  /\ decisions = <<>> /\ spent = 0
  /\ asked = [t \in TurnId |-> 0] /\ landed = {}
  /\ posts = 0 /\ deaths = 0

-----------------------------------------------------------------------------
\* The control of a worker.

Goes(w, next) == worker' = [worker EXCEPT ![w] = next]

\* _drive's loop: the commands are done and me.events holds what they led to.
\* When no event is left the response is sent, and the background task runs.
AfterCommands(me) ==
  IF me.events # <<>> THEN [me EXCEPT !.pc = "apply"]
  ELSE IF me.task # NoTask
    THEN [Idle EXCEPT !.pc = "guard", !.background = TRUE, !.call = me.task, !.task = NoTask]
  ELSE Idle

AfterCommand_NO_SAVE(me) == AfterCommands(me)

\* A transcript that grew is written again before the follow-up events.
AfterCommand(me) == IF me.grew THEN [me EXCEPT !.pc = "save"] ELSE AfterCommands(me)

\* The response of the request the worker serves is sent when it is done.
Responds(w) == worker'[w].pc = "idle" \/ worker'[w].background

Busy == \E w \in Worker : worker[w].pc # "idle"
Serving == \E w \in Worker : worker[w].pc # "idle" /\ ~worker[w].background

MayPost == Patient => ~Serving

-----------------------------------------------------------------------------
\* The requests.

\* create_session: the row and its initial state, whose id nobody else has
\* yet, then SessionStarted.
Create(w) ==
  /\ row = NoRow /\ worker[w] = Idle
  /\ \E p \in Plans :
        /\ row' = [state |-> initial_state(p), transcript |-> <<>>]
        /\ Goes(w, [Idle EXCEPT !.pc = "apply", !.state = initial_state(p),
                                !.events = <<SessionStarted(0)>>])
  /\ UNCHANGED <<known, decisions, spent, asked, landed, posts, deaths>>

\* post_turn's 409s.
AcceptsTurn(s) ==
  /\ s.phase \notin TerminalPhases
  /\ s.phase = "intro" \/ s.awaiting = "candidate"


\* A turn is named by the number of candidate lines before it.
NextOrdinal(transcript) == Cardinality(LinesOf(transcript, "candidate"))

\* _load reads session_state, then in a second statement dev_transcript.
PostTurn(w) ==
  /\ row # NoRow /\ known /\ MayPost /\ worker[w] = Idle
  /\ AcceptsTurn(row.state)
  /\ posts < MaxPosts
  /\ Goes(w, [Idle EXCEPT !.pc = "read_log", !.state = row.state])
  /\ posts' = posts + 1
  /\ UNCHANGED <<row, known, decisions, spent, asked, landed, deaths>>

ReadLog(w) ==
  LET me == worker[w]
      turn_id == NextOrdinal(row.transcript)
  IN  /\ me.pc = "read_log"
      /\ IF me.background
         THEN Goes(w, [me EXCEPT !.pc = "apply", !.transcript = row.transcript])
         ELSE Goes(w, [me EXCEPT !.pc = "apply",
                         !.transcript = Append(row.transcript, Line("candidate", turn_id)),
                         !.events = <<CandidateTurnReceived(turn_id, 0)>>])
      /\ UNCHANGED <<row, known, decisions, spent, asked, landed, posts, deaths>>

-----------------------------------------------------------------------------
\* One event of _drive: transition, write the row, run the commands up to
\* the one that awaits.

Said(r) ==
  LET spoken(kind, role) ==
        [i \in DOMAIN Emitted(r, kind) |-> Line(role, Emitted(r, kind)[i].turn_id)]
  IN  spoken("opening", "system") \o spoken("closing", "system")
        \o spoken("deliver_utterance", "interviewer")

\* The row a decision becomes: an operator's decision is recorded under the
\* reason of the abort.
DecisionRow(command, s) ==
  IF command.reason = "operator" THEN s.abort_reason ELSE command.reason

\* What the commands that do not await leave the worker with.
Heard(me, r) ==
  [me EXCEPT !.state = r.new_state,
             !.transcript = @ \o Said(r),
             !.grew = Said(r) # <<>>,
             !.events = Tail(@) \o [i \in DOMAIN Emitted(r, "closing") |-> TimerTick(0)],
             !.task = IF Emitted(r, "run_assessor") = <<>> THEN @
                      ELSE Emitted(r, "run_assessor")[1]]

Executing(me, r) ==
  LET heard == Heard(me, r)
  IN  IF Emitted(r, "run_interviewer") # <<>>
        THEN [heard EXCEPT !.pc = "guard", !.call = Emitted(r, "run_interviewer")[1], !.tries = 0]
      ELSE IF Emitted(r, "record_decision") # <<>>
        THEN [heard EXCEPT !.pc = "decide", !.call = Emitted(r, "record_decision")[1]]
      ELSE AfterCommand(heard)

Written_OLD_STATE(me, r) == [state |-> me.state, transcript |-> me.transcript]
Written(me, r) == [state |-> r.new_state, transcript |-> me.transcript]

IsAssessment(e) == e.kind \in {"assessment_completed", "assessment_failed"}

Apply(w) ==
  LET me == worker[w]
      e == Head(me.events)
      r == transition(me.state, e)
      scheduled == Emitted(r, "run_assessor")
  IN  /\ me.pc = "apply"
      /\ row' = Written(me, r)
      /\ Goes(w, Executing(me, r))
      /\ known' = (known \/ Responds(w))
      /\ asked' = IF scheduled = <<>> THEN asked
                  ELSE [asked EXCEPT ![scheduled[1].turn_id] = @ + 1]
      /\ landed' = IF IsAssessment(e) /\ r.new_state # me.state
                   THEN landed \cup {e.turn_id} ELSE landed
      /\ UNCHANGED <<decisions, spent, posts, deaths>>

RecordedDecision(w) ==
  LET me == worker[w]
  IN  /\ me.pc = "decide"
      /\ decisions' = Append(decisions, DecisionRow(me.call, me.state))
      /\ Goes(w, AfterCommand(me))
      /\ known' = (known \/ Responds(w))
      /\ UNCHANGED <<row, spent, asked, landed, posts, deaths>>

Save(w) ==
  LET me == worker[w]
  IN  /\ me.pc = "save"
      /\ row' = [state |-> me.state, transcript |-> me.transcript]
      /\ Goes(w, AfterCommands([me EXCEPT !.grew = FALSE]))
      /\ known' = (known \/ Responds(w))
      /\ UNCHANGED <<decisions, spent, asked, landed, posts, deaths>>

-----------------------------------------------------------------------------
\* An agent call, of the interviewer in a request and of the assessor in the
\* background.  Its outcome is the next event; the assessor's is applied to
\* the row as it is then.

Exceeded_TOO_LATE == spent > Ceiling
Exceeded == spent >= Ceiling

Outcome(me, e) ==
  IF me.background THEN [me EXCEPT !.pc = "reload", !.events = <<e>>]
  ELSE AfterCommand([me EXCEPT !.events = Append(@, e)])

Failed(me) ==
  IF me.background THEN AssessmentFailed(me.call.turn_id) ELSE InterviewerFailed(me.call.turn_id)

\* guard_session_budget: a breach ends the session only while enforced.
GuardBudget(w) ==
  LET me == worker[w]
  IN  /\ me.pc = "guard"
      /\ Goes(w, IF Exceeded /\ EnforceCeiling
                 THEN Outcome(me, OperatorAbort("cost_ceiling"))
                 ELSE [me EXCEPT !.pc = "call"])
      /\ UNCHANGED <<row, known, decisions, spent, asked, landed, posts, deaths>>

\* call_model refuses by itself once the budget is spent.
EnterCall(w) ==
  LET me == worker[w]
  IN  /\ me.pc = "call"
      /\ Goes(w, IF Exceeded THEN Outcome(me, Failed(me)) ELSE [me EXCEPT !.pc = "answer"])
      /\ UNCHANGED <<row, known, decisions, spent, asked, landed, posts, deaths>>

Answers(me) ==
  IF me.background
  THEN {AssessmentCompleted(me.call.turn_id, out) :
          out \in {o \in AssessorOutputs : o.competency_focus = me.call.node}}
  ELSE {InterviewerReplyReady(me.call.turn_id, m) : m \in {me.call.move} \cup OtherMoves}

\* The call returns, having written its trace row with its cost.
Answer(w) ==
  LET me == worker[w]
  IN  /\ me.pc = "answer"
      /\ \E e \in Answers(me) : Goes(w, Outcome(me, e))
      /\ \E cost \in Costs : spent' = spent + cost
      /\ UNCHANGED <<row, known, decisions, asked, landed, posts, deaths>>

\* An answer that misses the agent's contract is asked for once more.
Miss(w) ==
  LET me == worker[w]
  IN  /\ me.pc = "answer" /\ AgentsFail
      /\ Goes(w, IF me.tries = 0 THEN [me EXCEPT !.pc = "call", !.tries = 1]
                 ELSE Outcome(me, Failed(me)))
      /\ \E cost \in Costs : spent' = spent + cost
      /\ UNCHANGED <<row, known, decisions, asked, landed, posts, deaths>>

\* Any other error of the wrapper is not retried by the agent.
CallFails(w) ==
  LET me == worker[w]
  IN  /\ me.pc = "answer" /\ AgentsFail
      /\ Goes(w, Outcome(me, Failed(me)))
      /\ UNCHANGED <<row, known, decisions, spent, asked, landed, posts, deaths>>

Reload(w) ==
  /\ worker[w].pc = "reload"
  /\ Goes(w, [worker[w] EXCEPT !.pc = "read_log", !.state = row.state])
  /\ UNCHANGED <<row, known, decisions, spent, asked, landed, posts, deaths>>

\* The process crashes, or a statement raises: the request and its
\* background task are gone, what they wrote stays.
Die(w) ==
  /\ worker[w] # Idle /\ deaths < MaxDeaths
  /\ Goes(w, Idle)
  /\ deaths' = deaths + 1
  /\ UNCHANGED <<row, known, decisions, spent, asked, landed, posts>>

-----------------------------------------------------------------------------
Runs(w) == \/ ReadLog(w) \/ Apply(w) \/ RecordedDecision(w) \/ Save(w)
           \/ GuardBudget(w) \/ EnterCall(w) \/ Answer(w) \/ Miss(w) \/ CallFails(w) \/ Reload(w)

Next == \E w \in Worker : Create(w) \/ PostTurn(w) \/ Runs(w) \/ Die(w)

Spec == Init /\ [][Next]_vars

\* A coroutine runs on: statements return, and call_model answers or times out.
FairSpec == Spec /\ \A w \in Worker : WF_vars(Runs(w))

-----------------------------------------------------------------------------
Ended == row # NoRow /\ row.state.phase \in TerminalPhases

\* Whatever the workers overwrite of each other's work, the row always holds
\* one state the core produced, coherent in itself: a reader of the row, or a
\* resume from it, never meets a mixture of two (contract section 9).
RowIsCoherent ==
  row # NoRow => TurnTakingIn(row.state) /\ PlanHoldsIn(row.state) /\ FlaggedIn(row.state)

\* The move a request calls the interviewer for is already in the row, as the
\* command to re-issue: the write comes before the call (contract section 9).
WriteAhead ==
  \A w \in Worker :
    worker[w].pc \in {"guard", "call", "answer"} /\ ~worker[w].background =>
      row.state.pending_command = worker[w].call

\* A turn whose assessment was written to the row is not pending in it again:
\* what the assessor found is not lost (contract section 6.8).
LandedIsNotPending ==
  \A t \in landed : row.state.assessment_focus[t] = NoNode

\* What was done is in the row to resume from: the call being made and the
\* assessments that came back.
RowKeepsWhatWasDone == WriteAhead /\ LandedIsNotPending

\* No candidate turn is scheduled for assessment twice: its id is derived from
\* its ordinal, which "keep[s] a re-POSTed turn from being scheduled for
\* assessment twice" (_candidate_turn_id, dev_session.py 404-405).  The ordinal
\* is read from a transcript that an overlapping request has read as well.
AskedOnce == \A t \in TurnId : asked[t] <= 1

\* The decisions table against the row: a decision is there only for a session
\* that is over, only one is, and unless a worker died it is.
DecisionMatchesRow ==
  /\ Len(decisions) <= 1
  /\ decisions # <<>> => Ended
  /\ Ended /\ ~Busy /\ deaths = 0 => decisions # <<>>
  /\ decisions # <<>> /\ decisions[1] = "completed" => row.state.phase = "completed"

\* The transcript reads as the interview went: candidate turns are numbered
\* without gaps, each utterance is there once and in order, and what a
\* candidate is waiting to answer has been said, once the shell is at rest.
TranscriptIsTheDialog ==
  row # NoRow =>
    LET log == row.transcript
        said == LinesOf(log, "interviewer")
        heard == LinesOf(log, "candidate")
    IN  /\ \A i \in heard : log[i].turn_id = Cardinality({j \in heard : j < i})
        /\ \A i, j \in said : i < j => log[i].turn_id < log[j].turn_id
        /\ ~Serving /\ deaths = 0 /\ row.state.awaiting = "candidate" =>
             \E i \in said : /\ log[i].turn_id = row.state.pending_command.turn_id
                             /\ \A j \in said : j <= i

\* However many requests run at once, the spend passes the ceiling by at most
\* the calls that were under way when it was reached: the total is read before
\* a call and grows after it.
SpendIsBounded ==
  \A c \in Costs : (\A d \in Costs : d <= c) => spent < Ceiling + c * Cardinality(Worker)

\* Edge 20 in the database: a session that is over in the row stays over.
EndedRowStays == [][Ended => row'.state = row.state]_vars

\* A turn that was accepted is answered unless a worker died: the session does
\* not stay waiting for an interviewer nobody is calling, which would refuse
\* every later turn.
Unanswered ==
  row # NoRow /\ row.state.phase \in {"tech", "qa", "close"} /\ row.state.awaiting = "interviewer"
TurnIsAnswered == Unanswered ~> ~Unanswered \/ deaths > 0
=============================================================================
