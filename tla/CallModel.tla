----------------------------- MODULE CallModel -----------------------------
(***************************************************************************)
(* app/backend/llm/vertex.py call_model and the one-retry policy of the    *)
(* agents above it, for the agent turns of one session that run at the     *)
(* same time (the interviewer's and the background assessor's).            *)
(*                                                                         *)
(* A turn makes one or two calls; a call reads the budget, runs up to      *)
(* three backend attempts under one wall clock, writes its trace, which is *)
(* its charge (PostgresCostLedger), and returns.  An action is what runs   *)
(* between two awaits that suspend.                                        *)
(***************************************************************************)
EXTENDS Naturals, Sequences, FiniteSets

CONSTANTS
  Task,      \* tasks that run agent turns of the session
  Ceiling,   \* llm_budget_per_session_usd
  MaxCost,   \* bound: the most one answer costs
  MaxTurns,  \* bound: agent turns of a task
  Faults,    \* what may fail besides the backend: "ledger", "sink"
  StatusCodes, \* HTTP statuses the provider may answer with
  Texts,     \* what the model may write
  MeetsSchema(_)  \* whether a text is JSON that meets the agent's schema

MaxAttempts == 3   \* stop_after_attempt(3)

ASSUME CallAssumption ==
  /\ IsFiniteSet(Task) /\ Ceiling \in Nat /\ MaxCost \in Nat /\ MaxTurns \in Nat
  /\ Faults \subseteq {"ledger", "sink"} /\ StatusCodes \subseteq Nat

VARIABLES
  calls,    \* the call each task is in
  traces,   \* turn_trace rows, in the order they were written
  ended,    \* history: calls that returned or raised, in that order
  turns     \* history: agent turns started, by task

vars == <<calls, traces, ended, turns>>

NoCall == [pc |-> "idle", try |-> 0, made |-> 0, attempts |-> 0, outcome |-> "none", cost |-> 0]

Init ==
  /\ calls = [c \in Task |-> NoCall]
  /\ traces = <<>> /\ ended = <<>>
  /\ turns = [c \in Task |-> 0]

-----------------------------------------------------------------------------
\* SUM(turn_trace.cost_usd) of the session; add() keeps nothing of its own.
CostOf(rows) ==
  LET upto[n \in 0..Len(rows)] == IF n = 0 THEN 0 ELSE upto[n - 1] + rows[n].cost
  IN  upto[Len(rows)]
session_total == CostOf(traces)

OverBudget_LATE(total) == total > Ceiling
OverBudget(total) == total >= Ceiling

\* The call is over but for its trace (_emit_failure_trace, _persist_trace).
Closing(call, outcome, attempts, cost) ==
  [call EXCEPT !.pc = "trace", !.outcome = outcome, !.attempts = attempts, !.cost = cost]

Set(c, call) == calls' = [calls EXCEPT ![c] = call]

\* An agent starts a turn.
StartTurn(c) ==
  /\ calls[c].pc = "idle" /\ turns[c] < MaxTurns
  /\ turns' = [turns EXCEPT ![c] = @ + 1]
  /\ Set(c, [NoCall EXCEPT !.pc = "issue", !.try = 1])
  /\ UNCHANGED <<traces, ended>>

\* Steps 1 and 2: agent configuration and pricing.
Issue(c) ==
  /\ calls[c].pc = "issue"
  /\ \/ Set(c, [calls[c] EXCEPT !.pc = "budget"])
     \/ Set(c, Closing(calls[c], "config_error", 1, 0))
  /\ UNCHANGED <<traces, ended, turns>>

\* Steps 3 and 4: the budget is read, then the first attempt is sent.
CheckBudget(c) ==
  /\ calls[c].pc = "budget"
  /\ Set(c, IF OverBudget(session_total) THEN Closing(calls[c], "budget_exceeded", 1, 0)
            ELSE [calls[c] EXCEPT !.pc = "attempt", !.made = 1])
  /\ UNCHANGED <<traces, ended, turns>>

\* Whether the agent issues a second call; the echo and bounds checks make a
\* miss of an answer that met its schema.
Misses(outcome) == IF outcome = "schema_error" THEN {TRUE}
                   ELSE IF outcome = "ok" THEN BOOLEAN ELSE {FALSE}
AgentRetries(call, outcome, missed) == call.try = 1 /\ missed

\* call_model returns or raises, and the agent goes on.
Finish(c, outcome) ==
  \E missed \in Misses(outcome) :
    /\ ended' = Append(ended, [task |-> c, outcome |-> outcome, made |-> calls[c].made])
    /\ Set(c, IF AgentRetries(calls[c], outcome, missed)
              THEN [NoCall EXCEPT !.pc = "issue", !.try = 2] ELSE NoCall)

\* The read of the total raises: nothing in call_model catches it.
LedgerFails(c) ==
  /\ "ledger" \in Faults /\ calls[c].pc = "budget"
  /\ Finish(c, "ledger_error")
  /\ UNCHANGED <<traces, turns>>

\* Steps 5 to 7: a backend attempt answers.  An answer that misses its schema
\* is billed like one that meets it.
Answer(c, cost, text) ==
  /\ calls[c].pc = "attempt"
  /\ Set(c, Closing(calls[c], IF MeetsSchema(text) THEN "ok" ELSE "schema_error",
                    calls[c].made, cost))
  /\ UNCHANGED <<traces, ended, turns>>

\* What generate() may raise: an error of the SDK, one of its transport's, one
\* of the sockets below, or something nobody translates.
BackendFault ==
  [kind : {"api"}, code : StatusCodes]
    \cup [kind : {"timeout", "transport", "connection", "untranslated"}, code : {0}]

classify_http_status(code) ==
  IF code = 504 THEN "deadline"
  ELSE IF code \in {400, 403} THEN "caller"
  ELSE IF code = 429 \/ code \in 500..599 THEN "transient" ELSE "upstream"

translate_transport_error(fault) ==
  CASE fault.kind = "api" -> classify_http_status(fault.code)
    [] fault.kind = "timeout" -> "deadline"
    [] fault.kind = "transport" -> "transient"
    [] OTHER -> fault.kind

\* The trace outcome of an error that is not, or no longer, retried.
OutcomeOf(class) ==
  CASE class = "deadline" -> "timeout"
    [] class = "caller" -> "config_error"
    [] class \in {"transient", "connection", "upstream"} -> "upstream_unavailable"
    [] OTHER -> "unclassified"

\* An attempt fails: it is retried, or raised with the attempts made so far.
\* What the backend did not translate passes the retry helper by, and its
\* trace (an "upstream_unavailable" too) says one.
MayRetry(class, made) == class \in {"transient", "connection"} /\ made < MaxAttempts
CountedAttempts_FIRST(made) == 1
CountedAttempts(made) == made
AttemptFails(c, fault) ==
  LET class == translate_transport_error(fault)
      made == IF OutcomeOf(class) = "unclassified" THEN 1 ELSE CountedAttempts(calls[c].made)
  IN  /\ calls[c].pc = "attempt"
      /\ Set(c, IF MayRetry(class, calls[c].made) THEN [calls[c] EXCEPT !.pc = "backoff"]
                ELSE Closing(calls[c], OutcomeOf(class), made, 0))
      /\ UNCHANGED <<traces, ended, turns>>

Backoff(c) ==
  /\ calls[c].pc = "backoff"
  /\ Set(c, [calls[c] EXCEPT !.pc = "attempt", !.made = @ + 1])
  /\ UNCHANGED <<traces, ended, turns>>

\* The wall clock around all attempts: attempts was never assigned, so the
\* trace ("timeout") says one.
UnderWallClock_SLEEPS(pc) == pc = "backoff"
UnderWallClock(pc) == pc \in {"attempt", "backoff"}
WallClock(c) ==
  /\ UnderWallClock(calls[c].pc)
  /\ Set(c, Closing(calls[c], "wall_clock", 1, 0))
  /\ UNCHANGED <<traces, ended, turns>>

WriteTrace(c) ==
  LET call == calls[c]
      row == [task |-> c, outcome |-> call.outcome, attempts |-> call.attempts, cost |-> call.cost]
  IN  /\ call.pc = "trace"
      /\ traces' = Append(traces, row)
      /\ Finish(c, call.outcome)
      /\ UNCHANGED turns

\* The sink raises: a TraceWriteError whatever the call's own outcome was.
SinkFails(c) ==
  /\ "sink" \in Faults /\ calls[c].pc = "trace"
  /\ Finish(c, "trace_write_error")
  /\ UNCHANGED <<traces, turns>>

Next ==
  \E c \in Task :
    \/ StartTurn(c) \/ Issue(c) \/ CheckBudget(c) \/ LedgerFails(c)
    \/ \E cost \in 0..MaxCost, text \in Texts : Answer(c, cost, text)
    \/ \E fault \in BackendFault : AttemptFails(c, fault)
    \/ Backoff(c) \/ WallClock(c)
    \/ WriteTrace(c) \/ SinkFails(c)

Spec == Init /\ [][Next]_vars

\* The database answers and the timer fires; the backend owes nothing.
FairSpec ==
  Spec /\ \A c \in Task : /\ WF_vars(Issue(c)) /\ WF_vars(CheckBudget(c))
                          /\ WF_vars(WriteTrace(c)) /\ WF_vars(WallClock(c))
-----------------------------------------------------------------------------
\* The calls that should have left a trace, and the place of each one's.
Audited == {k \in DOMAIN ended : ended[k].outcome \notin {"trace_write_error", "ledger_error"}}
Place(k) == Cardinality({j \in Audited : j <= k})

\* One trace per call that returned or raised, with its outcome and in its
\* order, whatever ended it (call_model's docstring): only the database costs
\* a trace, by failing at the trace itself or at the read of the total, which
\* raises past call_model's handlers.  And a trace says how often the backend
\* was really asked, unless the wall clock or an unclassified exception ended
\* the call (_call_with_retries).
TracesAreExact ==
  /\ Len(traces) = Cardinality(Audited)
  /\ \A k \in Audited :
       LET trace == traces[Place(k)]
           call == ended[k]
       IN  /\ trace.task = call.task /\ trace.outcome = call.outcome
           /\ call.made > 0 /\ trace.outcome \notin {"wall_clock", "unclassified"} =>
                trace.attempts = call.made

\* The recorded spend passes the ceiling by less than one answer per concurrent
\* call, however the calls' budget reads and trace writes interleave.
SpendIsBounded == session_total < Ceiling + MaxCost * Cardinality(Task) \/ session_total = 0

\* Every agent turn ends although the backend may never answer.
TurnsEnd == \A c \in Task : calls[c].pc # "idle" ~> calls[c].pc = "idle"
=============================================================================
