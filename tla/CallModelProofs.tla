-------------------------- MODULE CallModelProofs --------------------------
(***************************************************************************)
(* Proofs about CallModel: for any number of concurrent agent turns, any   *)
(* ceiling and costs, any answers, faults and statuses.                    *)
(*                                                                         *)
(* Of the spend: a call is charged by its trace alone, after the budget    *)
(* was read, and until then it counts as charging (Charging).  Of the      *)
(* traces: the attempts a call will report are those it made (CallOk), and *)
(* a trace is written by the step that ends its call.                      *)
(***************************************************************************)
EXTENDS CallModel, TLAPS, FiniteSetTheorems, WellFoundedInduction

Pc == {"idle", "issue", "budget", "attempt", "backoff", "trace"}
TraceOutcome == {"ok", "schema_error", "timeout", "wall_clock", "upstream_unavailable",
                 "unclassified", "budget_exceeded", "config_error"}
CallOutcome == TraceOutcome \cup {"trace_write_error", "ledger_error"}

Call == [pc : Pc, try : 0..2, made : Nat, attempts : Nat,
         outcome : TraceOutcome \cup {"none"}, cost : 0..MaxCost]
Trace == [task : Task, outcome : TraceOutcome, attempts : Nat, cost : 0..MaxCost]
End == [task : Task, outcome : CallOutcome, made : Nat]

TypeInv ==
  /\ calls \in [Task -> Call] /\ turns \in [Task -> Nat]
  /\ traces \in Seq(Trace) /\ ended \in Seq(End)

\* A call that has not passed the budget check has made no attempt; one that
\* is to be traced has an outcome, and reports the attempts it made.
Reports(outcome, attempts, made) ==
  made > 0 /\ outcome \notin {"wall_clock", "unclassified"} => attempts = made
CallOk(call) ==
  /\ call.pc \in {"issue", "budget"} => call.made = 0
  /\ call.pc = "trace" => /\ call.outcome \in TraceOutcome
                          /\ Reports(call.outcome, call.attempts, call.made)
CallsInv == \A c \in Task : CallOk(calls[c])

\* The tasks whose call got past the budget check and has not been charged.
Charges(call) ==
  \/ call.pc \in {"attempt", "backoff"}
  \/ call.pc = "trace" /\ call.cost > 0
Charging == {c \in Task : Charges(calls[c])}

\* All that charge but one may have read the total before the others' traces.
SpendInv ==
  /\ session_total \in Nat
  /\ Ceiling = 0 => session_total = 0 /\ Charging = {}
  /\ Ceiling # 0 => session_total < Ceiling + MaxCost * Cardinality(Task \ Charging)

IInv == TypeInv /\ CallsInv /\ SpendInv /\ TracesAreExact

-----------------------------------------------------------------------------
\* The sum of the traces' costs.

LEMMA LeastNat ==
  ASSUME NEW S \in SUBSET Nat, S # {}
  PROVE  \E x \in S : \A y \in S : x <= y
<1> DEFINE R == OpToRel(<, Nat)
<1>1. IsWellFoundedOn(R, Nat)
  BY NatLessThanWellFounded
<1>2. \E x \in S : \A y \in S : ~(<<y, x>> \in R)
  <2> HIDE DEF R
  <2> QED BY <1>1, WFMin
<1>3. PICK x \in S : \A y \in S : ~(<<y, x>> \in R)
  BY <1>2
<1>4. ASSUME NEW y \in S PROVE x <= y
  <2>1. y \in Nat /\ x \in Nat
    OBVIOUS
  <2>2. y < x => <<y, x>> \in R
    BY <2>1 DEF OpToRel
  <2> HIDE DEF R
  <2> QED BY <1>3, <2>1, <2>2, SMT
<1> QED BY <1>4

\* What holds of zero and passes to the next number holds of them all.
LEMMA EveryNatural ==
  ASSUME NEW S, 0 \in S, \A n \in Nat : n \in S => n + 1 \in S
  PROVE  \A n \in Nat : n \in S
<1> SUFFICES ASSUME Nat \ S # {} PROVE FALSE
  OBVIOUS
<1>1. PICK n \in Nat \ S : \A m \in Nat \ S : n <= m
  BY LeastNat
<1>2. n # 0 /\ n - 1 \in Nat
  BY <1>1
<1> QED BY <1>1, <1>2

\* f adds up every prefix of the rows, the way CostOf does.
UpTo(rows, f, n) == IF n = 0 THEN 0 ELSE f[n - 1] + rows[n].cost
Sums(rows, f) == f = [n \in 0..Len(rows) |-> UpTo(rows, f, n)]

\* Some function does: the sum up to k needs only the one up to k - 1.
LEMMA SumsExists ==
  ASSUME NEW rows, Len(rows) \in Nat
  PROVE  \E f : Sums(rows, f)
<1> DEFINE N == 0..Len(rows)
           Fn(f) == f = [n \in N |-> f[n]]
           Eq(f, n) == f[n] = UpTo(rows, f, n)
           Good == {k \in Nat : \E f : Fn(f) /\ \A n \in N : n <= k => Eq(f, n)}
<1>1. 0 \in Good
  <2> DEFINE f == [n \in N |-> 0]
  <2>1. \A n \in N : n <= 0 => Eq(f, n)
    BY DEF UpTo
  <2>2. Fn(f)
    OBVIOUS
  <2> HIDE DEF f, Eq, Fn
  <2> QED BY <2>1, <2>2
<1>2. ASSUME NEW k \in Nat, k \in Good PROVE k + 1 \in Good
  <2>1. PICK f : Fn(f) /\ \A n \in N : n <= k => Eq(f, n)
    BY <1>2
  <2> DEFINE g == [n \in N |-> UpTo(rows, f, n)]
  <2>2. \A n \in N : n <= k => g[n] = f[n]
    BY <2>1
  <2>3. ASSUME NEW n \in N, n <= k + 1 PROVE Eq(g, n)
    <3>1. g[n] = UpTo(rows, f, n)
      OBVIOUS
    <3>2. CASE n = 0
      BY <3>1, <3>2 DEF UpTo
    <3>3. CASE n # 0
      <4>1. n - 1 \in N /\ n - 1 <= k
        BY <2>3, <3>3
      <4>2. g[n - 1] = f[n - 1]
        BY <2>2, <4>1
      <4> HIDE DEF g
      <4> QED BY <3>1, <3>3, <4>2 DEF UpTo
    <3> QED BY <3>2, <3>3
  <2>4. Fn(g)
    OBVIOUS
  <2> HIDE DEF g, Eq, Fn
  <2> QED BY <2>3, <2>4
<1>3. Len(rows) \in Good
  <2> HIDE DEF Good
  <2> QED BY <1>1, <1>2, EveryNatural
<1>4. PICK f : Fn(f) /\ \A n \in N : Eq(f, n)
  BY <1>3
<1> DEFINE R(n) == UpTo(rows, f, n)
<1>5. \A n \in N : f[n] = R(n)
  BY <1>4
<1> HIDE DEF R
<1>6. f = [n \in N |-> R(n)]
  BY <1>4, <1>5
<1> QED BY <1>6 DEF Sums, R

\* What such a function says of each prefix, and that CostOf is its last value.
LEMMA SumsEquation ==
  ASSUME NEW rows, NEW f, Sums(rows, f), NEW n \in 0..Len(rows)
  PROVE  f[n] = UpTo(rows, f, n)
<1> DEFINE R(k) == UpTo(rows, f, k)
<1>1. f = [k \in 0..Len(rows) |-> R(k)]
  BY DEF Sums
<1> HIDE DEF R
<1>2. f[n] = R(n)
  BY <1>1
<1> QED BY <1>2 DEF R

LEMMA CostSums ==
  ASSUME NEW rows, Len(rows) \in Nat
  PROVE  \E f : Sums(rows, f) /\ CostOf(rows) = f[Len(rows)]
<1> DEFINE f == CHOOSE f : Sums(rows, f)
<1>1. Sums(rows, f)
  BY SumsExists
<1>2. CostOf(rows) = f[Len(rows)]
  BY DEF CostOf, Sums, UpTo
<1> HIDE DEF f
<1> QED BY <1>1, <1>2

\* One more row adds its cost.
LEMMA CostAppend ==
  ASSUME NEW rows \in Seq(Trace), NEW row \in Trace
  PROVE  /\ CostOf(rows) \in Nat
         /\ CostOf(Append(rows, row)) = CostOf(rows) + row.cost
<1> DEFINE more == Append(rows, row)
<1>1. PICK n \in Nat : n = Len(rows)
  OBVIOUS
<1>2. /\ Len(more) = n + 1 /\ more[n + 1] = row /\ \A k \in 1..n : more[k] = rows[k]
      /\ \A k \in 1..n : rows[k].cost \in Nat
  <2>1. \A t \in Trace : t.cost \in Nat
    BY CallAssumption DEF Trace
  <2>2. \A k \in 1..n : rows[k] \in Trace
    BY <1>1
  <2>3. Len(more) = n + 1 /\ more[n + 1] = row /\ \A k \in 1..n : more[k] = rows[k]
    BY <1>1
  <2> QED BY <2>1, <2>2, <2>3
<1>3. PICK f : Sums(rows, f) /\ CostOf(rows) = f[n]
  BY <1>1, CostSums
<1> HIDE DEF more
<1>4. PICK g : Sums(more, g) /\ CostOf(more) = g[n + 1]
  <2>1. Len(more) \in Nat
    BY <1>2
  <2> QED BY <1>2, <2>1, CostSums
<1>5. \A k \in 0..n : f[k] = UpTo(rows, f, k)
  BY <1>1, <1>3, SumsEquation
<1>6. \A k \in 0..(n + 1) : g[k] = UpTo(more, g, k)
  BY <1>2, <1>4, SumsEquation
<1> DEFINE Good == {k \in Nat : k <= n => f[k] \in Nat /\ g[k] = f[k]}
<1>7. 0 \in Good
  <2>1. 0 \in 0..n /\ 0 \in 0..(n + 1)
    OBVIOUS
  <2>2. f[0] = 0 /\ g[0] = 0
    BY <1>5, <1>6, <2>1 DEF UpTo
  <2> QED BY <2>2
<1>8. ASSUME NEW k \in Nat, k \in Good PROVE k + 1 \in Good
  <2> SUFFICES ASSUME k + 1 <= n PROVE f[k + 1] \in Nat /\ g[k + 1] = f[k + 1]
    OBVIOUS
  <2>1. k + 1 \in 1..n /\ k + 1 \in 0..n /\ k + 1 \in 0..(n + 1) /\ k + 1 # 0 /\ (k + 1) - 1 = k
    OBVIOUS
  <2>2. f[k + 1] = f[k] + rows[k + 1].cost
    BY <1>5, <2>1 DEF UpTo
  <2>3. g[k + 1] = g[k] + more[k + 1].cost
    BY <1>6, <2>1 DEF UpTo
  <2>4. f[k] \in Nat /\ g[k] = f[k]
    BY <1>8
  <2> QED BY <1>2, <2>1, <2>2, <2>3, <2>4
<1>9. n \in Good
  <2> HIDE DEF Good
  <2> QED BY <1>7, <1>8, EveryNatural
<1>10. g[n + 1] = g[n] + row.cost
  <2>1. n + 1 \in 0..(n + 1) /\ n + 1 # 0 /\ (n + 1) - 1 = n
    OBVIOUS
  <2> QED BY <1>2, <1>6, <2>1 DEF UpTo
<1> QED BY <1>3, <1>4, <1>9, <1>10 DEF more

LEMMA NoCost == CostOf(<<>>) = 0
<1>1. PICK f : Sums(<<>>, f) /\ CostOf(<<>>) = f[0]
  BY CostSums
<1>2. f[0] = UpTo(<<>>, f, 0)
  BY <1>1, SumsEquation
<1> QED BY <1>1, <1>2 DEF UpTo

-----------------------------------------------------------------------------
\* What a step does to the call of its task: it works on it, it ends it
\* without a trace, or it ends it with its trace.

Steps(c, next) == Set(c, next) /\ next \in Call /\ CallOk(next)

Works(c, next) ==
  /\ Steps(c, next) /\ UNCHANGED <<traces, ended>> /\ turns' \in [Task -> Nat]
  /\ Charges(next) => Charges(calls[c]) \/ session_total < Ceiling

Fails(c, next) ==
  /\ Steps(c, next) /\ ~Charges(next) /\ UNCHANGED <<traces, turns>>
  /\ \E end \in End : /\ ended' = Append(ended, end)
                      /\ end.outcome \in {"trace_write_error", "ledger_error"}

Writes(c, next) ==
  /\ Steps(c, next) /\ ~Charges(next) /\ UNCHANGED turns
  /\ \E row \in Trace, end \in End :
       /\ traces' = Append(traces, row) /\ ended' = Append(ended, end)
       /\ row.cost > 0 => Charges(calls[c])
       /\ row.task = end.task /\ row.outcome = end.outcome
       /\ Reports(row.outcome, row.attempts, end.made)

LEMMA NoCallIsOne ==
  /\ NoCall \in Call /\ CallOk(NoCall) /\ ~Charges(NoCall)
  /\ \A t \in 1..2 : LET next == [NoCall EXCEPT !.pc = "issue", !.try = t]
                     IN  next \in Call /\ CallOk(next) /\ ~Charges(next)
<1>1. 0 \in 0..MaxCost
  BY CallAssumption
<1>2. NoCall \in Call
  BY <1>1 DEF NoCall, Call, Pc
<1>3. CallOk(NoCall) /\ ~Charges(NoCall)
  BY DEF NoCall, CallOk, Charges
<1>4. ASSUME NEW t \in 1..2
      PROVE  LET next == [NoCall EXCEPT !.pc = "issue", !.try = t]
             IN  next \in Call /\ CallOk(next) /\ ~Charges(next)
  <2> DEFINE next == [NoCall EXCEPT !.pc = "issue", !.try = t]
  <2>1. t \in 0..2
    OBVIOUS
  <2>2. next \in Call
    BY <1>2, <2>1 DEF Call, Pc
  <2>3. next.pc = "issue" /\ next.made = 0
    BY DEF NoCall
  <2> HIDE DEF next
  <2>4. CallOk(next) /\ ~Charges(next)
    BY <2>3 DEF CallOk, Charges
  <2> QED BY <2>2, <2>4 DEF next
<1> QED BY <1>2, <1>3, <1>4

\* A call that changes only in what it is at and has made.
LEMMA OtherPc ==
  ASSUME NEW call \in Call, NEW pc \in Pc \ {"trace", "issue"}, NEW made \in Nat, pc = "budget" => made = 0
  PROVE  LET next == [call EXCEPT !.pc = pc, !.made = made]
         IN  next \in Call /\ CallOk(next) /\ (Charges(next) <=> pc \in {"attempt", "backoff"})
<1> DEFINE next == [call EXCEPT !.pc = pc, !.made = made]
<1>1. next \in Call
  BY DEF Call
<1>2. next.pc = pc /\ next.made = made
  BY DEF Call
<1> HIDE DEF next
<1>3. CallOk(next) /\ (Charges(next) <=> pc \in {"attempt", "backoff"})
  BY <1>2 DEF CallOk, Charges
<1> QED BY <1>1, <1>3 DEF next

\* A call that is over but for its trace.
LEMMA ClosingIsOne ==
  ASSUME NEW call \in Call, NEW outcome \in TraceOutcome, NEW attempts \in Nat, NEW cost \in 0..MaxCost,
         Reports(outcome, attempts, call.made)
  PROVE  LET next == Closing(call, outcome, attempts, cost)
         IN  next \in Call /\ CallOk(next) /\ (Charges(next) => cost > 0)
<1> DEFINE next == Closing(call, outcome, attempts, cost)
<1>1. next \in Call
  <2>1. outcome \in TraceOutcome \cup {"none"}
    OBVIOUS
  <2> QED BY <2>1 DEF Closing, Call, Pc
<1>2. /\ next.pc = "trace" /\ next.outcome = outcome /\ next.attempts = attempts
      /\ next.cost = cost /\ next.made = call.made
  BY DEF Closing, Call
<1> HIDE DEF next
<1>3. cost \in Nat
  BY CallAssumption
<1>4. CallOk(next) /\ (Charges(next) => cost > 0)
  BY <1>2, <1>3 DEF CallOk, Charges
<1> QED BY <1>1, <1>4 DEF next

LEMMA StartTurnWorks ==
  ASSUME TypeInv, NEW c \in Task, StartTurn(c) PROVE \E next : Works(c, next)
<1> DEFINE next == [NoCall EXCEPT !.pc = "issue", !.try = 1]
<1>1. next \in Call /\ CallOk(next) /\ ~Charges(next)
  BY NoCallIsOne
<1>2. Set(c, next) /\ UNCHANGED <<traces, ended>>
  BY DEF StartTurn
<1>3. turns' \in [Task -> Nat]
  BY DEF StartTurn, TypeInv
<1> HIDE DEF next
<1> QED BY <1>1, <1>2, <1>3 DEF Works, Steps

LEMMA IssueWorks ==
  ASSUME TypeInv, CallsInv, NEW c \in Task, Issue(c) PROVE \E next : Works(c, next)
<1> DEFINE call == calls[c]
<1>1. call \in Call /\ call.pc = "issue" /\ call.made = 0
  BY DEF TypeInv, CallsInv, CallOk, Issue
<1>2. UNCHANGED <<traces, ended>> /\ turns' \in [Task -> Nat]
  BY DEF Issue, TypeInv
<1>3. CASE Set(c, [call EXCEPT !.pc = "budget"])
  <2> DEFINE next == [call EXCEPT !.pc = "budget"]
  <2>1. next \in Call /\ CallOk(next) /\ ~Charges(next)
    <3>1. next \in Call /\ next.pc = "budget" /\ next.made = 0
      BY <1>1 DEF Call, Pc
    <3> HIDE DEF next
    <3> QED BY <3>1 DEF CallOk, Charges
  <2> HIDE DEF next
  <2> QED BY <1>2, <1>3, <2>1 DEF Works, Steps, next
<1>4. CASE Set(c, Closing(call, "config_error", 1, 0))
  <2>1. 0 \in 0..MaxCost /\ Reports("config_error", 1, call.made) /\ "config_error" \in TraceOutcome
    BY <1>1, CallAssumption DEF Reports, TraceOutcome
  <2> HIDE DEF call
  <2> QED BY <1>1, <1>2, <1>4, <2>1, ClosingIsOne DEF Works, Steps
<1> QED BY <1>3, <1>4 DEF Issue

LEMMA CheckBudgetWorks ==
  ASSUME TypeInv, CallsInv, session_total \in Nat, NEW c \in Task, CheckBudget(c)
  PROVE  \E next : Works(c, next)
<1> DEFINE call == calls[c]
<1>1. call \in Call /\ call.pc = "budget" /\ call.made = 0
  BY DEF TypeInv, CallsInv, CallOk, CheckBudget
<1>2. UNCHANGED <<traces, ended>> /\ turns' \in [Task -> Nat]
  BY DEF CheckBudget, TypeInv
<1>3. CASE OverBudget(session_total)
  <2>1. /\ 0 \in 0..MaxCost /\ Reports("budget_exceeded", 1, call.made)
        /\ "budget_exceeded" \in TraceOutcome
    BY <1>1, CallAssumption DEF Reports, TraceOutcome
  <2>2. Set(c, Closing(call, "budget_exceeded", 1, 0))
    BY <1>3 DEF CheckBudget
  <2>3. ~(0 > 0) /\ 1 \in Nat
    OBVIOUS
  <2>4. PICK next : next = Closing(call, "budget_exceeded", 1, 0)
    OBVIOUS
  <2>5. next \in Call /\ CallOk(next) /\ ~Charges(next)
    <3> HIDE DEF call
    <3> QED BY <1>1, <2>1, <2>3, <2>4, ClosingIsOne
  <2> QED BY <1>2, <2>2, <2>4, <2>5 DEF Works, Steps
<1>4. CASE ~OverBudget(session_total)
  <2> DEFINE next == [call EXCEPT !.pc = "attempt", !.made = 1]
  <2>1. next \in Call /\ CallOk(next)
    BY <1>1 DEF Call, Pc, CallOk
  <2>2. session_total < Ceiling
    BY <1>4, CallAssumption DEF OverBudget
  <2>3. Set(c, next)
    BY <1>4 DEF CheckBudget
  <2> HIDE DEF next
  <2> QED BY <1>2, <2>1, <2>2, <2>3 DEF Works, Steps
<1> QED BY <1>3, <1>4

\* A call under way closes, with what its attempts came to.
LEMMA ClosingWorks ==
  ASSUME TypeInv, NEW c \in Task, calls[c].pc \in {"attempt", "backoff"},
         NEW outcome \in TraceOutcome, NEW attempts \in Nat, NEW cost \in 0..MaxCost,
         Reports(outcome, attempts, calls[c].made),
         Set(c, Closing(calls[c], outcome, attempts, cost)), UNCHANGED <<traces, ended, turns>>
  PROVE  \E next : Works(c, next)
<1>1. calls[c] \in Call /\ turns' \in [Task -> Nat] /\ Charges(calls[c])
  <2>1. calls[c] \in Call /\ turns' \in [Task -> Nat]
    BY DEF TypeInv
  <2>2. Charges(calls[c])
    BY DEF Charges
  <2> QED BY <2>1, <2>2
<1> QED BY <1>1, ClosingIsOne DEF Works, Steps

LEMMA AnswerWorks ==
  ASSUME TypeInv, NEW c \in Task, NEW cost \in 0..MaxCost, NEW text, Answer(c, cost, text)
  PROVE  \E next : Works(c, next)
<1>1. PICK outcome \in {"ok", "schema_error"} : Set(c, Closing(calls[c], outcome, calls[c].made, cost))
  BY DEF Answer
<1>2. calls[c].made \in Nat /\ calls[c].pc = "attempt" /\ UNCHANGED <<traces, ended, turns>>
  BY DEF Answer, TypeInv, Call
<1>3. outcome \in TraceOutcome /\ Reports(outcome, calls[c].made, calls[c].made)
  BY DEF TraceOutcome, Reports
<1> QED BY <1>1, <1>2, <1>3, ClosingWorks

LEMMA AttemptFailsWorks ==
  ASSUME TypeInv, NEW c \in Task, NEW fault \in BackendFault, AttemptFails(c, fault)
  PROVE  \E next : Works(c, next)
<1> DEFINE call == calls[c]
           class == translate_transport_error(fault)
           made == IF OutcomeOf(class) = "unclassified" THEN 1 ELSE call.made
<1>1. call \in Call /\ call.made \in Nat /\ call.pc = "attempt"
  BY DEF AttemptFails, TypeInv, Call
<1>2. UNCHANGED <<traces, ended, turns>> /\ turns' \in [Task -> Nat]
  BY DEF AttemptFails, TypeInv
<1>3. OutcomeOf(class) \in TraceOutcome
  BY DEF OutcomeOf, TraceOutcome
<1>4. made \in Nat /\ Reports(OutcomeOf(class), made, call.made)
  BY <1>1 DEF Reports
<1>5. Set(c, IF MayRetry(class, call.made) THEN [call EXCEPT !.pc = "backoff"]
             ELSE Closing(call, OutcomeOf(class), made, 0))
  BY DEF AttemptFails, CountedAttempts
<1>6. 0 \in 0..MaxCost
  BY CallAssumption
<1> HIDE DEF class, made
<1>7. CASE MayRetry(class, call.made)
  <2> DEFINE next == [call EXCEPT !.pc = "backoff"]
  <2>1. next \in Call /\ CallOk(next) /\ Charges(call)
    <3>1. next = [call EXCEPT !.pc = "backoff", !.made = call.made]
      BY <1>1 DEF Call
    <3>2. Charges(call)
      BY <1>1 DEF Charges
    <3> HIDE DEF next, call
    <3> QED BY <1>1, <3>1, <3>2, OtherPc DEF Pc
  <2>2. Set(c, next)
    BY <1>5, <1>7
  <2> HIDE DEF next
  <2> QED BY <1>2, <2>1, <2>2 DEF Works, Steps
<1>8. CASE ~MayRetry(class, call.made)
  BY <1>1, <1>2, <1>3, <1>4, <1>5, <1>6, <1>8, ClosingWorks
<1> QED BY <1>7, <1>8

LEMMA BackoffWorks ==
  ASSUME TypeInv, NEW c \in Task, Backoff(c) PROVE \E next : Works(c, next)
<1> DEFINE next == [calls[c] EXCEPT !.pc = "attempt", !.made = @ + 1]
<1>1. calls[c] \in Call /\ calls[c].pc = "backoff"
  BY DEF Backoff, TypeInv
<1>2. next \in Call /\ CallOk(next) /\ Charges(calls[c])
  <2>1. calls[c].made + 1 \in Nat
    BY <1>1 DEF Call
  <2>2. next = [calls[c] EXCEPT !.pc = "attempt", !.made = calls[c].made + 1]
    BY <1>1 DEF Call
  <2>3. Charges(calls[c])
    BY <1>1 DEF Charges
  <2> HIDE DEF next
  <2> QED BY <1>1, <2>1, <2>2, <2>3, OtherPc DEF Pc
<1>3. Set(c, next) /\ UNCHANGED <<traces, ended>> /\ turns' \in [Task -> Nat]
  BY DEF Backoff, TypeInv
<1> HIDE DEF next
<1> QED BY <1>2, <1>3 DEF Works, Steps

LEMMA WallClockWorks ==
  ASSUME TypeInv, NEW c \in Task, WallClock(c) PROVE \E next : Works(c, next)
<1>1. /\ calls[c].pc \in {"attempt", "backoff"} /\ UNCHANGED <<traces, ended, turns>>
      /\ Set(c, Closing(calls[c], "wall_clock", 1, 0))
  BY DEF WallClock, UnderWallClock
<1>2. /\ "wall_clock" \in TraceOutcome /\ 1 \in Nat /\ 0 \in 0..MaxCost
      /\ Reports("wall_clock", 1, calls[c].made)
  BY CallAssumption DEF TraceOutcome, Reports
<1> QED BY <1>1, <1>2, ClosingWorks

\* What ends a call.
LEMMA FinishEnds ==
  ASSUME TypeInv, NEW c \in Task, NEW outcome \in CallOutcome, Finish(c, outcome)
  PROVE  /\ \E next : Steps(c, next) /\ ~Charges(next)
         /\ LET end == [task |-> c, outcome |-> outcome, made |-> calls[c].made]
            IN  end \in End /\ ended' = Append(ended, end)
<1>1. PICK missed \in Misses(outcome) :
        /\ ended' = Append(ended, [task |-> c, outcome |-> outcome, made |-> calls[c].made])
        /\ Set(c, IF AgentRetries(calls[c], outcome, missed)
                  THEN [NoCall EXCEPT !.pc = "issue", !.try = 2] ELSE NoCall)
  BY DEF Finish
<1>2. [task |-> c, outcome |-> outcome, made |-> calls[c].made] \in End
  BY DEF TypeInv, Call, End
<1>3. \E next : Steps(c, next) /\ ~Charges(next)
  <2> DEFINE again == [NoCall EXCEPT !.pc = "issue", !.try = 2]
  <2>1. again \in Call /\ CallOk(again) /\ ~Charges(again)
    BY NoCallIsOne
  <2>2. Set(c, IF AgentRetries(calls[c], outcome, missed) THEN again ELSE NoCall)
    BY <1>1
  <2> HIDE DEF again
  <2> QED BY <2>1, <2>2, NoCallIsOne DEF Steps
<1> QED BY <1>1, <1>2, <1>3

LEMMA LedgerFailsFails ==
  ASSUME TypeInv, NEW c \in Task, LedgerFails(c) PROVE \E next : Fails(c, next)
<1>1. "ledger_error" \in CallOutcome /\ Finish(c, "ledger_error") /\ UNCHANGED <<traces, turns>>
  BY DEF CallOutcome, LedgerFails
<1> QED BY <1>1, FinishEnds DEF Fails

LEMMA SinkFailsFails ==
  ASSUME TypeInv, NEW c \in Task, SinkFails(c) PROVE \E next : Fails(c, next)
<1>1. "trace_write_error" \in CallOutcome /\ Finish(c, "trace_write_error")
      /\ UNCHANGED <<traces, turns>>
  BY DEF CallOutcome, SinkFails
<1> QED BY <1>1, FinishEnds DEF Fails

LEMMA WriteTraceWrites ==
  ASSUME TypeInv, CallsInv, NEW c \in Task, WriteTrace(c) PROVE \E next : Writes(c, next)
<1> DEFINE call == calls[c]
           row == [task |-> c, outcome |-> call.outcome, attempts |-> call.attempts,
                   cost |-> call.cost]
           end == [task |-> c, outcome |-> call.outcome, made |-> call.made]
<1>1. call \in Call /\ call.pc = "trace" /\ call.outcome \in TraceOutcome
      /\ Reports(call.outcome, call.attempts, call.made)
  BY DEF WriteTrace, TypeInv, CallsInv, CallOk
<1>2. row \in Trace
  BY <1>1 DEF Trace, Call
<1>3. traces' = Append(traces, row) /\ UNCHANGED turns /\ Finish(c, call.outcome)
  BY DEF WriteTrace
<1>4. PICK next : Steps(c, next) /\ ~Charges(next)
  BY <1>1, <1>3, FinishEnds DEF CallOutcome
<1>5. end \in End /\ ended' = Append(ended, end)
  BY <1>1, <1>3, FinishEnds DEF CallOutcome
<1>6. row.cost > 0 => Charges(call)
  BY <1>1 DEF Charges
<1>7. row.task = end.task /\ row.outcome = end.outcome /\ Reports(row.outcome, row.attempts, end.made)
  BY <1>1
<1> HIDE DEF row, end, call
<1> QED BY <1>2, <1>3, <1>4, <1>5, <1>6, <1>7 DEF Writes, call

\* Every step is one of the three.
LEMMA NextSteps ==
  ASSUME TypeInv, CallsInv, session_total \in Nat, Next
  PROVE  \E c \in Task, next \in Call : Works(c, next) \/ Fails(c, next) \/ Writes(c, next)
<1>1. PICK c \in Task :
        \/ StartTurn(c) \/ Issue(c) \/ CheckBudget(c) \/ LedgerFails(c)
        \/ \E cost \in 0..MaxCost, text \in Texts : Answer(c, cost, text)
        \/ \E fault \in BackendFault : AttemptFails(c, fault)
        \/ Backoff(c) \/ WallClock(c)
        \/ WriteTrace(c) \/ SinkFails(c)
  BY DEF Next
<1>2. \E next : Works(c, next) \/ Fails(c, next) \/ Writes(c, next)
  BY <1>1, StartTurnWorks, IssueWorks, CheckBudgetWorks, LedgerFailsFails, AnswerWorks,
     AttemptFailsWorks, BackoffWorks, WallClockWorks, WriteTraceWrites, SinkFailsFails
<1> QED BY <1>2 DEF Works, Fails, Writes, Steps

-----------------------------------------------------------------------------
\* The calls of a step, task by task, and what it does to Charging.
LEMMA StepsCalls ==
  ASSUME TypeInv, CallsInv, NEW c \in Task, NEW next, Steps(c, next)
  PROVE  /\ calls' \in [Task -> Call] /\ CallsInv'
         /\ Charging' = IF Charges(next) THEN Charging \cup {c} ELSE Charging \ {c}
<1>1. calls \in [Task -> Call] /\ next \in Call /\ CallOk(next) /\ calls' = [calls EXCEPT ![c] = next]
  BY DEF TypeInv, Steps, Set
<1>2. \A d \in Task : calls'[d] = IF d = c THEN next ELSE calls[d]
  BY <1>1
<1>3. CallsInv'
  <2>1. \A d \in Task : CallOk(calls[d])
    BY DEF CallsInv
  <2>2. \A d \in Task : CallOk(calls'[d])
    BY <1>1, <1>2, <2>1
  <2> QED BY <2>2 DEF CallsInv, CallOk, Reports
<1>4. \A d : d \in Charging' <=> d \in Task /\ Charges(calls'[d])
  BY DEF Charging, Charges
<1>5. \A d : d \in Charging <=> d \in Task /\ Charges(calls[d])
  BY DEF Charging
<1>6. Charging' = IF Charges(next) THEN Charging \cup {c} ELSE Charging \ {c}
  BY <1>2, <1>4, <1>5
<1> QED BY <1>1, <1>3, <1>6

LEMMA TimesGrows ==
  ASSUME NEW m \in Nat, NEW a \in Nat, NEW b \in Nat, a <= b
  PROVE  m * a \in Nat /\ m * a <= m * b
<1>1. b - a \in Nat /\ b = a + (b - a)
  OBVIOUS
<1>2. m * (b - a) \in Nat /\ m * a \in Nat
  OBVIOUS
<1>3. m * b = m * a + m * (b - a)
  BY <1>1
<1> QED BY <1>2, <1>3

\* Two sets of tasks, one inside the other.
LEMMA TasksCount ==
  ASSUME NEW S \in SUBSET Task, NEW T \in SUBSET S
  PROVE  Cardinality(T) \in Nat /\ Cardinality(S) \in Nat /\ Cardinality(T) <= Cardinality(S)
<1>1. IsFiniteSet(S) /\ IsFiniteSet(T)
  BY CallAssumption, FS_Subset
<1> QED BY <1>1, FS_Subset, FS_CardinalityType

\* No task comes to charge once the total is at the ceiling, and the total
\* does not grow: the bound stays.
LEMMA SpendStays ==
  ASSUME SpendInv, session_total' = session_total,
         NEW c \in Task,
         \/ Charging' \subseteq Charging
         \/ session_total < Ceiling
  PROVE  SpendInv'
<1> DEFINE total == session_total
           a == Cardinality(Task \ Charging)
           b == Cardinality(Task \ Charging')
<1>1. total \in Nat /\ Ceiling \in Nat /\ MaxCost \in Nat
  BY CallAssumption DEF SpendInv
<1>2. Ceiling = 0 => total = 0 /\ Charging' = {}
  BY <1>1 DEF SpendInv
<1>3. ASSUME Ceiling # 0 PROVE total < Ceiling + MaxCost * b
  <2>1. b \in Nat /\ MaxCost * b \in Nat
    BY <1>1, TasksCount, TimesGrows
  <2>2. CASE total < Ceiling
    <3> HIDE DEF b, total
    <3> QED BY <1>1, <2>1, <2>2
  <2>3. CASE Charging' \subseteq Charging
    <3>1. a \in Nat /\ a <= b
      BY <2>3, TasksCount
    <3>2. MaxCost * a \in Nat /\ MaxCost * a <= MaxCost * b
      BY <1>1, <2>1, <3>1, TimesGrows
    <3>3. total < Ceiling + MaxCost * a
      BY <1>3 DEF SpendInv
    <3> HIDE DEF a, b, total
    <3> QED BY <1>1, <2>1, <3>2, <3>3
  <2> QED BY <2>2, <2>3
<1> QED BY <1>1, <1>2, <1>3 DEF SpendInv

\* One task's charge lands, and the task charges no longer.
LEMMA SpendLands ==
  ASSUME SpendInv, NEW c \in Charging, Charging' = Charging \ {c},
         NEW cost \in 0..MaxCost, session_total' = session_total + cost
  PROVE  SpendInv'
<1> DEFINE total == session_total
           a == Cardinality(Task \ Charging)
           b == Cardinality(Task \ Charging')
<1>1. /\ total \in Nat /\ Ceiling \in Nat /\ MaxCost \in Nat /\ Ceiling # 0
      /\ total < Ceiling + MaxCost * a
  BY CallAssumption DEF SpendInv
<1>2. a \in Nat /\ b = a + 1
  <2>1. IsFiniteSet(Task \ Charging)
    BY CallAssumption, FS_Subset
  <2>2. Task \ Charging' = (Task \ Charging) \cup {c}
    BY DEF Charging
  <2> QED BY <2>1, <2>2, FS_AddElement, FS_CardinalityType
<1>3. MaxCost * b = MaxCost * a + MaxCost /\ MaxCost * a \in Nat
  BY <1>1, <1>2
<1>4. total + cost < Ceiling + MaxCost * b /\ total + cost \in Nat
  <2>1. cost \in Nat /\ cost <= MaxCost
    BY <1>1
  <2> HIDE DEF a, b, total
  <2> QED BY <1>1, <1>3, <2>1
<1> QED BY <1>1, <1>4 DEF SpendInv

-----------------------------------------------------------------------------
\* The place of a trace: how many of the calls up to its own left one.

Untraced == {"trace_write_error", "ledger_error"}

\* A call that left a trace has its place in the sequence of the traces.
LEMMA PlacesAreIn ==
  ASSUME TypeInv
  PROVE  /\ Audited \subseteq 1..Len(ended) /\ IsFiniteSet(Audited) /\ Cardinality(Audited) \in Nat
         /\ \A k \in Audited : Place(k) \in 1..Cardinality(Audited)
<1>1. Audited \subseteq 1..Len(ended)
  BY DEF TypeInv, Audited
<1>2. IsFiniteSet(Audited)
  <2>1. 1 \in Int /\ Len(ended) \in Int
    BY DEF TypeInv
  <2>2. IsFiniteSet(1..Len(ended))
    BY <2>1, FS_Interval
  <2> QED BY <1>1, <2>2, FS_Subset
<1>3. ASSUME NEW k \in Audited PROVE Place(k) \in 1..Cardinality(Audited)
  <2> DEFINE S == {j \in Audited : j <= k}
  <2>1. S \subseteq Audited /\ k \in S
    BY <1>1
  <2>2. IsFiniteSet(S) /\ Cardinality(S) <= Cardinality(Audited)
    BY <1>2, <2>1, FS_Subset
  <2>3. Cardinality(S) \in Nat /\ Cardinality(S) # 0 /\ Cardinality(Audited) \in Nat
    BY <1>2, <2>1, <2>2, FS_CardinalityType, FS_EmptySet
  <2>4. Cardinality(S) \in 1..Cardinality(Audited)
    BY <2>2, <2>3
  <2> QED BY <2>4 DEF Place
<1>4. Cardinality(Audited) \in Nat
  BY <1>2, FS_CardinalityType
<1> QED BY <1>1, <1>2, <1>3, <1>4

\* One more call ends: the earlier ones keep their places.
LEMMA PlacesStay ==
  ASSUME TypeInv, NEW end \in End, ended' = Append(ended, end)
  PROVE  LET n == Len(ended) + 1
         IN  /\ \A k \in Audited : ended'[k] = ended[k] /\ Place(k)' = Place(k)
             /\ ended'[n] = end /\ n \notin Audited
             /\ Audited' = IF end.outcome \in Untraced THEN Audited ELSE Audited \cup {n}
<1> DEFINE n == Len(ended) + 1
<1>1. Len(ended) \in Nat /\ n \in Nat /\ Len(ended') = n /\ DOMAIN ended = 1..Len(ended) /\ DOMAIN ended' = 1..n
  BY DEF TypeInv
<1>2. (\A k \in 1..Len(ended) : ended'[k] = ended[k]) /\ ended'[n] = end
  BY DEF TypeInv
<1>3. Audited \subseteq 1..Len(ended) /\ n \notin Audited
  BY <1>1, PlacesAreIn
<1>4. \A k : k \in Audited <=> k \in 1..Len(ended) /\ ended[k].outcome \notin Untraced
  BY <1>1 DEF Audited, Untraced
<1>5. \A k : k \in Audited' <=> k \in 1..n /\ ended'[k].outcome \notin Untraced
  BY <1>1 DEF Audited, Untraced
<1>6. \A k : k \in 1..n <=> k \in 1..Len(ended) \/ k = n
  BY <1>1
<1> HIDE DEF n
<1>7. Audited' = IF end.outcome \in Untraced THEN Audited ELSE Audited \cup {n}
  BY <1>2, <1>4, <1>5, <1>6
<1>8. ASSUME NEW k \in Audited PROVE Place(k)' = Place(k)
  <2>1. k <= Len(ended) /\ k \in Nat
    BY <1>1, <1>3
  <2>2. ~(n <= k)
    BY <1>1, <2>1 DEF n
  <2>3. {j \in Audited' : j <= k} = {j \in Audited : j <= k}
    BY <1>7, <2>2
  <2> QED BY <2>3 DEF Place
<1> QED BY <1>2, <1>3, <1>7, <1>8 DEF n

\* A call that ends without a trace leaves the traces exact.
LEMMA FailsAreExact ==
  ASSUME TypeInv, TracesAreExact, NEW end \in End, end.outcome \in Untraced,
         ended' = Append(ended, end), UNCHANGED traces
  PROVE  TracesAreExact'
<1>1. Audited' = Audited /\ \A k \in Audited : ended'[k] = ended[k] /\ Place(k)' = Place(k)
  BY PlacesStay
<1>2. /\ Len(traces') = Cardinality(Audited')
      /\ \A k \in Audited' :
           LET trace == traces'[Place(k)']
               call == ended'[k]
           IN  /\ trace.task = call.task /\ trace.outcome = call.outcome
               /\ call.made > 0 /\ trace.outcome \notin {"wall_clock", "unclassified"} =>
                    trace.attempts = call.made
  BY <1>1 DEF TracesAreExact
<1> QED BY <1>2 DEF TracesAreExact

\* A call that ends with its trace takes the next place.
LEMMA WritesAreExact ==
  ASSUME TypeInv, TracesAreExact, NEW end \in End, NEW row \in Trace, end.outcome \notin Untraced,
         ended' = Append(ended, end), traces' = Append(traces, row),
         row.task = end.task, row.outcome = end.outcome,
         Reports(row.outcome, row.attempts, end.made)
  PROVE  TracesAreExact'
<1>0. PICK n \in Nat : n = Len(ended) + 1
  BY DEF TypeInv
<1> DEFINE m == Cardinality(Audited)
           Exact(trace, call) ==
             /\ trace.task = call.task /\ trace.outcome = call.outcome
             /\ Reports(trace.outcome, trace.attempts, call.made)
<1>1. /\ Audited' = Audited \cup {n} /\ n \notin Audited /\ ended'[n] = end
      /\ \A k \in Audited : ended'[k] = ended[k] /\ Place(k)' = Place(k)
  BY <1>0, PlacesStay
<1>2. /\ m \in Nat /\ IsFiniteSet(Audited) /\ \A k \in Audited : Place(k) \in 1..m
      /\ Audited \subseteq 1..Len(ended)
  BY PlacesAreIn
<1>3. Cardinality(Audited') = m + 1
  BY <1>1, <1>2, FS_AddElement
<1>4. Place(n)' = m + 1
  <2>1. Len(ended) \in Nat
    BY DEF TypeInv
  <2>2. \A j \in Audited \cup {n} : j <= n
    BY <1>0, <1>2, <2>1
  <2>3. {j \in Audited' : j <= n} = Audited'
    BY <1>1, <2>2
  <2> QED BY <1>3, <2>3 DEF Place
<1>5. Len(traces) = m /\ \A k \in Audited : Exact(traces[Place(k)], ended[k])
  BY DEF TracesAreExact, Reports
<1>6. /\ Len(traces') = m + 1 /\ traces'[m + 1] = row
      /\ \A i \in 1..m : traces'[i] = traces[i]
  BY <1>5 DEF TypeInv
<1>7. Exact(row, end)
  OBVIOUS
<1> HIDE DEF Exact, m
<1>8. ASSUME NEW k \in Audited' PROVE Exact(traces'[Place(k)'], ended'[k])
  <2>1. CASE k \in Audited
    <3>1. PICK i \in 1..m : i = Place(k)
      BY <1>2, <2>1
    <3>2. Place(k)' = i /\ ended'[k] = ended[k] /\ traces'[i] = traces[i]
      BY <1>1, <1>6, <2>1, <3>1
    <3> QED BY <1>5, <2>1, <3>1, <3>2
  <2>2. CASE k = n
    <3>1. Place(k)' = m + 1
      BY <1>4, <2>2
    <3> QED BY <1>1, <1>6, <1>7, <2>2, <3>1
  <2> QED BY <1>1, <2>1, <2>2
<1>9. Len(traces') = Cardinality(Audited')
  BY <1>3, <1>6
<1> QED BY <1>8, <1>9 DEF TracesAreExact, Exact, Reports

-----------------------------------------------------------------------------
\* The three kinds of step.

LEMMA WorksStep ==
  ASSUME IInv, NEW c \in Task, NEW next, Works(c, next) PROVE IInv'
<1>1. TypeInv /\ CallsInv /\ SpendInv /\ TracesAreExact
  BY DEF IInv
<1>2. Steps(c, next) /\ UNCHANGED <<traces, ended>> /\ turns' \in [Task -> Nat]
      /\ (Charges(next) => Charges(calls[c]) \/ session_total < Ceiling)
  BY DEF Works
<1>3. /\ calls' \in [Task -> Call] /\ CallsInv'
      /\ Charging' = IF Charges(next) THEN Charging \cup {c} ELSE Charging \ {c}
  BY <1>1, <1>2, StepsCalls
<1>4. Charging' \subseteq Charging \/ session_total < Ceiling
  BY <1>2, <1>3 DEF Charging
<1>5. session_total' = session_total
  BY <1>2 DEF session_total
<1>6. TypeInv'
  BY <1>1, <1>2, <1>3 DEF TypeInv
<1>7. TracesAreExact'
  BY <1>1, <1>2 DEF TracesAreExact, Audited, Place
<1>8. SpendInv'
  BY <1>1, <1>4, <1>5, SpendStays
<1> QED BY <1>3, <1>6, <1>7, <1>8 DEF IInv

LEMMA FailsStep ==
  ASSUME IInv, NEW c \in Task, NEW next, Fails(c, next) PROVE IInv'
<1>1. TypeInv /\ CallsInv /\ SpendInv /\ TracesAreExact
  BY DEF IInv
<1>2. Steps(c, next) /\ ~Charges(next) /\ UNCHANGED <<traces, turns>>
  BY DEF Fails
<1>3. PICK end \in End : ended' = Append(ended, end) /\ end.outcome \in Untraced
  BY DEF Fails, Untraced
<1>4. calls' \in [Task -> Call] /\ CallsInv' /\ Charging' = Charging \ {c}
  BY <1>1, <1>2, StepsCalls
<1>5. session_total' = session_total
  BY <1>2 DEF session_total
<1>6. TypeInv'
  BY <1>1, <1>2, <1>3, <1>4 DEF TypeInv
<1>7. TracesAreExact'
  BY <1>1, <1>2, <1>3, FailsAreExact
<1>8. SpendInv'
  BY <1>1, <1>4, <1>5, SpendStays
<1> QED BY <1>4, <1>6, <1>7, <1>8 DEF IInv

LEMMA WritesStep ==
  ASSUME IInv, NEW c \in Task, NEW next, Writes(c, next) PROVE IInv'
<1>1. TypeInv /\ CallsInv /\ SpendInv /\ TracesAreExact
  BY DEF IInv
<1>2. Steps(c, next) /\ ~Charges(next) /\ UNCHANGED turns
  BY DEF Writes
<1>3. PICK row \in Trace, end \in End :
        /\ traces' = Append(traces, row) /\ ended' = Append(ended, end)
        /\ row.cost > 0 => Charges(calls[c])
        /\ row.task = end.task /\ row.outcome = end.outcome
        /\ Reports(row.outcome, row.attempts, end.made)
  BY DEF Writes
<1>4. calls' \in [Task -> Call] /\ CallsInv' /\ Charging' = Charging \ {c}
  BY <1>1, <1>2, StepsCalls
<1>5. row.cost \in 0..MaxCost /\ row.cost \in Nat /\ end.outcome \notin Untraced
  <2>1. row.cost \in 0..MaxCost
    BY DEF Trace
  <2>2. row.outcome \in TraceOutcome
    BY DEF Trace
  <2>3. end.outcome \notin Untraced
    BY <1>3, <2>2 DEF TraceOutcome, Untraced
  <2> QED BY <2>1, <2>3, CallAssumption
<1>6. session_total' = session_total + row.cost /\ session_total \in Nat
  BY <1>1, <1>3, CostAppend DEF session_total, TypeInv
<1>7. TypeInv'
  BY <1>1, <1>2, <1>3, <1>4 DEF TypeInv
<1>8. TracesAreExact'
  BY <1>1, <1>3, <1>5, WritesAreExact
<1>9. SpendInv'
  <2>1. CASE row.cost = 0
    <3>1. session_total' = session_total
      BY <1>6, <2>1
    <3> QED BY <1>1, <1>4, <3>1, SpendStays
  <2>2. CASE row.cost # 0
    <3>1. c \in Charging
      BY <1>3, <1>5, <2>2 DEF Charging
    <3> QED BY <1>1, <1>4, <1>5, <1>6, <3>1, SpendLands
  <2> QED BY <2>1, <2>2
<1> QED BY <1>4, <1>7, <1>8, <1>9 DEF IInv

LEMMA NextIInv == IInv /\ [Next]_vars => IInv'
<1> SUFFICES ASSUME IInv, [Next]_vars PROVE IInv'
  OBVIOUS
<1>1. CASE Next
  <2>1. TypeInv /\ CallsInv /\ session_total \in Nat
    BY DEF IInv, SpendInv
  <2>2. PICK c \in Task, next \in Call : Works(c, next) \/ Fails(c, next) \/ Writes(c, next)
    BY <1>1, <2>1, NextSteps
  <2> QED BY <2>2, WorksStep, FailsStep, WritesStep
<1>2. CASE UNCHANGED vars
  BY <1>2 DEF vars, IInv, TypeInv, CallsInv, SpendInv, TracesAreExact, Audited, Place, Charging,
              session_total
<1> QED BY <1>1, <1>2

LEMMA InitIInv == Init => IInv
<1> SUFFICES ASSUME Init PROVE IInv
  OBVIOUS
<1>1. \A c \in Task : calls[c] = NoCall
  BY DEF Init
<1>2. TypeInv
  BY NoCallIsOne DEF Init, TypeInv
<1>3. CallsInv /\ Charging = {}
  BY <1>1, NoCallIsOne DEF CallsInv, Charging
<1>4. session_total = 0
  BY NoCost DEF Init, session_total
<1>5. SpendInv
  <2> DEFINE a == Cardinality(Task \ Charging)
  <2>1. a \in Nat /\ Ceiling \in Nat /\ MaxCost \in Nat
    BY CallAssumption, TasksCount
  <2>2. MaxCost * a \in Nat
    BY <2>1, TimesGrows
  <2>3. Ceiling # 0 => 0 < Ceiling + MaxCost * a
    <3> HIDE DEF a
    <3> QED BY <2>1, <2>2
  <2> QED BY <1>3, <1>4, <2>3 DEF SpendInv
<1>6. TracesAreExact
  <2>1. Audited = {} /\ Len(traces) = 0
    BY DEF Init, Audited
  <2> QED BY <2>1, FS_EmptySet DEF TracesAreExact
<1> QED BY <1>2, <1>3, <1>5, <1>6 DEF IInv

-----------------------------------------------------------------------------
\* The inductive invariant of the model calls: what a call under way will
\* report is what it did, and what it may still charge is accounted for.
THEOREM CallsInvariance == Spec => []IInv
BY InitIInv, NextIInv, PTL DEF Spec

\* Every call that returned or raised left one trace, in its order and with
\* its outcome and attempts, but where the database failed.
THEOREM TracesStayExact == Spec => []TracesAreExact
<1>1. IInv => TracesAreExact
  BY DEF IInv
<1> QED BY <1>1, CallsInvariance, PTL

\* The recorded spend passes the ceiling by less than one answer per task,
\* however many tasks read the total before each other's traces.
THEOREM CallSpendIsBounded == Spec => []SpendIsBounded
<1>1. IInv => SpendIsBounded
  <2> SUFFICES ASSUME IInv PROVE SpendIsBounded
    OBVIOUS
  <2> DEFINE total == session_total
             a == Cardinality(Task \ Charging)
             b == Cardinality(Task)
  <2>1. SpendInv
    BY DEF IInv
  <2>2. total \in Nat /\ Ceiling \in Nat /\ MaxCost \in Nat /\ a \in Nat /\ b \in Nat /\ a <= b
    BY <2>1, CallAssumption, TasksCount DEF SpendInv
  <2>3. MaxCost * a \in Nat /\ MaxCost * b \in Nat /\ MaxCost * a <= MaxCost * b
    BY <2>2, TimesGrows
  <2>4. total = 0 \/ total < Ceiling + MaxCost * a
    BY <2>1 DEF SpendInv
  <2>5. total = 0 \/ total < Ceiling + MaxCost * b
    <3> HIDE DEF total, a, b
    <3> QED BY <2>2, <2>3, <2>4
  <2> QED BY <2>5 DEF SpendIsBounded
<1> QED BY <1>1, CallsInvariance, PTL
=============================================================================
