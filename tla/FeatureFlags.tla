---------------------------- MODULE FeatureFlags ----------------------------
(***************************************************************************)
(* app/backend/services/feature_flags.py in one backend instance: calls of *)
(* is_enabled() interleave at their awaits with the LISTEN connection that *)
(* invalidates the cache, while the feature_flag table changes under the   *)
(* operator's SQL and the sync job of configs/feature-flags.yaml.          *)
(*                                                                         *)
(* Time is relative: an entry keeps the seconds left until it expires, a   *)
(* call the seconds since it read the clock, and ago the seconds since the *)
(* database last answered each setting.                                    *)
(***************************************************************************)
EXTENDS Naturals, Sequences

CONSTANTS
  Flag,        \* flag names
  Caller,      \* tasks that call is_enabled
  Job,         \* runs of the sync workflow
  CacheTTL,    \* _CACHE_TTL_SECONDS
  MaxAge,      \* bound: ages saturate here
  MaxEvents,   \* bound on the events of the environment
  Env          \* the kinds of event the environment has

ASSUME TTLAssumption ==
  CacheTTL \in Nat /\ MaxAge \in Nat /\ MaxEvents \in Nat /\ CacheTTL <= MaxAge
ASSUME EnvAssumption == Env \subseteq {"operator", "outage", "deploy", "merge"}

VARIABLES
  yaml,       \* the flag's default in the YAML on main, "none" if undeclared
  rows,       \* feature_flag.enabled, "none" if there is no row
  jobs,       \* sync runs: the YAML checked out and the entries left to upsert
  registry,   \* _registry: the YAML the running instance was built with
  cache,      \* _cache
  callers,    \* is_enabled calls
  conn,       \* the LISTEN connection; "dead": lost, which the client has not seen
  inbox,      \* notifications on their way to the listener
  ago,        \* history: seconds since the database last answered a setting
  decided,    \* history: flags that an operator or a merged default turned on
  events      \* environment events so far

table == <<yaml, rows, jobs>>
service == <<registry, cache, callers>>
link == <<conn, inbox>>
vars == <<table, service, link, ago, decided, events>>

Setting == {"on", "off"}
Default == Setting \cup {"none"}
NoEntry == [value |-> "none", left |-> 0]
Idle == [pc |-> "idle", flag |-> "none", value |-> "none", age |-> 0, stale |-> 0]

Smaller(x, y) == IF x <= y THEN x ELSE y
Older(n) == Smaller(n + 1, MaxAge)
Declared(y) == {f \in Flag : y[f] # "none"}

\* What SELECT enabled answers: the row, or the YAML default without one.
Answer(r, reg, f) == IF r[f] # "none" THEN r[f] ELSE reg[f]
Current(f) == Answer(rows, registry, f)

Init ==
  /\ yaml \in [Flag -> {"none", "off"}] /\ registry = yaml
  /\ rows = [f \in Flag |-> "none"]
  /\ jobs = [j \in Job |-> [state |-> "idle", checkout |-> [f \in Flag |-> "none"], todo |-> {}]]
  /\ cache = [f \in Flag |-> NoEntry]
  /\ callers = [c \in Caller |-> Idle]
  /\ conn = "down" /\ inbox = <<>>
  /\ ago = [f \in Flag |-> [v \in Setting |-> IF v = yaml[f] THEN 0 ELSE MaxAge]]
  /\ decided = {} /\ events = 0

-----------------------------------------------------------------------------
\* The environment's changes of the table.

\* The AFTER trigger notifies whoever listens when the statement commits.
WriteRow(f, value) ==
  /\ rows' = [rows EXCEPT ![f] = value]
  /\ inbox' = IF conn = "listening" THEN Append(inbox, f) ELSE inbox
  /\ ago' = [ago EXCEPT ![f] = [v \in Setting |->
               IF v = Answer(rows', registry, f) THEN 0 ELSE ago[f][v]]]
  /\ UNCHANGED conn

Event(kind) == kind \in Env /\ events < MaxEvents /\ events' = events + 1

\* INSERT, UPDATE or DELETE ("none") by hand.
Operate(f, value) ==
  /\ Event("operator")
  /\ value # rows[f]
  /\ WriteRow(f, value)
  /\ decided' = IF value = "on" THEN decided \cup {f} ELSE decided
  /\ UNCHANGED <<yaml, jobs, service>>

\* A pull request declares a flag or changes its default.
Merge(f, value) ==
  /\ Event("merge")
  /\ value # yaml[f]
  /\ yaml' = [yaml EXCEPT ![f] = value]
  /\ decided' = IF value = "on" THEN decided \cup {f} ELSE decided
  /\ UNCHANGED <<rows, jobs, service, link, ago>>

\* A run of the workflow; a failed one may be run again on its own checkout.
StartSync(j, checkout) ==
  /\ Event("merge")
  /\ jobs[j].state # "running"
  /\ \/ checkout = yaml
     \/ jobs[j].state = "failed" /\ checkout = jobs[j].checkout
  /\ jobs' = [jobs EXCEPT ![j] =
                [state |-> "running", checkout |-> checkout, todo |-> Declared(checkout)]]
  /\ UNCHANGED <<yaml, rows, service, link, ago, decided>>

\* ON CONFLICT leaves enabled alone; each statement commits by itself.
Upserted_INSERTS_ON(row, default) == IF row = "none" THEN "on" ELSE row
Upserted(row, default) == IF row = "none" THEN default ELSE row

Upsert(j, f) ==
  /\ jobs[j].state = "running" /\ f \in jobs[j].todo
  /\ WriteRow(f, Upserted(rows[f], jobs[j].checkout[f]))
  /\ jobs' = [jobs EXCEPT ![j].todo = @ \ {f}]
  /\ UNCHANGED <<yaml, service, decided, events>>

EndSync(j) ==
  /\ jobs[j].state = "running"
  /\ \/ jobs[j].todo = {} /\ jobs' = [jobs EXCEPT ![j].state = "done"]
     \/ jobs' = [jobs EXCEPT ![j].state = "failed", ![j].todo = {}]
  /\ UNCHANGED <<yaml, rows, service, link, ago, decided, events>>

-----------------------------------------------------------------------------
\* is_enabled.

Fresh_FOREVER(entry) == entry.value # "none"
Fresh(entry) == entry.left > 0

\* A call returns, from the cache ("hit") or from a query ("answered"); stale
\* is how long ago the database answered the same.
Returned(call, pc, value) ==
  [call EXCEPT !.pc = pc, !.value = value, !.stale = ago[call.flag][value]]

\* Up to the first await: unknown names raise, a live entry is the answer.
Call(c, f) ==
  LET call == [Idle EXCEPT !.flag = f]
  IN  /\ callers[c].pc \notin {"reading", "storing"}
      /\ callers' = [callers EXCEPT ![c] =
           IF registry[f] = "none" THEN [call EXCEPT !.pc = "unknown"]
           ELSE IF Fresh(cache[f]) THEN Returned(call, "hit", cache[f].value)
           ELSE [call EXCEPT !.pc = "reading"]]
      /\ UNCHANGED <<table, registry, cache, link, ago, decided, events>>

Read(c) ==
  /\ callers[c].pc = "reading"
  /\ callers' = [callers EXCEPT ![c].pc = "storing", ![c].value = Current(callers[c].flag)]
  /\ UNCHANGED <<table, registry, cache, link, ago, decided, events>>

ReadFails(c) ==
  /\ callers[c].pc = "reading"
  /\ callers' = [callers EXCEPT ![c] = Idle]
  /\ UNCHANGED <<table, registry, cache, link, ago, decided, events>>

\* The expiry counts from the clock read before the query.
Stored_FROM_NOW(call) == [value |-> call.value, left |-> CacheTTL]
Stored(call) ==
  [value |-> call.value, left |-> IF call.age < CacheTTL THEN CacheTTL - call.age ELSE 0]

Store(c) ==
  /\ callers[c].pc = "storing"
  /\ cache' = [cache EXCEPT ![callers[c].flag] = Stored(callers[c])]
  /\ callers' = [callers EXCEPT ![c] = Returned(@, "answered", @.value)]
  /\ UNCHANGED <<table, registry, link, ago, decided, events>>

-----------------------------------------------------------------------------
\* The listener.

Invalidate(f) == cache' = [cache EXCEPT ![f] = NoEntry]

Notify ==
  /\ conn = "listening" /\ inbox # <<>>
  /\ Invalidate(Head(inbox))
  /\ inbox' = Tail(inbox)
  /\ UNCHANGED <<table, registry, callers, conn, ago, decided, events>>

\* The connection is lost with what it carried; the listener polls for it.
Sever ==
  /\ Event("outage")
  /\ conn = "listening"
  /\ conn' = "dead" /\ inbox' = <<>>
  /\ UNCHANGED <<table, service, ago, decided>>

Notice ==
  /\ conn = "dead" /\ conn' = "down"
  /\ UNCHANGED <<table, service, inbox, ago, decided, events>>

\* After the back-off; the cache is kept as it is.
Reconnect ==
  /\ conn = "down" /\ conn' = "listening"
  /\ UNCHANGED <<table, service, inbox, ago, decided, events>>

\* The instance dies or is replaced: calls and cache are gone.
Restart ==
  /\ Event("deploy")
  /\ registry' \in {registry, yaml}
  /\ cache' = [f \in Flag |-> NoEntry]
  /\ callers' = [c \in Caller |-> Idle]
  /\ conn' = "down" /\ inbox' = <<>>
  /\ ago' = [f \in Flag |-> [v \in Setting |->
               IF v = Answer(rows, registry', f) THEN 0 ELSE MaxAge]]
  /\ UNCHANGED <<table, decided>>

Tick ==
  /\ cache' = [f \in Flag |-> [cache[f] EXCEPT !.left = IF @ > 0 THEN @ - 1 ELSE 0]]
  /\ callers' = [c \in Caller |->
       IF callers[c].pc \in {"reading", "storing"} THEN [callers[c] EXCEPT !.age = Older(@)]
       ELSE callers[c]]
  /\ ago' = [f \in Flag |-> [v \in Setting |->
               IF v = Current(f) THEN 0 ELSE Older(ago[f][v])]]
  /\ UNCHANGED <<table, registry, link, decided, events>>

Next ==
  \/ \E f \in Flag, value \in Default : Operate(f, value)
  \/ \E f \in Flag, value \in Setting : Merge(f, value)
  \/ \E j \in Job : StartSync(j, yaml) \/ StartSync(j, jobs[j].checkout)
  \/ \E j \in Job, f \in Flag : Upsert(j, f)
  \/ \E j \in Job : EndSync(j)
  \/ \E c \in Caller, f \in Flag : Call(c, f)
  \/ \E c \in Caller : Read(c) \/ ReadFails(c) \/ Store(c)
  \/ Notify \/ Sever \/ Notice \/ Reconnect \/ Restart \/ Tick

Spec == Init /\ [][Next]_vars

\* A query that was answered is stored, and time passes.  The listener and
\* the server owe nothing.
FairSpec == Spec /\ WF_vars(Tick) /\ \A c \in Caller : WF_vars(Store(c))
-----------------------------------------------------------------------------
\* Types.
TypeOK ==
  /\ yaml \in [Flag -> Default] /\ rows \in [Flag -> Default] /\ registry \in [Flag -> Default]
  /\ jobs \in [Job -> [state : {"idle", "running", "done", "failed"},
                       checkout : [Flag -> Default], todo : SUBSET Flag]]
  /\ cache \in [Flag -> [value : Default, left : 0..CacheTTL]]
  /\ callers \in [Caller -> [pc : {"idle", "reading", "storing", "hit", "answered", "unknown"},
                             flag : Flag \cup {"none"}, value : Default,
                             age : 0..MaxAge, stale : 0..MaxAge]]
  /\ conn \in {"down", "listening", "dead"} /\ inbox \in Seq(Flag)
  /\ ago \in [Flag -> [Setting -> 0..MaxAge]]
  /\ decided \subseteq Flag /\ events \in 0..MaxEvents

\* An answer is never older than the cache promises: from the cache, the
\* database gave it less than CacheTTL seconds ago, whatever query latency,
\* lost notification or overtaken store came between; from a query, it was
\* right at some moment of the call (is_enabled, the expiry counted from the
\* call's start).
AnswerIsRecent ==
  \A c \in Caller :
    /\ callers[c].pc = "hit" => callers[c].stale < CacheTTL
    /\ callers[c].pc = "answered" => callers[c].stale <= callers[c].age

\* A flag answers on only if an operator turned it on or a default of on was
\* merged: dark by default, through sync runs on old checkouts, deleted rows,
\* fallbacks to the YAML and stale entries.
DarkByDefault ==
  \A c \in Caller : callers[c].pc \in {"hit", "answered"} /\ callers[c].value = "on" =>
    callers[c].flag \in decided

\* When the table stops changing the cache comes to agree with it, even if no
\* notification ever arrives again (the TTL backstop).
CacheConverges == <>[](\A f \in Flag : Fresh(cache[f]) => cache[f].value = Current(f))

=============================================================================
