------------------------- MODULE FeatureFlagsProofs -------------------------
(***************************************************************************)
(* The types of FeatureFlags, the bound on the age of an answer and        *)
(* dark-by-default, for any flags, callers, sync runs and TTL.             *)
(***************************************************************************)
EXTENDS FeatureFlags, TLAPS

\* Calls between their query and their store.
Waiting(c) == callers[c].pc \in {"reading", "storing"}

\* The current setting was answered just now.
CurrentIsNow == \A f \in Flag : Current(f) \in Setting => ago[f][Current(f)] = 0

\* A live entry holds a setting the database gave when the entry was dated.
EntriesAreDated ==
  \A f \in Flag : Fresh(cache[f]) =>
    cache[f].value \in Setting /\ ago[f][cache[f].value] + cache[f].left <= CacheTTL

\* A waiting call asks for a declared flag; what it read was right during it.
CallsAreDated ==
  \A c \in Caller :
    /\ Waiting(c) => callers[c].flag \in Flag /\ registry[callers[c].flag] \in Setting
    /\ callers[c].pc = "storing" =>
         /\ callers[c].value \in Setting
         /\ ago[callers[c].flag][callers[c].value] <= callers[c].age

\* Every place a setting may be read from holds on only for decided flags.
SourcesAreDecided ==
  /\ \A f \in Flag : "on" \in {yaml[f], rows[f], registry[f], cache[f].value} => f \in decided
  /\ \A j \in Job, f \in Flag : jobs[j].checkout[f] = "on" => f \in decided
  /\ \A c \in Caller : callers[c].value = "on" => callers[c].flag \in decided

\* A run upserts what its checkout declares.
RunsAreDeclared == \A j \in Job : jobs[j].todo \subseteq Declared(jobs[j].checkout)

IInv ==
  /\ TypeOK /\ RunsAreDeclared
  /\ CurrentIsNow /\ EntriesAreDated /\ CallsAreDated /\ AnswerIsRecent
  /\ SourcesAreDecided

\* Ages stay in range and in order.
LEMMA OlderBounds ==
  ASSUME NEW m \in 0..MaxAge
  PROVE  /\ Older(m) \in 0..MaxAge /\ Older(m) <= m + 1
         /\ \A n \in 0..MaxAge : m <= n => Older(m) <= Older(n)
BY TTLAssumption DEF Older, Smaller

-----------------------------------------------------------------------------
\* Initial states.
LEMMA InitIInv == Init => IInv
<1> SUFFICES ASSUME Init PROVE IInv
  OBVIOUS
<1>1. TypeOK
  <2>1. yaml \in [Flag -> Default] /\ rows \in [Flag -> Default] /\ registry \in [Flag -> Default]
    BY DEF Init, Default, Setting
  <2>2. jobs \in [Job -> [state : {"idle", "running", "done", "failed"},
                          checkout : [Flag -> Default], todo : SUBSET Flag]]
    BY DEF Init, Default, Setting
  <2>3. cache \in [Flag -> [value : Default, left : 0..CacheTTL]]
    BY TTLAssumption DEF Init, NoEntry, Default, Setting
  <2>4. Idle \in [pc : {"idle", "reading", "storing", "hit", "answered", "unknown"},
                  flag : Flag \cup {"none"}, value : Default, age : 0..MaxAge, stale : 0..MaxAge]
    BY TTLAssumption DEF Idle, Default
  <2>5. ago \in [Flag -> [Setting -> 0..MaxAge]]
    BY TTLAssumption DEF Init
  <2>6. inbox \in Seq(Flag) /\ conn \in {"down", "listening", "dead"}
        /\ decided \subseteq Flag /\ events \in 0..MaxEvents
    BY TTLAssumption DEF Init
  <2> QED BY <2>1, <2>2, <2>3, <2>4, <2>5, <2>6 DEF TypeOK, Init
<1>2. RunsAreDeclared /\ CallsAreDated /\ AnswerIsRecent
  BY DEF Init, RunsAreDeclared, CallsAreDated, AnswerIsRecent, Waiting, Idle
<1>3. CurrentIsNow
  BY DEF Init, CurrentIsNow, Current, Answer
<1>4. EntriesAreDated
  BY DEF Init, EntriesAreDated, Fresh, NoEntry
<1>5. SourcesAreDecided
  BY DEF Init, SourcesAreDecided, NoEntry, Idle
<1> QED BY <1>1, <1>2, <1>3, <1>4, <1>5 DEF IInv

-----------------------------------------------------------------------------
\* What every write of a row does: an operator's or an upsert's.
LEMMA RowWritten ==
  ASSUME IInv, NEW f \in Flag, NEW value \in Default, WriteRow(f, value),
         UNCHANGED service
  PROVE  /\ rows' \in [Flag -> Default] /\ inbox' \in Seq(Flag)
         /\ conn' \in {"down", "listening", "dead"}
         /\ ago' \in [Flag -> [Setting -> 0..MaxAge]]
         /\ CurrentIsNow' /\ EntriesAreDated' /\ CallsAreDated' /\ AnswerIsRecent'
<1>1. rows' = [rows EXCEPT ![f] = value] /\ rows' \in [Flag -> Default]
  BY DEF WriteRow, IInv, TypeOK
<1>2. inbox' \in Seq(Flag) /\ conn' \in {"down", "listening", "dead"}
  BY DEF WriteRow, IInv, TypeOK
<1>3. /\ ago' \in [Flag -> [Setting -> 0..MaxAge]]
      /\ \A g \in Flag, v \in Setting : ago'[g][v] <= ago[g][v]
      /\ \A g \in Flag, v \in Setting : v = Current(g)' => ago'[g][v] = 0
  <2>1. ago \in [Flag -> [Setting -> 0..MaxAge]] /\ 0 \in 0..MaxAge
    BY TTLAssumption DEF IInv, TypeOK
  <2>2. ago' = [ago EXCEPT ![f] = [v \in Setting |->
                  IF v = Answer(rows', registry, f) THEN 0 ELSE ago[f][v]]]
    BY DEF WriteRow
  <2>3. \A v \in Setting : ago'[f][v] = IF v = Answer(rows', registry, f) THEN 0 ELSE ago[f][v]
    BY <2>1, <2>2
  <2>4. \A g \in Flag : g # f => ago'[g] = ago[g]
    BY <2>1, <2>2
  <2>5. ago' \in [Flag -> [Setting -> 0..MaxAge]]
    BY <2>1, <2>2
  <2>6. \A g \in Flag : g # f => Current(g)' = Current(g)
    BY <1>1 DEF Current, Answer, service, IInv, TypeOK
  <2>7. Current(f)' = Answer(rows', registry, f)
    BY DEF Current, service, Answer
  <2>8. \A g \in Flag, v \in Setting : ago[g][v] \in 0..MaxAge
    BY <2>1
  <2>9. ASSUME NEW g \in Flag, NEW v \in Setting
        PROVE  ago'[g][v] <= ago[g][v] /\ (v = Current(g)' => ago'[g][v] = 0)
    <3>1. CASE g = f
      BY <3>1, <2>3, <2>7, <2>8
    <3>2. CASE g # f
      BY <3>2, <2>4, <2>6, <2>8 DEF IInv, CurrentIsNow
    <3> QED BY <3>1, <3>2
  <2> QED BY <2>5, <2>9
<1>4. CurrentIsNow'
  BY <1>3 DEF CurrentIsNow
<1>5. UNCHANGED <<registry, cache, callers>>
  BY DEF service
<1>6. EntriesAreDated'
  <2> SUFFICES ASSUME NEW g \in Flag, Fresh(cache[g])
               PROVE  cache[g].value \in Setting /\ ago'[g][cache[g].value] + cache[g].left <= CacheTTL
    BY <1>5 DEF EntriesAreDated, Fresh
  <2>1. cache[g].value \in Setting /\ ago[g][cache[g].value] + cache[g].left <= CacheTTL
    BY DEF IInv, EntriesAreDated
  <2>2. cache[g].left \in Nat /\ ago[g][cache[g].value] \in Nat /\ ago'[g][cache[g].value] \in Nat
    BY <2>1, <1>3, TTLAssumption DEF IInv, TypeOK
  <2> QED BY <2>1, <2>2, <1>3, TTLAssumption
<1>7. CallsAreDated'
  <2> SUFFICES ASSUME NEW c \in Caller
               PROVE  /\ Waiting(c) => callers[c].flag \in Flag /\ registry[callers[c].flag] \in Setting
                      /\ callers[c].pc = "storing" =>
                           /\ callers[c].value \in Setting
                           /\ ago'[callers[c].flag][callers[c].value] <= callers[c].age
    BY <1>5 DEF CallsAreDated, Waiting
  <2>1. /\ Waiting(c) => callers[c].flag \in Flag /\ registry[callers[c].flag] \in Setting
        /\ callers[c].pc = "storing" =>
             /\ callers[c].value \in Setting
             /\ ago[callers[c].flag][callers[c].value] <= callers[c].age
    BY DEF IInv, CallsAreDated
  <2>2. CASE callers[c].pc = "storing"
    <3>1. callers[c].flag \in Flag /\ callers[c].age \in Nat
      BY <2>1, <2>2, TTLAssumption DEF Waiting, IInv, TypeOK
    <3>2. /\ ago[callers[c].flag][callers[c].value] \in Nat
          /\ ago'[callers[c].flag][callers[c].value] \in Nat
          /\ ago'[callers[c].flag][callers[c].value] <= ago[callers[c].flag][callers[c].value]
      BY <2>1, <2>2, <3>1, <1>3, TTLAssumption DEF IInv, TypeOK
    <3> QED BY <2>1, <2>2, <3>1, <3>2
  <2> QED BY <2>1, <2>2
<1>8. AnswerIsRecent'
  BY <1>5 DEF IInv, AnswerIsRecent
<1> QED BY <1>1, <1>2, <1>3, <1>4, <1>6, <1>7, <1>8

-----------------------------------------------------------------------------
\* Steps on the table.
LEMMA OperateStep ==
  ASSUME IInv, NEW f \in Flag, NEW value \in Default, Operate(f, value)
  PROVE  IInv'
<1>1. WriteRow(f, value) /\ UNCHANGED <<yaml, jobs, service>>
  BY DEF Operate
<1>2. UNCHANGED <<yaml, jobs, registry, cache, callers>> /\ UNCHANGED service
  BY <1>1 DEF service
<1>3. events' \in 0..MaxEvents /\ decided' \subseteq Flag /\ decided \subseteq decided'
      /\ (value = "on" => f \in decided')
  BY TTLAssumption DEF Operate, Event, IInv, TypeOK
<1>4. TypeOK'
  BY <1>1, <1>2, <1>3, RowWritten DEF IInv, TypeOK
<1>5. RunsAreDeclared'
  BY <1>2 DEF IInv, RunsAreDeclared, Declared
<1>6. SourcesAreDecided'
  <2>1. rows' = [rows EXCEPT ![f] = value] /\ rows \in [Flag -> Default]
    BY <1>1 DEF WriteRow, IInv, TypeOK
  <2>2. \A g \in Flag : rows'[g] = "on" => g \in decided'
    BY <2>1, <1>3 DEF IInv, SourcesAreDecided
  <2> QED BY <2>2, <1>2, <1>3 DEF IInv, SourcesAreDecided
<1> QED BY <1>1, <1>2, <1>4, <1>5, <1>6, RowWritten DEF IInv

LEMMA UpsertStep ==
  ASSUME IInv, NEW j \in Job, NEW f \in Flag, Upsert(j, f)
  PROVE  IInv'
<1> DEFINE value == Upserted(rows[f], jobs[j].checkout[f])
<1>1. WriteRow(f, value) /\ UNCHANGED <<yaml, registry, cache, callers, decided, events>>
      /\ UNCHANGED service
  BY DEF Upsert, service
<1>2. value \in Default
  BY DEF Upserted, IInv, TypeOK
<1>3. /\ jobs' = [jobs EXCEPT ![j].todo = @ \ {f}]
      /\ jobs \in [Job -> [state : {"idle", "running", "done", "failed"},
                           checkout : [Flag -> Default], todo : SUBSET Flag]]
  BY DEF Upsert, IInv, TypeOK
<1>4. /\ jobs' \in [Job -> [state : {"idle", "running", "done", "failed"},
                            checkout : [Flag -> Default], todo : SUBSET Flag]]
      /\ \A k \in Job : jobs'[k].checkout = jobs[k].checkout /\ jobs'[k].todo \subseteq jobs[k].todo
  BY <1>3
<1> HIDE DEF value
<1>5. TypeOK'
  BY <1>1, <1>2, <1>4, RowWritten DEF IInv, TypeOK
<1>6. RunsAreDeclared'
  BY <1>4 DEF IInv, RunsAreDeclared, Declared
<1>7. SourcesAreDecided'
  <2>1. rows' = [rows EXCEPT ![f] = value] /\ rows \in [Flag -> Default]
    BY <1>1 DEF WriteRow, IInv, TypeOK
  <2>2. value = "on" => f \in decided
    BY DEF value, Upserted, IInv, SourcesAreDecided
  <2>3. \A g \in Flag : rows'[g] = "on" => g \in decided
    BY <2>1, <2>2 DEF IInv, SourcesAreDecided
  <2> QED BY <2>3, <1>1, <1>4 DEF IInv, SourcesAreDecided
<1> QED BY <1>1, <1>2, <1>5, <1>6, <1>7, RowWritten DEF IInv

LEMMA MergeStep ==
  ASSUME IInv, NEW f \in Flag, NEW value \in Setting, Merge(f, value)
  PROVE  IInv'
<1>1. /\ yaml' = [yaml EXCEPT ![f] = value] /\ yaml' \in [Flag -> Default]
      /\ UNCHANGED <<rows, jobs, registry, cache, callers, conn, inbox, ago>>
  BY DEF Merge, service, link, IInv, TypeOK, Default
<1>2. events' \in 0..MaxEvents /\ decided' \subseteq Flag /\ decided \subseteq decided'
      /\ (value = "on" => f \in decided')
  BY TTLAssumption DEF Merge, Event, IInv, TypeOK
<1>3. TypeOK'
  BY <1>1, <1>2 DEF IInv, TypeOK
<1>4. RunsAreDeclared' /\ CurrentIsNow' /\ EntriesAreDated' /\ CallsAreDated' /\ AnswerIsRecent'
  BY <1>1 DEF IInv, RunsAreDeclared, Declared, CurrentIsNow, Current, Answer, EntriesAreDated,
              Fresh, CallsAreDated, Waiting, AnswerIsRecent
<1>5. SourcesAreDecided'
  <2>1. \A g \in Flag : yaml'[g] = "on" => g \in decided'
    BY <1>1, <1>2 DEF IInv, TypeOK, SourcesAreDecided
  <2> QED BY <2>1, <1>1, <1>2 DEF IInv, SourcesAreDecided
<1> QED BY <1>3, <1>4, <1>5 DEF IInv

\* A sync run starts on a checkout whose declarations are decided, or ends.
LEMMA SyncStep ==
  ASSUME IInv, NEW j \in Job,
         StartSync(j, yaml) \/ StartSync(j, jobs[j].checkout) \/ EndSync(j)
  PROVE  IInv'
<1> DEFINE Run == [state : {"idle", "running", "done", "failed"},
                   checkout : [Flag -> Default], todo : SUBSET Flag]
       Kept == /\ jobs' \in [Job -> Run]
               /\ \A k \in Job : /\ jobs'[k].checkout \in {yaml, jobs[k].checkout}
                                 /\ jobs'[k].todo \subseteq Declared(jobs'[k].checkout)
<1>1. UNCHANGED <<yaml, rows, registry, cache, callers, conn, inbox, ago, decided>>
  BY DEF StartSync, EndSync, service, link
<1>2. events' \in 0..MaxEvents
  BY TTLAssumption DEF StartSync, EndSync, Event, IInv, TypeOK
<1>3. Kept
  <2>1. jobs \in [Job -> Run] /\ yaml \in [Flag -> Default]
    BY DEF IInv, TypeOK
  <2>2. \A k \in Job : jobs[k].todo \subseteq Declared(jobs[k].checkout)
    BY DEF IInv, RunsAreDeclared
  <2>3. ASSUME NEW y \in {yaml, jobs[j].checkout}, StartSync(j, y)
        PROVE  Kept
    <3>1. y \in [Flag -> Default] /\ Declared(y) \in SUBSET Flag
      BY <2>1, <2>3 DEF Declared
    <3>2. jobs' = [jobs EXCEPT ![j] = [state |-> "running", checkout |-> y, todo |-> Declared(y)]]
      BY <2>3 DEF StartSync
    <3> QED BY <2>1, <2>2, <2>3, <3>1, <3>2
  <2>4. CASE EndSync(j)
    <3>1. CASE jobs[j].todo = {} /\ jobs' = [jobs EXCEPT ![j].state = "done"]
      BY <2>1, <2>2, <3>1
    <3>2. CASE jobs' = [jobs EXCEPT ![j].state = "failed", ![j].todo = {}]
      <4>1. \A k \in Job : jobs'[k].todo \subseteq jobs[k].todo /\ jobs'[k].checkout = jobs[k].checkout
        BY <2>1, <3>2
      <4>2. jobs' \in [Job -> Run]
        BY <2>1, <3>2
      <4> QED BY <2>2, <4>1, <4>2
    <3> QED BY <2>4, <3>1, <3>2 DEF EndSync
  <2> QED BY <2>3, <2>4
<1>4. TypeOK'
  BY <1>1, <1>2, <1>3 DEF IInv, TypeOK
<1>5. RunsAreDeclared' /\ CurrentIsNow' /\ EntriesAreDated' /\ CallsAreDated' /\ AnswerIsRecent'
  BY <1>1, <1>3 DEF IInv, RunsAreDeclared, Declared, CurrentIsNow, Current, Answer, EntriesAreDated,
              Fresh, CallsAreDated, Waiting, AnswerIsRecent
<1>6. SourcesAreDecided'
  BY <1>1, <1>3 DEF IInv, SourcesAreDecided
<1> QED BY <1>4, <1>5, <1>6 DEF IInv

-----------------------------------------------------------------------------
\* Steps of the calls.
LEMMA CallStep ==
  ASSUME IInv, NEW c \in Caller, NEW f \in Flag, Call(c, f)
  PROVE  IInv'
<1> DEFINE call == [Idle EXCEPT !.flag = f]
           next == IF registry[f] = "none" THEN [call EXCEPT !.pc = "unknown"]
                   ELSE IF Fresh(cache[f]) THEN Returned(call, "hit", cache[f].value)
                   ELSE [call EXCEPT !.pc = "reading"]
           Calls == [pc : {"idle", "reading", "storing", "hit", "answered", "unknown"},
                     flag : Flag \cup {"none"}, value : Default, age : 0..MaxAge, stale : 0..MaxAge]
<1>1. /\ callers' = [callers EXCEPT ![c] = next] /\ callers \in [Caller -> Calls]
      /\ UNCHANGED <<yaml, rows, jobs, registry, cache, conn, inbox, ago, decided, events>>
  BY DEF Call, table, link, IInv, TypeOK
<1>2. /\ next \in Calls
      /\ next.pc = "reading" => next.flag = f /\ registry[f] # "none"
      /\ next.pc # "storing" /\ next.pc # "answered"
      /\ next.pc = "hit" => next.stale < CacheTTL
      /\ next.value = "on" => next.flag = f /\ f \in decided
  <2>1. call = [pc |-> "idle", flag |-> f, value |-> "none", age |-> 0, stale |-> 0]
    BY DEF Idle
  <2>2. CASE registry[f] = "none"
    <3>1. next = [pc |-> "unknown", flag |-> f, value |-> "none", age |-> 0, stale |-> 0]
      BY <2>1, <2>2
    <3> HIDE DEF next
    <3> QED BY <3>1, TTLAssumption DEF Default
  <2>3. CASE registry[f] # "none" /\ Fresh(cache[f])
    <3>1. next = [pc |-> "hit", flag |-> f, value |-> cache[f].value, age |-> 0,
                 stale |-> ago[f][cache[f].value]]
      BY <2>1, <2>3 DEF Returned
    <3>2. cache[f].value \in Setting /\ ago[f][cache[f].value] + cache[f].left <= CacheTTL
      BY <2>3 DEF IInv, EntriesAreDated
    <3>3. ago[f][cache[f].value] \in 0..MaxAge /\ cache[f].left \in 0..CacheTTL
      BY <3>2 DEF IInv, TypeOK
    <3>4. ago[f][cache[f].value] < CacheTTL
      BY <2>3, <3>2, <3>3, TTLAssumption DEF Fresh
    <3>5. cache[f].value = "on" => f \in decided
      BY DEF IInv, SourcesAreDecided
    <3> HIDE DEF next
    <3> QED BY <3>1, <3>2, <3>3, <3>4, <3>5, TTLAssumption DEF Default
  <2>4. CASE registry[f] # "none" /\ ~Fresh(cache[f])
    <3>1. next = [pc |-> "reading", flag |-> f, value |-> "none", age |-> 0, stale |-> 0]
      BY <2>1, <2>4
    <3> HIDE DEF next
    <3> QED BY <2>4, <3>1, TTLAssumption DEF Default
  <2> QED BY <2>2, <2>3, <2>4
<1> HIDE DEF next
<1>3. /\ callers' \in [Caller -> Calls] /\ callers'[c] = next
      /\ \A d \in Caller : d # c => callers'[d] = callers[d]
  BY <1>1, <1>2
<1>4. registry[f] # "none" => registry[f] \in Setting
  BY DEF IInv, TypeOK, Default
<1>5. TypeOK'
  BY <1>1, <1>3 DEF IInv, TypeOK
<1>6. RunsAreDeclared' /\ CurrentIsNow' /\ EntriesAreDated'
  BY <1>1 DEF IInv, RunsAreDeclared, Declared, CurrentIsNow, Current, Answer, EntriesAreDated, Fresh
<1>7. CallsAreDated'
  BY <1>1, <1>2, <1>3, <1>4 DEF IInv, CallsAreDated, Waiting
<1>8. AnswerIsRecent'
  BY <1>1, <1>2, <1>3 DEF IInv, AnswerIsRecent
<1>9. SourcesAreDecided'
  BY <1>1, <1>2, <1>3 DEF IInv, SourcesAreDecided
<1> QED BY <1>5, <1>6, <1>7, <1>8, <1>9 DEF IInv

LEMMA ReadStep ==
  ASSUME IInv, NEW c \in Caller, Read(c) \/ ReadFails(c)
  PROVE  IInv'
<1> DEFINE f == callers[c].flag
           Calls == [pc : {"idle", "reading", "storing", "hit", "answered", "unknown"},
                     flag : Flag \cup {"none"}, value : Default, age : 0..MaxAge, stale : 0..MaxAge]
<1>1. /\ callers \in [Caller -> Calls] /\ callers[c].pc = "reading"
      /\ UNCHANGED <<yaml, rows, jobs, registry, cache, conn, inbox, ago, decided, events>>
  BY DEF Read, ReadFails, table, link, IInv, TypeOK
<1>2. f \in Flag /\ registry[f] \in Setting
  BY <1>1 DEF IInv, CallsAreDated, Waiting
<1>3. Current(f) \in Setting /\ ago[f][Current(f)] = 0
  BY <1>2 DEF Current, Answer, Default, IInv, TypeOK, CurrentIsNow
<1>4. Current(f) = "on" => f \in decided
  BY <1>2 DEF Current, Answer, IInv, SourcesAreDecided
<1>5. /\ callers' \in [Caller -> Calls]
      /\ \A d \in Caller : d # c => callers'[d] = callers[d]
      /\ \/ callers'[c] = Idle
         \/ callers'[c] = [callers[c] EXCEPT !.pc = "storing", !.value = Current(f)]
  <2>1. CASE Read(c)
    <3>1. callers' = [callers EXCEPT ![c] = [callers[c] EXCEPT !.pc = "storing", !.value = Current(f)]]
      BY <1>1, <2>1 DEF Read
    <3>2. [callers[c] EXCEPT !.pc = "storing", !.value = Current(f)] \in Calls
      BY <1>1, <1>3 DEF Default
    <3> QED BY <1>1, <3>1, <3>2
  <2>2. CASE ReadFails(c)
    <3>1. Idle \in Calls
      BY TTLAssumption DEF Idle, Default
    <3> QED BY <1>1, <2>2, <3>1 DEF ReadFails
  <2> QED BY <2>1, <2>2
<1>6. TypeOK'
  BY <1>1, <1>5 DEF IInv, TypeOK
<1>7. RunsAreDeclared' /\ CurrentIsNow' /\ EntriesAreDated'
  BY <1>1 DEF IInv, RunsAreDeclared, Declared, CurrentIsNow, Current, Answer, EntriesAreDated, Fresh
<1>8. CASE callers'[c] = Idle
  <2>1. CallsAreDated' /\ AnswerIsRecent'
    BY <1>1, <1>5, <1>8 DEF IInv, CallsAreDated, AnswerIsRecent, Waiting, Idle
  <2>2. SourcesAreDecided'
    BY <1>1, <1>5, <1>8 DEF IInv, SourcesAreDecided, Idle
  <2> QED BY <1>6, <1>7, <2>1, <2>2 DEF IInv
<1>9. CASE callers'[c] = [callers[c] EXCEPT !.pc = "storing", !.value = Current(f)]
  <2>1. /\ callers'[c].pc = "storing" /\ callers'[c].value = Current(f)
        /\ callers'[c].flag = f /\ callers'[c].age \in 0..MaxAge
    BY <1>1, <1>9
  <2>2. CallsAreDated'
    BY <1>1, <1>2, <1>3, <1>5, <2>1, TTLAssumption DEF IInv, CallsAreDated, Waiting
  <2>3. AnswerIsRecent'
    BY <1>1, <1>5, <2>1 DEF IInv, AnswerIsRecent
  <2>4. SourcesAreDecided'
    BY <1>1, <1>4, <1>5, <2>1 DEF IInv, SourcesAreDecided
  <2> QED BY <1>6, <1>7, <2>2, <2>3, <2>4 DEF IInv
<1> QED BY <1>5, <1>8, <1>9

LEMMA StoreStep ==
  ASSUME IInv, NEW c \in Caller, Store(c)
  PROVE  IInv'
<1> DEFINE f == callers[c].flag
           v == callers[c].value
           Calls == [pc : {"idle", "reading", "storing", "hit", "answered", "unknown"},
                     flag : Flag \cup {"none"}, value : Default, age : 0..MaxAge, stale : 0..MaxAge]
<1>1. /\ callers \in [Caller -> Calls] /\ callers[c].pc = "storing"
      /\ cache \in [Flag -> [value : Default, left : 0..CacheTTL]]
      /\ UNCHANGED <<yaml, rows, jobs, registry, conn, inbox, ago, decided, events>>
  BY DEF Store, table, link, IInv, TypeOK
<1>2. f \in Flag /\ v \in Setting /\ ago[f][v] <= callers[c].age /\ callers[c].age \in 0..MaxAge
  BY <1>1 DEF IInv, CallsAreDated, Waiting
<1>3. ago[f][v] \in 0..MaxAge
  BY <1>2 DEF IInv, TypeOK
<1>4. v = "on" => f \in decided
  BY DEF IInv, SourcesAreDecided
<1>5. /\ cache' \in [Flag -> [value : Default, left : 0..CacheTTL]]
      /\ cache'[f].value = v
      /\ cache'[f].left > 0 => ago[f][v] + cache'[f].left <= CacheTTL
      /\ \A g \in Flag : g # f => cache'[g] = cache[g]
  <2>1. cache' = [cache EXCEPT ![f] = Stored(callers[c])]
    BY DEF Store
  <2>2. Stored(callers[c]).value = v
    BY DEF Stored
  <2>3. CASE callers[c].age < CacheTTL
    <3>1. Stored(callers[c]) = [value |-> v, left |-> CacheTTL - callers[c].age]
      BY <2>3 DEF Stored
    <3>2. CacheTTL - callers[c].age \in 0..CacheTTL /\ ago[f][v] + (CacheTTL - callers[c].age) <= CacheTTL
      BY <1>2, <1>3, <2>3, TTLAssumption
    <3> QED BY <1>1, <1>2, <2>1, <3>1, <3>2 DEF Default
  <2>4. CASE ~(callers[c].age < CacheTTL)
    <3>1. Stored(callers[c]) = [value |-> v, left |-> 0]
      BY <2>4 DEF Stored
    <3> QED BY <1>1, <1>2, <2>1, <3>1, TTLAssumption DEF Default
  <2> QED BY <2>3, <2>4
<1>6. /\ callers' \in [Caller -> Calls]
      /\ callers'[c].pc = "answered" /\ callers'[c].value = v /\ callers'[c].flag = f
      /\ callers'[c].stale <= callers'[c].age
      /\ \A d \in Caller : d # c => callers'[d] = callers[d]
  <2>1. callers' = [callers EXCEPT ![c] = [callers[c] EXCEPT !.pc = "answered", !.value = v,
                                                             !.stale = ago[f][v]]]
    BY <1>1 DEF Store, Returned
  <2>2. [callers[c] EXCEPT !.pc = "answered", !.value = v, !.stale = ago[f][v]] \in Calls
    BY <1>1, <1>2, <1>3 DEF Default
  <2> QED BY <1>1, <1>2, <2>1, <2>2
<1>7. TypeOK'
  BY <1>1, <1>5, <1>6 DEF IInv, TypeOK
<1>8. RunsAreDeclared' /\ CurrentIsNow'
  BY <1>1 DEF IInv, RunsAreDeclared, Declared, CurrentIsNow, Current, Answer
<1>9. EntriesAreDated'
  BY <1>1, <1>2, <1>5 DEF IInv, EntriesAreDated, Fresh
<1>10. CallsAreDated' /\ AnswerIsRecent'
  BY <1>1, <1>6 DEF IInv, CallsAreDated, AnswerIsRecent, Waiting
<1>11. SourcesAreDecided'
  <2>1. \A g \in Flag : cache'[g].value = "on" => g \in decided
    BY <1>2, <1>4, <1>5 DEF IInv, SourcesAreDecided
  <2>2. \A d \in Caller : callers'[d].value = "on" => callers'[d].flag \in decided
    BY <1>4, <1>6 DEF IInv, SourcesAreDecided
  <2> QED BY <1>1, <2>1, <2>2 DEF IInv, SourcesAreDecided
<1> QED BY <1>7, <1>8, <1>9, <1>10, <1>11 DEF IInv

-----------------------------------------------------------------------------
\* Steps of the listener and of the instance.
LEMMA ListenerStep ==
  ASSUME IInv, Notify \/ Sever \/ Notice \/ Reconnect
  PROVE  IInv'
<1>1. UNCHANGED <<yaml, rows, jobs, registry, callers, ago, decided>>
  BY DEF Notify, Sever, Notice, Reconnect, table, service
<1>2. /\ cache' \in [Flag -> [value : Default, left : 0..CacheTTL]]
      /\ \A f \in Flag : cache'[f] \in {cache[f], NoEntry}
  <2>1. cache \in [Flag -> [value : Default, left : 0..CacheTTL]]
        /\ NoEntry \in [value : Default, left : 0..CacheTTL]
    BY TTLAssumption DEF NoEntry, Default, IInv, TypeOK
  <2>2. CASE Notify
    BY <2>1, <2>2 DEF Notify, Invalidate
  <2>3. CASE Sever \/ Notice \/ Reconnect
    BY <2>1, <2>3 DEF Sever, Notice, Reconnect, service
  <2> QED BY <2>2, <2>3
<1>3. inbox' \in Seq(Flag)
  <2>1. CASE Notify
    <3>1. inbox \in Seq(Flag) /\ inbox # <<>>
      BY <2>1 DEF Notify, IInv, TypeOK
    <3>2. Head(inbox) \in Flag /\ Tail(inbox) \in Seq(Flag)
      BY <3>1
    <3> QED BY <2>1, <3>2 DEF Notify, IInv, TypeOK
  <2>2. CASE Sever \/ Notice \/ Reconnect
    <3>1. inbox' \in {inbox, <<>>}
      BY <2>2 DEF Sever, Notice, Reconnect
    <3>2. <<>> \in Seq(Flag)
      OBVIOUS
    <3> QED BY <3>1, <3>2 DEF IInv, TypeOK
  <2> QED BY <2>1, <2>2
<1>4. conn' \in {"down", "listening", "dead"} /\ events' \in 0..MaxEvents
  BY TTLAssumption DEF Notify, Sever, Notice, Reconnect, Event, IInv, TypeOK
<1>5. TypeOK'
  BY <1>1, <1>2, <1>3, <1>4 DEF IInv, TypeOK
<1>6. RunsAreDeclared' /\ CurrentIsNow' /\ CallsAreDated' /\ AnswerIsRecent'
  BY <1>1 DEF IInv, RunsAreDeclared, Declared, CurrentIsNow, Current, Answer, CallsAreDated,
              AnswerIsRecent, Waiting
<1>7. EntriesAreDated'
  <2> SUFFICES ASSUME NEW f \in Flag, Fresh(cache[f])'
               PROVE  cache'[f].value \in Setting /\ ago[f][cache'[f].value] + cache'[f].left <= CacheTTL
    BY <1>1 DEF EntriesAreDated
  <2>1. cache'[f] = cache[f]
    BY <1>2 DEF Fresh, NoEntry
  <2> QED BY <2>1 DEF IInv, EntriesAreDated, Fresh
<1>8. SourcesAreDecided'
  <2>1. \A f \in Flag : cache'[f].value = "on" => f \in decided
    BY <1>2 DEF IInv, SourcesAreDecided, NoEntry
  <2> QED BY <1>1, <2>1 DEF IInv, SourcesAreDecided
<1> QED BY <1>5, <1>6, <1>7, <1>8 DEF IInv

LEMMA RestartStep ==
  ASSUME IInv, Restart
  PROVE  IInv'
<1>1. /\ registry' \in {registry, yaml} /\ cache' = [f \in Flag |-> NoEntry]
      /\ callers' = [c \in Caller |-> Idle] /\ conn' = "down" /\ inbox' = <<>>
      /\ UNCHANGED <<yaml, rows, jobs, decided>>
  BY DEF Restart, table
<1>2. /\ ago' \in [Flag -> [Setting -> 0..MaxAge]]
      /\ \A f \in Flag, v \in Setting : v = Current(f)' => ago'[f][v] = 0
  BY <1>1, TTLAssumption DEF Restart, Current, Answer
<1>3. /\ NoEntry \in [value : Default, left : 0..CacheTTL]
      /\ Idle \in [pc : {"idle", "reading", "storing", "hit", "answered", "unknown"},
                   flag : Flag \cup {"none"}, value : Default, age : 0..MaxAge, stale : 0..MaxAge]
  BY TTLAssumption DEF NoEntry, Idle, Default
<1>4. events' \in 0..MaxEvents
  BY TTLAssumption DEF Restart, Event, IInv, TypeOK
<1>5. TypeOK'
  BY <1>1, <1>2, <1>3, <1>4 DEF IInv, TypeOK
<1>6. RunsAreDeclared'
  BY <1>1 DEF IInv, RunsAreDeclared, Declared
<1>7. CurrentIsNow'
  BY <1>2 DEF CurrentIsNow
<1>8. EntriesAreDated' /\ CallsAreDated' /\ AnswerIsRecent'
  BY <1>1 DEF EntriesAreDated, Fresh, NoEntry, CallsAreDated, AnswerIsRecent, Waiting, Idle
<1>9. SourcesAreDecided'
  <2>1. \A f \in Flag : registry'[f] = "on" => f \in decided
    BY <1>1 DEF IInv, SourcesAreDecided
  <2>2. /\ \A f \in Flag : cache'[f].value # "on"
        /\ \A c \in Caller : callers'[c].value # "on"
    BY <1>1 DEF NoEntry, Idle
  <2> QED BY <1>1, <2>1, <2>2 DEF IInv, SourcesAreDecided
<1> QED BY <1>5, <1>6, <1>7, <1>8, <1>9 DEF IInv

LEMMA TickStep ==
  ASSUME IInv, Tick
  PROVE  IInv'
<1> DEFINE Calls == [pc : {"idle", "reading", "storing", "hit", "answered", "unknown"},
                     flag : Flag \cup {"none"}, value : Default, age : 0..MaxAge, stale : 0..MaxAge]
<1>1. UNCHANGED <<yaml, rows, jobs, registry, conn, inbox, decided, events>>
  BY DEF Tick, table, link
<1>2. /\ cache' \in [Flag -> [value : Default, left : 0..CacheTTL]]
      /\ \A f \in Flag : /\ cache'[f].value = cache[f].value
                         /\ cache'[f].left > 0 => cache[f].left > 0 /\ cache'[f].left = cache[f].left - 1
  <2>1. \A f \in Flag : cache[f].value \in Default /\ cache[f].left \in 0..CacheTTL
                      /\ cache[f] \in [value : Default, left : 0..CacheTTL]
    BY DEF IInv, TypeOK
  <2>2. \A f \in Flag : (IF cache[f].left > 0 THEN cache[f].left - 1 ELSE 0) \in 0..CacheTTL
    <3> SUFFICES ASSUME NEW f \in Flag
                 PROVE  (IF cache[f].left > 0 THEN cache[f].left - 1 ELSE 0) \in 0..CacheTTL
      OBVIOUS
    <3>1. \A n \in 0..CacheTTL : (IF n > 0 THEN n - 1 ELSE 0) \in 0..CacheTTL
      BY TTLAssumption
    <3> QED BY <2>1, <3>1
  <2>3. cache' = [f \in Flag |-> [cache[f] EXCEPT !.left = IF cache[f].left > 0 THEN cache[f].left - 1 ELSE 0]]
    BY DEF Tick
  <2>4. ASSUME NEW f \in Flag
        PROVE  /\ cache'[f] \in [value : Default, left : 0..CacheTTL]
               /\ cache'[f].value = cache[f].value
               /\ cache'[f].left = IF cache[f].left > 0 THEN cache[f].left - 1 ELSE 0
    BY <2>1, <2>2, <2>3
  <2>5. cache' \in [Flag -> [value : Default, left : 0..CacheTTL]]
    BY <2>3, <2>4
  <2> QED BY <2>4, <2>5, <2>1, TTLAssumption
<1>3. /\ callers' \in [Caller -> Calls]
      /\ \A c \in Caller : /\ callers'[c].pc = callers[c].pc /\ callers'[c].flag = callers[c].flag
                           /\ callers'[c].value = callers[c].value
                           /\ callers'[c].stale = callers[c].stale
                           /\ callers'[c].age = IF Waiting(c) THEN Older(callers[c].age) ELSE callers[c].age
  <2>1. \A c \in Caller : callers[c] \in Calls /\ Older(callers[c].age) \in 0..MaxAge
    BY OlderBounds DEF IInv, TypeOK
  <2>2. callers' = [c \in Caller |-> IF Waiting(c) THEN [callers[c] EXCEPT !.age = Older(callers[c].age)]
                                    ELSE callers[c]]
    BY DEF Tick, Waiting
  <2> QED BY <2>1, <2>2
<1>4. /\ ago' \in [Flag -> [Setting -> 0..MaxAge]]
      /\ \A f \in Flag, v \in Setting : ago'[f][v] = IF v = Current(f) THEN 0 ELSE Older(ago[f][v])
  <2>1. \A f \in Flag, v \in Setting : ago[f][v] \in 0..MaxAge
    BY DEF IInv, TypeOK
  <2>2. \A f \in Flag, v \in Setting : Older(ago[f][v]) \in 0..MaxAge /\ 0 \in 0..MaxAge
    BY <2>1, OlderBounds, TTLAssumption
  <2> QED BY <2>2 DEF Tick
<1>5. \A f \in Flag, v \in Setting : ago[f][v] \in 0..MaxAge
  BY DEF IInv, TypeOK
<1>6. TypeOK'
  BY <1>1, <1>2, <1>3, <1>4 DEF IInv, TypeOK
<1>7. RunsAreDeclared'
  BY <1>1 DEF IInv, RunsAreDeclared, Declared
<1>8. CurrentIsNow'
  BY <1>1, <1>4 DEF CurrentIsNow, Current, Answer
<1>9. EntriesAreDated'
  <2> SUFFICES ASSUME NEW f \in Flag, cache'[f].left > 0
               PROVE  cache'[f].value \in Setting /\ ago'[f][cache'[f].value] + cache'[f].left <= CacheTTL
    BY DEF EntriesAreDated, Fresh
  <2> DEFINE v == cache[f].value
  <2>1. v \in Setting /\ ago[f][v] + cache[f].left <= CacheTTL /\ cache'[f].left = cache[f].left - 1
    <3>1. cache[f].left > 0 /\ cache'[f].left = cache[f].left - 1
      BY <1>2
    <3> QED BY <3>1 DEF IInv, EntriesAreDated, Fresh
  <2>2. ago[f][v] \in 0..MaxAge /\ cache[f].left \in 0..CacheTTL
    BY <2>1 DEF IInv, TypeOK
  <2>3. Older(ago[f][v]) \in 0..MaxAge /\ Older(ago[f][v]) <= ago[f][v] + 1
    BY <2>2, OlderBounds
  <2>4. ago'[f][v] \in Nat /\ ago'[f][v] <= ago[f][v] + 1
    BY <1>4, <2>1, <2>2, <2>3, TTLAssumption
  <2>5. cache'[f].value = v
    BY <1>2
  <2> HIDE DEF v
  <2> QED BY <2>1, <2>2, <2>4, <2>5, TTLAssumption
<1>10. CallsAreDated'
  <2> SUFFICES ASSUME NEW c \in Caller
               PROVE  /\ Waiting(c) => callers[c].flag \in Flag /\ registry[callers[c].flag] \in Setting
                      /\ callers[c].pc = "storing" =>
                           /\ callers[c].value \in Setting
                           /\ ago'[callers[c].flag][callers[c].value] <= callers'[c].age
    BY <1>1, <1>3 DEF CallsAreDated, Waiting
  <2>1. /\ Waiting(c) => callers[c].flag \in Flag /\ registry[callers[c].flag] \in Setting
        /\ callers[c].pc = "storing" =>
             /\ callers[c].value \in Setting
             /\ ago[callers[c].flag][callers[c].value] <= callers[c].age
    BY DEF IInv, CallsAreDated
  <2>2. CASE callers[c].pc = "storing"
    <3>1. callers[c].age \in 0..MaxAge /\ callers'[c].age = Older(callers[c].age)
      BY <1>3, <2>2 DEF Waiting, IInv, TypeOK
    <3>2. callers[c].flag \in Flag /\ callers[c].value \in Setting
      BY <2>1, <2>2 DEF Waiting
    <3>3. Older(ago[callers[c].flag][callers[c].value]) <= Older(callers[c].age)
          /\ Older(callers[c].age) \in 0..MaxAge
      BY <1>5, <2>1, <2>2, <3>1, <3>2, OlderBounds
    <3> QED BY <1>4, <2>1, <3>1, <3>2, <3>3
  <2> QED BY <2>1, <2>2
<1>11. AnswerIsRecent'
  BY <1>3 DEF IInv, AnswerIsRecent, Waiting
<1>12. SourcesAreDecided'
  <2>1. /\ \A f \in Flag : cache'[f].value = cache[f].value
        /\ \A c \in Caller : callers'[c].value = callers[c].value /\ callers'[c].flag = callers[c].flag
    BY <1>2, <1>3
  <2> QED BY <1>1, <2>1 DEF IInv, SourcesAreDecided
<1> QED BY <1>6, <1>7, <1>8, <1>9, <1>10, <1>11, <1>12 DEF IInv

-----------------------------------------------------------------------------
\* Every step of the specification keeps the invariant.
LEMMA NextIInv == IInv /\ [Next]_vars => IInv'
<1> SUFFICES ASSUME IInv, [Next]_vars PROVE IInv'
  OBVIOUS
<1>1. ASSUME NEW f \in Flag, NEW value \in Default, Operate(f, value) PROVE IInv'
  BY <1>1, OperateStep
<1>2. ASSUME NEW f \in Flag, NEW value \in Setting, Merge(f, value) PROVE IInv'
  BY <1>2, MergeStep
<1>3. ASSUME NEW j \in Job,
             StartSync(j, yaml) \/ StartSync(j, jobs[j].checkout) \/ EndSync(j)
      PROVE  IInv'
  BY <1>3, SyncStep
<1>4. ASSUME NEW j \in Job, NEW f \in Flag, Upsert(j, f) PROVE IInv'
  BY <1>4, UpsertStep
<1>5. ASSUME NEW c \in Caller, NEW f \in Flag, Call(c, f) PROVE IInv'
  BY <1>5, CallStep
<1>6. ASSUME NEW c \in Caller, Read(c) \/ ReadFails(c) PROVE IInv'
  BY <1>6, ReadStep
<1>7. ASSUME NEW c \in Caller, Store(c) PROVE IInv'
  BY <1>7, StoreStep
<1>8. CASE Notify \/ Sever \/ Notice \/ Reconnect
  BY <1>8, ListenerStep
<1>9. CASE Restart \/ Tick
  BY <1>9, RestartStep, TickStep
<1>10. CASE UNCHANGED vars
  BY <1>10 DEF vars, table, service, link, IInv, TypeOK, RunsAreDeclared, Declared, CurrentIsNow,
               Current, Answer, EntriesAreDated, Fresh, CallsAreDated, Waiting, AnswerIsRecent,
               SourcesAreDecided
<1> QED BY <1>1, <1>2, <1>3, <1>4, <1>5, <1>6, <1>7, <1>8, <1>9, <1>10 DEF Next

\* The inductive invariant of the flag service: every setting that is stored
\* or on its way carries a date that the database's history bears out.
THEOREM FlagsInvariance == Spec => []IInv
BY InitIInv, NextIInv, PTL DEF Spec

\* Every variable of the flag service stays in its type.
THEOREM FlagsTypeCorrect == Spec => []TypeOK
<1>1. IInv => TypeOK
  BY DEF IInv
<1> QED BY <1>1, FlagsInvariance, PTL

\* No call of is_enabled answers with a setting older than the TTL, whatever
\* the query latency and the order of stores, notifications and outages.
THEOREM AnswersAreRecent == Spec => []AnswerIsRecent
<1>1. IInv => AnswerIsRecent
  BY DEF IInv
<1> QED BY <1>1, FlagsInvariance, PTL

\* No flag answers on before an operator or a merged default said so.
THEOREM FlagsAreDarkByDefault == Spec => []DarkByDefault
<1>1. IInv => DarkByDefault
  BY DEF IInv, SourcesAreDecided, DarkByDefault
<1> QED BY <1>1, FlagsInvariance, PTL
=============================================================================
