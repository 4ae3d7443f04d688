# TLA+ model of TechScreen

This directory holds the formal model of the backend that runs an interview, of the rubric and the position
templates it is set up from, and of who may do so: TLA+ modules, the TLC configurations that check them on small instances, and proofs checked by TLAPS. Paths below
are relative to the repository root; `tla/` is this directory.

## 1. The system

TechScreen interviews a candidate with two LLM agents. The *Interviewer* phrases the moves, the
*Assessor* scores the answers, and a deterministic *orchestrator* decides everything else: which
question comes next, when a competency is done, when the session ends. The design splits the
orchestrator into a pure function, `transition(state, event) -> (state, commands)`, and an
imperative shell that persists the state, executes the commands and feeds the results back.

| Component | State it keeps | Operations | Talks to |
|---|---|---|---|
| Orchestrator core (`app/backend/orchestrator/state_machine.py`, `plan.py`, `config.py`) | none; `SessionState` is a value | nine event handlers behind `transition` | commands out, events in |
| Dev-session shell (`services/dev_session.py`, `api/dev_sessions.py`) | `_Working` per request; the `interview_session` row; `session_decision` rows | create, post a turn, read; the drive loop; the background assessor | core, agents, ledger, database |
| Session state persistence (`orchestrator/persistence.py`) | `interview_session.session_state` | encode, decode with a version check, load, save | database |
| Agents (`agents/interviewer.py`, `agents/assessor.py`) | none | one call, one retry on a contract miss | `call_model` |
| Model call wrapper (`llm/vertex.py`, ledgers, trace sinks) | `turn_trace`, the cost total | `call_model`: budget, retries, validation, cost, trace | LLM backend, database |
| Feature flags (`services/feature_flags.py`, `scripts/sync_feature_flags_to_db.py`) | a TTL cache, a LISTEN connection, the `feature_flag` table | query, invalidate, reconnect, sync from YAML | database |
| Rubric versions (`services/rubric_importer.py`, `rubric_snapshot.py`, `scripts/sync_rubric_to_db.py`) | `configs/rubric`; `rubric_tree_version` and its tree; audit rows | convert a workbook, the policy gate, seed, snapshot | database, YAML files, CI jobs |
| Position templates (`services/position_template.py`, `api/position_templates.py`) | a template and two link tables | create, partial update, archive | database, rubric |
| Authentication (`services/auth.py`, `api/deps.py`, `infra/functions/auth_claims`) | a certificate cache with two deadlines and a lock; claims in tokens | sign in, verify, refresh, admit by role | the identity platform, its certificates |
| Frontend, CI, migrations, settings | - | - | - |

What is hard about it:

* **The order of events.** Assessments are asynchronous and arrive in any order and phase;
  replies and failures of a superseded call arrive after the call that replaced it; a timer may
  preempt a call in flight; a resume re-issues commands.
* **Time.** Four budgets (silence, session, competency, Q&A) are evaluated only when an event
  arrives, with a fixed priority.
* **Concurrency of the shell.** A request and the background assessor of an earlier request
  read, change and write the same row, with no lock and no version.
* **Crashes.** State is persisted before the commands are executed; what a crash leaves must be
  resumable.
* **Money.** A budget is checked before a call and charged after it, by two different checks.
* **Thresholds and counters.** Probes, seeds, failures, drift, cheat flags.
* **Transactions.** Edits of a template and seeds of the rubric run under READ COMMITTED: every statement sees what is
  committed by then; only the seed takes a lock of its own.
* **Caches.** Flags and signing certificates are served from memory while their source changes.

What makes each component correct:

* Core: the floor, the phase and the pending command agree; one decision, exactly when the session
  ends; nothing stale is delivered, nothing twice; no competency is left without an answer or a
  recorded gap; coverage is exactly what the accepted outputs say; flags exactly at thresholds;
  the number of moves is bounded; the plan's indices stay in range; every session ends under the
  tick cadence.
* Shell: the write precedes the call; an ended row stays ended; an assessment is not lost; an accepted turn is answered; decisions, transcript and row agree; the
  spend is bounded.
* Wrapper: one trace per call, the attempts within the retry budget, the cost on the ledger equal
  to the cost in the traces.
* Flags: a flip is visible within the TTL; no stale value outlives it.
* Rubric: what a workbook says is what the tables hold; no competency disappears; a destructive change was let
  through by a citation; each version has its receipt; a snapshot is one version, whole.
* Templates: every committed template satisfies the validation rules; an edit changes what it was asked to change and
  nothing else; requests do not block each other for ever.
* Authentication: a withdrawn key is not trusted past the TTL, a new one not refused past the cooldown, a role taken from the
  mapping is gone with the next sign-in.

## 2. Modules

```
StateMachine            the pure core: state, commands, handlers, transition      (no variables)
 |- Orchestrator        one session under every event order   --refines-->  InterviewLifecycle
 |   `- MCOrchestrator
 |- DevSession          the shell: workers over one row, agents, crashes
 |   |- MCDevSession
 |   `- DevSessionProofs    (also EXTENDS TransitionSteps)  its theorems
 `- TransitionSteps     types of every handler, the commands they emit, what kinds of step transition() can take
     `- OrchestratorProofs  (also EXTENDS Orchestrator)  its theorems

FeatureFlags            cache, listener, table and sync job
 |- MCFeatureFlags
 `- FeatureFlagsProofs   its theorems

CallModel               call_model, the backend's errors, the ledgers and the agents' retry, concurrently
 |- MCCallModel         (also EXTENDS JsonSchema: what an answer is checked against)
 `- CallModelProofs     its theorems

Rubric                  workbook -> YAML -> rows -> tree, and the policy gate      (no variables)
 `- RubricVersions      pushes, seed jobs, versions and readers
     |- MCRubric
     `- RubricProofs        its theorems

PositionTemplates       one template under overlapping transactions
 |- MCPositionTemplates
 `- PositionTemplateProofs  its theorems

StaffAuth               sign-in, key rotation, certificate cache, admission
 |- MCStaffAuth
 `- StaffAuthProofs         its theorems
```

**StateMachine** translates `state_machine.py` and `plan.py` one function to one operator, with
the source's names (`on_timer_tick` is `_on_timer_tick`). Time is an integer in one unit; a turn id
is the counter that the code's uuid5 is derived from; the utterance texts, move contexts and labels,
which the core never reads, are left out. `pending_assessments` and `assessment_focus`, which the
code always changes together, are one function. Of a cell's red flags the number of
`LIKELY_CHEATING` ones is kept. `record_levels` is stated as what the code's loop computes (the last
item of a node, the last of its highest items). `handle` is `transition` below its terminal guard.

A definition with a suffix in capitals (`abort_UNRECORDED`) is a mutated form of the definition
that follows it. Nothing in the model uses them: each stands for a plausible mistake which must
make some property fail, so that the properties are known to be able to fail.

**Orchestrator** is a session that receives every event its alphabet allows
(`docs/contracts/state-machine.md` section 3), in every order, late and repeated: one action per
event kind and `Elapse` for the clock. Beside `st` it records what was asked of the environment and what
came back (`scheduled`, `accepted`, `resolved`, `decisions`, `deliveries`, `gaps`, `misses`,
`overtime`); the properties compare the state with that record. The actions follow what the
real sources of events can do: an assessor's output carries the competency it was asked about
(`agents/assessor.py` refuses any other), one call fails at most twice (itself and its retry), a
reply names a turn that was issued.

**InterviewLifecycle** is the abstract specification: phases only move forward, the floor passes
between interviewer and candidate, every utterance is delivered within the turn that issued it,
and the end appends exactly one decision. It knows no plan, coverage or clock. `Orchestrator`
implements it under the mapping in its `Lifecycle` instance.

**DevSession** is the shell. A *worker* is the coroutine of a request together with the
background task it leaves: `pc` says which `await` it is at, and a step runs from one await to the next, as
asyncio does. `Apply` is one turn of `_drive`: `transition`, the write of the whole row, then the
commands that do not await (transcript lines, scheduling the assessor, the closing's tick);
`GuardBudget`, `EnterCall`, `Answer`, `Miss`, `CallFails` are an agent call; `RecordedDecision` and
`Save` are the insert of a decision and the second write when the transcript grew; `Reload` and
`ReadLog` are the two statements of `_load`. `Die` ends a worker at any await (a crash of the
process, an exception out of a statement). The client is *patient* when it posts only after the
previous response, which is what the frontend's composer does; the background task of the
previous turn may still be running then. The shell has no clock because nothing in it acts on one:
it emits no periodic `TimerTick` and no `Reconnected`. `Heard` is what the commands without an `await` leave behind, `Executing` where
the worker goes next, `Runs(w)` all the steps of a worker that has begun. Four assumptions say what the code's neighbours keep to: `AnswerAssumption` (what
the agents' contracts let through), `CostAssumption` (a positive ceiling, no negative cost), `WorkerAssumption` and `RowAssumption`.

**FeatureFlags** is one backend instance beside the `feature_flag` table. A call of `is_enabled` is cut at its
awaits (`Call`, `Read`, `Store`), so a query in flight meets notifications (`Notify`), other callers, `Sever`,
`Notice` and `Reconnect` of the LISTEN connection, and `Restart`. The table changes under `Operate` (SQL by hand) and
the sync job (`StartSync`, one `Upsert` per statement, `EndSync`), which works on the YAML it checked out; `Merge` changes the
YAML. The model keeps no absolute time: an entry holds the seconds it has left, a call the seconds since it read the
clock, and the history `ago` says for each setting how long ago the database last gave it, saturating at `MaxAge`.
`_listen_forever` polls the connection every half second: between the loss and the poll it is `"dead"`.

**CallModel** is `call_model` step by step (`Issue`, `CheckBudget`, `Answer`, `AttemptFails`, `Backoff`, `WallClock`,
`WriteTrace`), called by agent turns of one session that run at the same time, each with the agent's own retry (`Finish`). The ledger is the
durable one, whose total is the sum of the traces and whose `add` keeps nothing. `SinkFails` and `LedgerFails` are the database
failing. Some outcomes are finer than the code's: `wall_clock` is traced as `timeout`, `unclassified` as `upstream_unavailable`. The history
`ended` records what really happened; the properties compare it with the traces. The answers and errors of the real backend
(`llm/_real_backend.py`) are `BackendFault`: HTTP statuses, transport errors, an empty text, with the code's classification
(`classify_http_status`, `translate_transport_error`) as operators. Whether a text meets the agent's schema is a constant of the module, `MeetsSchema`,
so that its theorems hold for whatever schema and validation; the runs give it `parse_and_validate` of **JsonSchema**, which judges a text as a JSON value
(`validate_against_schema`, recursive). DevSession has a coarser call (one step per agent
call), which is enough for what the shell sees.

**Rubric** follows the rubric as data: `Convert` (`RubricImporter.convert`: rows of a sheet to documents, sheets before the one at
fault staying written, and of two sheets of one stack the later overwriting the earlier's document), `Destructive` and `CheckExit` (the gate of `sync_rubric_to_db.py`), `Materialise` (`_materialise_stack` for every
file) and `Snapshot` (`snapshot_rubric`). A document is a function from stable ids to nodes, a node's levels one from ranks to descriptors.

**RubricVersions** sets it in motion. `Push` is a merge to main, edited by hand or converted from a workbook; `BeginSeed` starts the job of a
push, or repeats it, if the gate lets it; `TakeLock`, `Compare` and `Commit` are the transaction of `seed`, `SeedFails` its rollback at any
point. A version's `created_at` is the instant of its BEGIN, as `now()` is in PostgreSQL, so it may differ from the order of commits.
`StartRead`, `ReadTable` (one per statement) and `EndRead` are a snapshot. What a transaction inserts appears at its commit.

**PositionTemplates** is one template. A request is a transaction whose statements are steps: `ReadStacks` and `ReadCompetencies`
(`_current_selection`), `WriteRow` (the UPDATE, which waits for the row), `StartDelete` and `EndDelete` (a DELETE finds rows, waits for the
transactions that have touched them and passes over those that are gone), `InsertRows` (which the unique constraints make wait, or fail),
`Commit` and `Fail`. The session updates only the columns whose value it changed (`ChangedColumns`), which is why an edit does not undo an
archive. A row of an association table carries the request that inserted it: two rows with one key are different rows.

**StaffAuth** follows a role from `configs/auth-roles.yaml` to an endpoint: `SignIn` (`before_created`, `before_signed_in`, with whatever mapping is
deployed at the time), `Publish` and `Withdraw` of keys, `Arrive` (the refusals before verification), and `_get_certs` under its lock: `UseCache`,
`StartFetch`, `PlatformResponds`, `EndFetch`, `FetchFails`. The queue is the lock's; a call that meets an unknown key queues again.

## 3. Runs

| Run | Question | States |
|---|---|---|
| `orchestrator_flow` | Are routing, coverage and flags what the evidence says? | 156 k |
| `orchestrator_clock` | With budgets, ticks, resumes, stale and repeated answers: coherent dialog, in-order delivery, one decision, the lifecycle, and an end? | 202 k |
| `dev_quiet` | One request at a time, failing agents, a ceiling, one death anywhere: do row, transcript and decisions agree, and is every accepted turn answered? | 249 k |
| `dev_overlap` | Two unsynchronised workers: what still holds? | 1.1 M |
| `flags` | Is any answer older than the TTL? Can a sync, also an old or an interrupted one, turn a flag on? Does the cache converge without the listener? | 905 k |
| `calls` | Do traces and attempts match what happened, how far do concurrent calls pass the ceiling, does every turn end? | 731 k |
| `rubric` | Do versions that were in turn keep their competencies, have versions their receipts and their workbook's rows, does the gate miss anything, is a snapshot whole? | 1.0 M |
| `templates` | Can overlapping edits empty a template, touch what they leave out, or block each other? Is an unraced edit exact? | 156 k |
| `auth` | How long does a withdrawn key live, how long is a new one refused, whose role admits? | 2.0 M |
| `dev_assessor_blocks`, `dev_asked_twice`, `templates_half` | Three statements of the docs the code does not keep (section 6) | violated |

Bounds, and why they are enough:

* `orchestrator_flow`: two competencies, the first with two seeds, one node asked about twice at two levels, or none; one probe each; four candidate turns, which is enough
  to leave both competencies by every verdict and to reach Q&A. The assessor's outputs are strong, weak at the confidence
  threshold, level 0, empty, and one with two items about two competencies; thresholds are 2, so both
  "one short" and "reached" occur. The clock stands still, as no property of this run is about time.
* `orchestrator_clock`: one competency, and a plan that visits its node twice; three turns, a clock to 3 against budgets of
  1 to 3: every budget is crossed, before and after every other, and the session's last. The second visit starts a budget of its own.
* `dev_quiet`: one worker, five posted turns, three plans, drifting and failing agents, one death at any step. Calls cost 0 or 1 against a
  ceiling of 3, so that the ceiling is reached at every point of an interview, or never.
* `dev_overlap`: two workers, four posts, a ceiling of three calls.
* `dev_asked_twice`: two workers, three posts, no failures, deaths or costs: the shortest story of two overlapping posts.
* `flags`: one flag (flags do not interact), two callers, so that one store can overtake another; a TTL of 2 and ages to 2: an entry can be new,
  ageing or expired, a query shorter or longer than the TTL. Three events of the environment make the shortest bad stories: change, loss, change
  back; run, merge, run again on the old checkout.
* `calls`: two tasks (interviewer and background assessor), one agent turn each, which is up to two calls of up to three attempts; a ceiling of 1
  against costs of 0 or 1, so that calls start below and at the ceiling.
  The texts are a piece of the assessor's schema with each construct once, right and wrong; the statuses are the edges of every class.
* `rubric`: three pushes, three transactions, two jobs, so that a job can wait, be overtaken and be repeated. The payloads add, retype, retire, shorten,
  move and remove a competency; one workbook has a competency's levels on rows apart, a section break and two sheets of one stack, the other fails at its second sheet.
  The module's instance also compares `ReadSheet` with a statement about all rows at once, over every sheet of up to three rows.
* `templates`: two transactions at a time, four requests in all, patches of every combination of lists, a stack that does not exist, a must-have list alone.
* `auth`: two keys, two calls, a TTL of 2 against a cooldown and a fetch of 1, a clock to 4: a key can be published, cached, withdrawn and outlive
  its TTL. One person gets and loses a role; one is outside the domain.

`MaxMisses`, `MaxOvertime`, `MaxClock`, `MaxPosts`, `MaxDeaths`, `MaxEvents`, `MaxAge`, `MaxCost`, `MaxTurns`, `MaxPushes`, `MaxSeeds` and `MaxRequests`
are the only bounds of the specifications; they limit the environment and the histories, never the code. Symmetry is used in safety runs only (workers,
jobs, keys and calls). `dev_*`, `calls`, `rubric`, `templates` and `auth` disable the deadlock check: a session that is over has nothing left to do,
and so have a task out of turns, pushes and requests that are used up, and a clock at its bound. The others do not: a terminal session still receives events,
and a flag can always be asked.

Fairness. `orchestrator_clock` assumes `Cadence`: time passes, a live session keeps being ticked, and a created session is
started. `TimingConfig.tick_seconds` makes the tick the shell's obligation; nothing is assumed of the candidate or the
agents. `dev_quiet` and `dev_assessor_blocks` assume that a worker that can take a step takes it: statements
return, and `call_model` answers or times out (its wall-clock limit); posting a turn and dying are not fair.
`flags` assumes that time passes and that a query that was answered is stored; no notification, reconnect or answer is owed.
`calls` assumes that the statements of `call_model` run, the trace is written (or fails) and the timer of `asyncio.wait_for` fires;
the backend is free never to answer. `templates` assumes that a statement that can run does, which is PostgreSQL's promise to a transaction whose
lock is free; commits and rollbacks of others are such statements. `rubric` and `auth` check no liveness: nothing obliges a job to be run again or
a platform to answer.

## 4. Properties

Core (`Orchestrator`): `TurnTaking`, `PlanHolds`, `OneDecision`, `InOrderDelivery` (contract section
6.9a), `FailureLadder` (6.2), `OvertimeIsBounded` (edges 14, 16, 17), `FlaggedIffThreshold` (5, 6.4),
`PendingIsExact` (6.8), `CoverageIsTheEvidence` (5), `NoSilentExit`, `EveryInterviewEnds`, `RefinesLifecycle`.

Shell (`DevSession`): `RowIsCoherent`, `RowKeepsWhatWasDone`, `DecisionMatchesRow`,
`TranscriptIsTheDialog`, `SpendIsBounded`, `EndedRowStays`, `TurnIsAnswered`; `AskedOnce` is a claim that fails.

Flags (`FeatureFlags`): `AnswerIsRecent`, `DarkByDefault`, `CacheConverges`.

Calls (`CallModel`): `TracesAreExact`, `SpendIsBounded`, `TurnsEnd`.

Rubric (`RubricVersions`): `IdsAreForever` (FR-009), `TreeIsTheWorkbook`, `EveryVersionIsAudited`, `DestructiveIsAccounted`, `SnapshotIsWhole`
(constitution section 4).

Templates (`PositionTemplates`): `NeverEmpty`, `UnracedEditIsExact`, `EditsKeepTheRest`, `RequestsEnd`; `TemplateIsValid` is a claim that fails.

Authentication (`StaffAuth`): `WithdrawnKeyDies`, `NewKeyIsHonoured`, `RoleIsTheMappings`.

Each is stated in words where it is defined. `PROJECT.json` gives for each property of a passing run a mutated definition
that violates it.

## 5. Proofs

The theorems about the core are in `OrchestratorProofs`; they hold for every set of nodes and turns, every plan payload, every threshold and
every clock bound that satisfy the four named assumptions (`ConfigAssumption`, the bounds `config.py` validates;
`PlanAssumption`, the shape of a payload; `OutputAssumption`, what an assessor may return; `NodeAssumption`, a rubric
snapshot has finitely many nodes), which TLC evaluates on the instances.

| Theorem | States |
|---|---|
| `Invariance` | `Spec => []IInv` |
| `TypeCorrect` | `TypeOK` |
| `PlanAlwaysHolds` | `PlanHolds` |
| `TurnTakingHolds` | `TurnTaking` |
| `FlagIsExact` | `FlaggedIffThreshold` |
| `OneDecisionHolds` | `OneDecision` |
| `LifecycleRefined` | `Spec => Lifecycle!Spec` |
| `DeliveredInOrder` | `InOrderDelivery` |
| `OvertimeEnds` | `OvertimeIsBounded` |
| `FailuresDoNotAddUp` | `FailureLadder` |
| `PendingExact` | `PendingIsExact` |
| `NoCompetencyLost` | `NoSilentExit` |
| `EvidenceKept` | `CoverageIsTheEvidence` |

The argument. `TransitionSteps` gives each handler its type and shows which commands `transition` can emit, each kind at
most once. It then classifies a transition: it leaves the dialog alone (*Quiet*), repeats the pending command
(*Retries*), delivers (*Delivers*), issues the next move (*Moves*) or ends the session (*Ends*), and says for each class what
happens to phase, floor, counter and pending command; every handler is shown to be in one of the classes, and
`TransitionSound` puts them together. `OrchestratorProofs` then needs no handler any more: each action of `Orchestrator` is an `Apply`
of some event, and each conjunct of the invariant is preserved by every class.

The invariant `IInv` is stronger than the properties because none of them is inductive alone: `TurnTaking` needs the
types and that a session that never started has issued nothing (`NotYetActive`); `PlanHolds` needs to know when the plan is set
and that the indices are zero until then; `OneDecision` needs that only a terminal phase has an abort reason; the
refinement needs all of them, since a step of a state violating `TurnTaking` need not be a step of the abstract
machine.

The last six theorems compare the session with its history:

* `DeliveredInOrder`. What was delivered last is older than the turn in flight: a step of class *Delivers* delivers that turn and takes it out of flight, *Moves*
  puts a newer one there, and no other class delivers.
* `OvertimeEnds`. The count of overtime ticks bounds the phase from below (`OvertimeInv`): after one the session is in Q&A or later, after two in CLOSE or later,
  after three ended. No step goes back (`PhasesAdvance`), and an overdue tick always leaves the phase it finds (`TickAdvances`).
* `FailuresDoNotAddUp`. Every handler resets the streak, leaves it as it was for the same turn, makes it irrelevant by leaving TECH and Q&A, or
  climbs one rung for a failure of the turn in flight (`Ladder`); only that last class can end the session for an agent's failure. By `TurnTaking` the turn in
  flight is the newest, so that the environment counted the same failure.
* `PendingExact`. Every handler leaves focus and requests alone, asks for one assessment and notes it, or takes in one that is pending (`Booked`). It is not
  inductive alone: `PendingInv` adds that nothing is on record for the turns still to come, which makes the entry of a new turn fresh.
* `NoCompetencyLost`. Only a candidate turn in the TECH loop can leave a competency with `turns` changed, and its result either keeps the place, or is the
  ANSWERED row without a gap record, or a NONE row with exactly one (`Accounts`).
* `EvidenceKept`. Only the handler that takes an assessment in touches the evidence, and it either notes a blocked output or folds an accepted one
  (`Evident`). Items carry their place, so those of a new output follow all earlier ones, and what is read off a cell with the output added is what
  was read before, extended (`LevelsFold`, `UnassessableFold`). Flags are a recursive sum over the outputs (`FlagsOn`): that it has a value is an
  induction over their prefixes (`AddsExists`), carried out by hand from the well-ordering of the naturals, since the library's induction rule takes an operator.
  One more output adds its own to it (`FlagsAppend`), as the fold does to its cell (`FlagsFold`) and the handler to the session's count.

The theorems about the shell are in `DevSessionProofs`, for any plans, answers, costs, ceiling, posts and deaths, from the assumptions of
`StateMachine` and `DevSession`. The first group holds for any number of workers. The second is stated as `OneWorker => (Spec => ...)`: requests are
served one at a time, background assessor included, but a worker may still die at any await, any number of times. The hypothesis is needed. Two workers lose each
other's updates, which breaks each of these properties (section 6, and the `dev_overlap` run checks only what survives it); `dev_quiet` is an instance with one worker.

| Theorem | Workers | States |
|---|---|---|
| `ShellInvariance` | any | `Spec => []ShellInv` |
| `RowStaysCoherent` | any | `RowIsCoherent` |
| `SpendBounded` | any | `SpendIsBounded` |
| `QuietInvariance` | one | `Spec => []QuietInv` |
| `WorkIsKept` | one | `RowKeepsWhatWasDone` |
| `DecisionAgrees` | one | `DecisionMatchesRow` |
| `TranscriptReadsWell` | one | `TranscriptIsTheDialog` |
| `EndedStays` | one | `EndedRowStays` |

* `ShellInv`. `RowIsCoherent` is about the row alone, but what reaches the row is what some worker holds, perhaps for long. The invariant says of every worker
  what it may hold at each await (`WorkerInv`): a state the core produced, and the events and calls the core may be given next.
  A write then replaces one coherent state by another, whosever it is. `Numbered` bounds the candidate lines of the row and of every transcript in flight
  by the posts that were made, so that a turn id is always in range. The step itself is `TransitionSound` of `TransitionSteps` again, the lemma that
  proves `Orchestrator` too.
* `SpendInv`. A call that got past `EnterCall` found the total below the ceiling. Of the calls now under way all but one may have been let in
  before the others were charged: the spend is below the ceiling plus the dearest call for each worker that is *not* in `"answer"`, so an answer, which charges one, also leaves one.
* `QuietInv`. With one worker nothing is stale: `InStep` says that the state the worker holds is the row's, and that the move it is calling for is
  the row's pending command. `LogInv` says that its transcript is the row's with at most the one line it is about to write. `LandedInv` ties `landed` to
  the candidate lines and to `assessment_focus`, `DecisionInv` the decisions to the phase and to the worker about to record one, `DialogInv` the utterances to the turn counter: one
  of each turn, in order, the pending one last once it has been delivered.
* A death forgets the worker and nothing else. It keeps every clause but the two that a worker alone can promise (that a decision will follow the end, that an
  awaited candidate has been spoken to), which is why only those two are conditional on `deaths = 0`.

The theorems about the flags are in `FeatureFlagsProofs`, for any sets of flags, callers and sync runs and any TTL, from
`TTLAssumption` (the TTL and the bounds are numbers, and ages do not saturate before the TTL) and `EnvAssumption`:

| Theorem | States |
|---|---|
| `FlagsInvariance` | `Spec => []IInv` (of FeatureFlags) |
| `FlagsTypeCorrect` | `TypeOK` |
| `AnswersAreRecent` | `AnswerIsRecent` |
| `FlagsAreDarkByDefault` | `DarkByDefault` |

`AnswerIsRecent` is not inductive: a hit is as old as the entry it came from, and the entry as old as the query that filled it.
The invariant dates both. `EntriesAreDated`: the age of an entry's value plus the seconds the entry has left is at most the TTL.
`CallsAreDated`: the value a query holds was right at some moment since the call read the clock. `CurrentIsNow`: the setting in force has age 0.
A store turns the second fact into the first because the expiry counts from that clock reading (`Stored`); a tick ages both sides of
the first alike; the environment can only make a setting current, that is younger. `DarkByDefault` needs that every place a setting is read
from (YAML, table, checkouts, registry, entries, calls) says on for decided flags only (`SourcesAreDecided`) and that a run upserts only
what its checkout declares (`RunsAreDeclared`).

`StaffAuthProofs` is about any keys, people, mappings, calls and delays, from `AuthAssumption` (the times are numbers, the cooldown is not zero,
`NoCerts` is no set of keys). `RubricProofs` is about any payloads, workbooks, jobs and readers, from `RubricAssumption` and
`WorkbookAssumption` (a workbook is a sequence of sheets, a sheet a sequence of rows, and their blocks are blocks). `PositionTemplateProofs` is about
any rubric, bodies and requests, from `TemplateAssumption` (`Unset` is no value, the details of bodies are details).

| Theorem | States |
|---|---|
| `WithdrawnKeysDie` | `WithdrawnKeyDies` |
| `NewKeysAreHonoured` | `NewKeyIsHonoured` |
| `RolesAreTheMappings` | `RoleIsTheMappings` |
| `TemplatesAreFilled` | `NeverEmpty` |
| `EditsLeaveTheRest` | `EditsKeepTheRest` |
| `UnracedEditsAreExact` | `UnracedEditIsExact` |
| `CompetenciesLast` | `IdsAreForever` |
| `ReceiptsMatch` | `EveryVersionIsAudited` |
| `GateIsCumulative` | `DestructiveIsAccounted` |
| `WorkbooksArriveWhole` | `TreeIsTheWorkbook` |
| `SnapshotsAreWhole` | `SnapshotIsWhole` |

Each module proves an `Invariant`, `Spec => []IInv`, and reads its theorems off it:

* `StaffAuthProofs`. What is cached is dated by the keys' history: `deadline` is at most the withdrawal of every cached key plus the TTL and a fetch, and
  `forced_ok_after` at most the publication of every missing one plus the cooldown and a fetch (`CachedInv`). A response in flight holds
  the keys of one moment between the start of its fetch and now (`ResponseInv`), which is what turns into `CachedInv` when it is stored; only the call
  at the head of the queue fetches (`FetchInv`), so no second response can overwrite a newer one.
* `PositionTemplateProofs`. `NeverEmpty` is not inductive: a commit deletes rows others inserted. The invariant follows each edit (`Edit`): a table it has
  replaced has its rows inserted and every row it read that is still there deleted. Rows are marked with the request that inserted them, and no id
  is used twice (`FreshInv`), so what a commit inserts is nobody's to delete before, and is never empty.
* `RubricProofs`. The lock admits one transaction between comparison and commit (`JobInv`), so what it compared with still holds when it inserts (`WriteInv`);
  the latest version at the commit is still the one of the comparison.
  Which one that is, overtaken transactions included, is `TopInv` and `ApartInv`; a version in turn is never behind it (`InTurnIsNotPassed`), so whatever is compared with it kept its competencies. The gate composes: along pushes that were let through without a citation nothing is
  removed, retired or retyped between any two of them (`GateInv`, from `NothingRemovedComposes` and `NothingDestroyedComposes`). Rows of a version never change
  (`TablesInv`), so that statements between commits see the same version; `SnapshotIsTheTree` is the data part: nesting the rows of a payload gives back its
  tree, for every payload.

  `WorkbooksArriveWhole` reads the conversion off its two folds, of rows within a sheet and of sheets within a workbook, by induction over the prefixes: a sheet read up to
  a row holds exactly what the rows so far state (`Reads`), and the documents written so far are those of the last sheet of each stack (`Wrote`).
  `ConvertInv` says that what a push claims to have converted it did, and the rows of its version are those of its payload. `StatedIn`, which the property is written with, mentions no fold.

`CallModelProofs` is about any number of concurrent agent turns, any ceiling, costs, statuses and faults, and any judgement of a text, from `CallAssumption` (finitely
many tasks, the amounts are naturals).

| Theorem | States |
|---|---|
| `CallsInvariance` | `Spec => []IInv` (of CallModel) |
| `TracesStayExact` | `TracesAreExact` |
| `CallSpendIsBounded` | `SpendIsBounded` |

Every step is shown to be one of three kinds first: it works on a task's call (`Works`), ends it without a trace (`Fails`) or ends it with its trace (`Writes`); the invariant is
preserved by the kinds.

* `TracesAreExact` is nearly inductive: a call that writes its trace takes the next place among those that left one, and the earlier ones keep theirs (`PlacesStay`). What it needs besides is
  that a call at its trace already reports the attempts it made (`CallOk`), whatever ended it.
* `SpendIsBounded` needs to know which calls may still charge. `Charging` are the tasks past the budget check whose trace is not written: a task joins only while the total is below the ceiling,
  and leaves by its charge. So the total is below the ceiling plus one answer for each task that is *not* charging (`SpendInv`). That the sum of the traces grows by the cost of
  the new one (`CostAppend`) is an induction over the rows.

Only model-checked: the liveness properties (`EveryInterviewEnds`, `TurnIsAnswered`, `CacheConverges`, `TurnsEnd`, `RequestsEnd`), which are out of the
prover's reach, and what `validate_against_schema` accepts, a recursion over a JSON value, which an assumption of `MCCallModel` compares with a list of texts.

## 6. Where code and documents disagree

Three runs end in a counterexample; each is a sentence of the repository that the code does not keep.

1. `dev_assessor_blocks`: the row is read, changed and written whole by a request and by the background assessor of the previous one, with no lock
   and no version (`dev_session.py:887`). The assessor loads the row while a request is calling the interviewer, and writes `awaiting=interviewer`
   back after the reply was delivered: every later turn is refused (`dev_session.py:752`; "Assessor calls never block the turn"). A client that waits for each response
   suffices. `RowKeepsWhatWasDone` and `EndedRowStays`, which `dev_quiet` shows for one request at a time, are what the same race breaks otherwise.
2. `dev_asked_twice`: "Deterministic ids keep a re-POSTed turn from being scheduled for assessment twice" (`dev_session.py:404-405`). The id is derived from the
   number of candidate lines in the transcript the request has read (`dev_session.py:518`). Two posts that overlap read the same transcript, take the same id and
   both schedule its assessment, which is made and paid for twice. A turn posted again after its first post was done, its response lost, takes the *next* ordinal,
   and is assessed as a new turn. `AskedOnce` counts per id, which is the weaker reading of the sentence, and fails already.
3. `templates_half`: an edit validates what it replaces together with the other selection as it read it. Two edits, one of the stacks and one of the
   competencies, both pass and leave a competency whose stack is not selected (`position_template.py:237`; "Re-validating the resulting state keeps
   FR-003/006 invariants true after edits", `specs/014-t13-position-template-crud/research.md:29`). By the same race two edits of one list join
   their selections, or one of them fails on the unique constraint with a 500, against `specs/014-t13-position-template-crud/spec.md:61`
   ("replaces that selection set wholesale").

Six more that the models show and no run is spent on:

* `seed` inserts every version active and nothing clears the flag of the one before (`rubric_importer.py:514`), so from the second version on
  `get_active_rubric_snapshot` may return any of them ("The app maintains at most one active version; `LIMIT 1` is defensive", `rubric_snapshot.py:158-159`).
  No interleaving is needed: two seeds, one after the other. `StartRead` picks any active version accordingly.
* "Flip a flag" merges `default: true` and says that the workflow then upserts the row and every instance sees the new value
  (`docs/engineering/feature-flags.md:29-34`). The upsert's `ON CONFLICT` leaves `enabled` alone (`scripts/sync_feature_flags_to_db.py:51`; `Upserted`), so that a
  flag which has a row, as any flag synced before has, is not flipped by a merge. Only SQL by hand flips it, which
  the same page calls "the live `enabled` column". `DarkByDefault` counts a merged default as a decision all the same, for the flags that have no row yet.
* A seed that began first and got the lock second (`rubric_importer.py:469`): `now()` is the start of a transaction, so the version it inserts is ordered before the one it waited for.
  The next seed compares with that one and may drop what the overtaken seed brought in: pushes 1 and 2 hold competency *a*, worded differently, push 3 adds *c*; the job of push 3 begins, then that of
  push 2, which gets the lock first and publishes; push 3's publishes; now a repeated job of push 1 is compared with push 2's version, not with push 3's, and
  goes through: *c* is gone without having been retired, against FR-009. TLC finds this schedule when `IdsAreForever` is stated for all versions.
* With the ceiling flag off, `call_model`'s own check still refuses the call and the session is aborted as an agent failure
  (`vertex.py:393`; `configs/llm-limits.yaml:8-9`).
* A query that read the old row stores it after the notification dropped the entry; the change is then
  seen only when the TTL runs out (`feature_flags.py:184`; 11-13, `docs/engineering/feature-flags.md:48`). `AnswerIsRecent` shows that the TTL still holds.
* Schema misses are traced with their cost, and the durable ledger is the sum of the traces (`vertex.py:503`; 500-502).

The exceptions some properties make are worth knowing too:

* `TurnIsAnswered` holds unless a worker died. Nothing in the shell feeds `Reconnected`, so a crash during the interviewer call is never
  resumed (`dev_session.py:11-12` and contract section 9 expect it).
* `TracesAreExact` leaves out the attempts of calls ended by the wall clock or by an exception the backend did not classify: their traces say one attempt, however
  many were made (`vertex.py:440`, `:479`; `specs/007-t04-vertex-client-wrapper/spec.md:67` wants the total).
* `TracesAreExact` leaves out calls whose ledger read failed: they raise without a trace (`vertex.py:392`; the docstring at 339-340 wants one).
* `IdsAreForever` protects the competencies of every version that was *in turn*, that is, which all versions before it began before. A version that was overtaken (the schedule above)
  is not compared with by the next seed, and what it brought in is not protected; what the versions in turn hold is, also through an overtaken seed, because that one was compared
  with the version that overtook it. `IdsAreForever` also lets a competency go that was moved out of its block: the rename check looks for the id,
  the row is dropped (`rubric_importer.py:593-607`).
* `EveryVersionIsAudited` compares a version with the latest at its commit (`Prior`), which an overtaken seed makes another one than the one before it: two versions in a row may be equal then.
* `DestructiveIsAccounted` also accepts a push the gate had refused: it stays on main, and is the baseline of the next push, whose job seeds both.
* `UnracedEditIsExact` says nothing of an edit whose rows another one changed: that is finding 3.
* `WithdrawnKeyDies` and `NewKeyIsHonoured` count a fetch beside the TTL and the cooldown, because both deadlines start when the response is stored.

## 7. Not modelled

* Text: utterances, prompts, transcript contents, labels, logs; the JSON encoding of the state.
* The provider's SDK, the mock backend's fixtures, pricing tables, settings and start-up; the in-memory ledger and sink of tests and local scripts.
* Labels, examples and the YAML text of the rubric; freezing a snapshot into a session, a column nothing reads yet.
* Token signatures, audience and dates, which a library checks: any token may be refused as out of date. `/health`, CORS, request parsing.
* `get_session` and `list_traces`, which change nothing; the HTTP gates.
* `ReissuePendingCommand` in the shell, which is unreachable without `Reconnected`.
* DDL and ORM declarations, CI, infrastructure, the frontend beyond the order in which it posts.

## 8. Plan

Done: StateMachine, Orchestrator with InterviewLifecycle, DevSession, FeatureFlags, CallModel, Rubric with RubricVersions, PositionTemplates,
StaffAuth, and the proofs of section 5.

What could follow:

1. **SessionCodec** (`persistence.py`): encode and decode with the version check, decode after encode as a checked identity on reachable states;
   a new build reading an old row.
2. Abstract specifications: "one call, one trace, one outcome" refined by CallModel; a flag as an atomic register with bounded staleness, refined by
   FeatureFlags; a version as an atomic publication, refined by RubricVersions.
3. Proofs: every safety property a passing run checks is a theorem. What is left are those of the modules above, and the lemmas on well-ordering that three
   proof modules state for themselves.
