--------------------------- MODULE RubricVersions ---------------------------
(***************************************************************************)
(* Rubric versions: checkouts of main are seeded into the database by      *)
(* sync-rubric jobs (.github/workflows/sync-configs.yml, sync_rubric_to_   *)
(* db.py, RubricImporter.seed), which may overlap, be re-run or fail at    *)
(* any point, while readers take snapshots of a version                    *)
(* (rubric_snapshot.py) one statement after the other.                     *)
(*                                                                         *)
(* A seed is four steps: BEGIN, whose instant is the version's created_at; *)
(* the advisory lock; the comparison with the latest version; and COMMIT,  *)
(* before which nobody sees a part of what it inserts.  A version is named *)
(* by its place in the order of commits.                                   *)
(***************************************************************************)
EXTENDS Rubric

CONSTANTS
  Job,          \* runs of sync-rubric that may overlap
  NextPayloads, \* checkout -> what the next push may hold: edits by hand
  Workbooks,    \* workbooks an operator may convert over a checkout
  NoWorkbook,
  MaxPushes,    \* bound on the pushes to main
  MaxSeeds      \* bound on the transactions begun

ASSUME SeedAssumption == MaxPushes \in Nat /\ MaxSeeds \in Nat

\* A workbook is a sequence of sheets, a sheet has a sequence of rows.
ASSUME WorkbookAssumption ==
  \A w \in Workbooks :
    /\ w \in Seq(Range(w))
    /\ \A i \in DOMAIN w : /\ w[i].rows \in Seq(Range(w[i].rows))
                           /\ \A n \in DOMAIN w[i].rows : w[i].rows[n].block \in BlockName

VARIABLES
  main,      \* pushes: payload, whether an ADR is cited, workbook it came from
  jobs,      \* Job -> the seed it is at
  began,     \* transactions begun: the database's clock
  versions,  \* rubric_tree_version, in the order of commits
  tables,    \* the five tree tables: pairs of a version and a row
  audit,     \* audit_log rows "rubric.versioned": payload hashes
  reader     \* a snapshot being taken: the version, the statements done, the rows

vars == <<main, jobs, began, versions, tables, audit, reader>>

NoJob == [pc |-> "idle", head |-> 0, created_at |-> 0]
NoReader == [version |-> 0, done |-> 0, rows |-> [t \in Table |-> {}]]
Empty == <<>>   \* an empty directory

Init ==
  /\ main = <<>> /\ jobs = [j \in Job |-> NoJob] /\ began = 0
  /\ versions = <<>> /\ tables = [t \in Table |-> {}] /\ audit = <<>>
  /\ reader = NoReader

-----------------------------------------------------------------------------
\* The checkout of a push, and the one before it (github.event.before).
Checkout(k) == IF k = 0 THEN Empty ELSE main[k].payload

\* A push: an edit by hand, or what convert wrote, whether or not it came
\* through all the sheets.
Push ==
  /\ Len(main) < MaxPushes
  /\ \E cited \in BOOLEAN :
       \/ \E p \in NextPayloads[Len(main)] :
            main' = Append(main, [payload |-> p, cited |-> cited, workbook |-> NoWorkbook])
       \/ \E w \in Workbooks :
            LET done == Convert(Checkout(Len(main)), w)
            IN  main' = Append(main, [payload |-> done.files, cited |-> cited,
                                      workbook |-> IF done.error = "none" THEN w ELSE NoWorkbook])
  /\ UNCHANGED <<jobs, began, versions, tables, audit, reader>>

PassesGate(k) == CheckExit(Checkout(k - 1), Checkout(k), main[k].cited) = 0

\* A job of a push, its first run or a re-run: the gate, then BEGIN.
BeginSeed(j) ==
  /\ jobs[j].pc = "idle" /\ began < MaxSeeds
  /\ \E k \in DOMAIN main :
        /\ PassesGate(k)
        /\ jobs' = [jobs EXCEPT ![j] = [pc |-> "begun", head |-> k, created_at |-> began + 1]]
  /\ began' = began + 1
  /\ UNCHANGED <<main, versions, tables, audit, reader>>

\* pg_advisory_xact_lock.
LockFree_ALWAYS == TRUE
LockFree == \A j \in Job : jobs[j].pc \notin {"locked", "writing"}
TakeLock(j) ==
  /\ jobs[j].pc = "begun" /\ LockFree
  /\ jobs' = [jobs EXCEPT ![j].pc = "locked"]
  /\ UNCHANGED <<main, began, versions, tables, audit, reader>>

\* ORDER BY created_at DESC LIMIT 1: not the version last written but the one
\* whose transaction began last.
LatestOf(created_at) ==
  CHOOSE v \in DOMAIN created_at : \A w \in DOMAIN created_at : created_at[w] <= created_at[v]
CreatedAt(n) == [v \in 1..n |-> versions[v].created_at]
Latest == IF versions = <<>> THEN 0 ELSE LatestOf(CreatedAt(Len(versions)))

RowsOf(table, v) == {p[2] : p \in {q \in tables[table] : q[1] = v}}

IsNoop(payload) == Latest # 0 /\ payload = versions[Latest].payload

\* RenameForbiddenError.
Disappeared_NONE(payload) == {}
Disappeared(payload) ==
  IF Latest = 0 THEN {} ELSE NamesIn(RowsOf("competency", Latest)) \ NonBlockIds(payload)

NewAudit(payload) == Append(audit, payload)

\* The lock held: nothing to do, a rename refused, or rows to insert.
Compare(j) ==
  LET payload == Checkout(jobs[j].head)
  IN  /\ jobs[j].pc = "locked"
      /\ jobs' = IF IsNoop(payload) \/ Disappeared(payload) # {}
                 THEN [jobs EXCEPT ![j] = NoJob]
                 ELSE [jobs EXCEPT ![j].pc = "writing"]
      /\ UNCHANGED <<main, began, versions, tables, audit, reader>>

\* COMMIT: the version, its rows and its receipt at once.
Commit(j) ==
  LET job == jobs[j]
      payload == Checkout(job.head)
      new == Len(versions) + 1
      written == Materialise(payload)
  IN  /\ job.pc = "writing"
      /\ versions' = Append(versions, [payload |-> payload, is_active |-> TRUE,
                                       created_at |-> job.created_at, head |-> job.head])
      /\ tables' = [t \in Table |-> tables[t] \cup {<<new, row>> : row \in written[t]}]
      /\ audit' = NewAudit(payload)
      /\ jobs' = [jobs EXCEPT ![j] = NoJob]
      /\ UNCHANGED <<main, began, reader>>

\* The runner dies, or the instance is stopped: the transaction is undone and
\* its lock is free.
SeedFails(j) ==
  /\ jobs[j].pc # "idle"
  /\ jobs' = [jobs EXCEPT ![j] = NoJob]
  /\ UNCHANGED <<main, began, versions, tables, audit, reader>>

-----------------------------------------------------------------------------
\* snapshot_rubric of a version: of an active one, whichever the query meets
\* first (get_active_rubric_snapshot), or of the one a session starts with
\* (freeze_session_rubric).  One statement per table.
StatementOrder == <<"stack", "block", "competency", "topic", "level">>
Reading == reader.version # 0
Complete == reader.done = Len(StatementOrder)

StartRead ==
  /\ ~Reading
  /\ \E v \in DOMAIN versions : versions[v].is_active /\ reader' = [NoReader EXCEPT !.version = v]
  /\ UNCHANGED <<main, jobs, began, versions, tables, audit>>

ReadTable ==
  /\ Reading /\ ~Complete
  /\ LET table == StatementOrder[reader.done + 1]
     IN  reader' = [reader EXCEPT !.done = @ + 1, !.rows[table] = RowsOf(table, reader.version)]
  /\ UNCHANGED <<main, jobs, began, versions, tables, audit>>

EndRead ==
  /\ Reading /\ Complete
  /\ reader' = NoReader
  /\ UNCHANGED <<main, jobs, began, versions, tables, audit>>

SeedStep(j) == TakeLock(j) \/ Compare(j) \/ Commit(j)

Next == \/ Push \/ StartRead \/ ReadTable \/ EndRead
        \/ \E j \in Job : BeginSeed(j) \/ SeedStep(j) \/ SeedFails(j)

Spec == Init /\ [][Next]_vars

-----------------------------------------------------------------------------
\* What a version was compared with: of those before it the one that began
\* last.  It need not be the one before it, a transaction that began earlier
\* can get the lock later; a version is in turn when all before it began before.
Prior(w) == LatestOf(CreatedAt(w - 1))
InTurn(v) == \A u \in 1..(v - 1) : versions[u].created_at < versions[v].created_at

Names(v) == NamesIn(RowsOf("competency", v))

\* No competency of a version that was in turn is deleted or renamed (FR-009),
\* in whatever order the transactions after it got the lock: it has a row in
\* every later version, unless one in between moved it out of its block, where
\* the importer keeps the id and drops the row.  What an overtaken transaction
\* brings in is not protected: nothing is ever compared with its version.
IdsAreForever ==
  \A w \in DOMAIN versions : \A v \in 1..w : InTurn(v) =>
    \A c \in Names(v) \ Names(w) : \E u \in v..w : c \in NonBlockIds(versions[u].payload) \ Names(u)

\* The sheets of a workbook that count, the last one of a stack, and the rows
\* they state, each with its stack; rows without a competency are headings.
Shown(workbook) ==
  LET visible == {i \in DOMAIN workbook : ~workbook[i].hidden}
  IN  {i \in visible : \A k \in visible : workbook[k].stack = workbook[i].stack => k <= i}
StatedIn(workbook) ==
  UNION {{<<workbook[i].stack, row>> :
            row \in {workbook[i].rows[n] : n \in {m \in DOMAIN workbook[i].rows :
                       workbook[i].rows[m].competency_id # NoCell}}} : i \in Shown(workbook)}

\* A version published for a push that converted a workbook holds exactly the
\* workbook's rows: no descriptor is lost, moved to another competency or
\* block, or taken from somewhere else, on the way over YAML into the tables.
TreeIsTheWorkbook ==
  \A v \in DOMAIN versions :
    LET workbook == main[versions[v].head].workbook
        stacks == {workbook[i].stack : i \in Shown(workbook)}
    IN  workbook # NoWorkbook =>
          /\ {r \in RowsOf("level", v) : r[1] \in stacks} =
               {<<c[1], c[2].competency_id, c[2].level, c[2].text>> : c \in StatedIn(workbook)}
          /\ {r \in RowsOf("competency", v) : r[1] \in stacks} =
               {<<c[1], BlockIdOf[c[2].block], c[2].competency_id>> : c \in StatedIn(workbook)}

\* Each version has its receipt, in order, and neither is added for nothing:
\* re-run, repeated or overlapping, no transaction publishes the payload of the
\* version that was the latest when it committed.
EveryVersionIsAudited ==
  /\ audit = [v \in DOMAIN versions |-> versions[v].payload]
  /\ \A w \in DOMAIN versions : w > 1 => versions[w].payload # versions[Prior(w)].payload

\* A change of assessment semantics between two versions was let through by a
\* citation, or rode on a push the gate had refused: the next push's baseline
\* is the refused one.  What the gate compares, push by push, misses nothing
\* of the difference between the versions.
DestructiveIsAccounted ==
  \A v, w \in DOMAIN versions :
    LET older == versions[v]
        newer == versions[w]
    IN  /\ older.head < newer.head
        /\ Destructive(older.payload, newer.payload) # {} \/ Removed(older.payload, newer.payload) # {}
        => \E k \in (older.head + 1)..newer.head : main[k].cited \/ ~PassesGate(k)

\* The tree of a payload, read off its nodes.
TreeOf(payload) ==
  LET parent(s, id) == payload[s].nodes[id].parent
      under(s, id) == {n \in DOMAIN payload[s].nodes : parent(s, n) = id}
      leaf(s, c) == [name |-> c, topics |-> under(s, c),
                     levels |-> {<<r, payload[s].nodes[c].levels[r]>> :
                                   r \in DOMAIN payload[s].nodes[c].levels}]
  IN  {[name |-> s,
        blocks |-> {[name |-> b, competencies |-> {leaf(s, c) : c \in under(s, b)}] :
                      b \in under(s, NoParent)}] : s \in DOMAIN payload}

\* A snapshot is one version's tree, whole, although its statements run one by
\* one between the commits of seeds (constitution section 4).
SnapshotIsWhole ==
  Reading /\ Complete => Snapshot(reader.rows) = TreeOf(versions[reader.version].payload)
=============================================================================
