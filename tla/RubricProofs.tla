---------------------------- MODULE RubricProofs ----------------------------
(***************************************************************************)
(* Proofs about RubricVersions: for any payloads, workbooks, jobs and      *)
(* interleaving of pushes, seeds, failures and readers.                    *)
(*                                                                         *)
(* What a version's rows are is fixed at its commit; the lock admits one   *)
(* transaction between the comparison with the latest version and the     *)
(* commit, so that what Compare found still holds when Commit inserts.     *)
(* What a conversion writes is read off its two folds, over the rows of a  *)
(* sheet and over the sheets, by induction over their prefixes.            *)
(***************************************************************************)
EXTENDS RubricVersions, TLAPS, WellFoundedInduction

IsSeq(s) == \E S : s \in Seq(S)

JobState == [pc : {"idle", "begun", "locked", "writing"}, head : Nat, created_at : Nat]

TypeInv ==
  /\ IsSeq(main) /\ IsSeq(versions) /\ IsSeq(audit) /\ began \in Nat
  /\ jobs \in [Job -> JobState]
  /\ tables = [t \in Table |-> tables[t]]

Locking == {"locked", "writing"}

\* A job is of a push; one at most is past the lock.
JobInv ==
  /\ \A j \in Job : jobs[j].pc # "idle" => jobs[j].head \in DOMAIN main
  /\ \A i, j \in Job : jobs[i].pc \in Locking /\ jobs[j].pc \in Locking => i = j

\* What the comparison has found is still so.
WriteInv ==
  \A j \in Job : jobs[j].pc = "writing" =>
    LET payload == Checkout(jobs[j].head)
    IN  ~IsNoop(payload) /\ Disappeared(payload) = {}

\* A version is a checkout's, with its rows and its receipt.
VersionInv ==
  \A v \in DOMAIN versions :
    /\ versions[v].head \in DOMAIN main /\ versions[v].created_at \in Nat
    /\ versions[v].payload = Checkout(versions[v].head)
TablesInv ==
  \A t \in Table :
    /\ \A row \in tables[t] : row[1] \in DOMAIN versions
    /\ \A v \in DOMAIN versions : RowsOf(t, v) = Materialise(versions[v].payload)[t]
AuditInv == audit = [v \in DOMAIN versions |-> versions[v].payload]

\* Of the versions before any, one began last; the comparison with it keeps
\* each version different from it, and its competencies alive.
Tops(n) == {p \in 1..n : \A u \in 1..n : versions[u].created_at <= versions[p].created_at}
TopInv == \A n \in 1..Len(versions) : Tops(n) # {}
ApartInv ==
  \A w \in DOMAIN versions : w > 1 => versions[w].payload # versions[Prior(w)].payload

\* What has been read of a version is what it has.
ReaderInv ==
  /\ reader = [version |-> reader.version, done |-> reader.done, rows |-> reader.rows]
  /\ reader.done \in 0..5 /\ reader.rows = [t \in Table |-> reader.rows[t]]
  /\ reader.version # 0 => reader.version \in DOMAIN versions
  /\ reader.version = 0 => reader.done = 0
  /\ \A i \in 1..reader.done :
       reader.rows[StatementOrder[i]] = RowsOf(StatementOrder[i], reader.version)

\* Along pushes that the gate let through uncited nothing changes its meaning.
Uncited(i, j) == \A k \in (i + 1)..j : PassesGate(k) /\ ~main[k].cited
Harmless(a, b) == Removed(a, b) = {} /\ Destructive(a, b) = {}
GateInv ==
  \A j \in 0..Len(main) : \A i \in 0..j : Uncited(i, j) => Harmless(Checkout(i), Checkout(j))

DataInv == VersionInv /\ TablesInv /\ AuditInv /\ TopInv /\ ApartInv /\ IdsAreForever
IInv == TypeInv /\ JobInv /\ WriteInv /\ DataInv /\ ReaderInv /\ GateInv

-----------------------------------------------------------------------------
\* Facts about sequences.

LEMMA AppendFacts ==
  ASSUME NEW s, IsSeq(s), NEW e
  PROVE  /\ IsSeq(Append(s, e)) /\ Len(s) \in Nat /\ DOMAIN s = 1..Len(s)
         /\ Len(Append(s, e)) = Len(s) + 1 /\ DOMAIN Append(s, e) = 1..(Len(s) + 1)
         /\ Append(s, e)[Len(s) + 1] = e
         /\ \A i \in 1..Len(s) : Append(s, e)[i] = s[i]
<1>1. PICK S : s \in Seq(S)
  BY DEF IsSeq
<1>2. s \in Seq(S \cup {e}) /\ e \in S \cup {e}
  BY <1>1
<1>3. Append(s, e) \in Seq(S \cup {e})
  BY <1>2
<1> QED BY <1>2, <1>3 DEF IsSeq

\* The version LatestOf picks is one that began last.
LEMMA LatestIsTop ==
  ASSUME VersionInv, TopInv, NEW n \in 1..Len(versions)
  PROVE  LatestOf(CreatedAt(n)) \in Tops(n)
<1> DEFINE c == CreatedAt(n)
           Top(v) == \A w \in DOMAIN c : c[w] <= c[v]
<1>1. DOMAIN c = 1..n /\ \A v \in 1..n : c[v] = versions[v].created_at
  BY DEF CreatedAt
<1>2. LatestOf(c) = CHOOSE v \in DOMAIN c : Top(v)
  BY DEF LatestOf
<1> HIDE DEF c
<1>3. \A v \in 1..n : Top(v) <=> v \in Tops(n)
  BY <1>1 DEF Tops
<1>4. \E v \in DOMAIN c : Top(v)
  BY <1>1, <1>3 DEF TopInv, Tops
<1> HIDE DEF Top
<1>5. LatestOf(c) \in DOMAIN c /\ Top(LatestOf(c))
  BY <1>2, <1>4
<1> QED BY <1>1, <1>3, <1>5 DEF c

\* What a version that is in turn was compared with, or a later one, is not
\* before it.
LEMMA InTurnIsNotPassed ==
  ASSUME VersionInv, TypeInv, NEW n \in 1..Len(versions), NEW v \in 1..n, InTurn(v),
         NEW p \in Tops(n)
  PROVE  p \in v..n
<1>1. p \in 1..n /\ versions[v].created_at <= versions[p].created_at
  BY DEF Tops
<1>2. versions[v].created_at \in Nat /\ versions[p].created_at \in Nat
  BY <1>1, AppendFacts DEF VersionInv, TypeInv
<1>3. p < v => versions[p].created_at < versions[v].created_at
  BY <1>1 DEF InTurn
<1> QED BY <1>1, <1>2, <1>3

-----------------------------------------------------------------------------
\* The gate's comparison composes along pushes.

LEMMA NothingRemovedComposes ==
  ASSUME NEW a, NEW b, NEW c, Removed(a, b) = {}, Removed(b, c) = {}
  PROVE  Removed(a, c) = {}
BY DEF Removed

LEMMA SameMeaning ==
  ASSUME NEW x, NEW y, Destructive(x, y) = {}, NEW id \in IdsIn(x) \cap IdsIn(y)
  PROVE  /\ IndexNodes(x)[id].retired = IndexNodes(y)[id].retired
         /\ IndexNodes(x)[id].retired \/ ~LevelsChanged(IndexNodes(x)[id], IndexNodes(y)[id])
<1> DEFINE X == IndexNodes(x)
<1> DEFINE Y == IndexNodes(y)
<1>1. DOMAIN X = IdsIn(x) /\ DOMAIN Y = IdsIn(y)
  BY DEF IndexNodes
<1>2. Destructive(x, y) = {i \in DOMAIN X \cap DOMAIN Y :
         \/ X[i].retired # Y[i].retired
         \/ ~X[i].retired /\ ~Y[i].retired /\ LevelsChanged(X[i], Y[i])}
  BY DEF Destructive
<1> HIDE DEF X, Y
<1>3. ~(X[id].retired # Y[id].retired)
  BY <1>1, <1>2
<1>4. ~(~X[id].retired /\ ~Y[id].retired /\ LevelsChanged(X[id], Y[id]))
  BY <1>1, <1>2
<1>5. X[id].retired = Y[id].retired
  BY <1>3
<1>6. X[id].retired \/ ~LevelsChanged(X[id], Y[id])
  BY <1>4, <1>5
<1> QED BY <1>5, <1>6 DEF X, Y

LEMMA LevelsCompose ==
  ASSUME NEW a, NEW b, NEW c, ~LevelsChanged(a, b), ~LevelsChanged(b, c)
  PROVE  ~LevelsChanged(a, c)
BY DEF LevelsChanged

LEMMA NothingDestroyedComposes ==
  ASSUME NEW a, NEW b, NEW c, Removed(a, b) = {}, Destructive(a, b) = {}, Destructive(b, c) = {}
  PROVE  Destructive(a, c) = {}
<1> DEFINE A == IndexNodes(a)
<1> DEFINE C == IndexNodes(c)
<1>1. ASSUME NEW id \in IdsIn(a) \cap IdsIn(c)
      PROVE  A[id].retired = C[id].retired /\ (A[id].retired \/ ~LevelsChanged(A[id], C[id]))
  <2> DEFINE B == IndexNodes(b)
  <2>1. id \in IdsIn(b)
    BY DEF Removed
  <2>2. A[id].retired = B[id].retired /\ (A[id].retired \/ ~LevelsChanged(A[id], B[id]))
    BY <2>1, SameMeaning
  <2>3. B[id].retired = C[id].retired /\ (B[id].retired \/ ~LevelsChanged(B[id], C[id]))
    BY <2>1, SameMeaning
  <2> HIDE DEF A, B, C
  <2> QED BY <2>2, <2>3, LevelsCompose
<1>2. DOMAIN A = IdsIn(a) /\ DOMAIN C = IdsIn(c)
  BY DEF IndexNodes
<1>3. Destructive(a, c) = {i \in DOMAIN A \cap DOMAIN C :
         \/ A[i].retired # C[i].retired
         \/ ~A[i].retired /\ ~C[i].retired /\ LevelsChanged(A[i], C[i])}
  BY DEF Destructive
<1> HIDE DEF A, C
<1> QED BY <1>1, <1>2, <1>3

LEMMA NothingChangesByItself ==
  ASSUME NEW a
  PROVE  Removed(a, a) = {} /\ Destructive(a, a) = {}
<1> DEFINE A == IndexNodes(a)
<1>1. \A x : ~LevelsChanged(x, x)
  BY DEF LevelsChanged
<1>2. Destructive(a, a) = {i \in DOMAIN A \cap DOMAIN A :
         \/ A[i].retired # A[i].retired
         \/ ~A[i].retired /\ ~A[i].retired /\ LevelsChanged(A[i], A[i])}
  BY DEF Destructive
<1> HIDE DEF A
<1> QED BY <1>1, <1>2 DEF Removed

-----------------------------------------------------------------------------
LEMMA InitHolds == Init => IInv
<1> SUFFICES ASSUME Init PROVE IInv
  OBVIOUS
<1>1. IsSeq(<<>>) /\ Len(<<>>) = 0
  <2>1. <<>> \in Seq({})
    OBVIOUS
  <2> QED BY <2>1 DEF IsSeq
<1>2. TypeInv
  BY <1>1 DEF Init, TypeInv, NoJob, JobState
<1>3. JobInv /\ WriteInv
  BY DEF Init, JobInv, WriteInv, NoJob, Locking
<1>4. DataInv
  BY <1>1 DEF Init, DataInv, VersionInv, TablesInv, AuditInv, TopInv, ApartInv, IdsAreForever
<1>5. ReaderInv
  BY DEF Init, ReaderInv, NoReader
<1>6. GateInv
  BY <1>1, NothingChangesByItself DEF Init, GateInv, Harmless
<1> QED BY <1>2, <1>3, <1>4, <1>5, <1>6 DEF IInv

\* What does not touch the tables keeps what is said of them.
LEMMA DataKept ==
  ASSUME DataInv, VersionInv', UNCHANGED <<versions, tables, audit>>
  PROVE  DataInv'
<1>1. /\ \A n : Tops(n)' = Tops(n)
      /\ \A w : Prior(w)' = Prior(w)
      /\ \A v : InTurn(v)' = InTurn(v)
  BY DEF Tops, Prior, LatestOf, CreatedAt, InTurn
<1>2. \A t, v : RowsOf(t, v)' = RowsOf(t, v)
  BY DEF RowsOf
<1>3. \A v : Names(v)' = Names(v)
  BY <1>2 DEF Names
<1>4. TablesInv' /\ AuditInv'
  BY <1>2 DEF DataInv, TablesInv, AuditInv
<1>5. TopInv' /\ ApartInv' /\ IdsAreForever'
  BY <1>1, <1>3 DEF DataInv, TopInv, ApartInv, IdsAreForever
<1> QED BY <1>4, <1>5 DEF DataInv

LEMMA VersionsKept == ASSUME VersionInv, UNCHANGED <<main, versions>> PROVE VersionInv'
BY DEF VersionInv, Checkout

LEMMA GateKept == ASSUME GateInv, UNCHANGED main PROVE GateInv'
<1>1. \A k : Checkout(k)' = Checkout(k)
  BY DEF Checkout
<1>2. \A k : PassesGate(k)' = PassesGate(k)
  BY <1>1 DEF PassesGate
<1>3. \A i, j : Uncited(i, j)' = Uncited(i, j)
  BY <1>2 DEF Uncited
<1> QED BY <1>1, <1>3 DEF GateInv

\* The comparison, as long as there is no new version.
LEMMA ComparisonKept ==
  ASSUME UNCHANGED <<versions, tables>>, NEW payload
  PROVE  IsNoop(payload)' = IsNoop(payload) /\ Disappeared(payload)' = Disappeared(payload)
<1>1. Latest' = Latest
  BY DEF Latest, LatestOf, CreatedAt
<1>2. RowsOf("competency", Latest)' = RowsOf("competency", Latest)
  BY <1>1 DEF RowsOf
<1> QED BY <1>1, <1>2 DEF IsNoop, Disappeared

LEMMA ReaderKept == ASSUME ReaderInv, UNCHANGED <<versions, tables, reader>> PROVE ReaderInv'
BY DEF ReaderInv, RowsOf

LEMMA WriteKept ==
  ASSUME WriteInv, UNCHANGED <<main, versions, tables>>,
         \A j \in Job : jobs'[j].pc = "writing" => jobs[j].pc = "writing" /\ jobs'[j].head = jobs[j].head
  PROVE  WriteInv'
<1> SUFFICES ASSUME NEW j \in Job, jobs'[j].pc = "writing"
             PROVE  (~IsNoop(Checkout(jobs[j].head)) /\ Disappeared(Checkout(jobs[j].head)) = {})'
  BY DEF WriteInv
<1>1. PICK payload : payload = Checkout(jobs[j].head)
  OBVIOUS
<1>2. Checkout(jobs[j].head)' = payload
  BY <1>1 DEF Checkout
<1>3. ~IsNoop(payload) /\ Disappeared(payload) = {}
  BY <1>1 DEF WriteInv
<1> QED BY <1>2, <1>3, ComparisonKept

-----------------------------------------------------------------------------
\* A push.
LEMMA PushKeeps == IInv /\ Push => IInv'
<1> SUFFICES ASSUME IInv, Push PROVE IInv'
  OBVIOUS
<1>1. PICK push : main' = Append(main, push)
  BY DEF Push
<1>2. UNCHANGED <<jobs, began, versions, tables, audit, reader>> /\ IsSeq(main)
  BY DEF Push, IInv, TypeInv
<1>3. PICK n \in Nat : n = Len(main)
  BY <1>2, AppendFacts
<1>4. /\ IsSeq(main') /\ DOMAIN main = 1..n /\ Len(main') = n + 1
      /\ DOMAIN main' = 1..(n + 1) /\ \A k \in 1..n : main'[k] = main[k]
  BY <1>1, <1>2, <1>3, AppendFacts
<1>5. \A k \in 0..n : Checkout(k)' = Checkout(k)
  BY <1>4 DEF Checkout
<1>6. TypeInv'
  BY <1>2, <1>4 DEF IInv, TypeInv
<1>7. JobInv'
  BY <1>2, <1>4 DEF IInv, JobInv
<1>8. WriteInv'
  <2> SUFFICES ASSUME NEW j \in Job, jobs[j].pc = "writing"
               PROVE  (~IsNoop(Checkout(jobs[j].head)) /\ Disappeared(Checkout(jobs[j].head)) = {})'
    BY <1>2 DEF WriteInv
  <2>1. PICK payload : payload = Checkout(jobs[j].head)
    OBVIOUS
  <2>2. jobs[j].head \in 0..n
    BY <1>4 DEF IInv, JobInv
  <2>3. Checkout(jobs[j].head)' = payload
    BY <1>2, <1>5, <2>1, <2>2
  <2>4. ~IsNoop(payload) /\ Disappeared(payload) = {}
    BY <2>1 DEF IInv, WriteInv
  <2> QED BY <1>2, <2>3, <2>4, ComparisonKept
<1>9. DataInv'
  <2>1. VersionInv'
    BY <1>2, <1>4, <1>5 DEF IInv, DataInv, VersionInv
  <2> QED BY <1>2, <2>1, DataKept DEF IInv
<1>10. ReaderInv'
  BY <1>2, ReaderKept DEF IInv
<1>11. GateInv'
  <2>1. \A k \in 1..n : PassesGate(k)' = PassesGate(k)
    BY <1>4, <1>5 DEF PassesGate
  <2>2. ASSUME NEW j \in 0..n, NEW i \in 0..j, Uncited(i, j)'
        PROVE  Harmless(Checkout(i), Checkout(j))'
    <3>1. Uncited(i, j)
      BY <1>4, <2>1, <2>2 DEF Uncited
    <3>2. Harmless(Checkout(i), Checkout(j))
      BY <1>3, <3>1 DEF IInv, GateInv
    <3> QED BY <1>5, <3>2
  <2>3. ASSUME NEW i \in 0..n, Uncited(i, n + 1)'
        PROVE  Harmless(Checkout(i), Checkout(n + 1))'
    <3>1. Uncited(i, n)' /\ PassesGate(n + 1)' /\ ~main'[n + 1].cited
      BY <2>3 DEF Uncited
    <3>2. Harmless(Checkout(i), Checkout(n))'
      BY <2>2, <3>1
    <3>3. Harmless(Checkout(n), Checkout(n + 1))'
      BY <3>1 DEF PassesGate, CheckExit, Harmless
    <3> QED BY <3>2, <3>3, NothingRemovedComposes, NothingDestroyedComposes DEF Harmless
  <2>4. ASSUME NEW j \in 0..(n + 1), NEW i \in 0..j, Uncited(i, j)'
        PROVE  Harmless(Checkout(i), Checkout(j))'
    <3>1. CASE j \in 0..n
      BY <2>2, <2>4, <3>1
    <3>2. CASE j = n + 1 /\ i \in 0..n
      BY <2>3, <2>4, <3>2
    <3>3. CASE i = j
      BY <3>3, NothingChangesByItself DEF Harmless
    <3> QED BY <3>1, <3>2, <3>3
  <2> QED BY <1>4, <2>4 DEF GateInv
<1> QED BY <1>6, <1>7, <1>8, <1>9, <1>10, <1>11 DEF IInv

\* A step that changes only the state of a job, and tells nothing new of it.
LEMMA JobStepKeeps ==
  ASSUME IInv, UNCHANGED <<main, versions, tables, audit, reader>>, began' \in Nat,
         NEW j \in Job, NEW next \in JobState, jobs' = [jobs EXCEPT ![j] = next],
         next.pc # "idle" => next.head \in DOMAIN main,
         next.pc \in Locking => \A i \in Job \ {j} : jobs[i].pc \notin Locking,
         next.pc = "writing" =>
           ~IsNoop(Checkout(next.head)) /\ Disappeared(Checkout(next.head)) = {}
  PROVE  IInv'
<1>1. \A i \in Job : jobs'[i] = IF i = j THEN next ELSE jobs[i]
  BY DEF IInv, TypeInv
<1>2. TypeInv'
  BY DEF IInv, TypeInv
<1>3. JobInv'
  BY <1>1 DEF IInv, JobInv
<1>4. WriteInv'
  <2> SUFFICES ASSUME NEW i \in Job, jobs'[i].pc = "writing"
               PROVE  (~IsNoop(Checkout(jobs[i].head)) /\ Disappeared(Checkout(jobs[i].head)) = {})'
    BY DEF WriteInv
  <2>1. PICK payload : payload = Checkout(jobs'[i].head)
    OBVIOUS
  <2>2. Checkout(jobs[i].head)' = payload
    BY <2>1 DEF Checkout
  <2>3. ~IsNoop(payload) /\ Disappeared(payload) = {}
    BY <1>1, <2>1 DEF IInv, WriteInv
  <2> QED BY <2>2, <2>3, ComparisonKept
<1>5. DataInv'
  BY DataKept, VersionsKept DEF IInv, DataInv
<1>6. ReaderInv' /\ GateInv'
  BY ReaderKept, GateKept DEF IInv
<1> QED BY <1>2, <1>3, <1>4, <1>5, <1>6 DEF IInv

LEMMA BeginSeedKeeps == ASSUME NEW j \in Job, IInv, BeginSeed(j) PROVE IInv'
<1>1. PICK k \in DOMAIN main :
        jobs' = [jobs EXCEPT ![j] = [pc |-> "begun", head |-> k, created_at |-> began + 1]]
  BY DEF BeginSeed
<1> DEFINE next == [pc |-> "begun", head |-> k, created_at |-> began + 1]
<1>2. k \in Nat /\ began \in Nat /\ began' = began + 1
  BY AppendFacts DEF BeginSeed, IInv, TypeInv
<1>3. next \in JobState /\ next.pc = "begun" /\ next.head = k
  BY <1>2 DEF JobState
<1> HIDE DEF next
<1>4. jobs' = [jobs EXCEPT ![j] = next]
  BY <1>1 DEF next
<1>5. UNCHANGED <<main, versions, tables, audit, reader>> /\ began' \in Nat
  BY <1>2 DEF BeginSeed
<1>6. next.pc \notin Locking /\ next.pc # "writing" /\ next.head \in DOMAIN main
  BY <1>3 DEF Locking
<1> QED BY <1>3, <1>4, <1>5, <1>6, JobStepKeeps

LEMMA TakeLockKeeps == ASSUME NEW j \in Job, IInv, TakeLock(j) PROVE IInv'
<1> DEFINE next == [jobs[j] EXCEPT !.pc = "locked"]
<1>1. jobs[j] \in JobState /\ jobs[j].pc = "begun" /\ began \in Nat
  BY DEF TakeLock, IInv, TypeInv
<1>2. next \in JobState /\ next.pc = "locked" /\ next.head = jobs[j].head
  BY <1>1 DEF JobState
<1>3. jobs' = [jobs EXCEPT ![j] = next] /\ \A i \in Job : jobs[i].pc \notin Locking
  BY DEF TakeLock, LockFree, Locking
<1>4. next.head \in DOMAIN main
  BY <1>1, <1>2 DEF IInv, JobInv
<1> HIDE DEF next
<1> QED BY <1>1, <1>2, <1>3, <1>4, JobStepKeeps DEF TakeLock

LEMMA NoJobIsOne == NoJob \in JobState /\ NoJob.pc = "idle"
BY DEF NoJob, JobState

LEMMA CompareKeeps == ASSUME NEW j \in Job, IInv, Compare(j) PROVE IInv'
<1> DEFINE next == [jobs[j] EXCEPT !.pc = "writing"]
<1> DEFINE payload == Checkout(jobs[j].head)
<1>1. jobs[j] \in JobState /\ jobs[j].pc = "locked" /\ began \in Nat
  BY DEF Compare, IInv, TypeInv
<1>2. next \in JobState /\ next.pc = "writing" /\ next.head = jobs[j].head
  BY <1>1 DEF JobState
<1>3. next.head \in DOMAIN main /\ \A i \in Job \ {j} : jobs[i].pc \notin Locking
  BY <1>1, <1>2 DEF IInv, JobInv, Locking
<1>4. CASE IsNoop(payload) \/ Disappeared(payload) # {}
  <2>1. jobs' = [jobs EXCEPT ![j] = NoJob]
    BY <1>4 DEF Compare
  <2> QED BY <1>1, <2>1, NoJobIsOne, JobStepKeeps DEF Compare, Locking
<1>5. CASE ~(IsNoop(payload) \/ Disappeared(payload) # {})
  <2>1. jobs' = [jobs EXCEPT ![j] = next]
    BY <1>5 DEF Compare
  <2>2. ~IsNoop(Checkout(next.head)) /\ Disappeared(Checkout(next.head)) = {}
    BY <1>2, <1>5
  <2> HIDE DEF next
  <2> QED BY <1>1, <1>2, <1>3, <2>1, <2>2, JobStepKeeps DEF Compare
<1> QED BY <1>4, <1>5

LEMMA SeedFailsKeeps == ASSUME NEW j \in Job, IInv, SeedFails(j) PROVE IInv'
<1>1. began \in Nat
  BY DEF IInv, TypeInv
<1> QED BY <1>1, NoJobIsOne, JobStepKeeps DEF SeedFails, Locking

-----------------------------------------------------------------------------
\* COMMIT.

RowsIn(pairs, v) == {p[2] : p \in {q \in pairs : q[1] = v}}

Adds(pairs, all, n, written) ==
  /\ \A q \in pairs : q[1] # n
  /\ \A q : q \in all <=> q \in pairs \/ \E row \in written : q = <<n, row>>

LEMMA RowsAdded ==
  ASSUME NEW pairs, NEW all, NEW n, NEW written, Adds(pairs, all, n, written)
  PROVE  RowsIn(all, n) = written /\ \A v : v # n => RowsIn(all, v) = RowsIn(pairs, v)
<1> USE DEF Adds
<1>1. RowsIn(all, n) = written
  <2>1. ASSUME NEW row \in written PROVE row \in RowsIn(all, n)
    <3>1. <<n, row>> \in all /\ <<n, row>>[1] = n /\ <<n, row>>[2] = row
      OBVIOUS
    <3> QED BY <3>1 DEF RowsIn
  <2>2. ASSUME NEW row \in RowsIn(all, n) PROVE row \in written
    BY DEF RowsIn
  <2> QED BY <2>1, <2>2
<1>2. ASSUME NEW v, v # n PROVE RowsIn(all, v) = RowsIn(pairs, v)
  <2>1. \A q : q \in all /\ q[1] = v <=> q \in pairs /\ q[1] = v
    BY <1>2
  <2> QED BY <2>1 DEF RowsIn
<1> QED BY <1>1, <1>2

\* What the new version is, and that the others are as they were.
LEMMA CommitAdds ==
  ASSUME IInv, NEW j \in Job, Commit(j), NEW n \in Nat, n = Len(versions),
         NEW payload, payload = Checkout(jobs[j].head)
  PROVE  /\ IsSeq(versions') /\ DOMAIN versions = 1..n
         /\ DOMAIN versions' = 1..(n + 1) /\ Len(versions') = n + 1
         /\ \A v \in 1..n : versions'[v] = versions[v]
         /\ versions'[n + 1].payload = payload /\ versions'[n + 1].head = jobs[j].head
         /\ versions'[n + 1].created_at = jobs[j].created_at
         /\ tables' = [t \in Table |-> tables'[t]]
         /\ \A t \in Table :
              /\ \A row \in tables'[t] : row[1] \in 1..(n + 1)
              /\ RowsIn(tables'[t], n + 1) = Materialise(payload)[t]
              /\ \A v \in 1..n : RowsIn(tables'[t], v) = RowsIn(tables[t], v)
<1> DEFINE added == [payload |-> payload, is_active |-> TRUE, created_at |-> jobs[j].created_at,
                     head |-> jobs[j].head]
<1>1. versions' = Append(versions, added) /\ IsSeq(versions)
  BY DEF Commit, IInv, TypeInv
<1>2. /\ added.payload = payload /\ added.head = jobs[j].head
      /\ added.created_at = jobs[j].created_at
  OBVIOUS
<1> HIDE DEF added
<1>3. /\ IsSeq(versions') /\ DOMAIN versions = 1..n
      /\ DOMAIN versions' = 1..(n + 1) /\ Len(versions') = n + 1
      /\ \A v \in 1..n : versions'[v] = versions[v] /\ versions'[n + 1] = added
  <2>1. versions'[n + 1] = added
    BY <1>1, AppendFacts
  <2> QED BY <1>1, <2>1, AppendFacts
<1>4. versions'[n + 1] = added
  BY <1>1, AppendFacts
<1>5. tables' = [t \in Table |-> tables[t] \cup {<<n + 1, row>> : row \in Materialise(payload)[t]}]
  BY DEF Commit
<1>6. ASSUME NEW t \in Table
      PROVE  /\ \A row \in tables'[t] : row[1] \in 1..(n + 1)
             /\ RowsIn(tables'[t], n + 1) = Materialise(payload)[t]
             /\ \A v \in 1..n : RowsIn(tables'[t], v) = RowsIn(tables[t], v)
  <2>1. tables'[t] = tables[t] \cup {<<n + 1, row>> : row \in Materialise(payload)[t]}
    BY <1>5
  <2>2. \A q \in tables[t] : q[1] \in 1..n
    BY <1>3 DEF IInv, DataInv, TablesInv
  <2>3. \A q \in tables[t] : q[1] # n + 1
    BY <2>2
  <2>4. /\ RowsIn(tables'[t], n + 1) = Materialise(payload)[t]
        /\ \A v : v # n + 1 => RowsIn(tables'[t], v) = RowsIn(tables[t], v)
    <3>1. \A q : q \in tables'[t] <=>
                  q \in tables[t] \/ \E row \in Materialise(payload)[t] : q = <<n + 1, row>>
      BY <2>1
    <3>2. Adds(tables[t], tables'[t], n + 1, Materialise(payload)[t])
      BY <2>3, <3>1 DEF Adds
    <3> QED BY <3>2, RowsAdded
  <2>5. ASSUME NEW row \in tables'[t] PROVE row[1] \in 1..(n + 1)
    BY <2>1, <2>2
  <2> QED BY <2>4, <2>5
<1>7. tables' = [t \in Table |-> tables'[t]]
  BY <1>5
<1> QED BY <1>2, <1>3, <1>4, <1>6, <1>7

LEMMA CommitKeeps == ASSUME NEW j \in Job, IInv, Commit(j) PROVE IInv'
<1>1. PICK n \in Nat : n = Len(versions)
  BY AppendFacts DEF IInv, TypeInv
<1>2. PICK payload : payload = Checkout(jobs[j].head)
  OBVIOUS
<1>3. /\ IsSeq(versions') /\ DOMAIN versions = 1..n
      /\ DOMAIN versions' = 1..(n + 1) /\ Len(versions') = n + 1
      /\ \A v \in 1..n : versions'[v] = versions[v]
      /\ versions'[n + 1].payload = payload /\ versions'[n + 1].head = jobs[j].head
      /\ versions'[n + 1].created_at = jobs[j].created_at
      /\ tables' = [t \in Table |-> tables'[t]]
      /\ \A t \in Table :
           /\ \A row \in tables'[t] : row[1] \in 1..(n + 1)
           /\ RowsIn(tables'[t], n + 1) = Materialise(payload)[t]
           /\ \A v \in 1..n : RowsIn(tables'[t], v) = RowsIn(tables[t], v)
  BY <1>1, <1>2, CommitAdds
<1>18. ASSUME NEW t \in Table
       PROVE  /\ RowsOf(t, n + 1)' = Materialise(payload)[t]
              /\ \A v \in 1..n : RowsOf(t, v)' = RowsOf(t, v)
  <2>1. \A v : RowsOf(t, v)' = RowsIn(tables'[t], v) /\ RowsOf(t, v) = RowsIn(tables[t], v)
    BY DEF RowsOf, RowsIn
  <2>2. PICK m : m = n + 1
    OBVIOUS
  <2>3. RowsOf(t, m)' = Materialise(payload)[t]
    BY <1>3, <2>1, <2>2
  <2> QED BY <1>3, <2>1, <2>2, <2>3
<1>4. /\ jobs' = [jobs EXCEPT ![j] = NoJob] /\ UNCHANGED <<main, began, reader>>
      /\ jobs[j].pc = "writing" /\ jobs[j] \in JobState /\ jobs[j].head \in DOMAIN main
      /\ audit' = Append(audit, payload)
  BY <1>2 DEF Commit, NewAudit, IInv, TypeInv, JobInv
<1>5. \A i \in Job : jobs'[i] = IF i = j THEN NoJob ELSE jobs[i]
  BY <1>4 DEF IInv, TypeInv
<1>6. TypeInv'
  <2>1. IsSeq(audit')
    BY <1>4, AppendFacts DEF IInv, TypeInv
  <2> QED BY <1>3, <1>4, <2>1, NoJobIsOne DEF IInv, TypeInv
<1>7. JobInv'
  BY <1>4, <1>5, NoJobIsOne DEF IInv, JobInv, Locking
<1>8. WriteInv'
  <2>1. \A i \in Job : jobs'[i].pc # "writing"
    BY <1>4, <1>5, NoJobIsOne DEF IInv, JobInv, Locking
  <2> QED BY <2>1 DEF WriteInv
<1>9. GateInv'
  BY <1>4, GateKept DEF IInv
<1>10. VersionInv'
  <2>1. \A k : Checkout(k)' = Checkout(k)
    BY <1>4 DEF Checkout
  <2>2. ASSUME NEW v \in 1..(n + 1)
        PROVE  /\ versions'[v].head \in DOMAIN main /\ versions'[v].created_at \in Nat
               /\ versions'[v].payload = Checkout(versions'[v].head)
    <3>1. CASE v \in 1..n
      BY <1>3, <3>1 DEF IInv, DataInv, VersionInv
    <3>2. CASE v = n + 1
      BY <1>2, <1>3, <1>4, <3>2 DEF JobState
    <3> QED BY <3>1, <3>2
  <2> QED BY <1>3, <1>4, <2>1, <2>2 DEF VersionInv
<1>11. TablesInv'
  <2>1. ASSUME NEW t \in Table, NEW v \in 1..(n + 1)
        PROVE  RowsOf(t, v)' = Materialise(versions'[v].payload)[t]
    <3>1. CASE v \in 1..n
      BY <1>3, <1>18, <3>1 DEF IInv, DataInv, TablesInv
    <3>2. CASE v = n + 1
      BY <1>3, <1>18, <3>2
    <3> QED BY <3>1, <3>2
  <2> QED BY <1>3, <2>1 DEF TablesInv
<1>12. AuditInv'
  <2>1. audit = [v \in 1..n |-> versions[v].payload]
    BY <1>3 DEF IInv, DataInv, AuditInv
  <2>2. IsSeq(audit) /\ Len(audit) = n
    <3>1. IsSeq(audit) /\ Len(audit) \in Nat /\ DOMAIN audit = 1..Len(audit)
      BY AppendFacts DEF IInv, TypeInv
    <3>2. DOMAIN audit = 1..n
      BY <2>1
    <3>3. \A k \in Nat : 1..k = 1..n => k = n
      <4> SUFFICES ASSUME NEW k \in Nat, 1..k = 1..n PROVE k = n
        OBVIOUS
      <4>1. k # 0 => k \in 1..n
        OBVIOUS
      <4>2. n # 0 => n \in 1..k
        OBVIOUS
      <4> QED BY <4>1, <4>2
    <3> QED BY <3>1, <3>2, <3>3
  <2>3. /\ IsSeq(audit') /\ Len(audit') = n + 1 /\ audit'[n + 1] = payload
        /\ \A v \in 1..n : audit'[v] = audit[v]
    BY <1>4, <2>2, AppendFacts
  <2>4. audit' = [v \in 1..(n + 1) |-> audit'[v]]
    BY <2>3 DEF IsSeq
  <2>5. \A v \in 1..(n + 1) : audit'[v] = versions'[v].payload
    BY <1>3, <2>1, <2>3
  <2> QED BY <1>3, <2>4, <2>5 DEF AuditInv
<1>13. /\ \A k \in 0..n : CreatedAt(k)' = CreatedAt(k)
       /\ \A v \in 1..n : InTurn(v)' = InTurn(v)
  <2>1. \A v \in 1..n : versions'[v].created_at = versions[v].created_at
    BY <1>3
  <2> QED BY <2>1 DEF CreatedAt, InTurn
<1>19. ASSUME n # 0
       PROVE  /\ Latest \in Tops(n) /\ Latest = LatestOf(CreatedAt(n))
              /\ payload # versions[Latest].payload
              /\ NamesIn(RowsOf("competency", Latest)) \subseteq NonBlockIds(payload)
  <2>1. versions # <<>> /\ n \in 1..Len(versions)
    BY <1>1, <1>19
  <2>2. Latest = LatestOf(CreatedAt(n)) /\ Latest \in Tops(n)
    BY <1>1, <2>1, LatestIsTop DEF IInv, DataInv, Latest
  <2>3. Latest # 0
    BY <2>2 DEF Tops
  <2>4. ~IsNoop(payload) /\ Disappeared(payload) = {}
    BY <1>2, <1>4 DEF IInv, WriteInv
  <2> QED BY <2>2, <2>3, <2>4 DEF IsNoop, Disappeared
<1>14. TopInv'
  <2> DEFINE c(v) == versions'[v].created_at
  <2>1. \A v \in 1..(n + 1) : c(v) \in Nat
    BY <1>3, <1>10 DEF VersionInv
  <2>2. \A k \in 1..n : Tops(k)' = Tops(k)
    BY <1>3 DEF Tops
  <2>3. Tops(n + 1)' # {}
    <3> SUFFICES \E p \in 1..(n + 1) : \A u \in 1..(n + 1) : c(u) <= c(p)
      BY <1>1 DEF Tops
    <3>1. CASE n = 0
      BY <2>1, <3>1
    <3>2. CASE n # 0
      <4>1. PICK p \in 1..n : \A u \in 1..n : c(u) <= c(p)
        BY <1>3, <1>19, <3>2 DEF Tops
      <4>2. p \in 1..(n + 1) /\ n + 1 \in 1..(n + 1)
        BY <4>1
      <4> HIDE DEF c
      <4>3. CASE c(n + 1) <= c(p)
        BY <4>1, <4>2, <4>3
      <4>4. CASE c(p) <= c(n + 1)
        BY <2>1, <4>1, <4>2, <4>4
      <4> QED BY <2>1, <4>2, <4>3, <4>4
    <3> QED BY <3>1, <3>2
  <2>4. \A k \in 1..(n + 1) : k \in 1..n \/ k = n + 1
    OBVIOUS
  <2> QED BY <1>1, <1>3, <2>2, <2>3, <2>4 DEF TopInv, IInv, DataInv
<1>15. ApartInv'
  <2> SUFFICES ASSUME NEW w \in 1..(n + 1), w > 1
               PROVE  versions'[w].payload # versions'[LatestOf(CreatedAt(w - 1)')].payload
    BY <1>3 DEF ApartInv, Prior, LatestOf
  <2>1. w - 1 \in 1..n /\ CreatedAt(w - 1)' = CreatedAt(w - 1)
    BY <1>13
  <2>2. PICK p : p = LatestOf(CreatedAt(w - 1))
    OBVIOUS
  <2>3. p \in 1..n
    BY <1>1, <2>1, <2>2, LatestIsTop DEF IInv, DataInv, Tops
  <2>4. CASE w = n + 1
    BY <1>3, <1>19, <2>1, <2>2, <2>3, <2>4
  <2>5. CASE w # n + 1
    <3>1. w \in 1..n
      BY <2>5
    <3> QED BY <1>3, <2>1, <2>2, <2>3, <3>1 DEF IInv, DataInv, ApartInv, Prior
  <2> QED BY <2>4, <2>5
<1>16. IdsAreForever'
  <2>1. \A v \in 1..n : Names(v)' = Names(v)
    BY <1>18 DEF Names, Table
  <2>2. \A w \in 1..n : \A v \in 1..w : InTurn(v) => \A c \in Names(v) \ Names(w) :
          \E u \in v..w : c \in NonBlockIds(versions[u].payload) \ Names(u)
    BY <1>3 DEF IInv, DataInv, IdsAreForever
  <2>3. ASSUME NEW w \in 1..n, NEW v \in 1..w, InTurn(v)', NEW c, c \in Names(v)', c \notin Names(w)'
        PROVE  \E u \in v..w : c \in NonBlockIds(versions'[u].payload) /\ c \notin Names(u)'
    <3>1. c \in Names(v) /\ c \notin Names(w) /\ InTurn(v)
      BY <1>13, <2>1, <2>3
    <3>2. PICK u \in v..w : c \in NonBlockIds(versions[u].payload) /\ c \notin Names(u)
      BY <2>2, <2>3, <3>1
    <3> QED BY <1>3, <2>1, <3>2
  <2>4. ASSUME NEW v \in 1..(n + 1), InTurn(v)', NEW c, c \in Names(v)', c \notin Names(n + 1)'
        PROVE  \E u \in v..(n + 1) : c \in NonBlockIds(versions'[u].payload) /\ c \notin Names(u)'
    <3>1. v \in 1..n /\ c \in Names(v) /\ InTurn(v) /\ n # 0
      BY <1>13, <2>1, <2>4
    <3>2. PICK p \in v..n : p = Latest
      BY <1>1, <1>19, <3>1, InTurnIsNotPassed DEF IInv, DataInv
    <3>3. CASE c \in Names(p)
      <4>1. c \in NonBlockIds(payload)
        BY <1>19, <3>1, <3>2, <3>3 DEF Names
      <4> QED BY <1>3, <2>4, <3>1, <4>1
    <3>4. CASE c \notin Names(p)
      <4>1. PICK u \in v..p : c \in NonBlockIds(versions[u].payload) /\ c \notin Names(u)
        BY <2>2, <3>1, <3>2, <3>4
      <4>2. u \in v..n /\ u \in v..(n + 1) /\ u \in 1..n
        BY <3>1, <3>2, <4>1
      <4> QED BY <1>3, <2>1, <4>1, <4>2
    <3> QED BY <3>3, <3>4
  <2> QED BY <1>3, <2>3, <2>4 DEF IdsAreForever
<1>17. ReaderInv'
  <2>1. reader.version # 0 => reader.version \in 1..n
    BY <1>3 DEF IInv, ReaderInv
  <2>2. \A i \in 1..5 : StatementOrder[i] \in Table
    BY DEF StatementOrder, Table
  <2>3. reader.version # 0 => \A i \in 1..5 :
          RowsOf(StatementOrder[i], reader.version)' = RowsOf(StatementOrder[i], reader.version)
    BY <1>4, <1>18, <2>1, <2>2
  <2> QED BY <1>3, <1>4, <2>1, <2>3 DEF IInv, ReaderInv
<1> QED
  BY <1>6, <1>7, <1>8, <1>9, <1>10, <1>11, <1>12, <1>14, <1>15, <1>16, <1>17 DEF IInv, DataInv

-----------------------------------------------------------------------------
\* A reader.

\* A step that moves the reader only.
LEMMA ReaderStepKeeps ==
  ASSUME IInv, UNCHANGED <<main, jobs, began, versions, tables, audit>>, ReaderInv'
  PROVE  IInv'
<1>1. TypeInv' /\ JobInv'
  BY DEF IInv, TypeInv, JobInv
<1>2. WriteInv'
  BY WriteKept DEF IInv
<1>3. DataInv' /\ GateInv'
  BY DataKept, VersionsKept, GateKept DEF IInv, DataInv
<1> QED BY <1>1, <1>2, <1>3 DEF IInv

LEMMA RowsStay == ASSUME UNCHANGED tables, NEW t, NEW v PROVE RowsOf(t, v)' = RowsOf(t, v)
BY DEF RowsOf

LEMMA NobodyReads ==
  ASSUME NEW r, r = NoReader
  PROVE  /\ r = [version |-> r.version, done |-> r.done, rows |-> r.rows]
         /\ r.version = 0 /\ r.done = 0 /\ r.rows = [t \in Table |-> r.rows[t]]
BY DEF NoReader

LEMMA StartReadKeeps == IInv /\ StartRead => IInv'
<1> SUFFICES ASSUME IInv, StartRead PROVE IInv'
  OBVIOUS
<1>1. PICK v \in DOMAIN versions : reader' = [NoReader EXCEPT !.version = v]
  BY DEF StartRead
<1>2. /\ reader' = [version |-> v, done |-> 0, rows |-> reader'.rows]
      /\ reader'.rows = [t \in Table |-> reader'.rows[t]]
  BY <1>1 DEF NoReader
<1>3. v # 0 /\ UNCHANGED <<main, jobs, began, versions, tables, audit>>
  BY AppendFacts DEF StartRead, IInv, TypeInv
<1>4. reader'.version = v /\ reader'.done = 0
  BY <1>2
<1>5. ReaderInv'
  BY <1>2, <1>3, <1>4 DEF ReaderInv
<1> QED BY <1>3, <1>5, ReaderStepKeeps

LEMMA ReadTableKeeps == IInv /\ ReadTable => IInv'
<1> SUFFICES ASSUME IInv, ReadTable PROVE IInv'
  OBVIOUS
<1>1. PICK k : k = reader.done + 1
  OBVIOUS
<1>2. PICK v : v = reader.version
  OBVIOUS
<1>3. reader.done \in 0..4 /\ k \in 1..5 /\ v # 0 /\ v \in DOMAIN versions
  BY <1>1, <1>2 DEF ReadTable, Reading, Complete, IInv, ReaderInv, StatementOrder
<1>4. PICK table : table = StatementOrder[k]
  OBVIOUS
<1>5. table \in Table /\ \A i \in 1..5 : StatementOrder[i] \in Table /\ (StatementOrder[i] = table => i = k)
  BY <1>3, <1>4 DEF StatementOrder, Table
<1>6. PICK read : read = RowsOf(table, v)
  OBVIOUS
<1>7. reader' = [reader EXCEPT !.done = @ + 1, !.rows[table] = read]
  BY <1>1, <1>2, <1>4, <1>6 DEF ReadTable
<1>8. reader = [version |-> v, done |-> reader.done, rows |-> reader.rows]
  BY <1>2 DEF IInv, ReaderInv
<1>9. reader' = [version |-> v, done |-> k, rows |-> [reader.rows EXCEPT ![table] = read]]
  <2>1. PICK d, rows : d = reader.done /\ rows = reader.rows
    OBVIOUS
  <2>2. reader = [version |-> v, done |-> d, rows |-> rows]
    BY <1>8, <2>1
  <2>3. reader' = [[version |-> v, done |-> d, rows |-> rows]
                     EXCEPT !.done = d + 1, !.rows = [rows EXCEPT ![table] = read]]
    BY <1>7, <2>1, <2>2
  <2>4. reader' = [version |-> v, done |-> d + 1, rows |-> [rows EXCEPT ![table] = read]]
    BY <2>3
  <2> QED BY <1>1, <2>1, <2>4
<1>10. reader'.rows = [t \in Table |-> IF t = table THEN read ELSE reader.rows[t]]
  BY <1>5, <1>9 DEF IInv, ReaderInv
<1>11. UNCHANGED <<main, jobs, began, versions, tables, audit>>
  BY DEF ReadTable
<1>12. ASSUME NEW i \in 1..k
       PROVE  reader'.rows[StatementOrder[i]] = RowsOf(StatementOrder[i], v)
  <2>1. i \in 1..5 /\ StatementOrder[i] \in Table
    BY <1>3, <1>5
  <2>2. CASE i = k
    BY <1>4, <1>5, <1>6, <1>10, <2>2
  <2>3. CASE i # k
    <3>1. i \in 1..reader.done /\ StatementOrder[i] # table
      BY <1>1, <1>3, <1>5, <2>1, <2>3
    <3>2. reader.rows[StatementOrder[i]] = RowsOf(StatementOrder[i], v)
      BY <1>2, <3>1 DEF IInv, ReaderInv
    <3> QED BY <1>10, <2>1, <3>1, <3>2
  <2> QED BY <2>2, <2>3
<1>13. ReaderInv'
  <2>1. reader'.version = v /\ reader'.done = k
    BY <1>9
  <2>2. \A i \in 1..k : reader'.rows[StatementOrder[i]] = RowsOf(StatementOrder[i], v)'
    BY <1>11, <1>12, RowsStay
  <2>3. reader'.rows = [t \in Table |-> reader'.rows[t]]
    BY <1>10
  <2>4. reader' = [version |-> reader'.version, done |-> reader'.done, rows |-> reader'.rows]
    BY <1>9
  <2>6. \A i : RowsOf(StatementOrder[i], reader.version)' = RowsOf(StatementOrder[i], v)'
    BY <2>1 DEF RowsOf
  <2>7. reader'.version \in DOMAIN versions' /\ reader'.done \in 0..5 /\ reader'.version # 0
    BY <1>3, <1>11, <2>1
  <2> QED BY <2>1, <2>2, <2>3, <2>4, <2>6, <2>7 DEF ReaderInv
<1> QED BY <1>11, <1>13, ReaderStepKeeps

LEMMA EndReadKeeps == IInv /\ EndRead => IInv'
<1> SUFFICES ASSUME IInv, EndRead PROVE IInv'
  OBVIOUS
<1>1. reader' = NoReader /\ UNCHANGED <<main, jobs, began, versions, tables, audit>>
  BY DEF EndRead
<1>2. ReaderInv'
  BY <1>1, NobodyReads DEF ReaderInv
<1> QED BY <1>1, <1>2, ReaderStepKeeps

LEMMA NextKeeps == IInv /\ [Next]_vars => IInv'
<1> SUFFICES ASSUME IInv, [Next]_vars PROVE IInv'
  OBVIOUS
<1>1. CASE Push
  BY <1>1, PushKeeps
<1>2. CASE StartRead \/ ReadTable \/ EndRead
  BY <1>2, StartReadKeeps, ReadTableKeeps, EndReadKeeps
<1>3. ASSUME NEW j \in Job, BeginSeed(j) \/ SeedStep(j) \/ SeedFails(j) PROVE IInv'
  BY <1>3, BeginSeedKeeps, TakeLockKeeps, CompareKeeps, CommitKeeps, SeedFailsKeeps DEF SeedStep
<1>4. CASE UNCHANGED vars
  <2>1. UNCHANGED <<main, jobs, began, versions, tables, audit>> /\ UNCHANGED reader
    BY <1>4 DEF vars
  <2>2. ReaderInv'
    BY <2>1, ReaderKept DEF IInv
  <2> QED BY <2>1, <2>2, ReaderStepKeeps
<1> QED BY <1>1, <1>2, <1>3, <1>4 DEF Next

\* The invariant: whatever is pushed, seeded, undone and read, and in whatever
\* order, the job that is inserting still has what it compared with.
THEOREM Invariant == Spec => []IInv
BY InitHolds, NextKeeps, PTL DEF Spec

-----------------------------------------------------------------------------
\* A competency of a version that was in turn is in every later one unless a
\* version moved it out of its block, whatever order later transactions get
\* seed's lock in: the rename check runs under the lock, and each version was
\* compared with that one or with a later one that kept its competencies.
THEOREM CompetenciesLast == Spec => []IdsAreForever
<1>1. IInv => IdsAreForever
  BY DEF IInv, DataInv
<1> QED BY <1>1, Invariant, PTL

\* Each version has one receipt, in order, and differs from the version that
\* was the latest at its commit: between the comparison and the commit, which
\* are two steps, no other transaction gets past the lock.
THEOREM ReceiptsMatch == Spec => []EveryVersionIsAudited
<1>1. IInv => EveryVersionIsAudited
  BY DEF IInv, DataInv, AuditInv, ApartInv, EveryVersionIsAudited
<1> QED BY <1>1, Invariant, PTL

\* What the policy gate compares push by push misses nothing of the difference
\* between two versions, however many pushes are between them.
THEOREM GateIsCumulative == Spec => []DestructiveIsAccounted
<1>1. IInv => DestructiveIsAccounted
  <2> SUFFICES ASSUME IInv, NEW v \in DOMAIN versions, NEW w \in DOMAIN versions,
                      versions[v].head < versions[w].head,
                      \A k \in (versions[v].head + 1)..versions[w].head :
                        ~main[k].cited /\ PassesGate(k)
               PROVE  Harmless(versions[v].payload, versions[w].payload)
    BY DEF DestructiveIsAccounted, Harmless
  <2>1. PICK i, j : i = versions[v].head /\ j = versions[w].head
    OBVIOUS
  <2>2. /\ i \in DOMAIN main /\ versions[v].payload = Checkout(i)
        /\ j \in DOMAIN main /\ versions[w].payload = Checkout(j)
    BY <2>1 DEF IInv, DataInv, VersionInv
  <2>3. j \in 0..Len(main) /\ i \in 0..j
    BY <2>1, <2>2, AppendFacts DEF IInv, TypeInv
  <2>4. Uncited(i, j)
    BY <2>1 DEF Uncited
  <2> QED BY <2>2, <2>3, <2>4 DEF IInv, GateInv
<1> QED BY <1>1, Invariant, PTL

-----------------------------------------------------------------------------
\* A snapshot of a payload's rows is the payload's tree, one level at a time.

TopicsIn(rows, s, c) == {row[3] : row \in {r \in rows["topic"] : r[1] = s /\ r[2] = c}}
LevelsIn(rows, s, c) ==
  {<<row[3], row[4]>> : row \in {r \in rows["level"] : r[1] = s /\ r[2] = c}}
LeafIn(rows, s, c) == [name |-> c, topics |-> TopicsIn(rows, s, c), levels |-> LevelsIn(rows, s, c)]
CompetenciesIn(rows, s, b) ==
  {LeafIn(rows, s, row[3]) : row \in {r \in rows["competency"] : r[1] = s /\ r[2] = b}}
BlocksIn(rows, s) ==
  {[name |-> row[2], competencies |-> CompetenciesIn(rows, s, row[2])] :
     row \in {r \in rows["block"] : r[1] = s}}

LEMMA SnapshotByLevels ==
  ASSUME NEW rows
  PROVE  Snapshot(rows) = {[name |-> row[1], blocks |-> BlocksIn(rows, row[1])] : row \in rows["stack"]}
BY DEF Snapshot, BlocksIn, CompetenciesIn, LeafIn, LevelsIn, TopicsIn

Under(payload, s, id) == {n \in DOMAIN payload[s].nodes : payload[s].nodes[n].parent = id}
LeafOf(payload, s, c) ==
  [name |-> c, topics |-> Under(payload, s, c),
   levels |-> {<<r, payload[s].nodes[c].levels[r]>> : r \in DOMAIN payload[s].nodes[c].levels}]
BranchesOf(payload, s) ==
  {[name |-> b, competencies |-> {LeafOf(payload, s, c) : c \in Under(payload, s, b)}] :
     b \in Under(payload, s, NoParent)}

LEMMA TreeByLevels ==
  ASSUME NEW payload
  PROVE  TreeOf(payload) = {[name |-> s, blocks |-> BranchesOf(payload, s)] : s \in DOMAIN payload}
BY DEF TreeOf, BranchesOf, LeafOf, Under

LEMMA RowsByTable ==
  ASSUME NEW payload, NEW t \in Table, NEW row
  PROVE  row \in Materialise(payload)[t]
         <=> \E s \in DOMAIN payload : row \in RowsOfDocument(s, payload[s])[t]
BY DEF Materialise

LEMMA RowsMeet ==
  ASSUME NEW payload, NEW row
  PROVE  /\ row \in Materialise(payload)["stack"] <=> \E s \in DOMAIN payload : row = <<s>>
         /\ row \in Materialise(payload)["block"]
            <=> \E s \in DOMAIN payload : \E b \in BlocksOf(payload[s]) : row = <<s, b>>
         /\ row \in Materialise(payload)["competency"]
            <=> \E s \in DOMAIN payload : \E c \in CompetenciesOf(payload[s]) :
                  row = <<s, payload[s].nodes[c].parent, c>>
         /\ row \in Materialise(payload)["topic"]
            <=> \E s \in DOMAIN payload : \E n \in TopicsOf(payload[s]) :
                  row = <<s, payload[s].nodes[n].parent, n>>
         /\ row \in Materialise(payload)["level"]
            <=> \E s \in DOMAIN payload : \E c \in CompetenciesOf(payload[s]) :
                  \E r \in DOMAIN payload[s].nodes[c].levels :
                    row = <<s, c, r, payload[s].nodes[c].levels[r]>>
<1>1. /\ "stack" \in Table /\ "block" \in Table /\ "competency" \in Table
      /\ "topic" \in Table /\ "level" \in Table
  BY DEF Table
<1>2. ASSUME NEW s
      PROVE  /\ RowsOfDocument(s, payload[s])["stack"] = {<<s>>}
             /\ RowsOfDocument(s, payload[s])["block"] = {<<s, b>> : b \in BlocksOf(payload[s])}
             /\ RowsOfDocument(s, payload[s])["competency"] =
                  {<<s, payload[s].nodes[c].parent, c>> : c \in CompetenciesOf(payload[s])}
             /\ RowsOfDocument(s, payload[s])["topic"] =
                  {<<s, payload[s].nodes[n].parent, n>> : n \in TopicsOf(payload[s])}
             /\ RowsOfDocument(s, payload[s])["level"] =
                  UNION {{<<s, c, r, payload[s].nodes[c].levels[r]>> :
                            r \in DOMAIN payload[s].nodes[c].levels} : c \in CompetenciesOf(payload[s])}
  BY DEF RowsOfDocument
<1>3. row \in Materialise(payload)["stack"] <=> \E s \in DOMAIN payload : row = <<s>>
  BY <1>1, <1>2, RowsByTable
<1>4. row \in Materialise(payload)["block"]
      <=> \E s \in DOMAIN payload : \E b \in BlocksOf(payload[s]) : row = <<s, b>>
  BY <1>1, <1>2, RowsByTable
<1>5. row \in Materialise(payload)["competency"]
      <=> \E s \in DOMAIN payload : \E c \in CompetenciesOf(payload[s]) :
            row = <<s, payload[s].nodes[c].parent, c>>
  BY <1>1, <1>2, RowsByTable
<1>6. row \in Materialise(payload)["topic"]
      <=> \E s \in DOMAIN payload : \E n \in TopicsOf(payload[s]) :
            row = <<s, payload[s].nodes[n].parent, n>>
  BY <1>1, <1>2, RowsByTable
<1>7. row \in Materialise(payload)["level"]
      <=> \E s \in DOMAIN payload : \E c \in CompetenciesOf(payload[s]) :
            \E r \in DOMAIN payload[s].nodes[c].levels :
              row = <<s, c, r, payload[s].nodes[c].levels[r]>>
  BY <1>1, <1>2, RowsByTable
<1> QED BY <1>3, <1>4, <1>5, <1>6, <1>7

LEMMA UnderMeets ==
  ASSUME NEW payload, NEW s \in DOMAIN payload
  PROVE  /\ Under(payload, s, NoParent) = BlocksOf(payload[s])
         /\ \A b \in BlocksOf(payload[s]) : Under(payload, s, b) =
              {c \in CompetenciesOf(payload[s]) : payload[s].nodes[c].parent = b}
         /\ \A c \in CompetenciesOf(payload[s]) : Under(payload, s, c) =
              {n \in TopicsOf(payload[s]) : payload[s].nodes[n].parent = c}
BY DEF Under, BlocksOf, CompetenciesOf, TopicsOf

LEMMA LeavesMeet ==
  ASSUME NEW payload, NEW s \in DOMAIN payload, NEW c \in CompetenciesOf(payload[s])
  PROVE  LeafIn(Materialise(payload), s, c) = LeafOf(payload, s, c)
<1> DEFINE rows == Materialise(payload)
<1>1. TopicsIn(rows, s, c) = Under(payload, s, c)
  <2>1. ASSUME NEW n \in Under(payload, s, c) PROVE n \in TopicsIn(rows, s, c)
    <3>1. n \in TopicsOf(payload[s]) /\ payload[s].nodes[n].parent = c
      BY UnderMeets
    <3>2. <<s, c, n>> \in rows["topic"]
      BY <3>1, RowsMeet
    <3> HIDE DEF rows
    <3> QED BY <3>2 DEF TopicsIn
  <2>2. ASSUME NEW n \in TopicsIn(rows, s, c) PROVE n \in Under(payload, s, c)
    <3>1. PICK row \in rows["topic"] : row[1] = s /\ row[2] = c /\ row[3] = n
      <4> HIDE DEF rows
      <4> QED BY DEF TopicsIn
    <3>2. n \in TopicsOf(payload[s]) /\ payload[s].nodes[n].parent = c
      BY <3>1, RowsMeet
    <3> QED BY <3>2, UnderMeets
  <2> QED BY <2>1, <2>2
<1>2. LevelsIn(rows, s, c) =
        {<<r, payload[s].nodes[c].levels[r]>> : r \in DOMAIN payload[s].nodes[c].levels}
  <2>1. ASSUME NEW r \in DOMAIN payload[s].nodes[c].levels
        PROVE  <<r, payload[s].nodes[c].levels[r]>> \in LevelsIn(rows, s, c)
    <3>1. <<s, c, r, payload[s].nodes[c].levels[r]>> \in rows["level"]
      BY RowsMeet
    <3> HIDE DEF rows
    <3> QED BY <3>1 DEF LevelsIn
  <2>2. ASSUME NEW pair \in LevelsIn(rows, s, c)
        PROVE  \E r \in DOMAIN payload[s].nodes[c].levels :
                 pair = <<r, payload[s].nodes[c].levels[r]>>
    <3>1. PICK row \in rows["level"] : row[1] = s /\ row[2] = c /\ pair = <<row[3], row[4]>>
      <4> HIDE DEF rows
      <4> QED BY DEF LevelsIn
    <3> QED BY <3>1, RowsMeet
  <2> QED BY <2>1, <2>2
<1> QED BY <1>1, <1>2 DEF LeafIn, LeafOf

LEMMA BranchesMeet ==
  ASSUME NEW payload, NEW s \in DOMAIN payload
  PROVE  BlocksIn(Materialise(payload), s) = BranchesOf(payload, s)
<1> DEFINE rows == Materialise(payload)
<1> DEFINE Leaves(b) == {LeafOf(payload, s, c) : c \in Under(payload, s, b)}
<1>1. ASSUME NEW b \in BlocksOf(payload[s]) PROVE CompetenciesIn(rows, s, b) = Leaves(b)
  <2>1. ASSUME NEW c \in Under(payload, s, b) PROVE LeafOf(payload, s, c) \in CompetenciesIn(rows, s, b)
    <3>1. c \in CompetenciesOf(payload[s]) /\ payload[s].nodes[c].parent = b
      BY UnderMeets
    <3>2. <<s, b, c>> \in rows["competency"]
      BY <3>1, RowsMeet
    <3>3. LeafIn(rows, s, c) = LeafOf(payload, s, c)
      BY <3>1, LeavesMeet
    <3> HIDE DEF rows
    <3> QED BY <3>2, <3>3 DEF CompetenciesIn
  <2>2. ASSUME NEW leaf \in CompetenciesIn(rows, s, b) PROVE leaf \in Leaves(b)
    <3>1. PICK row \in rows["competency"] : row[1] = s /\ row[2] = b /\ leaf = LeafIn(rows, s, row[3])
      <4> HIDE DEF rows
      <4> QED BY DEF CompetenciesIn
    <3>2. PICK c \in CompetenciesOf(payload[s]) : row[3] = c /\ payload[s].nodes[c].parent = b
      BY <3>1, RowsMeet
    <3>3. leaf = LeafOf(payload, s, c) /\ c \in Under(payload, s, b)
      BY <3>1, <3>2, LeavesMeet, UnderMeets
    <3> QED BY <3>3
  <2> QED BY <2>1, <2>2
<1>2. BranchesOf(payload, s) = {[name |-> b, competencies |-> Leaves(b)] : b \in BlocksOf(payload[s])}
  BY UnderMeets DEF BranchesOf
<1>3. \A row : row \in rows["block"] /\ row[1] = s
               <=> \E b \in BlocksOf(payload[s]) : row = <<s, b>>
  BY RowsMeet
<1> HIDE DEF rows, Leaves
<1>4. ASSUME NEW branch \in BlocksIn(rows, s)
      PROVE  \E b \in BlocksOf(payload[s]) : branch = [name |-> b, competencies |-> Leaves(b)]
  <2>1. PICK row \in rows["block"] :
          row[1] = s /\ branch = [name |-> row[2], competencies |-> CompetenciesIn(rows, s, row[2])]
    BY DEF BlocksIn
  <2>2. PICK b \in BlocksOf(payload[s]) : row = <<s, b>>
    BY <1>3, <2>1
  <2> QED BY <1>1, <2>1, <2>2
<1>5. ASSUME NEW b \in BlocksOf(payload[s])
      PROVE  [name |-> b, competencies |-> Leaves(b)] \in BlocksIn(rows, s)
  <2>1. <<s, b>> \in rows["block"] /\ <<s, b>>[1] = s /\ <<s, b>>[2] = b
    BY <1>3
  <2> QED BY <1>1, <2>1 DEF BlocksIn
<1>6. BlocksIn(rows, s) = BranchesOf(payload, s)
  BY <1>2, <1>4, <1>5
<1> QED BY <1>6 DEF rows

LEMMA SnapshotIsTheTree == ASSUME NEW payload PROVE Snapshot(Materialise(payload)) = TreeOf(payload)
<1> DEFINE rows == Materialise(payload)
<1>1. \A row : row \in rows["stack"] <=> \E s \in DOMAIN payload : row = <<s>>
  BY RowsMeet
<1>2. \A s \in DOMAIN payload : BlocksIn(rows, s) = BranchesOf(payload, s)
  BY BranchesMeet
<1>3. Snapshot(rows) = {[name |-> row[1], blocks |-> BlocksIn(rows, row[1])] : row \in rows["stack"]}
  BY SnapshotByLevels
<1> HIDE DEF rows
<1>4. Snapshot(rows) = {[name |-> s, blocks |-> BranchesOf(payload, s)] : s \in DOMAIN payload}
  <2>1. ASSUME NEW s \in DOMAIN payload
        PROVE  [name |-> s, blocks |-> BranchesOf(payload, s)] \in Snapshot(rows)
    <3>1. <<s>> \in rows["stack"] /\ <<s>>[1] = s
      BY <1>1
    <3> QED BY <1>2, <1>3, <3>1
  <2>2. ASSUME NEW stack \in Snapshot(rows)
        PROVE  \E s \in DOMAIN payload : stack = [name |-> s, blocks |-> BranchesOf(payload, s)]
    <3>1. PICK row \in rows["stack"] : stack = [name |-> row[1], blocks |-> BlocksIn(rows, row[1])]
      BY <1>3
    <3>2. PICK s \in DOMAIN payload : row = <<s>>
      BY <1>1, <3>1
    <3>3. row[1] = s
      BY <3>2
    <3> QED BY <1>2, <3>1, <3>3
  <2> QED BY <2>1, <2>2
<1> QED BY <1>4, TreeByLevels DEF rows

\* A snapshot is one version's tree, whole, whatever commits between its
\* statements: snapshot_rubric filters every one by the version's id, and no
\* row of a version is written after its commit.
THEOREM SnapshotsAreWhole == Spec => []SnapshotIsWhole
<1>1. IInv => SnapshotIsWhole
  <2> SUFFICES ASSUME IInv, Reading, Complete
               PROVE  Snapshot(reader.rows) = TreeOf(versions[reader.version].payload)
    BY DEF SnapshotIsWhole
  <2>1. PICK v : v = reader.version
    OBVIOUS
  <2>2. PICK payload : payload = versions[v].payload
    OBVIOUS
  <2>3. reader.done = 5 /\ v \in DOMAIN versions
    BY <2>1 DEF Reading, Complete, IInv, ReaderInv, StatementOrder
  <2>4. \A i \in 1..5 : reader.rows[StatementOrder[i]] = RowsOf(StatementOrder[i], v)
    BY <2>1, <2>3 DEF IInv, ReaderInv
  <2>5. \A t \in Table : \E i \in 1..5 : StatementOrder[i] = t
    <3>1. /\ StatementOrder[1] = "stack" /\ StatementOrder[2] = "block"
          /\ StatementOrder[3] = "competency" /\ StatementOrder[4] = "topic"
          /\ StatementOrder[5] = "level"
      BY DEF StatementOrder
    <3> QED BY <3>1 DEF Table
  <2>6. \A t \in Table : reader.rows[t] = Materialise(payload)[t]
    BY <2>2, <2>3, <2>4, <2>5 DEF IInv, DataInv, TablesInv
  <2>7. reader.rows = Materialise(payload)
    BY <2>6 DEF IInv, ReaderInv, Materialise
  <2> QED BY <2>1, <2>2, <2>7, SnapshotIsTheTree
<1> QED BY <1>1, Invariant, PTL

-----------------------------------------------------------------------------
\* Folds over a sequence: what FoldLeft computes, prefix by prefix.

LEMMA LeastNat ==
  ASSUME NEW S \in SUBSET Nat, S # {}
  PROVE  \E x \in S : \A y \in S : x <= y
<1> DEFINE R == OpToRel(<, Nat)
<1>1. IsWellFoundedOn(R, Nat)
  BY NatLessThanWellFounded
<1>2. \E x \in S : \A y \in S : ~(<<y, x>> \in R)
  <2> HIDE DEF R
  <2> QED BY <1>1, WFMin
<1>3. PICK x \in S : \A y \in S : ~(<<y, x>> \in R)
  BY <1>2
<1>4. ASSUME NEW y \in S PROVE x <= y
  <2>1. y \in Nat /\ x \in Nat
    OBVIOUS
  <2>2. y < x => <<y, x>> \in R
    BY <2>1 DEF OpToRel
  <2> HIDE DEF R
  <2> QED BY <1>3, <2>1, <2>2, SMT
<1> QED BY <1>4

\* What holds of zero and passes to the next number holds of them all.
LEMMA EveryNatural ==
  ASSUME NEW S, 0 \in S, \A n \in Nat : n \in S => n + 1 \in S
  PROVE  \A n \in Nat : n \in S
<1> SUFFICES ASSUME Nat \ S # {} PROVE FALSE
  OBVIOUS
<1>1. PICK n \in Nat \ S : \A m \in Nat \ S : n <= m
  BY LeastNat
<1>2. n # 0 /\ n - 1 \in Nat
  BY <1>1
<1> QED BY <1>1, <1>2

\* A nonempty set of indices has a greatest one.
LEMMA GreatestIndex ==
  ASSUME NEW n \in Nat, NEW I \in SUBSET (1..n), I # {}
  PROVE  Max(I) \in I /\ \A j \in I : j <= Max(I)
<1> DEFINE Good == {k \in Nat : \A J \in SUBSET (1..k) : J # {} => \E m \in J : \A j \in J : m >= j}
<1>1. 0 \in Good
  <2>1. 1..0 = {}
    OBVIOUS
  <2>2. ASSUME NEW J \in SUBSET (1..0) PROVE J = {}
    BY <2>1
  <2> QED BY <2>2
<1>2. ASSUME NEW k \in Nat, k \in Good PROVE k + 1 \in Good
  <2>1. ASSUME NEW J \in SUBSET (1..(k + 1)), J # {} PROVE \E m \in J : \A j \in J : m >= j
    <3>1. CASE k + 1 \in J
      BY <2>1, <3>1
    <3>2. CASE k + 1 \notin J
      <4>1. J \in SUBSET (1..k)
        BY <2>1, <3>2
      <4> QED BY <1>2, <2>1, <4>1
    <3> QED BY <3>1, <3>2
  <2> QED BY <2>1
<1>3. n \in Good
  <2> HIDE DEF Good
  <2> QED BY <1>1, <1>2, EveryNatural
<1>4. PICK m \in I : \A j \in I : m >= j
  BY <1>3
<1>5. Max(I) \in I /\ \A j \in I : Max(I) >= j
  BY <1>4 DEF Max
<1>6. I \subseteq Nat
  OBVIOUS
<1> QED BY <1>5, <1>6

\* Both folds of a conversion, over the rows of a sheet and over the sheets.
Step(kind, read, e) == IF kind = "row" THEN ReadRow(read, e) ELSE ConvertSheet(read, e)

\* f folds every set of indices of s, the greatest one last.
Folded(kind, start, s, f, I) ==
  IF I = {} THEN start ELSE Step(kind, f[I \ {Max(I)}], s[Max(I)])
Folds(kind, start, s, f) ==
  f = [I \in SUBSET DOMAIN s |-> Folded(kind, start, s, f, I)]

\* Some function does: sets up to k need only sets up to k - 1.
LEMMA FoldsExists ==
  ASSUME NEW kind, NEW start, NEW s, NEW n \in Nat, DOMAIN s = 1..n
  PROVE  \E f : Folds(kind, start, s, f)
<1> DEFINE Fn(f) == f = [I \in SUBSET DOMAIN s |-> f[I]]
           Eq(f, I) == f[I] = Folded(kind, start, s, f, I)
           Good == {k \in Nat : \E f : Fn(f) /\ \A I \in SUBSET DOMAIN s :
                                  I \subseteq 1..k => Eq(f, I)}
<1>1. 0 \in Good
  <2> DEFINE f == [I \in SUBSET DOMAIN s |-> start]
  <2>1. ASSUME NEW I \in SUBSET DOMAIN s, I \subseteq 1..0 PROVE Eq(f, I)
    <3>1. I = {}
      BY <2>1
    <3> QED BY <3>1 DEF Folded
  <2>2. Fn(f)
    OBVIOUS
  <2> HIDE DEF f, Eq, Fn
  <2> QED BY <2>1, <2>2
<1>2. ASSUME NEW k \in Nat, k \in Good PROVE k + 1 \in Good
  <2>1. PICK f : Fn(f) /\ \A I \in SUBSET DOMAIN s : I \subseteq 1..k => Eq(f, I)
    BY <1>2
  <2> DEFINE g == [I \in SUBSET DOMAIN s |-> Folded(kind, start, s, f, I)]
  <2>2. ASSUME NEW I \in SUBSET DOMAIN s, I \subseteq 1..k PROVE g[I] = f[I]
    BY <2>1, <2>2
  <2>3. ASSUME NEW I \in SUBSET DOMAIN s, I \subseteq 1..(k + 1) PROVE Eq(g, I)
    <3>1. g[I] = Folded(kind, start, s, f, I)
      OBVIOUS
    <3>2. CASE I = {}
      BY <3>1, <3>2 DEF Folded
    <3>3. CASE I # {}
      <4>1. Max(I) \in I /\ \A j \in I : j <= Max(I)
        BY <3>3, GreatestIndex
      <4>2. \A j \in I \ {Max(I)} : j \in 1..k
        <5> TAKE j \in I \ {Max(I)}
        <5>1. j <= Max(I) /\ j # Max(I) /\ j \in 1..(k + 1) /\ Max(I) \in 1..(k + 1)
          BY <2>3, <4>1
        <5> QED BY <5>1
      <4>3. I \ {Max(I)} \in SUBSET DOMAIN s /\ I \ {Max(I)} \subseteq 1..k
        BY <4>2
      <4>4. g[I \ {Max(I)}] = f[I \ {Max(I)}]
        BY <2>2, <4>3
      <4> HIDE DEF g
      <4> QED BY <3>1, <3>3, <4>4 DEF Folded
    <3> QED BY <3>2, <3>3
  <2>4. Fn(g)
    OBVIOUS
  <2> HIDE DEF g, Eq, Fn
  <2> QED BY <2>3, <2>4
<1>3. n \in Good
  <2> HIDE DEF Good
  <2> QED BY <1>1, <1>2, EveryNatural
<1>4. PICK f : Fn(f) /\ \A I \in SUBSET DOMAIN s : Eq(f, I)
  BY <1>3
<1>5. Folds(kind, start, s, f)
  <2> DEFINE R(I) == Folded(kind, start, s, f, I)
  <2>1. \A I \in SUBSET DOMAIN s : f[I] = R(I)
    BY <1>4
  <2> HIDE DEF R
  <2>2. f = [I \in SUBSET DOMAIN s |-> R(I)]
    BY <1>4, <2>1
  <2> QED BY <2>2 DEF Folds, R
<1> QED BY <1>5

\* The results of a fold, prefix by prefix.
Folding(kind, start, s, n, g) ==
  /\ g[0] = start
  /\ \A k \in 1..n : g[k] = Step(kind, g[k - 1], s[k])

LEMMA FoldsByPrefix ==
  ASSUME NEW kind, NEW start, NEW s, NEW n \in Nat, DOMAIN s = 1..n,
         NEW f, Folds(kind, start, s, f)
  PROVE  \E g : Folding(kind, start, s, n, g) /\ g[n] = f[DOMAIN s]
<1> DEFINE g == [k \in 0..n |-> f[1..k]]
<1>1. \A I \in SUBSET DOMAIN s : f[I] = Folded(kind, start, s, f, I)
  <2> DEFINE R(I) == Folded(kind, start, s, f, I)
  <2>1. f = [I \in SUBSET DOMAIN s |-> R(I)]
    BY DEF Folds
  <2> HIDE DEF R
  <2>2. \A I \in SUBSET DOMAIN s : f[I] = R(I)
    BY <2>1
  <2> QED BY <2>2 DEF R
<1>2. g[0] = start
  <2>1. 1..0 = {} /\ {} \in SUBSET DOMAIN s
    OBVIOUS
  <2>2. f[1..0] = start
    BY <1>1, <2>1 DEF Folded
  <2>3. g[0] = f[1..0]
    OBVIOUS
  <2> QED BY <2>2, <2>3
<1>3. ASSUME NEW k \in 1..n PROVE g[k] = Step(kind, g[k - 1], s[k])
  <2>1. 1..k \in SUBSET (1..n) /\ 1..k # {}
    OBVIOUS
  <2>2. Max(1..k) \in 1..k /\ \A j \in 1..k : j <= Max(1..k)
    BY <2>1, GreatestIndex
  <2>3. Max(1..k) = k
    BY <2>2
  <2>4. (1..k) \ {k} = 1..(k - 1)
    OBVIOUS
  <2>5. f[1..k] = Step(kind, f[1..(k - 1)], s[k])
    BY <1>1, <2>1, <2>3, <2>4 DEF Folded
  <2> QED BY <2>5
<1>4. g[n] = f[1..n]
  OBVIOUS
<1> HIDE DEF g
<1> QED BY <1>2, <1>3, <1>4 DEF Folding

LEMMA RowsFold ==
  ASSUME NEW start, NEW s, NEW n \in Nat, DOMAIN s = 1..n
  PROVE  \E g : Folding("row", start, s, n, g) /\ FoldLeft(ReadRow, start, s) = g[n]
<1> DEFINE f == CHOOSE f : Folds("row", start, s, f)
<1>1. Folds("row", start, s, f)
  BY FoldsExists
<1>2. FoldLeft(ReadRow, start, s) = f[DOMAIN s]
  BY DEF FoldLeft, MapThenFoldSet, Folds, Folded, Step
<1> HIDE DEF f
<1> QED BY <1>1, <1>2, FoldsByPrefix

LEMMA SheetsFold ==
  ASSUME NEW start, NEW s, NEW n \in Nat, DOMAIN s = 1..n
  PROVE  \E g : Folding("sheet", start, s, n, g) /\ FoldLeft(ConvertSheet, start, s) = g[n]
<1> DEFINE f == CHOOSE f : Folds("sheet", start, s, f)
<1>1. Folds("sheet", start, s, f)
  BY FoldsExists
<1>2. FoldLeft(ConvertSheet, start, s) = f[DOMAIN s]
  BY DEF FoldLeft, MapThenFoldSet, Folds, Folded, Step
<1> HIDE DEF f
<1> QED BY <1>1, <1>2, FoldsByPrefix

-----------------------------------------------------------------------------
\* Reading a sheet.

\* The competencies read are what the first k rows say.
Reads(rows, k, comps) ==
  /\ DOMAIN comps \subseteq Competency
  /\ \A i \in 1..k : rows[i].competency_id # NoCell =>
       LET c == rows[i].competency_id
       IN  /\ c \in DOMAIN comps /\ comps[c].block = BlockIdOf[rows[i].block]
           /\ rows[i].level \in DOMAIN comps[c].levels
           /\ comps[c].levels[rows[i].level] = rows[i].text
  /\ \A c \in DOMAIN comps :
       /\ comps[c] = [block |-> comps[c].block, retired |-> comps[c].retired,
                      levels |-> comps[c].levels]
       /\ \E i \in 1..k : rows[i].competency_id = c /\ c # NoCell
       /\ \A r \in DOMAIN comps[c].levels :
            \E i \in 1..k : rows[i].competency_id = c /\ c # NoCell /\ rows[i].level = r
IsRead(read) == read = [error |-> read.error, comps |-> read.comps]

\* One more row adds what it says, over nothing that was there.
LEMMA RowAdds ==
  ASSUME NEW rows, NEW k \in Nat, NEW comps, Reads(rows, k, comps),
         rows[k + 1].competency_id # NoCell, RowError(comps, rows[k + 1]) = "none"
  PROVE  Reads(rows, k + 1, WithRow(comps, rows[k + 1]))
<1> DEFINE row == rows[k + 1]
           id == row.competency_id
           comp == IF id \in DOMAIN comps THEN comps[id]
                   ELSE [block |-> BlockIdOf[row.block], retired |-> row.retired, levels |-> <<>>]
           next == [comp EXCEPT !.levels = Put(@, row.level, row.text)]
           after == WithRow(comps, row)
<1>1. /\ id \in Competency
      /\ id \in DOMAIN comps => /\ comps[id].block = BlockIdOf[row.block]
                                /\ row.level \notin DOMAIN comps[id].levels
  BY DEF RowError
<1>2. /\ comp = [block |-> comp.block, retired |-> comp.retired, levels |-> comp.levels]
      /\ comp.block = BlockIdOf[row.block] /\ row.level \notin DOMAIN comp.levels
      /\ id \notin DOMAIN comps => DOMAIN comp.levels = {}
  BY <1>1 DEF Reads
<1>3. after = Put(comps, id, next)
  BY DEF WithRow
<1> HIDE DEF next
<1>4. DOMAIN after = DOMAIN comps \cup {id} /\ after[id] = next
      /\ \A c \in DOMAIN comps : c # id => after[c] = comps[c]
  <2> HIDE DEF after, row, comp
  <2> QED BY <1>3 DEF Put
<1> HIDE DEF comp
<1>5. /\ next = [block |-> next.block, retired |-> next.retired, levels |-> next.levels]
      /\ next.block = BlockIdOf[row.block] /\ next.levels = Put(comp.levels, row.level, row.text)
  BY <1>2 DEF next
<1>6. /\ DOMAIN next.levels = DOMAIN comp.levels \cup {row.level}
      /\ next.levels[row.level] = row.text
      /\ \A r \in DOMAIN comp.levels : next.levels[r] = comp.levels[r]
  <2>1. row.level \notin DOMAIN comp.levels /\ next.levels = Put(comp.levels, row.level, row.text)
    BY <1>2, <1>5
  <2> HIDE DEF row
  <2> QED BY <2>1 DEF Put
<1>7. id \in DOMAIN comps => comp = comps[id]
  BY DEF comp
<1> HIDE DEF after
<1>8. DOMAIN after \subseteq Competency
  BY <1>1, <1>4 DEF Reads
<1>9. ASSUME NEW i \in 1..(k + 1), rows[i].competency_id # NoCell, NEW c, c = rows[i].competency_id
      PROVE  /\ c \in DOMAIN after /\ after[c].block = BlockIdOf[rows[i].block]
             /\ rows[i].level \in DOMAIN after[c].levels
             /\ after[c].levels[rows[i].level] = rows[i].text
  <2>1. CASE i = k + 1
    BY <1>4, <1>5, <1>6, <1>9, <2>1
  <2>2. CASE i \in 1..k
    <3>1. /\ c \in DOMAIN comps /\ comps[c].block = BlockIdOf[rows[i].block]
          /\ rows[i].level \in DOMAIN comps[c].levels
          /\ comps[c].levels[rows[i].level] = rows[i].text
      BY <1>9, <2>2 DEF Reads
    <3>2. CASE c # id
      BY <1>4, <3>1, <3>2
    <3>3. CASE c = id
      <4>1. comp = comps[id] /\ after[c] = next
        BY <1>4, <1>7, <3>1, <3>3
      <4>2. rows[i].level \in DOMAIN comp.levels /\ comp.levels[rows[i].level] = rows[i].text
        BY <3>1, <3>3, <4>1
      <4>3. next.block = BlockIdOf[rows[i].block]
        BY <1>1, <1>5, <3>1, <3>3
      <4> QED BY <1>4, <1>6, <3>3, <4>1, <4>2, <4>3
    <3> QED BY <3>2, <3>3
  <2> QED BY <1>9, <2>1, <2>2
<1>10. ASSUME NEW c \in DOMAIN after
       PROVE  /\ after[c] = [block |-> after[c].block, retired |-> after[c].retired,
                             levels |-> after[c].levels]
              /\ \E i \in 1..(k + 1) : rows[i].competency_id = c /\ c # NoCell
              /\ \A r \in DOMAIN after[c].levels :
                   \E i \in 1..(k + 1) : rows[i].competency_id = c /\ c # NoCell /\ rows[i].level = r
  <2>1. CASE c = id
    <3>1. after[c] = next
      BY <1>4, <2>1
    <3>2. ASSUME NEW r \in DOMAIN after[c].levels
          PROVE  \E i \in 1..(k + 1) : rows[i].competency_id = c /\ c # NoCell /\ rows[i].level = r
      <4>1. CASE r = row.level
        BY <2>1, <4>1
      <4>2. CASE r # row.level
        <5>1. r \in DOMAIN comp.levels
          BY <1>6, <3>1, <3>2, <4>2
        <5>2. id \in DOMAIN comps /\ r \in DOMAIN comps[id].levels
          BY <1>2, <1>7, <5>1
        <5>3. PICK i \in 1..k : rows[i].competency_id = id /\ id # NoCell /\ rows[i].level = r
          BY <5>2 DEF Reads
        <5>4. i \in 1..(k + 1)
          OBVIOUS
        <5> QED BY <2>1, <5>3, <5>4
      <4> QED BY <4>1, <4>2
    <3>3. \E i \in 1..(k + 1) : rows[i].competency_id = c /\ c # NoCell
      BY <2>1
    <3> QED BY <1>5, <3>1, <3>2, <3>3
  <2>2. CASE c # id
    <3>1. c \in DOMAIN comps /\ after[c] = comps[c]
      BY <1>4, <2>2
    <3>2. 1..k \subseteq 1..(k + 1)
      OBVIOUS
    <3>3. /\ comps[c] = [block |-> comps[c].block, retired |-> comps[c].retired,
                         levels |-> comps[c].levels]
          /\ \E i \in 1..k : rows[i].competency_id = c /\ c # NoCell
          /\ \A r \in DOMAIN comps[c].levels :
               \E i \in 1..k : rows[i].competency_id = c /\ c # NoCell /\ rows[i].level = r
      BY <3>1 DEF Reads
    <3> QED BY <3>1, <3>2, <3>3
  <2> QED BY <2>1, <2>2
<1>11. Reads(rows, k + 1, after)
  BY <1>8, <1>9, <1>10 DEF Reads
<1> QED BY <1>11 DEF after

\* A sheet that is read without an error is what its rows say.
LEMMA SheetIsRead ==
  ASSUME NEW sheet, NEW n \in Nat, DOMAIN sheet.rows = 1..n, ReadSheet(sheet).error = "none"
  PROVE  Reads(sheet.rows, n, ReadSheet(sheet).comps)
<1> DEFINE rows == sheet.rows
           error == IF sheet.header = {} THEN "none"
                    ELSE IF "column" \in sheet.header THEN "unknown_column" ELSE "merged_key"
           start == [error |-> error, comps |-> <<>>]
<1>1. ReadSheet(sheet) = FoldLeft(ReadRow, start, rows)
  BY DEF ReadSheet
<1>2. start.comps = <<>> /\ IsRead(start)
  BY DEF IsRead
<1> HIDE DEF start, rows, error
<1>3. PICK g : Folding("row", start, rows, n, g) /\ ReadSheet(sheet) = g[n]
  BY <1>1, RowsFold DEF rows
<1> DEFINE Good == {k \in Nat : k <= n =>
                      IsRead(g[k]) /\ (g[k].error = "none" => Reads(rows, k, g[k].comps))}
<1>4. 0 \in Good
  <2>1. g[0] = start
    BY <1>3 DEF Folding
  <2>2. Reads(rows, 0, <<>>)
    BY DEF Reads
  <2> QED BY <1>2, <2>1, <2>2
<1>5. ASSUME NEW k \in Nat, k \in Good PROVE k + 1 \in Good
  <2> SUFFICES ASSUME k + 1 <= n
               PROVE  /\ IsRead(g[k + 1])
                      /\ g[k + 1].error = "none" => Reads(rows, k + 1, g[k + 1].comps)
    OBVIOUS
  <2>1. g[k + 1] = ReadRow(g[k], rows[k + 1])
    <3>1. k + 1 \in 1..n /\ (k + 1) - 1 = k
      OBVIOUS
    <3>2. g[k + 1] = Step("row", g[(k + 1) - 1], rows[k + 1])
      BY <1>3, <3>1 DEF Folding
    <3> QED BY <3>1, <3>2 DEF Step
  <2>2. IsRead(g[k]) /\ (g[k].error = "none" => Reads(rows, k, g[k].comps))
    BY <1>5
  <2> DEFINE read == g[k]
             row == rows[k + 1]
  <2>3. g[k + 1] = ReadRow(read, row)
    BY <2>1
  <2> HIDE DEF Good
  <2>4. CASE read.error # "none"
    <3>1. g[k + 1] = read
      BY <2>3, <2>4 DEF ReadRow
    <3> QED BY <2>2, <2>4, <3>1
  <2>5. CASE read.error = "none" /\ row.competency_id = NoCell
    <3>1. g[k + 1] = read
      BY <2>3, <2>5 DEF ReadRow
    <3>2. Reads(rows, k + 1, read.comps)
      <4>1. ASSUME NEW i \in 1..(k + 1), rows[i].competency_id # NoCell PROVE i \in 1..k
        BY <2>5, <4>1
      <4>2. 1..k \subseteq 1..(k + 1)
        OBVIOUS
      <4>3. Reads(rows, k, read.comps)
        BY <2>2, <2>5
      <4> HIDE DEF read
      <4> QED BY <4>1, <4>2, <4>3 DEF Reads
    <3> QED BY <2>2, <3>1, <3>2
  <2>6. CASE read.error = "none" /\ row.competency_id # NoCell
    <3>1. CASE RowError(read.comps, row) = "none"
      <4>1. g[k + 1] = [read EXCEPT !.comps = WithRow(@, row)]
        BY <2>3, <2>6, <3>1 DEF ReadRow
      <4>2. IsRead(g[k + 1]) /\ g[k + 1].comps = WithRow(read.comps, row)
        BY <2>2, <4>1 DEF IsRead
      <4>3. Reads(rows, k + 1, WithRow(read.comps, row))
        BY <2>2, <2>6, <3>1, RowAdds
      <4> QED BY <4>2, <4>3
    <3>2. CASE RowError(read.comps, row) # "none"
      <4>1. g[k + 1] = [read EXCEPT !.error = RowError(read.comps, row)]
        BY <2>3, <2>6, <3>2 DEF ReadRow
      <4>2. IsRead(g[k + 1]) /\ g[k + 1].error # "none"
        BY <2>2, <3>2, <4>1 DEF IsRead
      <4> QED BY <4>2
    <3> QED BY <3>1, <3>2
  <2> QED BY <2>4, <2>5, <2>6
<1>6. n \in Good
  <2> HIDE DEF Good
  <2> QED BY <1>4, <1>5, EveryNatural
<1> QED BY <1>3, <1>6 DEF rows

-----------------------------------------------------------------------------
\* From the sheets to the tables.

\* A document that passes the schema keeps its competencies apart from its
\* blocks.
LEMMA DocumentIsRead ==
  ASSUME NEW comps, DOMAIN comps \subseteq Competency,
         \A c \in DOMAIN comps : comps[c].block \in BlockId \cup {BadBlockId},
         SchemaError(SheetDocument(comps)) = "none"
  PROVE  LET doc == SheetDocument(comps)
         IN  /\ CompetenciesOf(doc) = DOMAIN comps
             /\ \A c \in DOMAIN comps : /\ doc.nodes[c].parent = comps[c].block
                                        /\ doc.nodes[c].levels = comps[c].levels
<1> DEFINE doc == SheetDocument(comps)
           blocks == {comps[c].block : c \in DOMAIN comps}
<1>1. /\ DOMAIN doc.nodes = blocks \cup DOMAIN comps
      /\ \A id \in blocks : doc.nodes[id].parent = NoParent
      /\ \A id \in DOMAIN comps : id \notin blocks =>
           doc.nodes[id].parent = comps[id].block /\ doc.nodes[id].levels = comps[id].levels
  BY DEF SheetDocument
<1>2. BadBlockId \notin DOMAIN doc.nodes
  BY DEF SchemaError
<1>3. \A c \in DOMAIN comps : comps[c].block \in blocks
  OBVIOUS
<1>4. blocks \subseteq BlockId \cup {BadBlockId}
  OBVIOUS
<1> HIDE DEF doc, blocks
<1>5. blocks \subseteq BlockId
  BY <1>1, <1>2, <1>4
<1>6. blocks \cap DOMAIN comps = {} /\ NoParent \notin blocks
  BY <1>5, RubricAssumption
<1>7. \A c \in DOMAIN comps : doc.nodes[c].parent = comps[c].block
                              /\ doc.nodes[c].levels = comps[c].levels
  BY <1>1, <1>6
<1>8. BlocksOf(doc) = blocks
  BY <1>1, <1>3, <1>6, <1>7 DEF BlocksOf
<1>9. CompetenciesOf(doc) = DOMAIN comps
  BY <1>1, <1>3, <1>6, <1>7, <1>8 DEF CompetenciesOf
<1> QED BY <1>7, <1>9 DEF doc

\* What has been written after k sheets.
Document(sheet) == SheetDocument(ReadSheet(sheet).comps)
LastOf(w, k, i) == \A m \in 1..k : ~w[m].hidden /\ w[m].stack = w[i].stack => m <= i
Wrote(w, k, result) ==
  \A i \in 1..k : ~w[i].hidden =>
    /\ ReadSheet(w[i]).error = "none" /\ SchemaError(Document(w[i])) = "none"
    /\ LastOf(w, k, i) => /\ w[i].stack \in DOMAIN result.files
                          /\ result.files[w[i].stack] = Document(w[i])
IsResult(result) == result = [error |-> result.error, files |-> result.files]

LEMMA SheetWrites ==
  ASSUME NEW w, NEW k \in Nat, NEW result, IsResult(result),
         result.error = "none" => Wrote(w, k, result)
  PROVE  LET next == ConvertSheet(result, w[k + 1])
         IN  IsResult(next) /\ (next.error = "none" => Wrote(w, k + 1, next))
<1> DEFINE sheet == w[k + 1]
           doc == Document(sheet)
           error == IF sheet.stack \notin Stack THEN "empty_cell"
                    ELSE IF ReadSheet(sheet).error # "none" THEN ReadSheet(sheet).error
                    ELSE SchemaError(doc)
           next == ConvertSheet(result, sheet)
<1>1. next = IF result.error # "none" \/ sheet.hidden THEN result
             ELSE IF error # "none" THEN [result EXCEPT !.error = error]
             ELSE [result EXCEPT !.files = Put(@, sheet.stack, doc)]
  BY DEF ConvertSheet, Document
<1> HIDE DEF next, doc, error
<1>2. ASSUME NEW i \in 1..k, LastOf(w, k + 1, i) PROVE LastOf(w, k, i)
  BY <1>2 DEF LastOf
<1>3. CASE result.error # "none"
  BY <1>1, <1>3 DEF next
<1>4. CASE result.error = "none" /\ sheet.hidden
  <2>1. next = result
    BY <1>1, <1>4
  <2>2. \A i \in 1..(k + 1) : ~w[i].hidden => i \in 1..k
    BY <1>4
  <2>3. Wrote(w, k, result)
    BY <1>4
  <2>4. Wrote(w, k + 1, result)
    BY <1>2, <2>2, <2>3 DEF Wrote
  <2> QED BY <2>1, <2>4 DEF next
<1>5. CASE result.error = "none" /\ ~sheet.hidden /\ error # "none"
  <2>1. next = [result EXCEPT !.error = error]
    BY <1>1, <1>5
  <2>2. IsResult(next) /\ next.error # "none"
    BY <1>5, <2>1 DEF IsResult
  <2> QED BY <2>2 DEF next
<1>6. CASE result.error = "none" /\ ~sheet.hidden /\ error = "none"
  <2>1. next = [result EXCEPT !.files = Put(@, sheet.stack, doc)]
    BY <1>1, <1>6
  <2>2. IsResult(next) /\ next.files = Put(result.files, sheet.stack, doc)
    BY <2>1 DEF IsResult
  <2>3. ReadSheet(sheet).error = "none" /\ SchemaError(doc) = "none"
    BY <1>6 DEF error
  <2>4. /\ sheet.stack \in DOMAIN next.files /\ next.files[sheet.stack] = doc
        /\ \A s \in DOMAIN result.files : s # sheet.stack =>
             s \in DOMAIN next.files /\ next.files[s] = result.files[s]
    <3> HIDE DEF sheet
    <3> QED BY <2>2 DEF Put
  <2>5. Wrote(w, k, result)
    BY <1>6
  <2>6. ASSUME NEW i \in 1..(k + 1), ~w[i].hidden
        PROVE  /\ ReadSheet(w[i]).error = "none" /\ SchemaError(Document(w[i])) = "none"
               /\ LastOf(w, k + 1, i) => /\ w[i].stack \in DOMAIN next.files
                                         /\ next.files[w[i].stack] = Document(w[i])
    <3>1. CASE i = k + 1
      BY <2>3, <2>4, <3>1 DEF doc
    <3>2. CASE i \in 1..k
      <4>1. /\ ReadSheet(w[i]).error = "none" /\ SchemaError(Document(w[i])) = "none"
            /\ LastOf(w, k, i) => /\ w[i].stack \in DOMAIN result.files
                                  /\ result.files[w[i].stack] = Document(w[i])
        BY <2>5, <2>6, <3>2 DEF Wrote
      <4>2. LastOf(w, k + 1, i) => w[i].stack # sheet.stack
        BY <1>6, <3>2 DEF LastOf
      <4> QED BY <1>2, <2>4, <3>2, <4>1, <4>2
    <3> QED BY <3>1, <3>2
  <2>7. Wrote(w, k + 1, next)
    BY <2>6 DEF Wrote
  <2> QED BY <2>2, <2>7 DEF next
<1> QED BY <1>3, <1>4, <1>5, <1>6

\* A conversion that comes through has written every stack's last sheet.
LEMMA ConvertWrites ==
  ASSUME NEW w, NEW files, NEW n \in Nat, DOMAIN w = 1..n, Convert(files, w).error = "none"
  PROVE  Wrote(w, n, Convert(files, w))
<1> DEFINE start == [error |-> "none", files |-> files]
<1>1. Convert(files, w) = FoldLeft(ConvertSheet, start, w)
  BY DEF Convert
<1>2. IsResult(start)
  BY DEF IsResult
<1> HIDE DEF start
<1>3. PICK g : Folding("sheet", start, w, n, g) /\ Convert(files, w) = g[n]
  BY <1>1, SheetsFold
<1> DEFINE Good == {k \in Nat : k <= n =>
                      IsResult(g[k]) /\ (g[k].error = "none" => Wrote(w, k, g[k]))}
<1>4. 0 \in Good
  BY <1>2, <1>3 DEF Folding, Wrote
<1>5. ASSUME NEW k \in Nat, k \in Good PROVE k + 1 \in Good
  <2> SUFFICES ASSUME k + 1 <= n
               PROVE  IsResult(g[k + 1]) /\ (g[k + 1].error = "none" => Wrote(w, k + 1, g[k + 1]))
    OBVIOUS
  <2>1. k + 1 \in 1..n /\ (k + 1) - 1 = k
    OBVIOUS
  <2>2. g[k + 1] = Step("sheet", g[(k + 1) - 1], w[k + 1])
    BY <1>3, <2>1 DEF Folding
  <2>3. g[k + 1] = ConvertSheet(g[k], w[k + 1])
    BY <2>1, <2>2 DEF Step
  <2>4. IsResult(g[k]) /\ (g[k].error = "none" => Wrote(w, k, g[k]))
    BY <1>5
  <2> HIDE DEF Good
  <2> QED BY <2>3, <2>4, SheetWrites
<1>6. n \in Good
  <2> HIDE DEF Good
  <2> QED BY <1>4, <1>5, EveryNatural
<1> QED BY <1>3, <1>6

\* The rows of a competency table and of a level table, of the stacks a
\* conversion has written, are those the workbook states.
LEMMA ConvertedRows ==
  ASSUME NEW w \in Workbooks, NEW files, Convert(files, w).error = "none", NEW row
  PROVE  LET tables1 == Materialise(Convert(files, w).files)
             stacks == {w[i].stack : i \in Shown(w)}
         IN  /\ (row \in tables1["level"] /\ row[1] \in stacks) <=>
                  \E c \in StatedIn(w) : row = <<c[1], c[2].competency_id, c[2].level, c[2].text>>
             /\ (row \in tables1["competency"] /\ row[1] \in stacks) <=>
                  \E c \in StatedIn(w) : row = <<c[1], BlockIdOf[c[2].block], c[2].competency_id>>
<1> DEFINE payload == Convert(files, w).files
           stacks == {w[i].stack : i \in Shown(w)}
           comps(i) == ReadSheet(w[i]).comps
<1>1. PICK n \in Nat : DOMAIN w = 1..n
  BY WorkbookAssumption
<1>2. Wrote(w, n, Convert(files, w))
  BY <1>1, ConvertWrites
<1>3. \A i \in Shown(w) : i \in 1..n /\ ~w[i].hidden /\ LastOf(w, n, i)
  BY <1>1 DEF Shown, LastOf
<1>4. ASSUME NEW i \in Shown(w)
      PROVE  \E m \in Nat : DOMAIN w[i].rows = 1..m /\ Reads(w[i].rows, m, comps(i))
  <2>1. PICK m \in Nat : DOMAIN w[i].rows = 1..m
    BY <1>1, <1>3, WorkbookAssumption
  <2>2. ReadSheet(w[i]).error = "none"
    BY <1>2, <1>3 DEF Wrote
  <2> QED BY <2>1, <2>2, SheetIsRead
<1>5. ASSUME NEW i \in Shown(w)
      PROVE  LET s == w[i].stack
             IN  /\ s \in DOMAIN payload
                 /\ CompetenciesOf(payload[s]) = DOMAIN comps(i)
                 /\ \A c \in DOMAIN comps(i) : /\ payload[s].nodes[c].parent = comps(i)[c].block
                                               /\ payload[s].nodes[c].levels = comps(i)[c].levels
  <2>1. PICK m \in Nat : DOMAIN w[i].rows = 1..m /\ Reads(w[i].rows, m, comps(i))
    BY <1>4
  <2>2. \A k \in 1..m : w[i].rows[k].block \in BlockName
    BY <1>1, <1>3, <2>1, WorkbookAssumption
  <2>3. \A c \in DOMAIN comps(i) : comps(i)[c].block \in BlockId \cup {BadBlockId}
    <3> TAKE c \in DOMAIN comps(i)
    <3> HIDE DEF comps
    <3>1. PICK k \in 1..m : w[i].rows[k].competency_id = c /\ c # NoCell
      BY <2>1 DEF Reads
    <3>2. comps(i)[c].block = BlockIdOf[w[i].rows[k].block]
      BY <2>1, <3>1 DEF Reads
    <3> QED BY <2>2, <3>2, RubricAssumption
  <2>4. /\ w[i].stack \in DOMAIN payload /\ payload[w[i].stack] = SheetDocument(comps(i))
        /\ SchemaError(SheetDocument(comps(i))) = "none"
    BY <1>2, <1>3 DEF Wrote, Document
  <2>5. DOMAIN comps(i) \subseteq Competency
    BY <2>1 DEF Reads
  <2> HIDE DEF comps, payload
  <2> QED BY <2>3, <2>4, <2>5, DocumentIsRead
<1>6. \A s \in stacks : \E i \in Shown(w) : w[i].stack = s
  OBVIOUS
<1>7. ASSUME NEW i \in Shown(w), NEW m \in Nat, DOMAIN w[i].rows = 1..m,
             NEW k \in 1..m, w[i].rows[k].competency_id # NoCell
      PROVE  <<w[i].stack, w[i].rows[k]>> \in StatedIn(w) /\ w[i].stack \in stacks
  BY <1>7 DEF StatedIn
<1>8. ASSUME NEW c \in StatedIn(w)
      PROVE  \E i \in Shown(w) : \E k \in DOMAIN w[i].rows :
               c = <<w[i].stack, w[i].rows[k]>> /\ w[i].rows[k].competency_id # NoCell
  BY DEF StatedIn
<1> HIDE DEF stacks, payload, comps
<1>9. ASSUME row \in Materialise(payload)["level"], row[1] \in stacks
      PROVE  \E c \in StatedIn(w) : row = <<c[1], c[2].competency_id, c[2].level, c[2].text>>
  <2>1. PICK s \in DOMAIN payload : \E c \in CompetenciesOf(payload[s]) :
          \E r \in DOMAIN payload[s].nodes[c].levels : row = <<s, c, r, payload[s].nodes[c].levels[r]>>
    BY <1>9, RowsMeet
  <2>2. PICK c \in CompetenciesOf(payload[s]) :
          \E r \in DOMAIN payload[s].nodes[c].levels : row = <<s, c, r, payload[s].nodes[c].levels[r]>>
    BY <2>1
  <2>3. PICK r \in DOMAIN payload[s].nodes[c].levels : row = <<s, c, r, payload[s].nodes[c].levels[r]>>
    BY <2>2
  <2>4. PICK i \in Shown(w) : w[i].stack = s
    BY <1>6, <1>9, <2>3
  <2>5. PICK m \in Nat : DOMAIN w[i].rows = 1..m /\ Reads(w[i].rows, m, comps(i))
    BY <1>4
  <2>6. c \in DOMAIN comps(i) /\ payload[s].nodes[c].levels = comps(i)[c].levels
    BY <1>5, <2>4
  <2>7. PICK k \in 1..m : /\ w[i].rows[k].competency_id = c /\ c # NoCell
                          /\ w[i].rows[k].level = r
    BY <2>3, <2>5, <2>6 DEF Reads
  <2>8. comps(i)[c].levels[r] = w[i].rows[k].text
    BY <2>5, <2>7 DEF Reads
  <2>9. <<s, w[i].rows[k]>> \in StatedIn(w)
    BY <1>7, <2>4, <2>5, <2>7
  <2>10. row = <<s, w[i].rows[k].competency_id, w[i].rows[k].level, w[i].rows[k].text>>
    BY <2>3, <2>6, <2>7, <2>8
  <2> QED BY <2>9, <2>10
<1>10. ASSUME NEW c \in StatedIn(w), row = <<c[1], c[2].competency_id, c[2].level, c[2].text>>
       PROVE  row \in Materialise(payload)["level"] /\ row[1] \in stacks
  <2>1. PICK i \in Shown(w) : \E k \in DOMAIN w[i].rows :
          c = <<w[i].stack, w[i].rows[k]>> /\ w[i].rows[k].competency_id # NoCell
    BY <1>8
  <2>2. PICK m \in Nat : DOMAIN w[i].rows = 1..m /\ Reads(w[i].rows, m, comps(i))
    BY <1>4
  <2>3. PICK k \in 1..m : c = <<w[i].stack, w[i].rows[k]>> /\ w[i].rows[k].competency_id # NoCell
    BY <2>1, <2>2
  <2>4. PICK s, id, r, t : /\ s = w[i].stack /\ id = w[i].rows[k].competency_id
                           /\ r = w[i].rows[k].level /\ t = w[i].rows[k].text
    OBVIOUS
  <2>5. row = <<s, id, r, t>> /\ row[1] = s
    BY <1>10, <2>3, <2>4
  <2>6. /\ id \in DOMAIN comps(i) /\ r \in DOMAIN comps(i)[id].levels
        /\ comps(i)[id].levels[r] = t
    BY <2>2, <2>3, <2>4 DEF Reads
  <2>7. /\ s \in DOMAIN payload /\ id \in CompetenciesOf(payload[s])
        /\ payload[s].nodes[id].levels = comps(i)[id].levels
    BY <1>5, <2>4, <2>6
  <2>8. row \in Materialise(payload)["level"]
    BY <2>5, <2>6, <2>7, RowsMeet
  <2> QED BY <1>7, <2>2, <2>3, <2>4, <2>5, <2>8
<1>11. ASSUME row \in Materialise(payload)["competency"], row[1] \in stacks
       PROVE  \E c \in StatedIn(w) : row = <<c[1], BlockIdOf[c[2].block], c[2].competency_id>>
  <2>1. PICK s \in DOMAIN payload : \E c \in CompetenciesOf(payload[s]) :
          row = <<s, payload[s].nodes[c].parent, c>>
    BY <1>11, RowsMeet
  <2>2. PICK c \in CompetenciesOf(payload[s]) : row = <<s, payload[s].nodes[c].parent, c>>
    BY <2>1
  <2>3. PICK i \in Shown(w) : w[i].stack = s
    BY <1>6, <1>11, <2>2
  <2>4. PICK m \in Nat : DOMAIN w[i].rows = 1..m /\ Reads(w[i].rows, m, comps(i))
    BY <1>4
  <2>5. c \in DOMAIN comps(i) /\ payload[s].nodes[c].parent = comps(i)[c].block
    BY <1>5, <2>3
  <2>6. PICK k \in 1..m : w[i].rows[k].competency_id = c /\ c # NoCell
    BY <2>4, <2>5 DEF Reads
  <2>7. comps(i)[c].block = BlockIdOf[w[i].rows[k].block]
    BY <2>4, <2>6 DEF Reads
  <2>8. <<s, w[i].rows[k]>> \in StatedIn(w)
    BY <1>7, <2>3, <2>4, <2>6
  <2>9. row = <<s, BlockIdOf[w[i].rows[k].block], w[i].rows[k].competency_id>>
    BY <2>2, <2>5, <2>6, <2>7
  <2> QED BY <2>8, <2>9
<1>12. ASSUME NEW c \in StatedIn(w), row = <<c[1], BlockIdOf[c[2].block], c[2].competency_id>>
       PROVE  row \in Materialise(payload)["competency"] /\ row[1] \in stacks
  <2>1. PICK i \in Shown(w) : \E k \in DOMAIN w[i].rows :
          c = <<w[i].stack, w[i].rows[k]>> /\ w[i].rows[k].competency_id # NoCell
    BY <1>8
  <2>2. PICK m \in Nat : DOMAIN w[i].rows = 1..m /\ Reads(w[i].rows, m, comps(i))
    BY <1>4
  <2>3. PICK k \in 1..m : c = <<w[i].stack, w[i].rows[k]>> /\ w[i].rows[k].competency_id # NoCell
    BY <2>1, <2>2
  <2>4. PICK s, id, b : /\ s = w[i].stack /\ id = w[i].rows[k].competency_id
                        /\ b = BlockIdOf[w[i].rows[k].block]
    OBVIOUS
  <2>5. row = <<s, b, id>> /\ row[1] = s
    BY <1>12, <2>3, <2>4
  <2>6. id \in DOMAIN comps(i) /\ comps(i)[id].block = b
    BY <2>2, <2>3, <2>4 DEF Reads
  <2>7. /\ s \in DOMAIN payload /\ id \in CompetenciesOf(payload[s])
        /\ payload[s].nodes[id].parent = b
    BY <1>5, <2>4, <2>6
  <2>8. row \in Materialise(payload)["competency"]
    BY <2>5, <2>7, RowsMeet
  <2> QED BY <1>7, <2>2, <2>3, <2>4, <2>5, <2>8
<1> QED BY <1>9, <1>10, <1>11, <1>12 DEF stacks, payload

\* What a push says of a workbook is so: it converted it, and came through.
ConvertInv ==
  \A k \in DOMAIN main : main[k].workbook # NoWorkbook =>
    /\ main[k].workbook \in Workbooks
    /\ \E files : /\ Convert(files, main[k].workbook).error = "none"
                  /\ main[k].payload = Convert(files, main[k].workbook).files

LEMMA ConvertKept == IInv /\ ConvertInv /\ [Next]_vars => ConvertInv'
<1> SUFFICES ASSUME IInv, ConvertInv, [Next]_vars PROVE ConvertInv'
  OBVIOUS
<1>1. CASE UNCHANGED main
  BY <1>1 DEF ConvertInv
<1>2. CASE Push
  <2>1. PICK push : /\ main' = Append(main, push)
                    /\ push.workbook # NoWorkbook =>
                         /\ push.workbook \in Workbooks
                         /\ \E files : /\ Convert(files, push.workbook).error = "none"
                                       /\ push.payload = Convert(files, push.workbook).files
    <3>1. PICK cited \in BOOLEAN :
            \/ \E p \in NextPayloads[Len(main)] :
                 main' = Append(main, [payload |-> p, cited |-> cited, workbook |-> NoWorkbook])
            \/ \E w \in Workbooks :
                 main' = Append(main, [payload |-> Convert(Checkout(Len(main)), w).files,
                                       cited |-> cited,
                                       workbook |-> IF Convert(Checkout(Len(main)), w).error = "none"
                                                    THEN w ELSE NoWorkbook])
      BY <1>2 DEF Push
    <3>2. CASE \E p \in NextPayloads[Len(main)] :
                 main' = Append(main, [payload |-> p, cited |-> cited, workbook |-> NoWorkbook])
      <4>1. PICK p : main' = Append(main, [payload |-> p, cited |-> cited, workbook |-> NoWorkbook])
        BY <3>2
      <4> DEFINE push == [payload |-> p, cited |-> cited, workbook |-> NoWorkbook]
      <4>2. push.workbook = NoWorkbook
        OBVIOUS
      <4> HIDE DEF push
      <4> QED BY <4>1, <4>2 DEF push
    <3>3. ASSUME NEW w \in Workbooks,
                 main' = Append(main, [payload |-> Convert(Checkout(Len(main)), w).files,
                                       cited |-> cited,
                                       workbook |-> IF Convert(Checkout(Len(main)), w).error = "none"
                                                    THEN w ELSE NoWorkbook])
          PROVE  \E push :
                   /\ main' = Append(main, push)
                   /\ push.workbook # NoWorkbook =>
                         /\ push.workbook \in Workbooks
                         /\ \E files : /\ Convert(files, push.workbook).error = "none"
                                       /\ push.payload = Convert(files, push.workbook).files
      <4>1. PICK files : files = Checkout(Len(main))
        OBVIOUS
      <4>2. PICK push : push = [payload |-> Convert(files, w).files, cited |-> cited,
                                workbook |-> IF Convert(files, w).error = "none"
                                             THEN w ELSE NoWorkbook]
        OBVIOUS
      <4>3. main' = Append(main, push)
        BY <3>3, <4>1, <4>2
      <4>4. push.workbook # NoWorkbook =>
              /\ push.workbook = w /\ Convert(files, w).error = "none"
              /\ push.payload = Convert(files, w).files
        BY <4>2
      <4> QED BY <4>3, <4>4
    <3> QED BY <3>1, <3>2, <3>3
  <2>2. IsSeq(main)
    BY DEF IInv, TypeInv
  <2> QED BY <2>1, <2>2, AppendFacts DEF ConvertInv
<1>3. Push \/ UNCHANGED main
  BY DEF Next, vars, StartRead, ReadTable, EndRead, BeginSeed, SeedStep, TakeLock, Compare, Commit,
         SeedFails
<1> QED BY <1>1, <1>2, <1>3

\* A version published for a push that converted a workbook has the rows of
\* the workbook and no others: convert, the canonical YAML and
\* _materialise_stack lose, move and invent no descriptor, whatever the rows.
THEOREM WorkbooksArriveWhole == Spec => []TreeIsTheWorkbook
<1>1. Init => ConvertInv
  BY DEF Init, ConvertInv
<1>2. Spec => []ConvertInv
  BY <1>1, ConvertKept, Invariant, PTL DEF Spec
<1>3. IInv /\ ConvertInv => TreeIsTheWorkbook
  <2> SUFFICES ASSUME IInv, ConvertInv, NEW v \in DOMAIN versions, NEW w,
                      w = main[versions[v].head].workbook, w # NoWorkbook
               PROVE  LET stacks == {w[i].stack : i \in Shown(w)}
                      IN  /\ {r \in RowsOf("level", v) : r[1] \in stacks} =
                               {<<c[1], c[2].competency_id, c[2].level, c[2].text>> : c \in StatedIn(w)}
                          /\ {r \in RowsOf("competency", v) : r[1] \in stacks} =
                               {<<c[1], BlockIdOf[c[2].block], c[2].competency_id>> : c \in StatedIn(w)}
    BY DEF TreeIsTheWorkbook
  <2>1. PICK head : head = versions[v].head
    OBVIOUS
  <2>2. /\ head \in DOMAIN main /\ versions[v].payload = Checkout(head)
        /\ \A t \in Table : RowsOf(t, v) = Materialise(versions[v].payload)[t]
    BY <2>1 DEF IInv, DataInv, VersionInv, TablesInv
  <2>3. head # 0
    BY <2>2, AppendFacts DEF IInv, TypeInv
  <2>4. versions[v].payload = main[head].payload
    BY <2>2, <2>3 DEF Checkout
  <2>5. PICK files : /\ w \in Workbooks /\ Convert(files, w).error = "none"
                     /\ versions[v].payload = Convert(files, w).files
    BY <2>1, <2>2, <2>4 DEF ConvertInv
  <2> DEFINE stacks == {w[i].stack : i \in Shown(w)}
             rows == Materialise(Convert(files, w).files)
  <2>6. RowsOf("level", v) = rows["level"] /\ RowsOf("competency", v) = rows["competency"]
    BY <2>2, <2>5 DEF Table
  <2>7. \A row : /\ (row \in rows["level"] /\ row[1] \in stacks) <=>
                      \E c \in StatedIn(w) : row = <<c[1], c[2].competency_id, c[2].level, c[2].text>>
                 /\ (row \in rows["competency"] /\ row[1] \in stacks) <=>
                      \E c \in StatedIn(w) : row = <<c[1], BlockIdOf[c[2].block], c[2].competency_id>>
    BY <2>5, ConvertedRows
  <2> HIDE DEF stacks, rows
  <2>8. {r \in RowsOf("level", v) : r[1] \in stacks} =
          {<<c[1], c[2].competency_id, c[2].level, c[2].text>> : c \in StatedIn(w)}
    BY <2>6, <2>7
  <2>9. {r \in RowsOf("competency", v) : r[1] \in stacks} =
          {<<c[1], BlockIdOf[c[2].block], c[2].competency_id>> : c \in StatedIn(w)}
    BY <2>6, <2>7
  <2> QED BY <2>8, <2>9 DEF stacks
<1> QED BY <1>2, <1>3, Invariant, PTL
=============================================================================
