----------------------- MODULE PositionTemplateProofs -----------------------
(***************************************************************************)
(* Proofs about PositionTemplates: for any rubric, bodies, requests and    *)
(* interleaving, no committed template is empty, an edit nobody raced is   *)
(* exact, and an edit keeps what its body leaves out.                      *)
(*                                                                         *)
(* The invariant says of every request how far it has come: the tables it  *)
(* still has to replace, and that of those it has replaced it deletes      *)
(* every row it read that is still there.  A row carries the id of the     *)
(* request that inserted it, so one that is gone never comes back.         *)
(***************************************************************************)
EXTENDS PositionTemplates, TLAPS

Selections == {p.stacks : p \in Patches} \cup {p.comps : p \in Patches}
                \cup {b.stacks : b \in Bodies} \cup {b.comps : b \in Bodies}
AnyKey == UNION Selections
Row == [key : AnyKey, must : BOOLEAN, by : Nat]
Rows == [Table -> SUBSET Row]
Template == {NoTemplate} \cup [details : Details, archived_at : Nat]
Reading == {"read_stacks", "read_competencies"}
Writing == {"row", "delete", "wait", "insert", "commit"}
Work == [pc : {"idle"} \cup Reading \cup Writing, id : Nat, patch : Patches \cup {Unset},
         row : Template, seen : Rows, result : Rows, todo : SUBSET Table, target : SUBSET Row,
         deleted : Rows, inserted : Rows,
         set : [details : {Unset} \cup Details, archived_at : {Unset} \cup Nat]]

TypeOK ==
  /\ template \in Template /\ links \in Rows /\ requests \in [Request -> Work] /\ begun \in Nat

\* What the request has read of a table and is still there.
StillThere(w, t) == w.seen[t] \cap links[t]

\* An edit has passed the rules, and has done the tables it need not do.
Edit(w) ==
  /\ SelectionHolds(w.result) /\ w.result = Resulting(w.patch, w.seen, w.id)
  /\ w.set.archived_at = Unset
  /\ w.patch.details = Unset => w.set.details = Unset
  /\ \A t \in Table : ~Replaces(w.patch, t) =>
       t \notin w.todo /\ w.deleted[t] = {} /\ w.inserted[t] = {}
  /\ \A t \in Table : Replaces(w.patch, t) /\ t \notin w.todo =>
       w.inserted[t] = w.result[t] /\ StillThere(w, t) \subseteq w.deleted[t]
  /\ \A t \in w.todo : w.inserted[t] = {}
  /\ w.pc \in {"delete", "wait", "insert"} => w.todo # {}
  /\ w.pc = "commit" => w.todo = {}
  /\ w.pc = "wait" => StillThere(w, NextTable(w)) \subseteq w.target
  /\ w.pc = "insert" => StillThere(w, NextTable(w)) \subseteq w.deleted[NextTable(w)]

Untouched(w) == w.todo = {} /\ \A t \in Table : w.deleted[t] = {} /\ w.inserted[t] = {}

Sound(w) ==
  w.pc # "idle" =>
    /\ w.id \in 1..begun
    /\ w.patch = Unset => w.pc \in {"row", "commit"} /\ Untouched(w)
    /\ w.pc \in Reading => w.patch # Unset /\ Untouched(w)
    /\ w.pc \in Writing /\ w.patch # Unset => Edit(w)
SoundInv == \A r \in Request : Sound(requests[r])

\* Rows, and what has been read of them, are others' than those in progress.
Past(rows) == \A t \in Table : \A row \in rows[t] : row.by <= begun
OfOthers(rows, id) == \A t \in Table : \A row \in rows[t] : row.by # id
FreshInv ==
  /\ Past(links) /\ \A r \in Request : Past(requests[r].seen)
  /\ \A q \in Request : requests[q].pc # "idle" =>
       /\ OfOthers(links, requests[q].id)
       /\ \A r \in Request : OfOthers(requests[r].seen, requests[q].id)
       /\ \A r \in Request : r # q /\ requests[r].pc # "idle" => requests[r].id # requests[q].id

Filled == links["stack"] # {} /\ links["competency"] # {}
FilledInv ==
  /\ template # NoTemplate => Filled
  /\ \A r \in Request : requests[r].pc # "idle" => template # NoTemplate

IInv == TypeOK /\ SoundInv /\ FreshInv /\ FilledInv

-----------------------------------------------------------------------------
\* Facts about the operators.

\* The next table to replace is one of those to replace.
LEMMA NextTableIsOne ==
  ASSUME NEW w \in Work, w.todo # {}
  PROVE  NextTable(w) \in w.todo /\ NextTable(w) \in Table
BY DEF NextTable, Work, Table

\* A selection becomes rows, and so does what a patch results in.
LEMMA SelectionsAreRows ==
  ASSUME NEW keys \in SUBSET AnyKey, NEW must, NEW id \in Nat
  PROVE  StackRows(keys, id) \in SUBSET Row /\ CompetencyRows(keys, must, id) \in SUBSET Row
<1>1. ASSUME NEW k \in keys PROVE [key |-> k, must |-> FALSE, by |-> id] \in Row
  BY DEF Row
<1>2. ASSUME NEW k \in keys PROVE [key |-> k, must |-> k \in must, by |-> id] \in Row
  <2>1. (k \in must) \in BOOLEAN
    OBVIOUS
  <2> QED BY <2>1 DEF Row
<1>3. StackRows(keys, id) \in SUBSET Row
  BY <1>1 DEF StackRows
<1>4. CompetencyRows(keys, must, id) \in SUBSET Row
  BY <1>2, Zenon DEF CompetencyRows
<1> QED BY <1>3, <1>4

LEMMA ResultsAreRows ==
  ASSUME NEW patch \in Patches, NEW seen \in Rows, NEW id \in Nat
  PROVE  Resulting(patch, seen, id) \in Rows
<1>1. patch.stacks \in SUBSET AnyKey /\ patch.comps \in SUBSET AnyKey
  <2>1. patch.stacks \in Selections /\ patch.comps \in Selections
    BY DEF Selections
  <2> QED BY <2>1 DEF AnyKey
<1> DEFINE must == IF patch.must = Unset THEN {} ELSE patch.must
<1>2. StackRows(patch.stacks, id) \in SUBSET Row /\ CompetencyRows(patch.comps, must, id) \in SUBSET Row
  BY <1>1, SelectionsAreRows
<1> QED BY <1>2 DEF Resulting, Rows

\* What a patch inserts carries the id of its request.
LEMMA ResultsAreMarked ==
  ASSUME NEW patch, NEW seen, NEW id, NEW t \in Table, Replaces(patch, t),
         NEW row \in Resulting(patch, seen, id)[t]
  PROVE  row.by = id
BY DEF Resulting, StackRows, CompetencyRows

\* A selection that holds is not empty.
LEMMA HoldingIsFilled ==
  ASSUME NEW rows, SelectionHolds(rows)
  PROVE  rows["stack"] # {} /\ rows["competency"] # {}
BY DEF SelectionHolds, Consistent, Keys

LEMMA IdleHolds ==
  /\ NoWork \in Work /\ NoWork.pc = "idle" /\ Sound(NoWork) /\ NoWork.patch = Unset
  /\ NoWork.seen = NoRows /\ NoWork.todo = {} /\ NoWork.deleted = NoRows /\ NoWork.inserted = NoRows
BY DEF NoWork, Working, Work, Sound, Rows, Template, NoRows

LEMMA InitHolds == Init => IInv
<1> SUFFICES ASSUME Init PROVE IInv
  OBVIOUS
<1>1. TypeOK
  BY IdleHolds DEF Init, TypeOK, Template, NoRows, Rows
<1>2. SoundInv /\ FilledInv
  BY IdleHolds DEF Init, SoundInv, FilledInv
<1>3. FreshInv
  BY IdleHolds DEF Init, FreshInv, Past, OfOthers, NoRows
<1> QED BY <1>1, <1>2, <1>3 DEF IInv

-----------------------------------------------------------------------------
\* A step of one request that commits nothing: what it read was committed.
LEMMA OwnStepKeeps ==
  ASSUME IInv, NEW r \in Request, requests[r].pc # "idle", NEW next \in Work,
         requests' = [requests EXCEPT ![r] = next], UNCHANGED <<template, links, begun>>,
         Sound(next), next.pc = "idle" \/ next.id = requests[r].id,
         \A t \in Table : next.seen[t] \subseteq requests[r].seen[t] \cup links[t]
  PROVE  IInv'
<1>1. \A q \in Request : requests'[q] = IF q = r THEN next ELSE requests[q]
  BY DEF IInv, TypeOK
<1>2. TypeOK'
  BY DEF IInv, TypeOK
<1>3. SoundInv'
  <2>1. \A q \in Request : Sound(requests'[q])
    BY <1>1 DEF IInv, SoundInv
  <2> QED BY <2>1 DEF SoundInv, Sound, Edit, StillThere, Untouched
<1>4. ASSUME NEW q \in Request, NEW t \in Table, NEW row \in requests'[q].seen[t]
      PROVE  row \in links[t] \/ row \in requests[q].seen[t]
  BY <1>1
<1>5. FreshInv'
  <2>1. \A q \in Request : requests'[q].pc # "idle" =>
          requests[q].pc # "idle" /\ requests'[q].id = requests[q].id
    BY <1>1
  <2>2. ASSUME NEW id, OfOthers(links, id), \A q \in Request : OfOthers(requests[q].seen, id)
        PROVE  \A q \in Request : OfOthers(requests'[q].seen, id)
    BY <1>4, <2>2 DEF OfOthers
  <2>3. Past(links) /\ \A q \in Request : Past(requests'[q].seen)
    BY <1>4 DEF IInv, FreshInv, Past
  <2>4. \A q \in Request : requests'[q].pc # "idle" =>
             /\ OfOthers(links, requests'[q].id)
             /\ \A p \in Request : OfOthers(requests'[p].seen, requests'[q].id)
             /\ \A p \in Request : p # q /\ requests'[p].pc # "idle" =>
                  requests'[p].id # requests'[q].id
    BY <2>1, <2>2 DEF IInv, FreshInv
  <2> QED BY <2>3, <2>4 DEF FreshInv, Past, OfOthers
<1>6. FilledInv'
  BY <1>1 DEF IInv, FilledInv, Filled
<1> QED BY <1>2, <1>3, <1>5, <1>6 DEF IInv

\* The reads.
LEMMA ReadStacksKeeps == ASSUME NEW r \in Request, IInv, ReadStacks(r) PROVE IInv'
<1> DEFINE w == requests[r]
<1> DEFINE next == [w EXCEPT !.pc = "read_competencies",
                            !.seen = [w.seen EXCEPT !["stack"] = links["stack"]]]
<1>1. w \in Work /\ links \in Rows /\ w.pc = "read_stacks" /\ Sound(w)
  BY DEF ReadStacks, IInv, TypeOK, SoundInv
<1>2. w.patch # Unset /\ Untouched(w) /\ w.id \in 1..begun
  BY <1>1 DEF Sound, Reading
<1>3. requests' = [requests EXCEPT ![r] = next] /\ UNCHANGED <<template, links, begun>>
  BY DEF ReadStacks
<1>4. [w.seen EXCEPT !["stack"] = links["stack"]] \in Rows
  BY <1>1 DEF Work, Rows
<1>5. /\ next \in Work /\ next.pc = "read_competencies" /\ next.id = w.id /\ next.patch = w.patch
      /\ next.todo = w.todo /\ next.deleted = w.deleted /\ next.inserted = w.inserted
      /\ next.seen = [w.seen EXCEPT !["stack"] = links["stack"]]
  BY <1>1, <1>4 DEF Work, Reading
<1> HIDE DEF next
<1>6. Sound(next)
  BY <1>2, <1>5 DEF Sound, Reading, Writing, Untouched
<1>7. \A t \in Table : next.seen[t] \subseteq w.seen[t] \cup links[t]
  BY <1>1, <1>5 DEF Work, Rows
<1> QED BY <1>1, <1>3, <1>5, <1>6, <1>7, OwnStepKeeps

LEMMA ReadCompetenciesKeeps == ASSUME NEW r \in Request, IInv, ReadCompetencies(r) PROVE IInv'
<1> DEFINE w == requests[r]
<1> DEFINE seen == [w.seen EXCEPT !["competency"] = links["competency"]]
<1> DEFINE result == Resulting(w.patch, seen, w.id)
<1> DEFINE passed == [w EXCEPT !.pc = "row", !.seen = seen, !.result = result,
                               !.todo = TablesOf(w.patch), !.set = ChangedColumns(w.patch, w.row)]
<1>1. w \in Work /\ links \in Rows /\ w.pc = "read_competencies" /\ Sound(w)
  BY DEF ReadCompetencies, IInv, TypeOK, SoundInv
<1>2. w.patch \in Patches /\ w.patch # Unset /\ Untouched(w) /\ w.id \in 1..begun
  BY <1>1 DEF Sound, Reading, Work
<1>3. /\ requests' = [requests EXCEPT ![r] = IF SelectionHolds(result) THEN passed ELSE NoWork]
      /\ UNCHANGED <<template, links, begun>>
  BY DEF ReadCompetencies
<1>4. CASE ~SelectionHolds(result)
  BY <1>1, <1>3, <1>4, IdleHolds, OwnStepKeeps DEF NoRows
<1>5. CASE SelectionHolds(result)
  <2>1. seen \in Rows /\ \A t \in Table : seen[t] \subseteq w.seen[t] \cup links[t]
    BY <1>1 DEF Work, Rows
  <2>2. result \in Rows
    BY <1>1, <1>2, <2>1, ResultsAreRows DEF Work
  <2> DEFINE set == ChangedColumns(w.patch, w.row)
  <2>3. /\ set \in [details : {Unset} \cup Details, archived_at : {Unset} \cup Nat]
        /\ set.archived_at = Unset
        /\ w.patch.details = Unset => set.details = Unset
    BY <1>2, TemplateAssumption DEF ChangedColumns
  <2> DEFINE todo == TablesOf(w.patch)
  <2>4. todo \in SUBSET Table /\ \A t \in Table : t \in todo <=> Replaces(w.patch, t)
    BY DEF TablesOf
  <2> HIDE DEF seen, result, set, todo
  <2>5. /\ passed \in Work /\ passed.pc = "row" /\ passed.id = w.id /\ passed.patch = w.patch
        /\ passed.todo = todo /\ passed.deleted = w.deleted /\ passed.inserted = w.inserted
        /\ passed.seen = seen /\ passed.result = result /\ passed.set = set
    BY <1>1, <2>1, <2>2, <2>3, <2>4 DEF Work, Writing, set, todo
  <2>6. result = Resulting(passed.patch, passed.seen, passed.id)
    BY <2>5 DEF result
  <2> HIDE DEF passed
  <2>7. Edit(passed)
    BY <1>2, <1>5, <2>3, <2>4, <2>5, <2>6 DEF Edit, Untouched
  <2>8. Sound(passed)
    BY <1>2, <2>5, <2>7 DEF Sound, Reading
  <2> QED BY <1>1, <1>3, <1>5, <2>1, <2>5, <2>8, OwnStepKeeps
<1> QED BY <1>4, <1>5

\* The UPDATE of the row.
LEMMA WriteRowKeeps == ASSUME NEW r \in Request, IInv, WriteRow(r) PROVE IInv'
<1> DEFINE w == requests[r]
<1> DEFINE next == [w EXCEPT !.pc = AfterRow(w.todo)]
<1>1. w \in Work /\ w.pc = "row" /\ Sound(w)
  BY DEF WriteRow, IInv, TypeOK, SoundInv
<1>2. requests' = [requests EXCEPT ![r] = next] /\ UNCHANGED <<template, links, begun>>
  BY DEF WriteRow
<1>3. AfterRow(w.todo) = IF w.todo = {} THEN "commit" ELSE "delete"
  BY DEF AfterRow
<1>4. /\ next \in Work /\ next.pc = AfterRow(w.todo) /\ next.id = w.id /\ next.patch = w.patch
      /\ next.todo = w.todo /\ next.deleted = w.deleted /\ next.inserted = w.inserted
      /\ next.seen = w.seen /\ next.result = w.result /\ next.set = w.set
  BY <1>1, <1>3 DEF Work, Writing
<1> HIDE DEF next
<1>5. w.patch # Unset => Edit(next)
  BY <1>1, <1>3, <1>4 DEF Sound, Edit, StillThere, Writing
<1>6. Sound(next)
  BY <1>1, <1>3, <1>4, <1>5 DEF Sound, Reading, Untouched
<1> QED BY <1>1, <1>2, <1>4, <1>6, OwnStepKeeps

\* The DELETE.
LEMMA StartDeleteKeeps == ASSUME NEW r \in Request, IInv, StartDelete(r) PROVE IInv'
<1> DEFINE w == requests[r]
<1> DEFINE t == NextTable(w)
<1> DEFINE next == [w EXCEPT !.pc = "wait", !.target = links[t]]
<1>1. w \in Work /\ links \in Rows /\ w.pc = "delete" /\ Sound(w)
  BY DEF StartDelete, IInv, TypeOK, SoundInv
<1>2. w.patch # Unset /\ Edit(w) /\ w.todo # {}
  BY <1>1 DEF Sound, Edit, Writing
<1>3. t \in w.todo /\ t \in Table
  BY <1>1, <1>2, NextTableIsOne
<1>4. requests' = [requests EXCEPT ![r] = next] /\ UNCHANGED <<template, links, begun>>
  BY DEF StartDelete
<1> HIDE DEF t
<1>5. /\ next \in Work /\ next.pc = "wait" /\ next.id = w.id /\ next.patch = w.patch
      /\ next.todo = w.todo /\ next.deleted = w.deleted /\ next.inserted = w.inserted
      /\ next.seen = w.seen /\ next.result = w.result /\ next.set = w.set /\ next.target = links[t]
  BY <1>1, <1>3 DEF Work, Writing, Rows
<1> HIDE DEF next
<1>6. NextTable(next) = t
  BY <1>5 DEF NextTable, t
<1>7. Edit(next)
  BY <1>1, <1>2, <1>5, <1>6 DEF Edit, StillThere
<1>8. Sound(next)
  BY <1>1, <1>2, <1>5, <1>7 DEF Sound, Reading
<1> QED BY <1>1, <1>4, <1>5, <1>8, OwnStepKeeps

LEMMA EndDeleteKeeps == ASSUME NEW r \in Request, IInv, EndDelete(r) PROVE IInv'
<1> DEFINE w == requests[r]
<1> DEFINE t == NextTable(w)
<1> DEFINE deleted == [w.deleted EXCEPT ![t] = w.target \cap links[t]]
<1> DEFINE next == [w EXCEPT !.pc = "insert", !.target = {}, !.deleted = deleted]
<1>1. w \in Work /\ links \in Rows /\ w.pc = "wait" /\ Sound(w)
  BY DEF EndDelete, IInv, TypeOK, SoundInv
<1>2. w.patch # Unset /\ Edit(w) /\ w.todo # {}
  BY <1>1 DEF Sound, Edit, Writing
<1>3. t \in w.todo /\ t \in Table
  BY <1>1, <1>2, NextTableIsOne
<1>4. requests' = [requests EXCEPT ![r] = next] /\ UNCHANGED <<template, links, begun>>
  BY DEF EndDelete
<1>5. /\ deleted \in Rows /\ deleted[t] = w.target \cap links[t]
      /\ \A u \in Table : u # t => deleted[u] = w.deleted[u]
  BY <1>1, <1>3 DEF Work, Rows
<1>6. StillThere(w, t) \subseteq w.target
  BY <1>1, <1>2 DEF Edit
<1> HIDE DEF t, deleted
<1>7. /\ next \in Work /\ next.pc = "insert" /\ next.id = w.id /\ next.patch = w.patch
      /\ next.todo = w.todo /\ next.deleted = deleted /\ next.inserted = w.inserted
      /\ next.seen = w.seen /\ next.result = w.result /\ next.set = w.set
  BY <1>1, <1>5 DEF Work, Writing
<1> HIDE DEF next
<1>8. NextTable(next) = t
  BY <1>7 DEF NextTable, t
<1>9. Edit(next)
  BY <1>1, <1>2, <1>3, <1>5, <1>6, <1>7, <1>8 DEF Edit, StillThere
<1>10. Sound(next)
  BY <1>1, <1>2, <1>7, <1>9 DEF Sound, Reading
<1> QED BY <1>1, <1>4, <1>7, <1>10, OwnStepKeeps

\* The INSERT.
LEMMA InsertRowsKeeps == ASSUME NEW r \in Request, IInv, InsertRows(r) PROVE IInv'
<1> DEFINE w == requests[r]
<1> DEFINE t == NextTable(w)
<1> DEFINE todo == w.todo \ {t}
<1> DEFINE inserted == [w.inserted EXCEPT ![t] = w.result[t]]
<1> DEFINE next == [w EXCEPT !.pc = AfterRow(todo), !.todo = todo, !.inserted = inserted]
<1>1. w \in Work /\ w.pc = "insert" /\ Sound(w)
  BY DEF InsertRows, IInv, TypeOK, SoundInv
<1>2. w.patch # Unset /\ Edit(w) /\ w.todo # {}
  BY <1>1 DEF Sound, Edit, Writing
<1>3. t \in w.todo /\ t \in Table
  BY <1>1, <1>2, NextTableIsOne
<1>4. /\ \/ requests' = [requests EXCEPT ![r] = NoWork]
         \/ requests' = [requests EXCEPT ![r] = next]
      /\ UNCHANGED <<template, links, begun>>
  BY DEF InsertRows
<1>5. /\ inserted \in Rows /\ inserted[t] = w.result[t]
      /\ \A u \in Table : u # t => inserted[u] = w.inserted[u]
  BY <1>1, <1>3 DEF Work, Rows
<1>6. StillThere(w, t) \subseteq w.deleted[t]
  BY <1>1, <1>2 DEF Edit
<1>7. AfterRow(todo) = (IF todo = {} THEN "commit" ELSE "delete") /\ todo \in SUBSET Table
  BY <1>1 DEF AfterRow, Work
<1> HIDE DEF t, inserted
<1>8. /\ next \in Work /\ next.pc = AfterRow(todo) /\ next.id = w.id /\ next.patch = w.patch
      /\ next.todo = todo /\ next.deleted = w.deleted /\ next.inserted = inserted
      /\ next.seen = w.seen /\ next.result = w.result /\ next.set = w.set
  BY <1>1, <1>5, <1>7 DEF Work, Writing
<1> HIDE DEF next
<1>9. Edit(next)
  BY <1>1, <1>2, <1>3, <1>5, <1>6, <1>7, <1>8 DEF Edit, StillThere
<1>10. Sound(next)
  BY <1>1, <1>2, <1>7, <1>8, <1>9 DEF Sound, Reading
<1>11. CASE requests' = [requests EXCEPT ![r] = NoWork]
  BY <1>1, <1>4, <1>11, IdleHolds, OwnStepKeeps DEF NoRows
<1>12. CASE requests' = [requests EXCEPT ![r] = next]
  BY <1>1, <1>4, <1>8, <1>10, <1>12, OwnStepKeeps
<1> QED BY <1>4, <1>11, <1>12

\* The transaction is rolled back.
LEMMA FailKeeps == ASSUME NEW r \in Request, IInv, Fail(r) PROVE IInv'
BY IdleHolds, OwnStepKeeps DEF Fail, NoRows

-----------------------------------------------------------------------------
\* A request begins, with nothing read and nothing done.
LEMMA BegunKeeps ==
  ASSUME IInv, NEW r \in Request, NEW work \in Work, Begun(r, work), work.seen = NoRows,
         work.pc # "idle" => /\ work.id = begun + 1 /\ Untouched(work)
                             /\ \/ work.pc = "row" /\ work.patch = Unset
                                \/ work.pc = "read_stacks" /\ work.patch # Unset
  PROVE  IInv'
<1>1. /\ requests' = [requests EXCEPT ![r] = work] /\ UNCHANGED <<template, links>>
      /\ begun' = begun + 1 /\ begun \in Nat /\ template # NoTemplate
      /\ requests[r].pc = "idle"
  BY DEF Begun, IInv, TypeOK
<1>2. \A q \in Request : requests'[q] = IF q = r THEN work ELSE requests[q]
  BY <1>1 DEF IInv, TypeOK
<1>3. TypeOK'
  BY <1>1 DEF IInv, TypeOK
<1>4. SoundInv'
  <2>1. ASSUME NEW q \in Request PROVE Sound(requests[q])'
    <3>1. CASE q = r
      BY <1>1, <1>2, <3>1 DEF Sound, Reading, Writing, Untouched
    <3>2. CASE q # r
      <4>1. Sound(requests[q]) /\ requests[q] \in Work /\ requests'[q] = requests[q]
        BY <1>2, <3>2 DEF IInv, SoundInv, TypeOK
      <4> QED BY <1>1, <4>1 DEF Sound, Work, Edit, StillThere, Untouched
    <3> QED BY <3>1, <3>2
  <2> QED BY <2>1 DEF SoundInv
<1>5. FreshInv'
  <2>1. ASSUME NEW t \in Table
        PROVE  /\ \A row \in links[t] : row.by \in Nat /\ row.by <= begun
               /\ \A q \in Request : \A row \in requests'[q].seen[t] :
                    row.by \in Nat /\ row.by <= begun
    BY <1>1, <1>2 DEF IInv, FreshInv, Past, NoRows, TypeOK, Work, Rows, Row
  <2>2. Past(links)' /\ \A q \in Request : Past(requests[q].seen)'
    BY <1>1, <2>1 DEF Past
  <2>3. ASSUME NEW q \in Request, requests'[q].pc # "idle"
        PROVE  /\ OfOthers(links, requests[q].id)'
               /\ \A p \in Request : OfOthers(requests[p].seen, requests[q].id)'
    <3>1. CASE q = r
      BY <1>1, <1>2, <2>1, <2>3, <3>1 DEF OfOthers
    <3>2. CASE q # r
      BY <1>1, <1>2, <2>1, <2>3, <3>2 DEF IInv, FreshInv, OfOthers, NoRows
    <3> QED BY <3>1, <3>2
  <2>4. ASSUME NEW q \in Request, requests'[q].pc # "idle", NEW p \in Request, p # q,
               requests'[p].pc # "idle"
        PROVE  requests'[p].id # requests'[q].id
    <3>1. \A x \in Request : requests[x].pc # "idle" => requests[x].id \in 1..begun
      BY DEF IInv, SoundInv, Sound
    <3> QED BY <1>1, <1>2, <2>4, <3>1 DEF IInv, FreshInv
  <2> QED BY <1>1, <2>2, <2>3, <2>4 DEF FreshInv
<1>6. FilledInv'
  BY <1>1 DEF IInv, FilledInv, Filled
<1> QED BY <1>3, <1>4, <1>5, <1>6 DEF IInv

LEMMA BeginArchiveKeeps == ASSUME NEW r \in Request, IInv, BeginArchive(r) PROVE IInv'
<1> DEFINE stamp == IF template.archived_at = NotArchived THEN begun + 1 ELSE Unset
<1> DEFINE new == Working("row", begun + 1, Unset, template)
<1> DEFINE set == [details |-> Unset, archived_at |-> stamp]
<1> DEFINE work == [new EXCEPT !.set = set]
<1>1. Begun(r, work)
  BY DEF BeginArchive
<1>2. begun \in Nat /\ template \in Template /\ stamp \in {Unset} \cup Nat
  BY DEF IInv, TypeOK
<1>3. set \in [details : {Unset} \cup Details, archived_at : {Unset} \cup Nat]
  BY <1>2
<1>4. /\ new \in Work /\ new.pc = "row" /\ new.id = begun + 1 /\ new.patch = Unset
      /\ new.seen = NoRows /\ new.todo = {} /\ new.deleted = NoRows /\ new.inserted = NoRows
  BY <1>2 DEF Working, Work, Rows, NoRows, Writing
<1> HIDE DEF new, set
<1>5. /\ work \in Work /\ work.pc = "row" /\ work.id = begun + 1 /\ work.patch = Unset
      /\ work.seen = NoRows /\ work.todo = {} /\ work.deleted = NoRows /\ work.inserted = NoRows
  BY <1>3, <1>4 DEF Work
<1> HIDE DEF work
<1>6. Untouched(work)
  BY <1>5 DEF Untouched, NoRows
<1> QED BY <1>1, <1>5, <1>6, BegunKeeps

LEMMA BeginUpdateKeeps == ASSUME NEW r \in Request, IInv, BeginUpdate(r) PROVE IInv'
<1>1. PICK patch \in Patches :
        Begun(r, IF PatchAllowed(patch) THEN Working("read_stacks", begun + 1, patch, template)
                 ELSE NoWork)
  BY DEF BeginUpdate
<1> DEFINE work == Working("read_stacks", begun + 1, patch, template)
<1>2. begun \in Nat /\ template \in Template /\ patch # Unset
  BY TemplateAssumption DEF IInv, TypeOK
<1>3. /\ work \in Work /\ work.pc = "read_stacks" /\ work.id = begun + 1 /\ work.patch = patch
      /\ work.seen = NoRows /\ work.todo = {} /\ work.deleted = NoRows /\ work.inserted = NoRows
  BY <1>2 DEF Working, Work, Rows, NoRows, Reading
<1>4. CASE PatchAllowed(patch)
  <2>1. Begun(r, work)
    BY <1>1, <1>4
  <2> HIDE DEF work
  <2>2. Untouched(work)
    BY <1>3 DEF Untouched, NoRows
  <2> QED BY <1>2, <1>3, <2>1, <2>2, BegunKeeps
<1>5. CASE ~PatchAllowed(patch)
  BY <1>1, <1>5, IdleHolds, BegunKeeps
<1> QED BY <1>4, <1>5

-----------------------------------------------------------------------------
\* The template is created, with rows of its own.
LEMMA CreateKeeps == IInv /\ Create => IInv'
<1> SUFFICES ASSUME IInv, Create PROVE IInv'
  OBVIOUS
<1>1. PICK body \in Bodies :
        \/ UNCHANGED <<template, links>>
        \/ /\ Consistent(body.stacks, body.comps, body.must)
           /\ template' = [details |-> body.details, archived_at |-> NotArchived]
           /\ links' = [t \in Table |-> IF t = "stack" THEN StackRows(body.stacks, begun + 1)
                                       ELSE CompetencyRows(body.comps, body.must, begun + 1)]
  BY DEF Create
<1>2. /\ template = NoTemplate /\ begun \in Nat /\ begun' = begun + 1 /\ UNCHANGED requests
      /\ \A r \in Request : requests[r].pc = "idle"
  BY DEF Create, IInv, TypeOK, FilledInv
<1>3. SoundInv'
  BY <1>2 DEF SoundInv, Sound
<1>4. CASE UNCHANGED <<template, links>>
  <2>1. TypeOK' /\ FilledInv'
    BY <1>2, <1>4 DEF IInv, TypeOK, FilledInv, Filled
  <2>2. \A t \in Table : \A row \in links[t] : row.by \in Nat
    BY DEF IInv, TypeOK, Rows, Row
  <2>3. \A r \in Request : \A t \in Table : \A row \in requests[r].seen[t] : row.by \in Nat
    BY DEF IInv, TypeOK, Work, Rows, Row
  <2>4. FreshInv'
    BY <1>2, <1>4, <2>2, <2>3 DEF IInv, FreshInv, Past
  <2> QED BY <1>3, <2>1, <2>4 DEF IInv
<1>5. CASE ~UNCHANGED <<template, links>>
  <2>1. /\ body.details \in Details /\ body.stacks \in SUBSET AnyKey /\ body.comps \in SUBSET AnyKey
        /\ body.stacks # {} /\ body.comps # {}
    <3>1. body.stacks \in Selections /\ body.comps \in Selections
      BY DEF Selections
    <3> QED BY <1>1, <1>5, <3>1, TemplateAssumption DEF AnyKey, Consistent
  <2>2. /\ template' \in [details : Details, archived_at : Nat]
        /\ links'["stack"] = StackRows(body.stacks, begun + 1)
        /\ links'["competency"] = CompetencyRows(body.comps, body.must, begun + 1)
    BY <1>1, <1>5, <2>1 DEF Table, NotArchived
  <2>3. /\ links'["stack"] \in SUBSET Row /\ links'["competency"] \in SUBSET Row
    <3>1. begun + 1 \in Nat
      BY <1>2
    <3>2. /\ StackRows(body.stacks, begun + 1) \in SUBSET Row
          /\ CompetencyRows(body.comps, body.must, begun + 1) \in SUBSET Row
      BY <2>1, <3>1, SelectionsAreRows
    <3> QED BY <2>2, <3>2
  <2>4. /\ \A row \in links'["stack"] : row.by = begun + 1
        /\ \A row \in links'["competency"] : row.by = begun + 1
    BY <2>2 DEF StackRows, CompetencyRows
  <2>5. Filled'
    <3>1. \A s \in body.stacks : [key |-> s, must |-> FALSE, by |-> begun + 1] \in links'["stack"]
      BY <2>2 DEF StackRows
    <3>2. \A c \in body.comps :
            [key |-> c, must |-> c \in body.must, by |-> begun + 1] \in links'["competency"]
      BY <2>2, Zenon DEF CompetencyRows
    <3> QED BY <2>1, <3>1, <3>2 DEF Filled
  <2>6. links' \in Rows
    BY <1>1, <1>5, <2>3 DEF Rows, Table
  <2>7. TypeOK' /\ FilledInv'
    BY <1>2, <2>2, <2>5, <2>6 DEF IInv, TypeOK, Template, FilledInv
  <2>8. FreshInv'
    <3>1. \A r \in Request : \A t \in Table : \A row \in requests[r].seen[t] : row.by \in Nat
      BY DEF IInv, TypeOK, Work, Rows, Row
    <3> QED BY <1>2, <2>4, <3>1 DEF IInv, FreshInv, Past, Table
  <2> QED BY <1>3, <2>7, <2>8 DEF IInv
<1> QED BY <1>4, <1>5

-----------------------------------------------------------------------------
\* A request commits.

\* What it inserts is its own.
LEMMA InsertedIsMarked ==
  ASSUME IInv, NEW r \in Request, requests[r].pc = "commit", NEW t \in Table,
         NEW row \in requests[r].inserted[t]
  PROVE  row.by = requests[r].id
<1> DEFINE w == requests[r]
<1>1. Sound(w) /\ w.todo \subseteq Table
  BY DEF IInv, SoundInv, TypeOK, Work
<1>2. w.patch # Unset /\ Edit(w)
  BY <1>1 DEF Sound, Untouched, Writing
<1>3. Replaces(w.patch, t) /\ row \in w.result[t] /\ w.result = Resulting(w.patch, w.seen, w.id)
  BY <1>2 DEF Edit
<1> QED BY <1>3, ResultsAreMarked

LEMMA CommitKeeps == ASSUME NEW r \in Request, IInv, Commit(r) PROVE IInv'
<1> DEFINE w == requests[r]
<1>1. /\ w \in Work /\ w.pc = "commit" /\ Sound(w) /\ template # NoTemplate
      /\ template \in Template /\ links \in Rows
  BY DEF Commit, IInv, TypeOK, SoundInv, FilledInv
<1>2. /\ links' = [t \in Table |-> (links[t] \ w.deleted[t]) \cup w.inserted[t]]
      /\ requests' = [requests EXCEPT ![r] = NoWork] /\ UNCHANGED begun
  BY DEF Commit
<1>3. template' \in [details : Details, archived_at : Nat]
  BY <1>1 DEF Commit, Template, Work
<1>4. links' \in Rows
  BY <1>1, <1>2 DEF Rows, Work
<1>5. \A q \in Request : requests'[q] = IF q = r THEN NoWork ELSE requests[q]
  BY <1>2 DEF IInv, TypeOK
<1>6. TypeOK'
  BY <1>2, <1>3, <1>4, IdleHolds DEF IInv, TypeOK, Template
<1>7. \A t \in Table : \A row \in w.inserted[t] :
        row.by = w.id /\ \A q \in Request : row \notin requests[q].seen[t]
  BY <1>1, InsertedIsMarked DEF IInv, FreshInv, OfOthers
<1>8. SoundInv'
  <2>1. ASSUME NEW q \in Request, q # r PROVE Sound(requests[q])'
    <3>1. Sound(requests[q]) /\ requests'[q] = requests[q]
      BY <1>5, <2>1 DEF IInv, SoundInv
    <3>2. \A t \in Table : StillThere(requests[q], t)' \subseteq StillThere(requests[q], t)
      BY <1>2, <1>7, <3>1 DEF StillThere
    <3>3. Edit(requests[q]) => Edit(requests[q])'
      <4> SUFFICES ASSUME Edit(requests[q]) PROVE Edit(requests[q])'
        OBVIOUS
      <4>1. requests[q].todo # {} => NextTable(requests[q]) \in Table
        BY NextTableIsOne DEF IInv, TypeOK
      <4> QED BY <3>1, <3>2, <4>1 DEF Edit
    <3> QED BY <1>2, <3>1, <3>3 DEF Sound, Untouched
  <2>2. Sound(requests[r])'
    BY <1>5, IdleHolds DEF Sound
  <2> QED BY <2>1, <2>2 DEF SoundInv
<1>9. FreshInv'
  <2>1. Past(links)' /\ \A q \in Request : Past(requests[q].seen)'
    <3>1. w.id <= begun
      BY <1>1 DEF Sound
    <3> QED BY <1>2, <1>5, <1>7, <3>1, IdleHolds DEF IInv, FreshInv, Past, NoRows
  <2>2. ASSUME NEW q \in Request, requests'[q].pc # "idle"
        PROVE  /\ OfOthers(links, requests[q].id)'
               /\ \A p \in Request : OfOthers(requests[p].seen, requests[q].id)'
               /\ \A p \in Request : p # q /\ requests'[p].pc # "idle" =>
                    requests'[p].id # requests'[q].id
    <3>1. q # r /\ requests'[q] = requests[q] /\ w.id # requests[q].id
      BY <1>1, <1>5, <2>2, IdleHolds DEF IInv, FreshInv
    <3> QED BY <1>2, <1>5, <1>7, <2>2, <3>1, IdleHolds DEF IInv, FreshInv, OfOthers, NoRows
  <2> QED BY <2>1, <2>2 DEF FreshInv
<1>10. FilledInv'
  <2>1. Filled
    BY <1>1 DEF IInv, FilledInv
  <2>2. \A t \in Table : links'[t] # {} \/ links[t] = {}
    <3>1. CASE w.patch = Unset
      BY <1>1, <1>2, <3>1 DEF Sound, Untouched
    <3>2. CASE w.patch # Unset
      <4>1. Edit(w)
        BY <1>1, <3>2 DEF Sound, Writing
      <4>2. \A t \in Table : w.result[t] # {}
        BY <4>1, HoldingIsFilled DEF Edit, Table
      <4> QED BY <1>1, <1>2, <4>1, <4>2 DEF Edit
    <3> QED BY <3>1, <3>2
  <2>3. template' # NoTemplate
    BY <1>3, TemplateAssumption
  <2> QED BY <2>1, <2>2, <2>3 DEF FilledInv, Filled, Table
<1> QED BY <1>6, <1>8, <1>9, <1>10 DEF IInv

LEMMA StutterKeeps == IInv /\ UNCHANGED vars => IInv'
BY DEF IInv, vars, TypeOK, SoundInv, Sound, Edit, StillThere, Untouched, FreshInv, Past, OfOthers,
       FilledInv, Filled

\* The invariant holds throughout.
THEOREM Invariant == Spec => []IInv
<1>1. IInv /\ [Next]_vars => IInv'
  <2> SUFFICES ASSUME IInv, [Next]_vars PROVE IInv'
    OBVIOUS
  <2>1. CASE Create
    BY <2>1, CreateKeeps
  <2>2. ASSUME NEW r \in Request, BeginArchive(r) \/ BeginUpdate(r) \/ Fail(r) PROVE IInv'
    BY <2>2, BeginArchiveKeeps, BeginUpdateKeeps, FailKeeps
  <2>3. ASSUME NEW r \in Request, Step(r) PROVE IInv'
    BY <2>3, ReadStacksKeeps, ReadCompetenciesKeeps, WriteRowKeeps, StartDeleteKeeps,
       EndDeleteKeeps, InsertRowsKeeps, CommitKeeps DEF Step
  <2>4. CASE UNCHANGED vars
    BY <2>4, StutterKeeps
  <2> QED BY <2>1, <2>2, <2>3, <2>4 DEF Next
<1> QED BY <1>1, InitHolds, PTL DEF Spec

-----------------------------------------------------------------------------
\* No interleaving of edits empties a template: validate_position_template and
\* the bodies' rules see what each one writes (position_template.py).
THEOREM TemplatesAreFilled == Spec => []NeverEmpty
<1>1. IInv => NeverEmpty
  BY DEF IInv, FilledInv, Filled, NeverEmpty
<1> QED BY <1>1, Invariant, PTL

\* What a committed edit does to a table it replaces, and to one it does not.
LEMMA EditCommits ==
  ASSUME IInv, NEW r \in Request, Commit(r), requests[r].patch # Unset
  PROVE  /\ Edit(requests[r]) /\ requests[r].todo = {}
         /\ \A t \in Table : links'[t] = IF Replaces(requests[r].patch, t)
              THEN (links[t] \ requests[r].deleted[t]) \cup requests[r].result[t]
              ELSE links[t]
<1> DEFINE w == requests[r]
<1>1. w.pc = "commit" /\ Sound(w) /\ w.todo \subseteq Table
  BY DEF Commit, IInv, SoundInv, TypeOK, Work
<1>2. Edit(w) /\ w.todo = {}
  BY <1>1 DEF Sound, Edit, Writing
<1>3. \A t \in Table : links'[t] = (links[t] \ w.deleted[t]) \cup w.inserted[t]
  BY DEF Commit
<1> QED BY <1>2, <1>3 DEF Edit

\* An edit leaves alone what its body leaves out: update_position_template sets
\* and replaces only what model_fields_set names, and the archive stamp never.
THEOREM EditsLeaveTheRest == Spec => EditsKeepTheRest
<1> DEFINE Kept(r) ==
      LET patch == requests[r].patch
      IN  Commit(r) /\ patch # Unset =>
            /\ template'.archived_at = template.archived_at
            /\ patch.details = Unset => template'.details = template.details
            /\ \A t \in Table : ~Replaces(patch, t) => links'[t] = links[t]
<1>1. ASSUME IInv, NEW r \in Request PROVE Kept(r)
  <2> SUFFICES ASSUME Commit(r), requests[r].patch # Unset
               PROVE  /\ template'.archived_at = template.archived_at
                      /\ requests[r].patch.details = Unset => template'.details = template.details
                      /\ \A t \in Table : ~Replaces(requests[r].patch, t) => links'[t] = links[t]
    OBVIOUS
  <2>1. Edit(requests[r]) /\ \A t \in Table : ~Replaces(requests[r].patch, t) => links'[t] = links[t]
    BY <1>1, EditCommits
  <2> QED BY <2>1 DEF Edit, Commit
<1>2. IInv /\ [Next]_vars => [\A r \in Request : Kept(r)]_vars
  BY <1>1
<1> QED BY <1>2, Invariant, PTL DEF Spec, EditsKeepTheRest

\* An edit whose reads are still true when it commits leaves exactly what it
\* asked for, and that keeps the rules.
THEOREM UnracedEditsAreExact == Spec => UnracedEditIsExact
<1> DEFINE Exact(r) ==
      LET work == requests[r]
      IN  Commit(r) /\ work.patch # Unset /\ links = work.seen =>
            KeepsTheRules(links') /\ links' = work.result
<1>1. ASSUME IInv, NEW r \in Request PROVE Exact(r)
  <2> DEFINE w == requests[r]
  <2> SUFFICES ASSUME Commit(r), w.patch # Unset, links = w.seen
               PROVE  KeepsTheRules(links') /\ links' = w.result
    OBVIOUS
  <2>1. Edit(w) /\ w.todo = {}
    BY <1>1, EditCommits
  <2>2. \A t \in Table : links'[t] = w.result[t]
    <3>1. ASSUME NEW t \in Table, Replaces(w.patch, t) PROVE links'[t] = w.result[t]
      <4>1. StillThere(w, t) \subseteq w.deleted[t] /\ StillThere(w, t) = links[t]
        BY <2>1, <3>1 DEF Edit, StillThere
      <4> QED BY <1>1, <3>1, <4>1, EditCommits
    <3>2. ASSUME NEW t \in Table, ~Replaces(w.patch, t) PROVE links'[t] = w.result[t]
      <4>1. links'[t] = links[t]
        BY <1>1, <3>2, EditCommits
      <4>2. w.result[t] = w.seen[t]
        BY <2>1, <3>2 DEF Edit, Resulting
      <4> QED BY <4>1, <4>2
    <3> QED BY <3>1, <3>2
  <2>3. links' = w.result
    <3>1. links' \in Rows /\ w.result \in Rows
      BY <1>1, CommitKeeps DEF IInv, TypeOK, Work
    <3> QED BY <2>2, <3>1 DEF Rows
  <2>4. KeepsTheRules(w.result)
    <3>1. SelectionHolds(w.result)
      BY <2>1 DEF Edit
    <3>2. w.result["stack"] # {} /\ w.result["competency"] # {}
      BY <3>1, HoldingIsFilled
    <3>3. \A row \in w.result["competency"] : row.key \in Keys(w.result["competency"])
      BY DEF Keys
    <3> QED BY <3>1, <3>2, <3>3 DEF SelectionHolds, KeepsTheRules, validate_position_template
  <2> QED BY <2>3, <2>4
<1>2. IInv /\ [Next]_vars => [\A r \in Request : Exact(r)]_vars
  BY <1>1
<1> QED BY <1>2, Invariant, PTL DEF Spec, UnracedEditIsExact
=============================================================================
