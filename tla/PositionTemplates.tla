------------------------- MODULE PositionTemplates -------------------------
(***************************************************************************)
(* One position template and the requests that edit it at the same time:   *)
(* app/backend/services/position_template.py behind                        *)
(* api/position_templates.py, each request in its own transaction of       *)
(* api/deps.py's get_db, over the tables of migration 0004.                *)
(*                                                                         *)
(* PostgreSQL runs the statements under READ COMMITTED: each one sees what *)
(* is committed when it starts; a DELETE or UPDATE waits for the rows it   *)
(* has found that another transaction has touched, and passes over those   *)
(* that are gone by then.  Selections are sets, a list with a duplicate    *)
(* being refused like any malformed body.  Reads (GET) change nothing.     *)
(* A suffix in capitals marks a mutated form.                              *)
(***************************************************************************)
EXTENDS Naturals, FiniteSets

CONSTANTS
  Stack, Competency,  \* the ids in the rubric tables
  StackOf,            \* Competency -> its stack
  Details,            \* values of title, level and jd_text together
  Request,            \* requests that may be in progress together
  Bodies,             \* bodies of POST
  Patches,            \* bodies of PATCH
  Unset,              \* a field the body, or the UPDATE, leaves out
  NoTemplate,
  MaxRequests         \* bound on the requests served

Table == {"stack", "competency"}

ASSUME TemplateAssumption ==
  /\ StackOf \in [Competency -> Stack] /\ MaxRequests \in Nat
  /\ Unset \notin Details /\ Unset \notin Patches
  /\ (\A p \in Patches : p.details \in Details \cup {Unset}) /\ \A b \in Bodies : b.details \in Details
  /\ NoTemplate \notin [details : Details, archived_at : Nat]

VARIABLES
  template,  \* the committed row
  links,     \* Table -> its committed association rows
  requests,  \* Request -> its transaction
  begun      \* requests begun: their ids, and the clock

vars == <<template, links, requests, begun>>

NotArchived == 0
NoRows == [t \in Table |-> {}]
Working(pc, id, patch, row) ==
  [pc |-> pc, id |-> id,
   patch |-> patch,            \* Unset too for an archive request
   row |-> row,                \* the row it read
   seen |-> NoRows,            \* the association rows it read
   result |-> NoRows,          \* the resulting selection, as rows
   todo |-> {},                \* tables still to replace
   target |-> {},              \* rows its DELETE has found
   deleted |-> NoRows, inserted |-> NoRows,
   set |-> [details |-> Unset, archived_at |-> Unset]]  \* columns it updates
NoWork == Working("idle", 0, Unset, NoTemplate)

Init == template = NoTemplate /\ links = NoRows
        /\ requests = [r \in Request |-> NoWork] /\ begun = 0

-----------------------------------------------------------------------------
\* The rules.  must_have is a column of the competency rows.

Keys(rows) == {row.key : row \in rows}
Musts(rows) == {row.key : row \in {x \in rows : x.must}}

\* PositionTemplateCreate._check_consistency and its field bounds.
Consistent_MAY_BE_EMPTY(stacks, comps, must) == must \subseteq comps
Consistent(stacks, comps, must) == stacks # {} /\ comps # {} /\ must \subseteq comps

\* PositionTemplateUpdate's, then the service's on a must-have list alone.
PatchAllowed(patch) ==
  /\ patch.stacks # {} /\ patch.comps # {}
  /\ patch.must # Unset => patch.comps # Unset /\ patch.must \subseteq patch.comps

validate_position_template_EXISTING_ONLY(stacks, comps) ==
  stacks \subseteq Stack /\ comps \subseteq Competency
validate_position_template(stacks, comps) ==
  /\ stacks \subseteq Stack
  /\ \A c \in comps : c \in Competency /\ StackOf[c] \in stacks

\* Rows of a selection, as request id inserts them.
StackRows(stacks, id) == {[key |-> s, must |-> FALSE, by |-> id] : s \in stacks}
CompetencyRows(comps, must, id) == {[key |-> c, must |-> c \in must, by |-> id] : c \in comps}

\* A list in the body replaces the table's selection.
Replaces(patch, t) == IF t = "stack" THEN patch.stacks # Unset ELSE patch.comps # Unset

\* The resulting selection of a patch over what was read.
Resulting(patch, seen, id) ==
  [t \in Table |->
     IF ~Replaces(patch, t) THEN seen[t]
     ELSE IF t = "stack" THEN StackRows(patch.stacks, id)
     ELSE CompetencyRows(patch.comps, IF patch.must = Unset THEN {} ELSE patch.must, id)]

SelectionHolds(rows) ==
  /\ Consistent(Keys(rows["stack"]), Keys(rows["competency"]), Musts(rows["competency"]))
  /\ validate_position_template(Keys(rows["stack"]), Keys(rows["competency"]))

-----------------------------------------------------------------------------
\* create_position_template: nobody knows the new id before COMMIT.
Create ==
  /\ template = NoTemplate /\ begun < MaxRequests
  /\ begun' = begun + 1
  /\ \E body \in Bodies :
       IF /\ Consistent(body.stacks, body.comps, body.must)
          /\ validate_position_template(body.stacks, body.comps)
       THEN /\ template' = [details |-> body.details, archived_at |-> NotArchived]
            /\ links' = [t \in Table |->
                           IF t = "stack" THEN StackRows(body.stacks, begun + 1)
                           ELSE CompetencyRows(body.comps, body.must, begun + 1)]
       ELSE UNCHANGED <<template, links>>
  /\ UNCHANGED requests

Begun(r, work) ==
  /\ requests[r].pc = "idle" /\ template # NoTemplate /\ begun < MaxRequests
  /\ begun' = begun + 1
  /\ requests' = [requests EXCEPT ![r] = work]
  /\ UNCHANGED <<template, links>>

\* archive_position_template: reads the row and stamps it unless it is stamped.
BeginArchive(r) ==
  LET stamp == IF template.archived_at = NotArchived THEN begun + 1 ELSE Unset
  IN  Begun(r, [Working("row", begun + 1, Unset, template) EXCEPT
                    !.set = [details |-> Unset, archived_at |-> stamp]])

\* update_position_template: reads the row, then the two tables one by one.
BeginUpdate(r) ==
  \E patch \in Patches :
    Begun(r, IF PatchAllowed(patch) THEN Working("read_stacks", begun + 1, patch, template)
             ELSE NoWork)

ReadStacks(r) ==
  /\ requests[r].pc = "read_stacks"
  /\ requests' = [requests EXCEPT ![r].pc = "read_competencies",
                                  ![r].seen = [@ EXCEPT !["stack"] = links["stack"]]]
  /\ UNCHANGED <<template, links, begun>>

\* The attributes the ORM finds changed, and only those, go into the UPDATE.
ChangedColumns_ALL(patch, row) ==
  [details |-> IF patch.details = Unset THEN row.details ELSE patch.details,
   archived_at |-> row.archived_at]
ChangedColumns(patch, row) ==
  [details |-> IF patch.details = row.details THEN Unset ELSE patch.details,
   archived_at |-> Unset]

\* The tables to replace, the stacks first.
TablesOf(patch) == {t \in Table : Replaces(patch, t)}
NextTable_BY_PATCH(work) ==
  LET first == IF work.patch.details = Unset THEN "stack" ELSE "competency"
  IN  IF first \in work.todo THEN first ELSE CHOOSE t \in work.todo : TRUE
NextTable(work) == IF "stack" \in work.todo THEN "stack" ELSE "competency"

\* The second read, and the rules over the resulting selection.
ReadCompetencies(r) ==
  LET work == requests[r]
      seen == [work.seen EXCEPT !["competency"] = links["competency"]]
      result == Resulting(work.patch, seen, work.id)
  IN  /\ work.pc = "read_competencies"
      /\ requests' = [requests EXCEPT ![r] =
           IF SelectionHolds(result)
           THEN [work EXCEPT !.pc = "row", !.seen = seen, !.result = result,
                             !.todo = TablesOf(work.patch),
                             !.set = ChangedColumns(work.patch, work.row)]
           ELSE NoWork]
      /\ UNCHANGED <<template, links, begun>>

\* The UPDATE of the row, if any column is to be set; it waits for the lock.
Updates(work) == work.set.details # Unset \/ work.set.archived_at # Unset
HoldsRow(r) == requests[r].pc \in {"delete", "wait", "insert", "commit"} /\ Updates(requests[r])
AfterRow(todo) == IF todo = {} THEN "commit" ELSE "delete"
WriteRow(r) ==
  /\ requests[r].pc = "row"
  /\ Updates(requests[r]) => \A q \in Request \ {r} : ~HoldsRow(q)
  /\ requests' = [requests EXCEPT ![r].pc = AfterRow(requests[r].todo)]
  /\ UNCHANGED <<template, links, begun>>

\* A table is replaced by a DELETE, which starts here with the rows it sees ...
StartDelete(r) ==
  /\ requests[r].pc = "delete"
  /\ requests' = [requests EXCEPT ![r].pc = "wait", ![r].target = links[NextTable(requests[r])]]
  /\ UNCHANGED <<template, links, begun>>

\* ... waits for those others are deleting, and passes over those then gone ...
EndDelete(r) ==
  LET t == NextTable(requests[r])
  IN  /\ requests[r].pc = "wait"
      /\ \A q \in Request \ {r} : requests[q].deleted[t] \cap requests[r].target = {}
      /\ requests' = [requests EXCEPT
                        ![r].pc = "insert", ![r].target = {},
                        ![r].deleted = [@ EXCEPT ![t] = requests[r].target \cap links[t]]]
      /\ UNCHANGED <<template, links, begun>>

\* ... and by an INSERT, which waits for others that are inserting or deleting
\* one of its keys, and fails, rolling all back, if one is there after that.
InsertRows(r) ==
  LET work == requests[r]
      t == NextTable(work)
      rows == work.result[t]
      taken == Keys(links[t] \ work.deleted[t])
  IN  /\ work.pc = "insert"
      /\ \A q \in Request \ {r} :
           Keys(requests[q].inserted[t] \cup requests[q].deleted[t]) \cap Keys(rows) = {}
      /\ requests' = [requests EXCEPT ![r] =
           IF Keys(rows) \cap taken # {} THEN NoWork
           ELSE [work EXCEPT !.pc = AfterRow(work.todo \ {t}), !.todo = @ \ {t},
                             !.inserted = [@ EXCEPT ![t] = rows]]]
      /\ UNCHANGED <<template, links, begun>>

Commit(r) ==
  LET work == requests[r]
  IN  /\ work.pc = "commit"
      /\ template' = [details |-> IF work.set.details = Unset THEN template.details
                                  ELSE work.set.details,
                      archived_at |-> IF work.set.archived_at = Unset THEN template.archived_at
                                      ELSE work.set.archived_at]
      /\ links' = [t \in Table |-> (links[t] \ work.deleted[t]) \cup work.inserted[t]]
      /\ requests' = [requests EXCEPT ![r] = NoWork]
      /\ UNCHANGED begun

\* An exception or a lost connection: the transaction is rolled back.
Fail(r) ==
  /\ requests[r].pc # "idle"
  /\ requests' = [requests EXCEPT ![r] = NoWork]
  /\ UNCHANGED <<template, links, begun>>

Step(r) == \/ ReadStacks(r) \/ ReadCompetencies(r) \/ WriteRow(r)
           \/ StartDelete(r) \/ EndDelete(r) \/ InsertRows(r) \/ Commit(r)

Next == Create \/ \E r \in Request : BeginArchive(r) \/ BeginUpdate(r) \/ Step(r) \/ Fail(r)

Spec == Init /\ [][Next]_vars

\* Statements return, and a lock that is free is granted.
FairSpec == Spec /\ \A r \in Request : WF_vars(Step(r))

-----------------------------------------------------------------------------
\* What a template must be: FR-003 and FR-006 of specs/013.
KeepsTheRules(rows) ==
  /\ rows["stack"] # {} /\ rows["competency"] # {} /\ Keys(rows["stack"]) \subseteq Stack
  /\ \A row \in rows["competency"] :
       row.key \in Competency /\ StackOf[row.key] \in Keys(rows["stack"])

\* No committed template lacks a stack or a competency, whatever overlaps.
NeverEmpty == template # NoTemplate => links["stack"] # {} /\ links["competency"] # {}

\* An edit whose rows nobody changed between its reads and its commit leaves a
\* template that keeps the rules and is, table by table, what was asked for:
\* replaced whole where the body has a list, untouched where not.
UnracedEditIsExact ==
  [][\A r \in Request :
       LET work == requests[r]
       IN  Commit(r) /\ work.patch # Unset /\ links = work.seen =>
             KeepsTheRules(links') /\ links' = work.result]_vars

\* An edit never touches what its body leaves out: an archived template stays
\* archived when an edit that read it before commits after, and of two edits
\* with nothing in common neither undoes the other.
EditsKeepTheRest ==
  [][\A r \in Request :
       LET patch == requests[r].patch
       IN  Commit(r) /\ patch # Unset =>
             /\ template'.archived_at = template.archived_at
             /\ patch.details = Unset => template'.details = template.details
             /\ \A t \in Table : ~Replaces(patch, t) => links'[t] = links[t]]_vars

\* No request waits for ever for another one's rows.
RequestsEnd == \A r \in Request : requests[r].pc # "idle" ~> requests[r].pc = "idle"

\* Claimed of every edit (specs/014-t13-position-template-crud/research.md 29).
TemplateIsValid == template # NoTemplate => KeepsTheRules(links)
=============================================================================
