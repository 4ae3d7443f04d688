------------------------------- MODULE Rubric -------------------------------
(***************************************************************************)
(* The rubric as data, on its way from a workbook to the database and to a *)
(* session: app/backend/services/rubric_importer.py (workbook to YAML,     *)
(* YAML to table rows), scripts/sync_rubric_to_db.py (the policy gate over *)
(* two checkouts) and rubric_snapshot.py (table rows to a nested tree).    *)
(*                                                                         *)
(* A payload is the directory configs/rubric: stack -> document, stacks    *)
(* being numbers in the order of their file names.  A document's nodes are *)
(* a function from stable ids; a node's levels one from ranks to           *)
(* descriptors.  Labels, evidence examples and the YAML text are left out. *)
(* A suffix in capitals marks a mutated form.                              *)
(***************************************************************************)
EXTENDS Naturals, Sequences, FiniteSets, SequencesExt

CONSTANTS
  Stack,        \* file stems, as numbers in their sort order
  Competency,   \* stable ids of competencies
  Topic,        \* stable ids of topics
  BlockId,      \* ids "block.<slug>"
  BadBlockId,   \* such an id that no schema admits: its slug starts with a digit
  BlockName,    \* what the block column may hold
  BlockIdOf,    \* BlockName -> its block id: names may share a slug
  NoCell,       \* an empty competency_id
  NoParent      \* parent: null

Rank == 1..5

ASSUME RubricAssumption ==
  /\ Stack \subseteq Nat
  /\ BlockIdOf \in [BlockName -> BlockId \cup {BadBlockId}]
  /\ BlockId \cap (Competency \cup Topic) = {} /\ NoParent \notin BlockId \cup Competency

-----------------------------------------------------------------------------
\* convert: a workbook's sheets become documents.

\* d[key] = value.
Put(d, key, value) == [k \in DOMAIN d \cup {key} |-> IF k = key THEN value ELSE d[k]]

\* A required cell that is empty, an id or a level that is not one; then the
\* same competency in two blocks, or one of its levels twice.
RowError(comps, row) ==
  LET id == row.competency_id
      again == id \in DOMAIN comps
  IN  IF id \notin Competency \/ row.blank \/ row.level \notin Rank THEN "empty_cell"
      ELSE IF again /\ \/ comps[id].block # BlockIdOf[row.block]
                       \/ row.level \in DOMAIN comps[id].levels THEN "duplicate"
      ELSE "none"

\* The first row of a competency says where it is and whether it is retired.
WithRow(comps, row) ==
  LET id == row.competency_id
      comp == IF id \in DOMAIN comps THEN comps[id]
              ELSE [block |-> BlockIdOf[row.block], retired |-> row.retired, levels |-> <<>>]
  IN  Put(comps, id, [comp EXCEPT !.levels = Put(@, row.level, row.text)])

\* A row without a competency id is a section break.
ReadRow(read, row) ==
  IF read.error # "none" \/ row.competency_id = NoCell THEN read
  ELSE LET error == RowError(read.comps, row)
       IN  IF error = "none" THEN [read EXCEPT !.comps = WithRow(@, row)]
           ELSE [read EXCEPT !.error = error]

\* _read_sheet: the header and the merged cells come before the rows.
ReadSheet(sheet) ==
  LET error == IF sheet.header = {} THEN "none"
               ELSE IF "column" \in sheet.header THEN "unknown_column" ELSE "merged_key"
  IN  FoldLeft(ReadRow, [error |-> error, comps |-> <<>>], sheet.rows)

\* _competencies_to_yaml_doc: one node per block and one per competency.
SheetDocument(comps) ==
  LET blocks == {comps[c].block : c \in DOMAIN comps}
  IN  [retired |-> FALSE,
       nodes |-> [id \in blocks \cup DOMAIN comps |->
                    IF id \in blocks
                    THEN [parent |-> NoParent, retired |-> FALSE, levels |-> <<>>]
                    ELSE [parent |-> comps[id].block, retired |-> comps[id].retired,
                          levels |-> comps[id].levels]]]

SchemaError(doc) == IF BadBlockId \in DOMAIN doc.nodes THEN "schema_violation" ELSE "none"

\* One sheet of convert.  Sheets before the one at fault have been written.
ConvertSheet_KEEPS_OLD(result, sheet) ==
  LET read == ReadSheet(sheet)
      doc == SheetDocument(read.comps)
      error == IF sheet.stack \notin Stack THEN "empty_cell"
               ELSE IF read.error # "none" THEN read.error
               ELSE SchemaError(doc)
  IN  IF result.error # "none" \/ sheet.hidden THEN result
      ELSE IF error # "none" THEN [result EXCEPT !.error = error]
      ELSE [result EXCEPT !.files = IF sheet.stack \in DOMAIN @ THEN @ ELSE Put(@, sheet.stack, doc)]
ConvertSheet(result, sheet) ==
  LET read == ReadSheet(sheet)
      doc == SheetDocument(read.comps)
      error == IF sheet.stack \notin Stack THEN "empty_cell"
               ELSE IF read.error # "none" THEN read.error
               ELSE SchemaError(doc)
  IN  IF result.error # "none" \/ sheet.hidden THEN result
      ELSE IF error # "none" THEN [result EXCEPT !.error = error]
      ELSE [result EXCEPT !.files = Put(@, sheet.stack, doc)]

\* convert writes over the files that are there and leaves the others.
Convert(files, workbook) ==
  FoldLeft(ConvertSheet, [error |-> "none", files |-> files], workbook)

-----------------------------------------------------------------------------
\* check: the policy gate of sync_rubric_to_db.py.

IdsIn(payload) == UNION {DOMAIN payload[s].nodes : s \in DOMAIN payload}

\* _index_nodes: of two files with one id the last wins; a file's retired
\* flag retires its nodes.
IndexNodes(payload) ==
  [id \in IdsIn(payload) |->
     LET files == {s \in DOMAIN payload : id \in DOMAIN payload[s].nodes}
         doc == payload[CHOOSE s \in files : \A t \in files : t <= s]
     IN  [retired |-> doc.retired \/ doc.nodes[id].retired, levels |-> doc.nodes[id].levels]]

Removed(baseline, current) == IdsIn(baseline) \ IdsIn(current)

\* detect_destructive_changes, of the ids on both sides: retired, un-retired,
\* a level removed or its descriptor changed.
LevelsChanged_KEPT_RANKS(old, new) ==
  \E rank \in DOMAIN old.levels \cap DOMAIN new.levels : new.levels[rank] # old.levels[rank]
LevelsChanged(old, new) ==
  \E rank \in DOMAIN old.levels :
    rank \in DOMAIN new.levels => new.levels[rank] # old.levels[rank]

Destructive(baseline, current) ==
  LET old == IndexNodes(baseline)
      new == IndexNodes(current)
  IN  {id \in DOMAIN old \cap DOMAIN new :
         \/ old[id].retired # new[id].retired
         \/ ~old[id].retired /\ ~new[id].retired /\ LevelsChanged(old[id], new[id])}

\* _cmd_check's exit code.  No citation authorises a removal.
CheckExit(baseline, current, cited) ==
  IF Removed(baseline, current) # {} THEN 2
  ELSE IF Destructive(baseline, current) = {} \/ cited THEN 0 ELSE 1

-----------------------------------------------------------------------------
\* seed: what a payload becomes in the tables.

BlocksOf(doc) == {id \in DOMAIN doc.nodes : doc.nodes[id].parent = NoParent}
CompetenciesOf(doc) == {id \in DOMAIN doc.nodes : doc.nodes[id].parent \in BlocksOf(doc)}
TopicsOf(doc) == {id \in DOMAIN doc.nodes : doc.nodes[id].parent \in CompetenciesOf(doc)}

Table == {"stack", "block", "competency", "level", "topic"}

RowsOfDocument(s, doc) ==
  LET of(id) == doc.nodes[id].parent
  IN  [stack |-> {<<s>>},
       block |-> {<<s, b>> : b \in BlocksOf(doc)},
       competency |-> {<<s, of(c), c>> : c \in CompetenciesOf(doc)},
       level |-> UNION {{<<s, c, r, doc.nodes[c].levels[r]>> : r \in DOMAIN doc.nodes[c].levels} :
                          c \in CompetenciesOf(doc)},
       topic |-> {<<s, of(t), t>> : t \in TopicsOf(doc)}]

\* _materialise_stack for every file.  A node that is none of the three, whose
\* parent is missing or deeper, gets no row; a retired one gets its row.
Materialise_ACTIVE_ONLY(payload) ==
  [table \in Table |->
     UNION {RowsOfDocument(s, [payload[s] EXCEPT
              !.nodes = [id \in {n \in DOMAIN @ : ~@[n].retired} |-> @[id]]])[table] :
              s \in DOMAIN payload}]
Materialise(payload) ==
  [table \in Table |-> UNION {RowsOfDocument(s, payload[s])[table] : s \in DOMAIN payload}]

\* The ids the rename check looks for in a new payload.
NonBlockIds(payload) == IdsIn(payload) \ (BlockId \cup {BadBlockId})

NamesIn(competencies) == {row[3] : row \in competencies}

-----------------------------------------------------------------------------
\* snapshot_rubric: the rows of one version, nested.
Snapshot(rows) ==
  LET topicsOf(s, c) == {row[3] : row \in {r \in rows["topic"] : r[1] = s /\ r[2] = c}}
      levelsOf(s, c) == {<<row[3], row[4]>> : row \in {r \in rows["level"] : r[1] = s /\ r[2] = c}}
      competenciesOf(s, b) ==
        {[name |-> row[3], topics |-> topicsOf(s, row[3]), levels |-> levelsOf(s, row[3])] :
           row \in {r \in rows["competency"] : r[1] = s /\ r[2] = b}}
      blocksOf(s) == {[name |-> row[2], competencies |-> competenciesOf(s, row[2])] :
                        row \in {r \in rows["block"] : r[1] = s}}
  IN  {[name |-> row[1], blocks |-> blocksOf(row[1])] : row \in rows["stack"]}
=============================================================================
