------------------------------ MODULE MCRubric ------------------------------
(* Instances of RubricVersions for TLC. *)
EXTENDS RubricVersions

CONSTANTS c1, c2, t1, x, y, coding, design, b1, b2, j1, j2

Slugs == coding :> b1 @@ design :> b2
Node(parent, retired, levels) == [parent |-> parent, retired |-> retired, levels |-> levels]
Block == Node(NoParent, FALSE, <<>>)
Leaf(text) == Node(b1, FALSE, 1 :> text)
File(nodes) == [retired |-> FALSE, nodes |-> nodes]

One == 1 :> File(b1 :> Block @@ c1 :> Leaf(x))
Two == 1 :> File(b1 :> Block @@ c1 :> Leaf(x) @@ c2 :> Leaf(x))
Retyped == 1 :> File(b1 :> Block @@ c1 :> Leaf(y) @@ c2 :> Leaf(x))
Retired == 1 :> File(b1 :> Block @@ c1 :> Node(b1, TRUE, 1 :> x) @@ c2 :> Leaf(x) @@ t1 :> Node(c2, FALSE, <<>>))
Shorter == 1 :> File(b1 :> Block @@ c1 :> Node(b1, FALSE, <<>>) @@ c2 :> Leaf(x))
Moved == 1 :> File(b1 :> Block @@ c1 :> Leaf(x) @@ c2 :> Node(c1, FALSE, <<>>))
Closed == 1 :> [File(b1 :> Block @@ c1 :> Leaf(x)) EXCEPT !.retired = TRUE]

Edits == <<{Two}, {Retyped, Retired, Shorter, Moved}, {One, Two, Closed}>>
PushEdits == [k \in 0..(MaxPushes - 1) |-> Edits[k + 1]]

Cells(block, id, level, text) ==
  [block |-> block, competency_id |-> id, level |-> level, text |-> text, retired |-> FALSE,
   blank |-> FALSE]
Sheet(stack, rows) == [stack |-> stack, hidden |-> FALSE, header |-> {}, rows |-> rows]
Good == <<Sheet(1, <<Cells(coding, c2, 3, x)>>),
          Sheet(1, <<Cells(coding, c1, 1, x), Cells(coding, NoCell, 1, x),
                     Cells(design, c2, 2, y), Cells(coding, c1, 2, y)>>)>>
HalfGood == <<Sheet(1, <<Cells(coding, c1, 1, y)>>), Sheet(2, <<Cells(coding, c1, 6, x)>>)>>
AllWorkbooks == {Good, HalfGood}

\* What a sheet is read as, said of all its rows at once: the rows that name a
\* competency are in the document cell by cell, or the first that is wrong by
\* itself, or contradicts an earlier one, names the error.
Stated(rows) == {i \in DOMAIN rows : rows[i].competency_id # NoCell}
CellMissing(rows, i) == rows[i].level \notin Rank
Contradicts(rows, i) ==
  \E j \in Stated(rows) : /\ j < i /\ rows[j].competency_id = rows[i].competency_id
                         /\ \/ BlockIdOf[rows[j].block] # BlockIdOf[rows[i].block]
                            \/ rows[j].level = rows[i].level
Wrong(rows) == {i \in Stated(rows) : CellMissing(rows, i) \/ Contradicts(rows, i)}
ReadAsStated(rows) ==
  LET read == ReadSheet([stack |-> 1, hidden |-> FALSE, header |-> {}, rows |-> rows])
      first == CHOOSE i \in Wrong(rows) : \A k \in Wrong(rows) : i <= k
  IN  IF Wrong(rows) # {}
      THEN read.error = IF CellMissing(rows, first) THEN "empty_cell" ELSE "duplicate"
      ELSE /\ read.error = "none"
           /\ UNION {{<<c, read.comps[c].block, r, read.comps[c].levels[r]>> :
                        r \in DOMAIN read.comps[c].levels} : c \in DOMAIN read.comps}
              = {<<rows[i].competency_id, BlockIdOf[rows[i].block], rows[i].level, rows[i].text>> :
                   i \in Stated(rows)}

SomeRows == {Cells(block, id, level, text) :
               block \in BlockName, id \in Competency \cup {NoCell}, level \in {1, 2, 6}, text \in {x, y}}
ASSUME SheetsAreReadAsStated == \A rows \in SeqOf(SomeRows, 3) : ReadAsStated(rows)

Symmetry == Permutations(Job)
=============================================================================
