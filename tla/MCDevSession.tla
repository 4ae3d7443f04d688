---------------------------- MODULE MCDevSession ----------------------------
(* Instances of DevSession for TLC. *)
EXTENDS DevSession, TLC

CONSTANTS a, b, w1, w2   \* rubric nodes, workers

Competency(n, target, seeds) ==
  [node_id |-> n, target_level |-> target, minutes |-> 9, seeds |-> seeds]
Plan(cs) == [competencies |-> cs, qa_minutes |-> 0, session_max_minutes |-> 9]

OneTopic == Plan(<<Competency(a, 2, 1)>>)
TwoTopics == Plan(<<Competency(a, 2, 2), Competency(b, 2, 1)>>)
NothingToAsk == Plan(<<>>)
QuietPlans == {OneTopic, TwoTopics, NothingToAsk}
OnePlan == {OneTopic}

Output(n, items, cheat) ==
  [competency_focus |-> n, assessments |-> items, cheat_flags |-> cheat,
   needs_manual_review |-> FALSE]
Outputs ==
  {Output(n, <<[node |-> n, level |-> 3, confidence |-> 6]>>, 1) : n \in {a, b}}
    \cup {Output(n, <<>>, 0) : n \in {a, b}}
GoodOutputs == {Output(a, <<[node |-> a, level |-> 3, confidence |-> 6]>>, 0)}

Symmetry == Permutations(Worker)
=============================================================================
