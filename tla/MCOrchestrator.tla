--------------------------- MODULE MCOrchestrator ---------------------------
(* Instances of Orchestrator for TLC.  One unit of time is a minute. *)
EXTENDS Orchestrator

CONSTANTS a, b   \* rubric nodes

Item(n, level, confidence) == [node |-> n, level |-> level, confidence |-> confidence]
Output(focus, items, cheat, review) ==
  [competency_focus |-> focus, assessments |-> items, cheat_flags |-> cheat,
   needs_manual_review |-> review]

Competency(n, target, minutes, seeds) ==
  [node_id |-> n, target_level |-> target, minutes |-> minutes, seeds |-> seeds]
Plan(cs, qa, max) ==
  [competencies |-> cs, qa_minutes |-> qa, session_max_minutes |-> max]

\* Two competencies, the first with two seeds; one node asked about twice, the
\* second time for a higher level; and a plan with nothing to ask.
TwoTopics == Plan(<<Competency(a, 2, 9, 2), Competency(b, 3, 9, 1)>>, 1, 9)
NothingToAsk == Plan(<<>>, 1, 9)
SameTopicTwice == Plan(<<Competency(a, 2, 9, 1), Competency(a, 3, 9, 1)>>, 1, 9)
FlowPlans == {TwoTopics, SameTopicTwice, NothingToAsk}

\* Strong, weak at the confidence threshold, level 0, not assessable.
FlowOutputs ==
  {Output(n, <<Item(n, 3, 6)>>, 0, FALSE) : n \in {a, b}}
    \cup {Output(a, <<Item(a, 3, 5), Item(b, 3, 6)>>, 1, TRUE)}
    \cup {Output(n, <<Item(n, 3, 6), Item(n, 0, 9)>>, 0, FALSE) : n \in {a}}
    \cup {Output(n, <<>>, 0, FALSE) : n \in {a, b}}
    \cup {Output(a, <<Item(a, 0, 6)>>, 1, FALSE)}

\* Every budget is short: the probe margin, the competency, Q&A and session
\* limits and the silence limit are all crossed within MaxClock.
OneTopic == Plan(<<Competency(a, 2, 2, 1)>>, 1, 3)
TwoShortTopics == Plan(<<Competency(a, 2, 2, 1), Competency(a, 2, 1, 1)>>, 1, 3)
ClockPlans == {OneTopic, TwoShortTopics}
ClockOutputs == {Output(a, <<Item(a, 2, 6)>>, 0, FALSE)}
=============================================================================
