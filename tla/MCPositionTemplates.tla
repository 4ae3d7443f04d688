------------------------ MODULE MCPositionTemplates ------------------------
(* Instances of PositionTemplates for TLC. *)
EXTENDS PositionTemplates, TLC

CONSTANTS s1, s2, s3, c1, c2, d1, d2, r1, r2, r3

StackOfCompetency == c1 :> s1 @@ c2 :> s2

Body(stacks, comps, must) == [details |-> d1, stacks |-> stacks, comps |-> comps, must |-> must]
AllBodies == {Body({s1, s2}, {c1, c2}, {c1}), Body({s1, s2}, {c1}, {}), Body({s1}, {c1, c2}, {}), Body({s1}, {}, {})}

Patch(details, stacks, comps, must) ==
  [details |-> details, stacks |-> stacks, comps |-> comps, must |-> must]
\* s3 is not in the rubric.
AllPatches ==
  {Patch(d2, Unset, Unset, Unset), Patch(Unset, {s1}, Unset, Unset), Patch(d2, {s2}, {c2}, {c2}),
   Patch(Unset, Unset, {c2}, Unset), Patch(Unset, {s1}, {c1}, {}), Patch(Unset, Unset, Unset, {c1}),
   Patch(d1, {s1, s3}, Unset, Unset)}

=============================================================================
