---------------------------- MODULE MCStaffAuth ----------------------------
(* Instances of StaffAuth for TLC. *)
EXTENDS StaffAuth, TLC

CONSTANTS ann, bob, k1, k2, c1, c2

\* ann is given a role and loses it; bob is outside the domain.  The last file
\* has a role nobody knows.
Roles(r) == ann :> r @@ bob :> "recruiter"
AllMappings == {Roles("recruiter"), Roles(NoRole), Roles("manager")}

Symmetry == Permutations(Key) \cup Permutations(Call)
=============================================================================
