--------------------------- MODULE MCFeatureFlags ---------------------------
(* Instances of FeatureFlags for TLC. *)
EXTENDS FeatureFlags

CONSTANTS f1, c1, c2, j1   \* a flag, two callers, a sync run
=============================================================================
