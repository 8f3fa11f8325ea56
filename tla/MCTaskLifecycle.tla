------------------------- MODULE MCTaskLifecycle -------------------------
(* Bounded instances of TaskLifecycle for TLC. *)
EXTENDS TaskLifecycle, TLC

\* Sessions are interchangeable, and so are decision keys.
Symmetry == Permutations(Sessions) \cup Permutations(DecisionKeys)
=============================================================================
