--------------------- MODULE MCWorktreeMaterialization ---------------------
(* One path of every kind, in the order the code publishes them. *)
EXTENDS WorktreeMaterialization

EveryKind == <<"rewritten", "removed", "added">>
============================================================================
