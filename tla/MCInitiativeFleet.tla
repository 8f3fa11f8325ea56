------------------------- MODULE MCInitiativeFleet -------------------------
(* Bounded instances of InitiativeFleet for TLC. *)
EXTENDS InitiativeFleet

\* An older initiative of two members, the second waiting for the first, and
\* a younger one of one member.
Chain == <<1, 1, 2>>
ChainEdges == {[from |-> 1, to |-> 2, kind |-> "blocks_start"]}
ChainOwner == <<2, 0>>

\* An older initiative of two independent members, a younger one of one
\* member, and a standalone task.
Rivals == <<1, 1, 2, 0>>
NoOwner == <<0, 0>>

OneRepository == [t \in Tasks |-> "web"]
TwoRepositories == [t \in Tasks |-> IF t = 1 THEN "web" ELSE "core"]
OneWorkerEach == [p \in Profiles |-> 1]
=============================================================================
