----------------------------- MODULE TaskMachine -----------------------------
(***************************************************************************)
(* What the rest of the service may rely on about tasks: whatever the      *)
(* reports, terminals, operators and restarts behind them, each committed  *)
(* transaction moves a task only along Follows, and a task that left       *)
(* "prepared" or settled never comes back.                                 *)
(***************************************************************************)
EXTENDS TaskStates

CONSTANT Tasks

VARIABLE state

Init == state = [t \in Tasks |-> "absent"]

\* One transaction may move several tasks: a group command or a restart.
Next ==
  /\ state' \in [Tasks -> TaskState \cup {"absent"}]
  /\ \A t \in Tasks : state'[t] = state[t] \/ state'[t] \in Follows[state[t]]

Spec == Init /\ [][Next]_state
=============================================================================
