----------------------------- MODULE TaskStates -----------------------------
(***************************************************************************)
(* The task vocabulary of comis-dev-crew and the pure rules that decide    *)
(* which lifecycle edge a mutation may take (internal/domain), plus the    *)
(* classifications of states that the SQLite store consults.               *)
(*                                                                         *)
(* "absent" is not a state of the code: it stands for a handle that has no *)
(* row in the tasks table yet.                                             *)
(***************************************************************************)

\* Every durable task state.
TaskState ==
  {"prepared", "ready", "launching", "working", "awaiting_decision", "blocked",
   "paused", "validating", "candidate_complete", "delivering", "delivered",
   "failed", "cancelled", "cleanup_held", "cleaned", "reconciling", "unknown"}

(***************************************************************************)
(* nextTaskState as a table: an edge is allowed from its `from` set only   *)
(* and always leads to its `to` state.  Edges no command of the service    *)
(* requests are left out.                                                  *)
(***************************************************************************)
Edge ==
  [bind_acknowledged       |-> [from |-> {"prepared"}, to |-> "ready"],
   preparation_preserved   |-> [from |-> {"prepared"}, to |-> "prepared"],
   preparation_abandoned   |-> [from |-> {"prepared"}, to |-> "cancelled"],
   launch_requested        |-> [from |-> {"ready"}, to |-> "launching"],
   worker_acknowledged     |-> [from |-> {"launching"}, to |-> "working"],
   terminal_unavailable    |-> [from |-> {"launching", "working", "awaiting_decision",
                                          "blocked", "paused"}, to |-> "unknown"],
   decision_requested      |-> [from |-> {"working"}, to |-> "awaiting_decision"],
   decision_answered       |-> [from |-> {"awaiting_decision"}, to |-> "working"],
   blocked                 |-> [from |-> {"working", "awaiting_decision"}, to |-> "blocked"],
   paused                  |-> [from |-> {"ready", "working", "awaiting_decision", "blocked"},
                                to |-> "paused"],
   resumed                 |-> [from |-> {"paused"}, to |-> "ready"],
   validation_started      |-> [from |-> {"working", "paused"}, to |-> "validating"],
   validation_accepted     |-> [from |-> {"validating"}, to |-> "candidate_complete"],
   delivery_started        |-> [from |-> {"candidate_complete"}, to |-> "delivering"],
   delivery_accepted       |-> [from |-> {"delivering"}, to |-> "delivered"],
   failure_observed        |-> [from |-> {"prepared", "ready", "launching", "working",
                                          "awaiting_decision", "blocked", "paused", "validating",
                                          "candidate_complete", "delivering"}, to |-> "failed"],
   cancel_requested        |-> [from |-> {"prepared", "ready", "launching", "working",
                                          "awaiting_decision", "blocked", "paused", "validating",
                                          "candidate_complete"}, to |-> "cancelled"],
   reconcile_required      |-> [from |-> TaskState \ {"cleaned", "reconciling"},
                                to |-> "reconciling"]]

\* reconciledTaskState: where a task may be led out of "reconciling".
ReconciledEdge ==
  [unresolved |-> "unknown", ready |-> "ready", validating |-> "validating",
   cancelled |-> "cancelled"]

\* Task.Validate accepts a task without managed run and lease in these states only.
AllowsUnboundPreparation(s) ==
  s \in {"prepared", "reconciling", "unknown", "cancelled", "cleanup_held", "cleaned"}

\* The edge a worker report of each kind asks for.
ReportTransition ==
  [progress |-> "worker_acknowledged", decision |-> "decision_requested",
   resolution |-> "decision_answered", blocked |-> "blocked", paused |-> "paused",
   candidate_complete |-> "validation_started", failed |-> "failure_observed"]

\* What Comis may report of a terminal, and the two reports that settle it.
TerminalTransition ==
  {"created", "running", "input_needed", "stuck", "exited", "lost", "recovered", "released"}
Settled == {"exited", "released"}
TerminalUnavailable == Settled \cup {"lost"}

\* Faulty variant: the terminal of a paused task may not end either.
MutLossUnsettlesPaused == {"launching", "working", "awaiting_decision", "blocked", "paused"}

\* The states a lost terminal turns into "unknown".
TerminalLossChangesTask == {"launching", "working", "awaiting_decision", "blocked"}

\* The states that hold a worker able to answer a pause request.
TaskHoldsAWorker == {"launching", "working", "awaiting_decision", "blocked"}

\* The states a restart cannot vouch for.
RuntimeSensitiveState ==
  {"launching", "working", "awaiting_decision", "blocked", "reconciling",
   "candidate_complete", "delivering"}

(***************************************************************************)
(* What one committed transaction may make of a task in each state.  It    *)
(* differs from Edge where a transaction takes two edges at once (delivery *)
(* and the ways through "reconciling") and where a command asks for more   *)
(* than the edge demands.                                                  *)
(***************************************************************************)
Follows ==
  [absent             |-> {"prepared"},
   prepared           |-> {"ready", "cancelled"},
   ready              |-> {"launching", "paused", "failed", "cancelled"},
   launching          |-> {"working", "failed", "cancelled", "unknown"},
   working            |-> {"awaiting_decision", "blocked", "paused", "validating",
                           "failed", "cancelled", "unknown"},
   awaiting_decision  |-> {"working", "blocked", "paused", "failed", "cancelled", "unknown"},
   blocked            |-> {"paused", "failed", "cancelled", "unknown"},
   paused             |-> {"ready", "validating", "failed", "cancelled"},
   validating         |-> {"candidate_complete", "failed", "cancelled"},
   candidate_complete |-> {"delivered", "failed", "cancelled", "unknown"},
   delivering         |-> {"delivered", "failed", "unknown"},
   delivered          |-> {"cleanup_held"},
   failed             |-> {"cleanup_held"},
   cancelled          |-> {"cleanup_held"},
   cleanup_held       |-> {"cleaned"},
   cleaned            |-> {},
   reconciling        |-> {"unknown"},
   unknown            |-> {"validating", "cancelled"}]
=============================================================================
