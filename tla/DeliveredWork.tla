---------------------------- MODULE DeliveredWork ----------------------------
(***************************************************************************)
(* What happens to a task's work at the end of its life: it is published   *)
(* as a pull request or a report, merged on approval, cleaned up or        *)
(* discarded, while the service may stop at any point.                     *)
(***************************************************************************)
EXTENDS TaskMerge, WorkspaceRemoval

vars == <<forgeVars, mergeVars, removalVars>>

Init == ForgeInit /\ MergeInit /\ RemovalInit

\* The service stops: every call in progress is lost.  It may be started again
\* with another merge authority.
Restart ==
  /\ Fault
  /\ \/ delivering # "idle"
     \/ \E o \in MergeOps : mcall[o] # "idle"
     \/ \E c \in Callers : rcall[c].at # "idle"
  /\ delivering' = "idle"
  /\ mcall' = [o \in MergeOps |-> "idle"]
  /\ rcall' = [c \in Callers |-> IdleCall]
  /\ IF task.mode = "merge_after_approval"
     THEN operator' \in [enabled: BOOLEAN, method: Methods]
     ELSE UNCHANGED operator
  /\ UNCHANGED <<task, worktree, branch, remote, pull, checks, evidence,
                 rows, approvals, record, ledger, run, attachment>>

Next ==
  \/ Deliver /\ UNCHANGED <<mergeVars, removalVars>>
  \/ Environment /\ UNCHANGED <<mergeVars, removalVars>>
  \/ MergeNext /\ UNCHANGED removalVars
  \/ RemovalNext /\ UNCHANGED mergeVars
  \/ Restart

\* Operators repeat a refused or interrupted removal.
Fairness == \A c \in Callers : SF_vars(RemovalStep(c) /\ UNCHANGED mergeVars)

Spec == Init /\ [][Next]_vars /\ Fairness

TypeOK == ForgeTypeOK /\ MergeTypeOK /\ RemovalTypeOK

\* What the store records as finished did happen: a completed merge on the
\* forge, by its method, and a cleaned task on the disk and with the host.
OutcomesAreTrue == TypeOK /\ CompletedMergeIsTrue /\ CleanedLeavesNothing
=============================================================================
