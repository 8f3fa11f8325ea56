------------------------------ MODULE TaskMerge ------------------------------
(***************************************************************************)
(* The approval-bound merge of a delivered pull request: the coordinator   *)
(* of application/merge.go, the task_merges rows of the store and the      *)
(* mutation of forge/github_merge.go.  Each operation has one caller that  *)
(* may be repeated for ever; the approval ledger belongs to the Comis host.*)
(* A task gets the mode merge_after_approval only where the platform gate  *)
(* admits it.                                                              *)
(***************************************************************************)
EXTENDS ForgePullRequest

CONSTANT MergeOps

VARIABLES
  rows,        \* [MergeOps -> [state, method]]: the task_merges rows
  approvals,   \* [MergeOps -> host approval bound to the operation]
  mcall,       \* [MergeOps -> where the operation's caller is]
  operator     \* [enabled, method]: merge authority the service was started with

mergeVars == <<rows, approvals, mcall, operator>>

NoRow == [state |-> "none", method |-> "none"]
MergeSteps == {"idle", "consume", "authorize", "reconcile", "revalidate", "read", "put",
               "acknowledged", "uncertain", "complete"}

MergeInit ==
  /\ rows = [o \in MergeOps |-> NoRow]
  /\ approvals = [o \in MergeOps |-> "none"]
  /\ mcall = [o \in MergeOps |-> "idle"]
  /\ operator = [enabled |-> TRUE, method |-> "squash"]

Go(o, step) == mcall' = [mcall EXCEPT ![o] = step]

\* resolveTaskMergeReservation, and its repetition on the reserved row: the
\* evidence digest is the only one a delivered task has.
ReservationIsCurrent ==
  task.state = "delivered" /\ task.mode = "merge_after_approval" /\ evidence = "fresh"

\* AuthorizeMerge at the current time: inside the approval window, operator on.
ApprovalIsCurrent(o) == operator.enabled /\ approvals[o] = "consumed"

\* BeginTaskMerge, as a first call, a replay of a waiting row, or a resumption
\* of an authorized one; a caller without an approval only reserves.
BeginTaskMerge(o) ==
  /\ mcall[o] = "idle"
  /\ \/ /\ rows[o].state \in {"none", "awaiting_approval"} /\ ReservationIsCurrent
        /\ rows' = [rows EXCEPT ![o].state = "awaiting_approval"]
        /\ IF approvals[o] = "none" THEN UNCHANGED mcall ELSE Go(o, "consume")
     \/ /\ rows[o].state = "execution_authorized"
        /\ Go(o, "reconcile") /\ UNCHANGED rows
  /\ UNCHANGED <<approvals, operator>>

\* ConsumeMergeApproval at the host: one-shot, and an identical replay afterwards.
ConsumeMergeApproval(o) ==
  /\ mcall[o] = "consume"
  /\ IF approvals[o] \in {"granted", "consumed"} /\ operator.enabled
     THEN approvals' = [approvals EXCEPT ![o] = "consumed"] /\ Go(o, "authorize")
     ELSE UNCHANGED approvals /\ Go(o, "idle")
  /\ UNCHANGED <<rows, operator>>

\* AuthorizeTaskMerge: receipt, intended method and evidence in one transaction.
AuthorizeTaskMerge(o) ==
  /\ mcall[o] = "authorize"
  /\ IF ApprovalIsCurrent(o) /\ ReservationIsCurrent /\ rows[o].state = "awaiting_approval"
     THEN /\ rows' = [rows EXCEPT ![o] = [state |-> "execution_authorized", method |-> operator.method]]
          /\ Go(o, "reconcile")
     ELSE UNCHANGED rows /\ Go(o, "idle")
  /\ UNCHANGED <<approvals, operator>>

\* ReconcileApprovedPullRequest: a pull request that is already merged does not
\* say by which method, so it is never reported as reconciled.
ReconcileApprovedPullRequest(o) ==
  /\ mcall[o] = "reconcile"
  /\ Go(o, IF PullIsCurrent THEN "revalidate" ELSE "idle")
  /\ UNCHANGED <<rows, approvals, operator>>

\* The second AuthorizeTaskMerge, immediately before the mutation.
RevalidateTaskMerge(o) ==
  /\ mcall[o] = "revalidate"
  /\ Go(o, IF ApprovalIsCurrent(o) /\ ReservationIsCurrent THEN "read" ELSE "idle")
  /\ UNCHANGED <<rows, approvals, operator>>

\* MergePullRequest up to the credential: identity, checks and protection.
ReadProtectedTruth(o) ==
  /\ mcall[o] = "read"
  /\ Go(o, IF DeliveryIsCurrent THEN "put" ELSE "idle")
  /\ UNCHANGED <<rows, approvals, operator>>

\* The PUT: GitHub merges only an open pull request still at the given head, and
\* its answer may be lost.
PutMerge(o) ==
  /\ mcall[o] = "put"
  /\ IF approvals[o] = "expired" \/ evidence = "expired"
     THEN Go(o, "idle") /\ UNCHANGED <<pull, faults>>
     ELSE IF PullIsCurrent
     THEN /\ pull' = [state |-> "merged", method |-> rows[o].method]
          /\ \/ Go(o, "acknowledged") /\ UNCHANGED faults
             \/ Go(o, "uncertain") /\ Fault
     ELSE Go(o, "uncertain") /\ UNCHANGED <<pull, faults>>
  /\ UNCHANGED <<rows, approvals, operator>>

\* Faulty variant: a pull request that says merged is enough, whatever the method.
PostMergeTrustsForge(o) ==
  /\ mcall[o] \in {"acknowledged", "uncertain"}
  /\ Go(o, IF pull.state = "merged" /\ remote = "work" THEN "complete" ELSE "idle")
  /\ UNCHANGED <<rows, approvals, operator>>

\* exactMergedRevision on the re-read, joined to the acknowledgement: without it
\* the method stays unknown and the call fails.
PostMergeTruth(o) ==
  /\ mcall[o] \in {"acknowledged", "uncertain"}
  /\ Go(o, IF mcall[o] = "acknowledged" /\ pull.state = "merged" /\ remote = "work"
           THEN "complete" ELSE "idle")
  /\ UNCHANGED <<rows, approvals, operator>>

\* CompleteTaskMerge closes the row and the operation ledger.
CompleteTaskMerge(o) ==
  /\ mcall[o] = "complete"
  /\ rows[o].state \in {"execution_authorized", "completed"}
  /\ rows' = [rows EXCEPT ![o].state = "completed"]
  /\ Go(o, "idle")
  /\ UNCHANGED <<approvals, operator>>

\* The host: a person approves the waiting operation; fifteen minutes pass.
ResolveApproval(o) ==
  /\ \/ rows[o].state = "awaiting_approval" /\ approvals[o] = "none"
        /\ approvals' = [approvals EXCEPT ![o] = "granted"] /\ UNCHANGED faults
     \/ approvals[o] \in {"granted", "consumed"} /\ Fault
        /\ approvals' = [approvals EXCEPT ![o] = "expired"]
  /\ UNCHANGED <<rows, mcall, operator>>

\* The steps that leave the forge, the task and the worktree alone.
MergeLocal(o) ==
  \/ BeginTaskMerge(o) \/ ConsumeMergeApproval(o) \/ AuthorizeTaskMerge(o)
  \/ ReconcileApprovedPullRequest(o) \/ RevalidateTaskMerge(o) \/ ReadProtectedTruth(o)
  \/ PostMergeTruth(o) \/ CompleteTaskMerge(o)

MergeNext ==
  \E o \in MergeOps :
    \/ MergeLocal(o) /\ UNCHANGED forgeVars
    \/ PutMerge(o) /\ UNCHANGED <<task, worktree, branch, remote, checks, evidence, delivering>>
    \/ ResolveApproval(o)
       /\ UNCHANGED <<task, worktree, branch, remote, pull, checks, evidence, delivering>>

MergeTypeOK ==
  /\ rows \in [MergeOps -> [state: {"none", "awaiting_approval", "execution_authorized", "completed"},
                            method: Methods \cup {"none"}]]
  /\ approvals \in [MergeOps -> {"none", "granted", "consumed", "expired"}]
  /\ mcall \in [MergeOps -> MergeSteps]
  /\ operator \in [enabled: BOOLEAN, method: Methods]

\* A merge recorded as completed happened, and by the recorded method, whatever
\* the people on the forge, a lost answer or a second operation did meanwhile.
CompletedMergeIsTrue ==
  \A o \in MergeOps : rows[o].state = "completed" =>
    pull.state = "merged" /\ pull.method = rows[o].method
=============================================================================
