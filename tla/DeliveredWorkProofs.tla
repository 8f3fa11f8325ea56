------------------------ MODULE DeliveredWorkProofs ------------------------
(***************************************************************************)
(* The safety properties of DeliveredWork for any number of merge          *)
(* operations, removal callers and faults.                                 *)
(*                                                                         *)
(* Merges rest on one fact: a merged pull request stays merged by the same *)
(* method, so an acknowledged call may still trust it after any delay.     *)
(* Removals rest on another: the row only moves forward and nothing that   *)
(* was released, removed or deleted comes back, so what a caller saw       *)
(* before it was overtaken is still enough for the step it takes.          *)
(***************************************************************************)
EXTENDS DeliveredWork, TLAPS

-----------------------------------------------------------------------------
(* Merges.                                                                 *)

\* The pull request was merged by the method the row of o intends.
MergedAsIntended(o) == pull.state = "merged" /\ pull.method = rows[o].method

\* What a caller past the acknowledgement, and a closed row, may rely on.
MergeInv ==
  \A o \in MergeOps :
    mcall[o] \in {"acknowledged", "complete"} \/ rows[o].state = "completed"
      => MergedAsIntended(o)

-----------------------------------------------------------------------------
(* Removals.                                                               *)

\* The supervisor delivers only a task that still waits for its validation.
DeliveryInv == delivering # "idle" => task.state = "validating" /\ task.mode # "report"

Authorized == {"removal_authorized", "completed"}

\* What the row of the task says about the task, the host and the disk.
RowInv ==
  IF record = None
  THEN task.state \notin {"cleanup_held", "cleaned"}
  ELSE /\ task.state = IF record.stage = "completed" THEN "cleaned" ELSE "cleanup_held"
       /\ record.stage # "prepared" => run # "active"
       /\ record.stage \in Authorized => attachment = "released"
       /\ record.stage \notin {"prepared", "managed_run_absent"} /\ ~record.discard
            => record.snap[1] = "work"
       /\ record.stage = "completed" =>
            worktree.tree = "gone" /\ branch = "none" /\ ledger[record.op] # "none"

\* Inside removeAuthorizedWorktree, under the registry lock.
Locked == {"git", "deleting", "unlist", "unref"}

\* What a caller has seen holds still, wherever it was overtaken.
CallerInv(c) ==
  LET call == rcall[c] IN
  /\ call.at # "idle" => record # None
  /\ call.at = "stage" /\ call.view = "removal_authorized" => record.stage \in Authorized
  /\ call.at = "stage" /\ call.view = "completed" => record.stage = "completed"
  /\ call.at \in {"verify", "release", "recordRelease", "authorize"} /\ ~record.discard
       => call.snap[1] = "work"
  /\ call.at = "recordRelease" => run # "active"
  /\ call.at = "verify" /\ call.view # "prepared" => attachment = "released"
  /\ call.at = "authorize" => attachment = "released"
  /\ call.at = "inspect" => attachment = "released"
  /\ call.at \in Locked \cup {"complete"} => record.stage \in Authorized
  /\ call.at = "git" => worktree.tree \in {"whole", "partial"}
  /\ call.at = "deleting" => worktree.tree \in {"partial", "broken"}
  /\ call.at = "unlist" => worktree.tree = "stale"
  /\ call.at \in {"unref", "complete"} => worktree.tree = "gone"
  /\ call.at = "complete" => branch = "none"

\* The registry lock has one holder.
CallersInv ==
  /\ \A c \in Callers : CallerInv(c)
  /\ \A c, d \in Callers : rcall[c].at \in Locked /\ rcall[d].at \in Locked => c = d

RemovalInv == DeliveryInv /\ RowInv /\ CallersInv

WorkInv == TypeOK /\ MergeInv /\ RemovalInv

-----------------------------------------------------------------------------
(* Types.                                                                  *)

LEMMA InitWork == Init => WorkInv
  <1> SUFFICES ASSUME Init PROVE WorkInv
    OBVIOUS
  <1> USE DEF Init, ForgeInit, MergeInit, RemovalInit
  <1>1. ForgeTypeOK
    BY ForgeAssumption DEF ForgeTypeOK, Modes, TaskStates, Heads, Trees, Methods, Verdicts
  <1>2. MergeTypeOK
    BY DEF MergeTypeOK, NoRow, MergeSteps, Methods
  <1>3. RemovalTypeOK
    BY DEF RemovalTypeOK, IdleCall, NoSnapshot, Snapshots, Heads, RemovalSteps
  <1>4. MergeInv
    BY DEF MergeInv, NoRow
  <1>5. RemovalInv
    BY DEF RemovalInv, DeliveryInv, RowInv, CallersInv, CallerInv, Locked, IdleCall
  <1>6. QED
    BY <1>1, <1>2, <1>3, <1>4, <1>5 DEF WorkInv, TypeOK

\* The candidate supervisor and the people around it.
LEMMA ForgeTypes ==
  ASSUME ForgeTypeOK, Deliver \/ Environment
  PROVE  ForgeTypeOK'
  <1> USE DEF ForgeTypeOK, Modes, TaskStates, Heads, Trees, Methods, Verdicts
  <1>1. CASE PushBranch     BY <1>1 DEF PushBranch
  <1>2. CASE ResolvePull    BY <1>2 DEF ResolvePull
  <1>3. CASE RereadPull     BY <1>3 DEF RereadPull
  <1>4. CASE InspectReport  BY <1>4 DEF InspectReport
  <1>5. CASE CheckRuns      BY <1>5, ForgeAssumption DEF CheckRuns, Fault
  <1>6. CASE UseForge
    <2>1. remote' \in Heads \cup {"none"}
      BY <1>6 DEF UseForge
    <2>2. pull' \in [state: {"none", "open", "merged", "closed"}, method: Methods \cup {"none"}]
      BY <1>6 DEF UseForge
    <2>3. QED
      BY <1>6, <2>1, <2>2, ForgeAssumption DEF UseForge, Fault
  <1>7. CASE EditWorktree
    <2>1. worktree' \in [tree: Trees, head: Heads, dirty: BOOLEAN]
      BY <1>7 DEF EditWorktree
    <2>2. branch' \in Heads \cup {"none"} /\ faults' \in 0..MaxFaults
      BY <1>7, ForgeAssumption DEF EditWorktree, Fault
    <2>3. QED
      BY <1>7, <2>1, <2>2 DEF EditWorktree
  <1>8. CASE ExpireEvidence BY <1>8, ForgeAssumption DEF ExpireEvidence, Fault
  <1>9. CASE AbandonTask    BY <1>9, ForgeAssumption DEF AbandonTask, Fault
  <1>10. QED
    BY <1>1, <1>2, <1>3, <1>4, <1>5, <1>6, <1>7, <1>8, <1>9 DEF Deliver, Environment

LEMMA MergeTypes ==
  ASSUME ForgeTypeOK, MergeTypeOK, MergeNext
  PROVE  ForgeTypeOK' /\ MergeTypeOK'
  <1>1. PICK o \in MergeOps :
          \/ MergeLocal(o) /\ UNCHANGED forgeVars
          \/ PutMerge(o) /\ UNCHANGED <<task, worktree, branch, remote, checks, evidence, delivering>>
          \/ ResolveApproval(o)
             /\ UNCHANGED <<task, worktree, branch, remote, pull, checks, evidence, delivering>>
    BY DEF MergeNext
  <1>2. ForgeTypeOK'
    <2>1. CASE UNCHANGED forgeVars
      BY <2>1 DEF ForgeTypeOK, forgeVars
    <2>2. CASE PutMerge(o) /\ UNCHANGED <<task, worktree, branch, remote, checks, evidence, delivering>>
      <3>1. pull' \in [state: {"none", "open", "merged", "closed"}, method: Methods \cup {"none"}]
        BY <2>2 DEF PutMerge, ForgeTypeOK, MergeTypeOK
      <3>2. faults' \in 0..MaxFaults
        BY <2>2, ForgeAssumption DEF PutMerge, ForgeTypeOK, Fault
      <3>3. QED
        BY <2>2, <3>1, <3>2 DEF ForgeTypeOK
    <2>3. CASE ResolveApproval(o)
               /\ UNCHANGED <<task, worktree, branch, remote, pull, checks, evidence, delivering>>
      BY <2>3, ForgeAssumption DEF ResolveApproval, ForgeTypeOK, Fault
    <2>4. QED
      BY <1>1, <2>1, <2>2, <2>3
  <1>3. MergeTypeOK'
    <2> USE DEF MergeTypeOK, MergeSteps, Go
    <2>1. CASE BeginTaskMerge(o)               BY <2>1 DEF BeginTaskMerge
    <2>2. CASE ConsumeMergeApproval(o)         BY <2>2 DEF ConsumeMergeApproval
    <2>3. CASE AuthorizeTaskMerge(o)           BY <2>3 DEF AuthorizeTaskMerge
    <2>4. CASE ReconcileApprovedPullRequest(o) BY <2>4 DEF ReconcileApprovedPullRequest
    <2>5. CASE RevalidateTaskMerge(o)          BY <2>5 DEF RevalidateTaskMerge
    <2>6. CASE ReadProtectedTruth(o)           BY <2>6 DEF ReadProtectedTruth
    <2>7. CASE PostMergeTruth(o)               BY <2>7 DEF PostMergeTruth
    <2>8. CASE CompleteTaskMerge(o)            BY <2>8 DEF CompleteTaskMerge
    <2>9. CASE PutMerge(o)                     BY <2>9 DEF PutMerge
    <2>10. CASE ResolveApproval(o)             BY <2>10 DEF ResolveApproval
    <2>11. QED
      BY <1>1, <2>1, <2>2, <2>3, <2>4, <2>5, <2>6, <2>7, <2>8, <2>9, <2>10 DEF MergeLocal
  <1>4. QED
    BY <1>2, <1>3

\* A typed row is a record; whoever is in a call finds one.
LEMMA AdvanceTypes ==
  ASSUME RemovalTypeOK, record # None, NEW c \in Callers, NEW from, NEW to \in Stages,
         Advance(c, from, to)
  PROVE  record' \in CleanupRows /\ rcall' \in [Callers -> [at: RemovalSteps, view: Stages \cup {"none"},
                                     command: Commands \cup {"none"}, snap: Snapshots]]
  <1> USE DEF RemovalTypeOK
  <1>1. record \in CleanupRows
    OBVIOUS
  <1>2. NoSnapshot \in Snapshots
    BY DEF NoSnapshot, Snapshots
  <1>3. record' \in CleanupRows
    BY <1>1 DEF Advance, CleanupRows, Stages
  <1>4. QED
    BY <1>2, <1>3 DEF Advance, Enter, Fail, IdleCall, RemovalSteps

LEMMA RemovalTypes ==
  ASSUME ForgeTypeOK, RemovalTypeOK, RowInv, NEW c \in Callers, CallerInv(c), RemovalStep(c)
  PROVE  ForgeTypeOK' /\ RemovalTypeOK'
  <1>1. ForgeTypeOK'
    <2> USE DEF ForgeTypeOK, RemovalStep, TaskStates, Heads
    <2>1. CASE RemovalLocal(c) /\ UNCHANGED <<worktree, branch>>
      <3>1. task' \in [mode: Modes, state: TaskStates]
        BY <2>1 DEF RemovalLocal, BeginTaskCleanup, BeginTaskDiscard, InspectWorkspace,
                    ReleaseRuntimeAttachment, VerifyDelivery, ReleaseManagedRun, RecordTaskCleanupHostRelease,
                    AuthorizeTaskCleanupRemoval, CompleteTaskCleanup
      <3>2. QED
        BY <2>1, <3>1
    <2>2. CASE (RemoveWorktree(c) \/ GitRemoves(c) \/ GitDeletes(c) \/ GitUnlists(c)) /\ UNCHANGED branch
      <3>1. worktree' \in [tree: Trees, head: Heads, dirty: BOOLEAN]
        BY <2>2 DEF RemoveWorktree, GitRemoves, GitDeletes, GitUnlists, Trees
      <3>2. UNCHANGED task
        BY <2>2 DEF RemoveWorktree, GitRemoves, GitDeletes, GitUnlists
      <3>3. QED
        BY <2>2, <3>1, <3>2
    <2>3. CASE RemoveBranch(c) /\ UNCHANGED worktree
      BY <2>3 DEF RemoveBranch
    <2>4. QED
      BY <2>1, <2>2, <2>3 DEF Remove
  <1>2. NoSnapshot \in Snapshots /\ (worktree \in [tree: Trees, head: Heads, dirty: BOOLEAN] => Snapshot \in Snapshots)
    BY DEF NoSnapshot, Snapshot, Snapshots
  <1>3. record # None => record \in CleanupRows /\ record.stage \in Stages
    BY DEF RemovalTypeOK, CleanupRows
  <1>4. RemovalTypeOK'
    <2> USE DEF RemovalTypeOK, RemovalSteps, Stages, Commands
    <2>1. CASE BeginTaskCleanup(c)
      <3>1. rcall' \in [Callers -> [at: RemovalSteps, view: Stages \cup {"none"},
                                     command: Commands \cup {"none"}, snap: Snapshots]]
        BY <1>2, <1>3, <2>1 DEF BeginTaskCleanup, Enter
      <3>2. record' \in {None} \cup CleanupRows
        <4>1. CASE UNCHANGED record
          BY <4>1
        <4>2. CASE record' # record
          <5>1. record' = [op |-> c, discard |-> FALSE, snap |-> NoSnapshot,
                           stage |-> "prepared"]
            BY <2>1, <4>2 DEF BeginTaskCleanup
          <5>2. QED
            BY <1>2, <5>1 DEF CleanupRows
        <4>3. QED
          BY <4>1, <4>2
      <3>3. QED
        BY <2>1, <3>1, <3>2 DEF BeginTaskCleanup
    <2>2. CASE BeginTaskDiscard(c)
      <3>1. rcall' \in [Callers -> [at: RemovalSteps, view: Stages \cup {"none"},
                                     command: Commands \cup {"none"}, snap: Snapshots]]
        BY <1>2, <1>3, <2>2 DEF BeginTaskDiscard, Enter
      <3>2. record' \in {None} \cup CleanupRows
        <4>1. CASE UNCHANGED record
          BY <4>1
        <4>2. CASE record' # record
          <5>1. record' = [op |-> c, discard |-> TRUE, snap |-> NoSnapshot,
                           stage |-> IF run = "absent" THEN "managed_run_absent" ELSE "prepared"]
            BY <2>2, <4>2 DEF BeginTaskDiscard
          <5>2. QED
            BY <1>2, <5>1 DEF CleanupRows
        <4>3. QED
          BY <4>1, <4>2
      <3>3. QED
        BY <2>2, <3>1, <3>2 DEF BeginTaskDiscard
    <2>3. CASE InspectWorkspace(c)
      BY <1>2, <2>3 DEF InspectWorkspace, Fail, IdleCall, ForgeTypeOK
    <2>4. CASE VerifyDelivery(c)
      BY <1>2, <2>4 DEF VerifyDelivery, Move, Fail, IdleCall
    <2>5. CASE ReleaseManagedRun(c)
      BY <2>5 DEF ReleaseManagedRun, Move
    <2>6. CASE RecordTaskCleanupHostRelease(c)
      BY <2>6, AdvanceTypes DEF RecordTaskCleanupHostRelease, CallersInv, CallerInv, Locked
    <2>7. CASE AuthorizeTaskCleanupRemoval(c)
      BY <2>7, AdvanceTypes DEF AuthorizeTaskCleanupRemoval, CallersInv, CallerInv, Locked
    <2>8. CASE CompleteTaskCleanup(c)
      <3>1. record # None
        BY <2>8 DEF CompleteTaskCleanup, CallersInv, CallerInv, Locked
      <3>2. record' \in CleanupRows
        BY <1>3, <2>8, <3>1 DEF CompleteTaskCleanup, CleanupRows
      <3>3. ledger' \in [Callers -> Commands \cup {"none"}]
        BY <2>8 DEF CompleteTaskCleanup
      <3>4. QED
        BY <1>2, <2>8, <3>2, <3>3 DEF CompleteTaskCleanup, Fail, IdleCall
    <2>9. CASE RemoveWorktree(c)
      BY <1>2, <2>9 DEF RemoveWorktree, Move, Fail, IdleCall
    <2>10. CASE RemoveBranch(c)
      BY <1>2, <2>10 DEF RemoveBranch, Move, Fail, IdleCall
    <2>11. CASE ReleaseRuntimeAttachment(c)
      BY <1>2, <2>11 DEF ReleaseRuntimeAttachment, Move, Fail, IdleCall
    <2>12. CASE GitRemoves(c) \/ GitDeletes(c) \/ GitUnlists(c)
      BY <1>2, <2>12 DEF GitRemoves, GitDeletes, GitUnlists, Move, Fail, IdleCall
    <2>13. QED
      BY <2>1, <2>2, <2>3, <2>4, <2>5, <2>6, <2>7, <2>8, <2>9, <2>10, <2>11, <2>12
      DEF RemovalStep, Remove, RemovalLocal
  <1>5. QED
    BY <1>1, <1>4

LEMMA RestartTypes ==
  ASSUME TypeOK, Restart
  PROVE  TypeOK'
  <1> USE DEF TypeOK, Restart
  <1>1. ForgeTypeOK'
    BY ForgeAssumption DEF ForgeTypeOK, Fault
  <1>2. MergeTypeOK'
    BY DEF MergeTypeOK, MergeSteps
  <1>3. RemovalTypeOK'
    BY DEF RemovalTypeOK, IdleCall, NoSnapshot, Snapshots, RemovalSteps
  <1>4. QED
    BY <1>1, <1>2, <1>3

-----------------------------------------------------------------------------
(* A merged pull request is final.                                         *)

\* Whoever leaves the rows and the callers alone and merges nothing again.
LEMMA MergedIsFinal ==
  ASSUME MergeInv, UNCHANGED <<rows, mcall>>,
         pull.state = "merged" => UNCHANGED pull
  PROVE  MergeInv'
  BY DEF MergeInv, MergedAsIntended

LEMMA ForgeKeepsMerge ==
  ASSUME MergeInv, Deliver \/ Environment, UNCHANGED mergeVars
  PROVE  MergeInv'
  <1>1. pull.state = "merged" => UNCHANGED pull
    BY DEF Deliver, PushBranch, ResolvePull, RereadPull, InspectReport, Environment, CheckRuns,
           UseForge, EditWorktree, ExpireEvidence, AbandonTask
  <1>2. QED
    BY <1>1, MergedIsFinal DEF mergeVars

\* The approval-bound coordinator: only the PUT merges, by the method of its
\* own row, and only the exact acknowledgement leads on to the completion.
LEMMA MergeStepKeeps ==
  ASSUME MergeTypeOK, MergeInv, MergeNext
  PROVE  MergeInv'
  <1> USE DEF MergeTypeOK, MergeInv, MergedAsIntended, Go
  <1>1. ASSUME NEW o \in MergeOps, BeginTaskMerge(o), UNCHANGED forgeVars
        PROVE  MergeInv'
    BY <1>1 DEF BeginTaskMerge, forgeVars
  <1>2. ASSUME NEW o \in MergeOps, ConsumeMergeApproval(o), UNCHANGED forgeVars
        PROVE  MergeInv'
    BY <1>2 DEF ConsumeMergeApproval, forgeVars
  <1>3. ASSUME NEW o \in MergeOps, AuthorizeTaskMerge(o), UNCHANGED forgeVars
        PROVE  MergeInv'
    BY <1>3 DEF AuthorizeTaskMerge, forgeVars
  <1>4. ASSUME NEW o \in MergeOps, ReconcileApprovedPullRequest(o), UNCHANGED forgeVars
        PROVE  MergeInv'
    BY <1>4 DEF ReconcileApprovedPullRequest, forgeVars
  <1>5. ASSUME NEW o \in MergeOps, RevalidateTaskMerge(o), UNCHANGED forgeVars
        PROVE  MergeInv'
    BY <1>5 DEF RevalidateTaskMerge, forgeVars
  <1>6. ASSUME NEW o \in MergeOps, ReadProtectedTruth(o), UNCHANGED forgeVars
        PROVE  MergeInv'
    BY <1>6 DEF ReadProtectedTruth, forgeVars
  <1>7. ASSUME NEW o \in MergeOps, PutMerge(o)
        PROVE  MergeInv'
    <2>1. CASE UNCHANGED pull /\ \/ Go(o, "idle")
                                 \/ Go(o, "uncertain")
      BY <1>7, <2>1 DEF PutMerge
    <2>2. CASE /\ PullIsCurrent /\ pull' = [state |-> "merged", method |-> rows[o].method]
               /\ Go(o, "acknowledged") \/ Go(o, "uncertain")
      BY <1>7, <2>2 DEF PutMerge, PullIsCurrent
    <2>3. QED
      BY <1>7, <2>1, <2>2 DEF PutMerge
  <1>8. ASSUME NEW o \in MergeOps, PostMergeTruth(o), UNCHANGED forgeVars
        PROVE  MergeInv'
    BY <1>8 DEF PostMergeTruth, forgeVars
  <1>9. ASSUME NEW o \in MergeOps, CompleteTaskMerge(o), UNCHANGED forgeVars
        PROVE  MergeInv'
    BY <1>9 DEF CompleteTaskMerge, forgeVars
  <1>10. ASSUME NEW o \in MergeOps, ResolveApproval(o), UNCHANGED pull
         PROVE  MergeInv'
    BY <1>10 DEF ResolveApproval
  <1>11. QED
    BY <1>1, <1>2, <1>3, <1>4, <1>5, <1>6, <1>7, <1>8, <1>9, <1>10 DEF MergeNext, MergeLocal

-----------------------------------------------------------------------------
(* A removal only moves forward.                                           *)

LEMMA ForgeKeepsRemoval ==
  ASSUME ForgeTypeOK, RemovalInv, Deliver \/ Environment, UNCHANGED removalVars
  PROVE  RemovalInv'
  <1> USE DEF RemovalInv, removalVars, ForgeTypeOK
  <1>1. DeliveryInv'
    BY DEF DeliveryInv, Deliver, PushBranch, ResolvePull, RereadPull, InspectReport, Environment,
           CheckRuns, UseForge, EditWorktree, ExpireEvidence, AbandonTask
  <1>2. task.state \in {"cleanup_held", "cleaned"} => UNCHANGED task
    BY DEF DeliveryInv, Deliver, PushBranch, ResolvePull, RereadPull, InspectReport, Environment,
           CheckRuns, UseForge, EditWorktree, ExpireEvidence, AbandonTask
  <1>3. task'.state \in {"cleanup_held", "cleaned"} => UNCHANGED task
    BY DEF DeliveryInv, Deliver, PushBranch, ResolvePull, RereadPull, InspectReport, Environment,
           CheckRuns, UseForge, EditWorktree, ExpireEvidence, AbandonTask
  <1>4. worktree'.tree = worktree.tree /\ (worktree.tree # "whole" => UNCHANGED branch)
    BY DEF Deliver, PushBranch, ResolvePull, RereadPull, InspectReport, Environment,
           CheckRuns, UseForge, EditWorktree, ExpireEvidence, AbandonTask
  <1>5. RowInv'
    BY <1>2, <1>3, <1>4 DEF RowInv
  <1>6. CallersInv'
    BY <1>4 DEF CallersInv, CallerInv, Locked
  <1>7. QED
    BY <1>1, <1>5, <1>6

LEMMA MergeKeepsRemoval ==
  ASSUME RemovalInv, MergeNext, UNCHANGED removalVars
  PROVE  RemovalInv'
  <1>1. UNCHANGED <<task, worktree, branch, delivering>>
    BY DEF MergeNext, forgeVars
  <1>2. QED
    BY <1>1 DEF RemovalInv, DeliveryInv, RowInv, CallersInv, CallerInv, Locked, removalVars

LEMMA RestartKeeps ==
  ASSUME WorkInv, Restart
  PROVE  MergeInv' /\ RemovalInv'
  <1>1. MergeInv'
    BY DEF WorkInv, MergeInv, MergedAsIntended, Restart
  <1>2. RemovalInv'
    BY DEF WorkInv, RemovalInv, DeliveryInv, RowInv, CallersInv, CallerInv, Locked, Restart, IdleCall
  <1>3. QED
    BY <1>1, <1>2

\* A caller enters a stage it has just read or recorded; nobody else notices.
LEMMA EnterKeepsCallers ==
  ASSUME RemovalTypeOK, CallersInv,
         NEW c \in Callers, NEW command, NEW stage, Enter(c, command, stage),
         record # None => record' # None /\ record'.discard = record.discard,
         record' # None,
         record # None /\ record.stage \in Authorized => record'.stage \in Authorized,
         record # None /\ record.stage = "completed" => record'.stage = "completed",
         stage = record'.stage,
         run # "active" => run' # "active",
         attachment = "released" => attachment' = "released",
         UNCHANGED <<worktree, branch>>
  PROVE  CallersInv'
  BY DEF CallersInv, CallerInv, Locked, Enter, RemovalTypeOK, Authorized

LEMMA FailKeepsCallers ==
  ASSUME RemovalTypeOK, CallersInv,
         NEW c \in Callers, Fail(c),
         record # None => record' # None /\ record'.discard = record.discard,
         record # None /\ record.stage \in Authorized => record'.stage \in Authorized,
         record # None /\ record.stage = "completed" => record'.stage = "completed",
         UNCHANGED <<run, worktree, branch>>,
         attachment = "released" => attachment' = "released"
  PROVE  CallersInv'
  BY DEF CallersInv, CallerInv, Locked, Fail, RemovalTypeOK, Authorized, IdleCall

\* advanceTaskCleanup moves the row forward or not at all, and what it records
\* was proved of a tree at the delivered head.
LEMMA AdvanceKeeps ==
  ASSUME RemovalTypeOK, RemovalInv, NEW c \in Callers, NEW from, NEW to \in Stages,
         Advance(c, from, to),
         rcall[c].at \in {"recordRelease", "authorize"},
         \/ from = {"prepared"} /\ to = "host_released"
         \/ from = {"host_released", "managed_run_absent"} /\ to = "removal_authorized",
         to = "host_released" => run # "active",
         to = "removal_authorized" => attachment = "released",
         UNCHANGED <<task, worktree, branch, delivering, ledger, run, attachment>>
  PROVE  RemovalInv'
  <1> USE DEF RemovalInv
  <1>1. record \in CleanupRows /\ record # None
    BY DEF CallersInv, CallerInv, Locked, RemovalTypeOK
  <1>2. ~record.discard => rcall[c].snap[1] = "work"
    BY DEF CallersInv, CallerInv, Locked
  <1>3. CASE record.stage = to /\ record.snap = rcall[c].snap
    <2>1. Enter(c, rcall[c].command, to) /\ UNCHANGED record
      BY <1>3 DEF Advance
    <2>2. CallersInv'
      BY <1>1, <1>3, <2>1, EnterKeepsCallers
    <2>3. QED
      BY <2>1, <2>2 DEF RowInv, DeliveryInv
  <1>4. CASE record.stage \in from /\ record' = [record EXCEPT !.stage = to, !.snap = rcall[c].snap]
             /\ Enter(c, rcall[c].command, to)
    <2>1. /\ record'.stage = to /\ record'.discard = record.discard
          /\ record'.snap = rcall[c].snap /\ record' \in CleanupRows
          /\ record'.op = record.op
      BY <1>1, <1>4 DEF CleanupRows, RemovalTypeOK
    <2>2. record' # None
      BY <2>1, RemovalAssumption
    <2>3. record.stage \notin Authorized
      BY <1>4 DEF Authorized
    <2>4. CallersInv'
      BY <1>1, <1>4, <2>1, <2>2, <2>3, EnterKeepsCallers DEF Authorized
    <2>5. RowInv'
      BY <1>1, <1>2, <1>4, <2>1, <2>2, <2>3 DEF RowInv, Authorized
    <2>6. QED
      BY <2>4, <2>5 DEF DeliveryInv
  <1>5. CASE Fail(c) /\ UNCHANGED record
    <2>1. CallersInv'
      BY <1>5, FailKeepsCallers
    <2>2. QED
      BY <1>5, <2>1 DEF RowInv, DeliveryInv
  <1>6. QED
    BY <1>3, <1>4, <1>5 DEF Advance

\* The holder of the registry lock is the only one to touch the tree, and a tree
\* that is gone stays gone.
LEMMA GitKeeps ==
  ASSUME ForgeTypeOK, RemovalTypeOK, RemovalInv, NEW c \in Callers,
         GitRemoves(c) \/ GitDeletes(c) \/ GitUnlists(c),
         UNCHANGED <<branch, delivering>>
  PROVE  RemovalInv'
  <1> USE DEF RemovalInv
  <1>1. /\ UNCHANGED <<record, ledger, task, run, attachment>> /\ rcall[c].at \in Locked
        /\ CallerInv(c)
    BY DEF GitRemoves, GitDeletes, GitUnlists, CallersInv, Locked
  <1>2. worktree.tree # "gone" /\ record # None /\ record.stage \in Authorized
    BY <1>1 DEF GitRemoves, GitDeletes, GitUnlists, CallerInv, Locked
  <1>3. RowInv' /\ DeliveryInv'
    BY <1>1, <1>2 DEF RowInv, DeliveryInv
  <1>4. CASE Fail(c) /\ UNCHANGED worktree
    BY <1>1, <1>3, <1>4, FailKeepsCallers
  <1>5. CASE \/ Move(c, "deleting") /\ worktree'.tree \in {"partial", "broken"}
             \/ Move(c, "unlist") /\ worktree'.tree = "stale"
             \/ Move(c, "unref") /\ worktree'.tree = "gone"
    <2>1. \A d \in Callers : d # c => CallerInv(d)'
      <3> SUFFICES ASSUME NEW d \in Callers, d # c
                   PROVE  CallerInv(d)'
        OBVIOUS
      <3>1. rcall'[d] = rcall[d] /\ rcall[d].at \notin Locked /\ CallerInv(d)
        BY <1>1, <1>5 DEF Move, CallersInv, RemovalTypeOK
      <3>2. rcall[d].at # "complete"
        BY <1>2, <3>1 DEF CallerInv
      <3>3. QED
        BY <1>1, <3>1, <3>2 DEF CallerInv, Locked
    <2>2. CallerInv(c)'
      BY <1>1, <1>2, <1>5 DEF Move, CallerInv, Locked, RemovalTypeOK
    <2>3. \A d \in Callers : rcall'[d].at \in Locked => d = c
      BY <1>1, <1>5 DEF Move, CallersInv, Locked, RemovalTypeOK
    <2>4. CallersInv'
      BY <2>1, <2>2, <2>3 DEF CallersInv
    <2>5. QED
      BY <1>3, <2>4
  <1>6. QED
    <2>1. GitRemoves(c) => worktree'.tree \in {"partial", "broken"} \/ (Fail(c) /\ UNCHANGED worktree)
      BY DEF GitRemoves, ForgeTypeOK
    <2>2. GitDeletes(c) => worktree'.tree = "stale"
      BY DEF GitDeletes, ForgeTypeOK
    <2>3. GitUnlists(c) => worktree'.tree = "gone"
      BY DEF GitUnlists, ForgeTypeOK
    <2>4. QED
      BY <1>4, <1>5, <2>1, <2>2, <2>3 DEF GitRemoves, GitDeletes, GitUnlists

LEMMA RemovalStepKeeps ==
  ASSUME ForgeTypeOK, RemovalTypeOK, RemovalInv, NEW c \in Callers, RemovalStep(c)
  PROVE  RemovalInv'
  <1> USE DEF RemovalInv
  <1>1. UNCHANGED delivering /\ CallerInv(c)
    BY DEF RemovalStep, CallersInv
  <1>2. record # None => record \in CleanupRows
    BY DEF RemovalTypeOK
  <1>3. CASE BeginTaskCleanup(c) /\ UNCHANGED <<worktree, branch>>
    <2>1. CASE /\ record # None /\ Enter(c, "cleanup", record.stage)
               /\ UNCHANGED <<record, task>>
      <3>1. CallersInv'
        BY <1>3, <2>1, EnterKeepsCallers DEF BeginTaskCleanup
      <3>2. QED
        BY <1>1, <1>3, <2>1, <3>1 DEF BeginTaskCleanup, RowInv, DeliveryInv
    <2>2. CASE /\ record = None /\ CleanupEvidenceHolds
               /\ record' = [op |-> c, discard |-> FALSE, stage |-> "prepared", snap |-> NoSnapshot]
               /\ task' = [task EXCEPT !.state = "cleanup_held"]
               /\ Enter(c, "cleanup", "prepared")
      <3>1. record' \in CleanupRows
        BY <2>2 DEF CleanupRows, Stages, NoSnapshot, Snapshots
      <3>2. record' # None
        BY <3>1, RemovalAssumption
      <3>3. CallersInv'
        BY <1>3, <2>2, <3>2, EnterKeepsCallers DEF BeginTaskCleanup
      <3>4. RowInv'
        BY <1>3, <2>2, <3>2 DEF BeginTaskCleanup, RowInv, Authorized, ForgeTypeOK
      <3>5. DeliveryInv'
        BY <1>1, <2>2 DEF DeliveryInv, CleanupEvidenceHolds
      <3>6. QED
        BY <3>3, <3>4, <3>5
    <2>3. QED
      BY <1>3, <2>1, <2>2 DEF BeginTaskCleanup
  <1>4. CASE BeginTaskDiscard(c) /\ UNCHANGED <<worktree, branch>>
    <2>1. CASE /\ record # None /\ Enter(c, "discard", record.stage)
               /\ UNCHANGED <<record, task>>
      <3>1. CallersInv'
        BY <1>4, <2>1, EnterKeepsCallers DEF BeginTaskDiscard
      <3>2. QED
        BY <1>1, <1>4, <2>1, <3>1 DEF BeginTaskDiscard, RowInv, DeliveryInv
    <2>2. CASE record = None
      <3> DEFINE stage == IF run = "absent" THEN "managed_run_absent" ELSE "prepared"
      <3>1. /\ task.state \in {"failed", "cancelled"}
            /\ record' = [op |-> c, discard |-> TRUE, stage |-> stage, snap |-> NoSnapshot]
            /\ task' = [task EXCEPT !.state = "cleanup_held"]
            /\ Enter(c, "discard", stage)
        BY <1>4, <2>2 DEF BeginTaskDiscard
      <3>2. stage \in {"managed_run_absent", "prepared"}
        OBVIOUS
      <3>3. record' \in CleanupRows
        BY <3>1, <3>2 DEF CleanupRows, Stages, NoSnapshot, Snapshots
      <3>4. record' # None
        BY <3>3, RemovalAssumption
      <3>5. record'.stage = stage /\ record'.discard
        BY <3>1
      <3> HIDE DEF stage
      <3>6. CallersInv'
        BY <1>4, <2>2, <3>1, <3>4, <3>5, EnterKeepsCallers DEF BeginTaskDiscard
      <3>7. RowInv'
        BY <1>4, <3>1, <3>2, <3>4, <3>5 DEF BeginTaskDiscard, RowInv, Authorized, ForgeTypeOK, stage
      <3>8. DeliveryInv'
        BY <1>1, <3>1 DEF DeliveryInv
      <3>9. QED
        BY <3>6, <3>7, <3>8
    <2>3. QED
      BY <1>4, <2>1, <2>2 DEF BeginTaskDiscard
  <1>6. CASE InspectWorkspace(c) /\ UNCHANGED <<worktree, branch>>
    <2>1. record # None
      BY <1>1, <1>6 DEF InspectWorkspace, CallersInv, CallerInv, Locked
    <2>2. UNCHANGED <<record, ledger, task, run, attachment>>
      BY <1>6 DEF InspectWorkspace
    <2>3. CASE /\ WorktreeIsClean \/ (record.discard /\ worktree.tree \in {"whole", "partial"})
               /\ rcall' = [rcall EXCEPT ![c].at = "verify", ![c].snap = Snapshot]
      <3>1. ~record.discard => Snapshot[1] = "work"
        BY <2>3 DEF Snapshot, WorktreeIsClean
      <3>2. rcall[c].view # "prepared" => attachment = "released"
        BY <1>1, <1>6 DEF InspectWorkspace, CallerInv
      <3>3. CallersInv'
        BY <1>6, <2>1, <2>2, <2>3, <3>1, <3>2 DEF CallersInv, CallerInv, Locked, RemovalTypeOK
      <3>4. QED
        BY <1>1, <1>6, <2>1, <2>2, <3>3 DEF RowInv, DeliveryInv
    <2>4. CASE Fail(c)
      <3>1. CallersInv'
        BY <1>6, <2>2, <2>4, FailKeepsCallers
      <3>2. QED
        BY <1>1, <1>6, <2>1, <2>2, <3>1 DEF RowInv, DeliveryInv
    <2>5. QED
      BY <1>6, <2>3, <2>4 DEF InspectWorkspace
  <1>5. CASE ReleaseRuntimeAttachment(c) /\ UNCHANGED <<worktree, branch>>
    <2>1. UNCHANGED <<record, ledger, task, run>> /\ record # None
      BY <1>1, <1>5 DEF ReleaseRuntimeAttachment, CallersInv, CallerInv, Locked
    <2>2. CASE Fail(c) /\ UNCHANGED attachment
      <3>1. CallersInv'
        BY <1>5, <2>1, <2>2, FailKeepsCallers
      <3>2. QED
        BY <1>1, <1>5, <2>1, <2>2, <3>1 DEF RowInv, DeliveryInv
    <2>3. CASE attachment' = "released" /\ Move(c, "inspect")
      <3>1. CallersInv'
        BY <1>5, <2>1, <2>3 DEF Move, CallersInv, CallerInv, Locked, RemovalTypeOK
      <3>2. QED
        BY <1>1, <1>5, <2>1, <2>3, <3>1 DEF RowInv, DeliveryInv
    <2>4. QED
      BY <1>5, <2>2, <2>3 DEF ReleaseRuntimeAttachment
  <1>7. CASE VerifyDelivery(c) /\ UNCHANGED <<worktree, branch>>
    <2>1. CallersInv'
      BY <1>7 DEF VerifyDelivery, Move, Fail, IdleCall, CallersInv, CallerInv, Locked, RemovalTypeOK
    <2>2. QED
      BY <1>1, <1>7, <2>1 DEF VerifyDelivery, RowInv, DeliveryInv
  <1>8. CASE ReleaseManagedRun(c) /\ UNCHANGED <<worktree, branch>>
    <2>1. CallersInv'
      BY <1>8 DEF ReleaseManagedRun, Move, CallersInv, CallerInv, Locked, RemovalTypeOK
    <2>2. QED
      BY <1>1, <1>8, <2>1 DEF ReleaseManagedRun, RowInv, DeliveryInv
  <1>9. CASE RecordTaskCleanupHostRelease(c) /\ UNCHANGED <<worktree, branch>>
    BY <1>1, <1>9, AdvanceKeeps DEF RecordTaskCleanupHostRelease, CallersInv, CallerInv, Locked, Stages
  <1>10. CASE AuthorizeTaskCleanupRemoval(c) /\ UNCHANGED <<worktree, branch>>
    BY <1>1, <1>10, AdvanceKeeps DEF AuthorizeTaskCleanupRemoval, CallersInv, CallerInv, Locked, Stages
  <1>11. CASE CompleteTaskCleanup(c) /\ UNCHANGED <<worktree, branch>>
    <2>1. record # None /\ record.stage \in Authorized /\ worktree.tree = "gone" /\ branch = "none"
      <3>1. CASE rcall[c].at = "complete"
        BY <1>1, <3>1 DEF CallersInv, CallerInv, Locked
      <3>2. CASE rcall[c].at = "stage" /\ rcall[c].view = "completed"
        BY <1>1, <3>2 DEF CallersInv, CallerInv, Locked, RowInv, Authorized
      <3>3. QED
        BY <1>11, <3>1, <3>2 DEF CompleteTaskCleanup
    <2> DEFINE command == IF record.discard THEN "discard" ELSE "cleanup"
    <2>2. UNCHANGED <<run, attachment>> /\ Fail(c) /\ command # "none"
      BY <1>11 DEF CompleteTaskCleanup
    <2>3. CASE /\ record.stage = "completed"
               /\ ledger' = [ledger EXCEPT ![c] = command]
               /\ UNCHANGED <<record, task>>
      <3>1. CallersInv'
        BY <1>11, <2>2, <2>3, FailKeepsCallers
      <3>2. ledger'[record.op] # "none"
        BY <1>2, <2>1, <2>2, <2>3 DEF RowInv, RemovalTypeOK, CleanupRows
      <3>3. QED
        BY <1>1, <1>11, <2>2, <2>3, <3>1, <3>2 DEF RowInv, DeliveryInv
    <2>4. CASE /\ record.stage # "completed"
               /\ ledger' = [ledger EXCEPT ![c] = command, ![record.op] = command]
               /\ record' = [record EXCEPT !.stage = "completed"]
               /\ task' = [task EXCEPT !.state = "cleaned"]
      <3>1. /\ record'.stage = "completed" /\ record'.discard = record.discard
            /\ record'.snap = record.snap /\ record'.op = record.op /\ record.op \in Callers
            /\ record' \in CleanupRows
        BY <1>2, <2>1, <2>4 DEF CleanupRows, Stages
      <3>2. record' # None
        BY <3>1, RemovalAssumption
      <3>3. CallersInv'
        BY <1>11, <2>2, <2>4, <3>1, <3>2, FailKeepsCallers DEF Authorized
      <3>4. ledger'[record'.op] # "none"
        BY <2>2, <2>4, <3>1 DEF RemovalTypeOK
      <3>5. task'.state = "cleaned"
        BY <2>4 DEF ForgeTypeOK
      <3>6. /\ record.stage # "prepared" /\ run # "active" /\ attachment = "released"
            /\ record.stage \notin {"prepared", "managed_run_absent"}
        BY <2>1 DEF RowInv, Authorized
      <3>7. RowInv'
        BY <1>11, <2>1, <2>2, <3>1, <3>2, <3>4, <3>5, <3>6 DEF RowInv
      <3>8. DeliveryInv'
        BY <1>1, <2>1, <2>4 DEF DeliveryInv, RowInv
      <3>9. QED
        BY <3>3, <3>7, <3>8
    <2>5. QED
      BY <1>11, <2>3, <2>4 DEF CompleteTaskCleanup
  <1>12. CASE RemoveWorktree(c) /\ UNCHANGED branch
    <2>1. UNCHANGED <<record, ledger, task, run, attachment, worktree>>
      BY <1>12 DEF RemoveWorktree
    <2>2. CallersInv'
      <3>1. CASE Fail(c)
        BY <1>12, <2>1, <3>1, FailKeepsCallers
      <3>2. CASE \/ Move(c, "git") /\ worktree.tree \in {"whole", "partial"}
                 \/ Move(c, "unref") /\ worktree.tree = "gone"
        BY <1>1, <1>12, <2>1, <3>2
        DEF RemoveWorktree, RegistryLocked, Removing, Move, CallersInv, CallerInv, Locked, RemovalTypeOK
      <3>3. QED
        BY <1>12, <3>1, <3>2 DEF RemoveWorktree
    <2>3. QED
      BY <1>1, <1>12, <2>1, <2>2 DEF RowInv, DeliveryInv
  <1>13. CASE (GitRemoves(c) \/ GitDeletes(c) \/ GitUnlists(c)) /\ UNCHANGED branch
    BY <1>1, <1>13, GitKeeps
  <1>14. CASE RemoveBranch(c) /\ UNCHANGED worktree
    <2>1. branch = "none" => branch' = "none"
      BY <1>14 DEF RemoveBranch
    <2>2. CallersInv'
      BY <1>1, <1>14, <2>1 DEF RemoveBranch, Move, Fail, IdleCall, CallersInv, CallerInv, Locked, RemovalTypeOK
    <2>3. QED
      BY <1>1, <1>14, <2>1, <2>2 DEF RemoveBranch, RowInv, DeliveryInv
  <1>15. QED
    BY <1>3, <1>4, <1>5, <1>6, <1>7, <1>8, <1>9, <1>10, <1>11, <1>12, <1>13, <1>14
    DEF RemovalStep, Remove, RemovalLocal

\* A failed call, a refused attachment and a repair by hand.
LEMMA RemovalEndsKeep ==
  ASSUME ForgeTypeOK, RemovalTypeOK, RemovalInv,
         (\E c \in Callers : RemovalFails(c)) \/ RefuseAttachment \/ RepairWorktree
  PROVE  ForgeTypeOK' /\ RemovalTypeOK' /\ RemovalInv' /\ UNCHANGED pull
  <1> USE DEF RemovalInv
  <1>1. ASSUME NEW c \in Callers, RemovalFails(c)
        PROVE  ForgeTypeOK' /\ RemovalTypeOK' /\ RemovalInv' /\ UNCHANGED pull
    <2>1. ForgeTypeOK'
      BY <1>1, ForgeAssumption DEF RemovalFails, Fault, ForgeTypeOK
    <2>2. RemovalTypeOK'
      BY <1>1 DEF RemovalFails, Fail, IdleCall, NoSnapshot, Snapshots, RemovalSteps, RemovalTypeOK
    <2>3. CallersInv'
      BY <1>1, FailKeepsCallers DEF RemovalFails
    <2>4. QED
      BY <1>1, <2>1, <2>2, <2>3 DEF RemovalFails, RowInv, DeliveryInv
  <1>2. CASE RefuseAttachment
    <2>1. ForgeTypeOK'
      BY <1>2, ForgeAssumption DEF RefuseAttachment, Fault, ForgeTypeOK
    <2>2. RemovalTypeOK'
      BY <1>2 DEF RefuseAttachment, RemovalTypeOK
    <2>3. CallersInv'
      BY <1>2 DEF RefuseAttachment, CallersInv, CallerInv, Locked
    <2>4. QED
      BY <1>2, <2>1, <2>2, <2>3 DEF RefuseAttachment, RowInv, DeliveryInv
  <1>3. CASE RepairWorktree
    <2>1. worktree' \in [tree: Trees, head: Heads, dirty: BOOLEAN]
      BY <1>3 DEF RepairWorktree, ForgeTypeOK, Trees
    <2>2. ForgeTypeOK' /\ RemovalTypeOK'
      BY <1>3, <2>1 DEF RepairWorktree, removalVars, ForgeTypeOK, RemovalTypeOK
    <2>3. /\ worktree.tree # "gone"
          /\ worktree.tree = "partial" => worktree'.tree = "whole"
          /\ \A c \in Callers : rcall[c].at \notin {"deleting", "unlist"}
          /\ worktree.tree \in {"partial", "broken", "stale"}
      BY <1>3 DEF RepairWorktree, Removing, ForgeTypeOK
    <2>4. CallersInv'
      BY <1>3, <2>3 DEF RepairWorktree, removalVars, CallersInv, CallerInv, Locked
    <2>5. QED
      BY <1>3, <2>2, <2>3, <2>4 DEF RepairWorktree, removalVars, RowInv, DeliveryInv
  <1>4. QED
    BY <1>1, <1>2, <1>3

LEMMA RemovalKeepsMerge ==
  ASSUME MergeInv, RemovalNext, UNCHANGED mergeVars
  PROVE  MergeInv'
  BY MergedIsFinal DEF RemovalNext, RemovalStep, RemovalFails, RefuseAttachment, RepairWorktree, mergeVars

-----------------------------------------------------------------------------
(* The theorems.                                                           *)

LEMMA NextWork ==
  ASSUME WorkInv, [Next]_vars
  PROVE  WorkInv'
  <1> USE DEF WorkInv, TypeOK
  <1>1. CASE (Deliver \/ Environment) /\ UNCHANGED <<mergeVars, removalVars>>
    <2>1. MergeTypeOK' /\ RemovalTypeOK'
      BY <1>1 DEF MergeTypeOK, RemovalTypeOK, mergeVars, removalVars
    <2>2. QED
      BY <1>1, <2>1, ForgeTypes, ForgeKeepsMerge, ForgeKeepsRemoval DEF Next
  <1>2. CASE MergeNext /\ UNCHANGED removalVars
    <2>1. RemovalTypeOK'
      BY <1>2 DEF RemovalTypeOK, removalVars
    <2>2. QED
      BY <1>2, <2>1, MergeTypes, MergeStepKeeps, MergeKeepsRemoval
  <1>3. CASE RemovalNext /\ UNCHANGED mergeVars
    <2>1. MergeTypeOK' /\ MergeInv'
      BY <1>3, RemovalKeepsMerge DEF MergeTypeOK, mergeVars
    <2>2. ASSUME NEW c \in Callers, RemovalStep(c)
          PROVE  WorkInv'
      BY <2>1, <2>2, RemovalTypes, RemovalStepKeeps DEF RemovalInv, CallersInv
    <2>3. QED
      BY <1>3, <2>1, <2>2, RemovalEndsKeep DEF RemovalNext
  <1>4. CASE Restart
    BY <1>4, RestartTypes, RestartKeeps
  <1>5. CASE UNCHANGED vars
    BY <1>5 DEF vars, forgeVars, mergeVars, removalVars, ForgeTypeOK, MergeTypeOK, RemovalTypeOK,
                MergeInv, MergedAsIntended, RemovalInv, DeliveryInv, RowInv, CallersInv, CallerInv, Locked
  <1>6. QED
    BY <1>1, <1>2, <1>3, <1>4, <1>5 DEF Next

\* The inductive invariant of merges and removals: types, what an acknowledged
\* merge may rely on, and how far the cleanup row and each of its callers are
\* (application/merge.go, cleanup.go, discard.go and their store transactions).
THEOREM WorkInductive == Spec => []WorkInv
  <1>1. QED
    BY InitWork, NextWork, PTL DEF Spec

\* What the store records as finished did happen: a completed merge on the
\* forge and by its method, a cleaned task on the disk and with the host
\* (CompleteTaskMerge, CompleteTaskCleanup).
THEOREM RecordedOutcomesAreTrue == Spec => []OutcomesAreTrue
  <1>1. ASSUME WorkInv PROVE OutcomesAreTrue
    <2>1. CompletedMergeIsTrue
      BY <1>1 DEF WorkInv, MergeInv, MergedAsIntended, CompletedMergeIsTrue
    <2>2. CleanedLeavesNothing
      BY <1>1 DEF WorkInv, RemovalInv, RowInv, Authorized, CleanedLeavesNothing
    <2>3. QED
      BY <1>1, <2>1, <2>2 DEF WorkInv, OutcomesAreTrue
  <1>2. QED
    BY <1>1, WorkInductive, PTL

\* A worktree loses its first file only to an authorized removal: the run
\* released, the endpoint revoked and, unless the work was given up, nothing
\* uncommitted in it; and its branch goes only at the delivered head
\* (removeAuthorizedWorktree behind the staged coordinator).
THEOREM RemovalIsProven == Spec => OnlyProvenWorkIsRemoved
  <1> DEFINE Tree ==
        worktree.tree = "whole" /\ worktree'.tree # "whole" =>
          /\ record # None /\ record.stage = "removal_authorized"
          /\ run # "active" /\ attachment = "released"
          /\ record.discard \/ ~worktree.dirty
      Branch ==
        branch # "none" /\ branch' = "none" =>
          /\ record # None /\ record.stage \in {"removal_authorized", "completed"}
          /\ record.discard \/ branch = "work"
  <1>1. ASSUME WorkInv, [Next]_vars
        PROVE  Tree /\ Branch
    <2> USE DEF WorkInv, TypeOK, RemovalInv
    <2>1. CASE (Deliver \/ Environment) /\ UNCHANGED <<mergeVars, removalVars>>
      <3>1. worktree'.tree = worktree.tree /\ (branch' = branch \/ branch' = "extra")
        BY <1>1, <2>1
        DEF Deliver, PushBranch, ResolvePull, RereadPull, InspectReport, Environment,
            CheckRuns, UseForge, EditWorktree, ExpireEvidence, AbandonTask, ForgeTypeOK
      <3>2. QED
        BY <3>1
    <2>2. CASE UNCHANGED <<worktree, branch>>
      BY <2>2
    <2>3. ASSUME NEW c \in Callers, RemovalStep(c)
          PROVE  Tree /\ Branch
      <3>1. CallerInv(c) /\ RowInv
        BY <1>1 DEF CallersInv
      <3>2. CASE GitRemoves(c) /\ UNCHANGED branch
        <4>1. record.stage \in Authorized /\ record # None
          BY <3>1, <3>2 DEF GitRemoves, CallerInv, Locked
        <4>2. worktree.tree = "whole" /\ worktree'.tree # "whole" => record.discard \/ ~worktree.dirty
          BY <3>2 DEF GitRemoves
        <4>3. QED
          BY <3>1, <3>2, <4>1, <4>2 DEF RowInv, Authorized
      <3>3. CASE (GitDeletes(c) \/ GitUnlists(c)) /\ UNCHANGED branch
        BY <3>1, <3>3 DEF GitDeletes, GitUnlists, CallerInv
      <3>4. CASE RemoveBranch(c) /\ UNCHANGED worktree
        <4>1. record.stage \in Authorized /\ record # None
          BY <3>1, <3>4 DEF RemoveBranch, CallerInv, Locked
        <4>2. branch # "none" /\ branch' = "none" => branch = record.snap[1]
          BY <3>4 DEF RemoveBranch
        <4>3. QED
          BY <3>1, <3>4, <4>1, <4>2 DEF RowInv, Authorized
      <3>5. QED
        BY <2>2, <2>3, <3>2, <3>3, <3>4 DEF RemovalStep, Remove, RemoveWorktree
    <2>4. CASE RepairWorktree
      BY <2>4 DEF RepairWorktree
    <2>5. QED
      BY <1>1, <2>1, <2>2, <2>3, <2>4
      DEF Next, MergeNext, Restart, RemovalNext, RemovalFails, RefuseAttachment, vars, forgeVars
  <1>2. QED
    BY <1>1, WorkInductive, PTL DEF Spec, OnlyProvenWorkIsRemoved
=============================================================================
