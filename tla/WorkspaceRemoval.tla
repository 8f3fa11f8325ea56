--------------------------- MODULE WorkspaceRemoval ---------------------------
(***************************************************************************)
(* Cleanup of delivered work and discard of abandoned work: the staged     *)
(* coordinator of application/cleanup.go and discard.go, the cleanup row   *)
(* of the store, and the Git remover.  A caller stands for one operation   *)
(* id; it may be repeated for ever, and different callers may overlap.     *)
(***************************************************************************)
EXTENDS ForgePullRequest

CONSTANTS Callers, None

VARIABLES
  record,      \* the one task_cleanup_operations row, or None
  ledger,      \* [Callers -> the command recorded for its operation]
  rcall,       \* [Callers -> [at, view, command, snap]]: callers in progress
  run,         \* the managed run and lease at the host
  attachment   \* the runtime attachment: "mounted", "released", or "refused" for good

removalVars == <<record, ledger, rcall, run, attachment>>

Stages == {"managed_run_absent", "prepared", "host_released", "removal_authorized", "completed"}
Commands == {"cleanup", "discard"}
RemovalSteps == {"idle", "stage", "inspect", "verify", "release", "recordRelease", "authorize",
                 "git", "deleting", "unlist", "unref", "complete"}

\* A snapshot keeps what the proofs compare: the head and the cleanliness.
Snapshot == <<worktree.head, worktree.dirty \/ worktree.tree = "partial">>
Snapshots == (Heads \cup {"none"}) \X BOOLEAN
CleanupRows == [op: Callers, discard: BOOLEAN, stage: Stages, snap: Snapshots]

\* "No row yet" is none of the rows.
ASSUME RemovalAssumption == None \notin CleanupRows

NoSnapshot == <<"none", FALSE>>
IdleCall == [at |-> "idle", view |-> "none", command |-> "none", snap |-> NoSnapshot]

RemovalInit ==
  /\ record = None
  /\ ledger = [c \in Callers |-> "none"]
  /\ rcall = [c \in Callers |-> IdleCall]
  /\ \/ task \in [mode: Modes, state: {"validating"}] /\ run = "active" /\ attachment = "mounted"
     \/ /\ task = [mode |-> "pull_request", state |-> "cancelled"]
        /\ run = "absent" /\ attachment = "mounted"

Move(c, step) == rcall' = [rcall EXCEPT ![c].at = step]
Fail(c) == rcall' = [rcall EXCEPT ![c] = IdleCall]
Enter(c, command, stage) ==
  rcall' = [rcall EXCEPT ![c] = [at |-> "stage", view |-> stage, command |-> command, snap |-> NoSnapshot]]

\* The task's delivery can be proved against: cleanupEvidence and the database
\* safety queries, which the delivered task of this model satisfies.
CleanupEvidenceHolds == task.state = "delivered" /\ task.mode # "merge_after_approval"

\* BeginTaskCleanup: the caller's own row, a ledger replay under the same
\* command, any row of the task, or a new hold of a provable delivered task.
BeginTaskCleanup(c) ==
  /\ rcall[c].at = "idle"
  /\ ledger[c] # "discard"
  /\ \/ /\ record # None /\ ~(record.op = c /\ record.discard)
        /\ Enter(c, "cleanup", record.stage)
        /\ UNCHANGED <<record, task>>
     \/ /\ record = None /\ CleanupEvidenceHolds
        /\ record' = [op |-> c, discard |-> FALSE, stage |-> "prepared", snap |-> NoSnapshot]
        /\ task' = [task EXCEPT !.state = "cleanup_held"]
        /\ Enter(c, "cleanup", "prepared")
  /\ UNCHANGED <<ledger, run, attachment>>

\* BeginTaskDiscard: only stopped work, and never over a cleanup.
BeginTaskDiscard(c) ==
  /\ rcall[c].at = "idle"
  /\ ledger[c] # "cleanup"
  /\ \/ /\ record # None /\ record.discard
        /\ Enter(c, "discard", record.stage)
        /\ UNCHANGED <<record, task>>
     \/ /\ record = None /\ task.state \in {"failed", "cancelled"}
        /\ LET stage == IF run = "absent" THEN "managed_run_absent" ELSE "prepared"
           IN /\ record' = [op |-> c, discard |-> TRUE, stage |-> stage, snap |-> NoSnapshot]
              /\ Enter(c, "discard", stage)
        /\ task' = [task EXCEPT !.state = "cleanup_held"]
  /\ UNCHANGED <<ledger, run, attachment>>

\* The released stages first revoke the service-owned reporter endpoint: see
\* RuntimeAttachment.  A task whose attachment was refused stays refused.
ReleaseRuntimeAttachment(c) ==
  /\ rcall[c].at = "stage" /\ rcall[c].view \in {"host_released", "managed_run_absent"}
  /\ IF attachment = "refused"
     THEN Fail(c) /\ UNCHANGED attachment
     ELSE attachment' = "released" /\ Move(c, "inspect")
  /\ UNCHANGED <<record, ledger, task, run>>

\* verifyCurrentSafety, the worktree half: a discard takes it dirty too.
InspectWorkspace(c) ==
  /\ rcall[c].at = "inspect" \/ (rcall[c].at = "stage" /\ rcall[c].view = "prepared")
  /\ IF WorktreeIsClean \/ (record.discard /\ worktree.tree \in {"whole", "partial"})
     THEN rcall' = [rcall EXCEPT ![c].at = "verify", ![c].snap = Snapshot]
     ELSE Fail(c)
  /\ UNCHANGED <<record, ledger, task, run, attachment>>

\* verifyCurrentSafety, the forge half: a pull request must still be open at the
\* delivered head with passing checks; a report and a discard need no forge.
VerifyDelivery(c) ==
  /\ rcall[c].at = "verify"
  /\ IF record.discard \/ task.mode = "report" \/ DeliveryIsCurrent
     THEN Move(c, IF rcall[c].view = "prepared" THEN "release" ELSE "authorize")
     ELSE Fail(c)
  /\ UNCHANGED <<record, ledger, task, run, attachment>>

\* ReleaseManagedRun at the host, under the row's stable release identity: a
\* repetition is acknowledged like the first.
ReleaseManagedRun(c) ==
  /\ rcall[c].at = "release"
  /\ run' = "released"
  /\ Move(c, "recordRelease")
  /\ UNCHANGED <<record, ledger, task, attachment>>

\* advanceTaskCleanup: the same stage with the same proof is a replay, any other
\* stage than the expected ones is refused.
Advance(c, from, to) ==
  IF record.stage = to /\ record.snap = rcall[c].snap
  THEN Enter(c, rcall[c].command, to) /\ UNCHANGED record
  ELSE IF record.stage \in from
  THEN record' = [record EXCEPT !.stage = to, !.snap = rcall[c].snap] /\ Enter(c, rcall[c].command, to)
  ELSE Fail(c) /\ UNCHANGED record

RecordTaskCleanupHostRelease(c) ==
  /\ rcall[c].at = "recordRelease"
  /\ Advance(c, {"prepared"}, "host_released")
  /\ UNCHANGED <<ledger, task, run, attachment>>

\* Faulty variant: the row's stage is not compared before the authorization.
AuthorizeFromAnyStage(c) ==
  /\ rcall[c].at \in {"release", "authorize"}
  /\ Advance(c, {"prepared", "host_released", "managed_run_absent"}, "removal_authorized")
  /\ UNCHANGED <<ledger, task, run, attachment>>

AuthorizeTaskCleanupRemoval(c) ==
  /\ rcall[c].at = "authorize"
  /\ Advance(c, {"host_released", "managed_run_absent"}, "removal_authorized")
  /\ UNCHANGED <<ledger, task, run, attachment>>

\* A caller inside `git worktree remove`, and one that holds the registry lock.
Removing(c) == rcall[c].at \in {"deleting", "unlist"}
RegistryLocked == \E c \in Callers : rcall[c].at \in {"git", "unref"} \/ Removing(c)

\* Faulty variant: a tree that is already gone is a refusal.
RemoveRefusesAbsent(c) ==
  /\ rcall[c].at = "stage" /\ rcall[c].view = "removal_authorized" /\ ~RegistryLocked
  /\ IF worktree.tree = "whole" /\ worktree.head = record.snap[1] /\ (record.discard \/ ~worktree.dirty)
     THEN Move(c, "git")
     ELSE Fail(c)
  /\ UNCHANGED <<record, ledger, task, run, attachment, worktree>>

\* removeAuthorizedWorktree under the registry lock, what it asks of the tree:
\* the exact head, and for a cleanup no uncommitted work.  An absent tree is a
\* replay, unless the repository still lists it.
RemoveWorktree(c) ==
  /\ rcall[c].at = "stage" /\ rcall[c].view = "removal_authorized" /\ ~RegistryLocked
  /\ \/ worktree.tree = "gone" /\ Move(c, "unref")
     \/ worktree.tree \in {"stale", "broken"} /\ Fail(c)
     \/ /\ worktree.tree \in {"whole", "partial"}
        /\ IF worktree.head = record.snap[1] /\ (record.discard \/ WorktreeIsClean)
           THEN Move(c, "git")
           ELSE Fail(c)
  /\ UNCHANGED <<record, ledger, task, run, attachment, worktree>>

\* `git worktree remove` looks for uncommitted work itself, unless forced, and
\* deletes the tree file by file; it does not compare the head.
GitRemoves(c) ==
  /\ rcall[c].at = "git"
  /\ IF record.discard \/ (worktree.tree = "whole" /\ ~worktree.dirty)
     THEN /\ \E t \in {"partial", "broken"} : worktree' = [worktree EXCEPT !.tree = t, !.dirty = FALSE]
          /\ Move(c, "deleting")
     ELSE Fail(c) /\ UNCHANGED worktree
  /\ UNCHANGED <<record, ledger, task, run, attachment>>

\* The last file and the directory go, and then the entry in the repository.
GitDeletes(c) ==
  /\ rcall[c].at = "deleting"
  /\ worktree' = [worktree EXCEPT !.tree = "stale"] /\ Move(c, "unlist")
  /\ UNCHANGED <<record, ledger, task, run, attachment>>

GitUnlists(c) ==
  /\ rcall[c].at = "unlist"
  /\ worktree' = [worktree EXCEPT !.tree = "gone"] /\ Move(c, "unref")
  /\ UNCHANGED <<record, ledger, task, run, attachment>>

\* ... and its branch, deleted only at the authorized head.
RemoveBranch(c) ==
  /\ rcall[c].at = "unref"
  /\ IF branch \in {"none", record.snap[1]}
     THEN branch' = "none" /\ Move(c, "complete")
     ELSE UNCHANGED branch /\ Fail(c)
  /\ UNCHANGED <<record, ledger, task, run, attachment>>

\* CompleteTaskCleanup: task, row and the ledger entries of the row's operation
\* and of the caller, in one transaction; a later caller is recorded as an alias
\* of the completed effect.
CompleteTaskCleanup(c) ==
  /\ \/ rcall[c].at = "complete"
     \/ rcall[c].at = "stage" /\ rcall[c].view = "completed"
  /\ LET command == IF record.discard THEN "discard" ELSE "cleanup"
     IN IF record.stage = "completed"
        THEN /\ ledger' = [ledger EXCEPT ![c] = command]
             /\ UNCHANGED <<record, task>>
        ELSE /\ ledger' = [ledger EXCEPT ![c] = command, ![record.op] = command]
             /\ record' = [record EXCEPT !.stage = "completed"]
             /\ task' = [task EXCEPT !.state = "cleaned"]
  /\ Fail(c)
  /\ UNCHANGED <<run, attachment>>

\* The steps that leave everything outside the store and the host alone.
RemovalLocal(c) ==
  \/ BeginTaskCleanup(c) \/ BeginTaskDiscard(c) \/ ReleaseRuntimeAttachment(c)
  \/ InspectWorkspace(c) \/ VerifyDelivery(c) \/ ReleaseManagedRun(c)
  \/ RecordTaskCleanupHostRelease(c) \/ AuthorizeTaskCleanupRemoval(c) \/ CompleteTaskCleanup(c)

Remove(c) ==
  \/ RemovalLocal(c) /\ UNCHANGED <<worktree, branch>>
  \/ RemoveWorktree(c) /\ UNCHANGED branch
  \/ (GitRemoves(c) \/ GitDeletes(c) \/ GitUnlists(c)) /\ UNCHANGED branch
  \/ RemoveBranch(c) /\ UNCHANGED worktree

RemovalStep(c) == Remove(c) /\ UNCHANGED <<remote, pull, checks, evidence, delivering, faults>>

\* A call in progress ends in an error: a dependency fails, an answer is lost,
\* the call's context ends and Git is killed with it.
RemovalFails(c) ==
  /\ rcall[c].at # "idle" /\ Fault /\ Fail(c)
  /\ UNCHANGED <<record, ledger, run, attachment, task, worktree, branch,
                 remote, pull, checks, evidence, delivering>>

\* The task's runtime attachment is refused: see RuntimeAttachment.
RefuseAttachment ==
  /\ attachment = "mounted" /\ Fault
  /\ attachment' = "refused"
  /\ UNCHANGED <<record, ledger, rcall, run, task, worktree, branch,
                 remote, pull, checks, evidence, delivering>>

\* Somebody repairs by hand what an interrupted removal left: the missing files
\* are restored, the remains deleted, or the entry pruned.
RepairWorktree ==
  /\ \A c \in Callers : ~Removing(c)
  /\ \E step \in {<<"partial", "whole">>, <<"broken", "stale">>, <<"stale", "gone">>} :
       worktree.tree = step[1] /\ worktree' = [worktree EXCEPT !.tree = step[2]]
  /\ UNCHANGED <<removalVars, task, branch, remote, pull, checks, evidence, delivering, faults>>

RemovalNext ==
  \/ \E c \in Callers : RemovalStep(c) \/ RemovalFails(c)
  \/ RefuseAttachment \/ RepairWorktree

RemovalTypeOK ==
  /\ record \in {None} \cup CleanupRows
  /\ ledger \in [Callers -> Commands \cup {"none"}]
  /\ rcall \in [Callers -> [at: RemovalSteps, view: Stages \cup {"none"},
                            command: Commands \cup {"none"}, snap: Snapshots]]
  /\ run \in {"active", "released", "absent"}
  /\ attachment \in {"mounted", "released", "refused"}

\* The first file leaves the worktree only under a removal the store authorized
\* after the managed run was released and the reporter endpoint revoked; and
\* unless the operator gave the work up, no uncommitted work is in it and the
\* branch goes only at the delivered head.  A commit that slipped in between the
\* comparison of the head and the removal stays on the branch.
OnlyProvenWorkIsRemoved ==
  [][/\ worktree.tree = "whole" /\ worktree'.tree # "whole" =>
          /\ record # None /\ record.stage = "removal_authorized"
          /\ run # "active" /\ attachment = "released"
          /\ record.discard \/ ~worktree.dirty
     /\ branch # "none" /\ branch' = "none" =>
          /\ record # None /\ record.stage \in {"removal_authorized", "completed"}
          /\ record.discard \/ branch = "work"]_<<forgeVars, removalVars>>

\* A cleaned task has left nothing behind, whichever callers finished it and
\* wherever they were interrupted: no tree, no entry for it, no branch, no host
\* authority, and a ledger entry for the operation that owns the removal.
CleanedLeavesNothing ==
  task.state = "cleaned" =>
    /\ worktree.tree = "gone" /\ branch = "none"
    /\ run # "active" /\ attachment = "released"
    /\ record.stage = "completed" /\ ledger[record.op] # "none"

\* The conditions a held removal waits for: an attachment that can be released,
\* a delivered pull request still open and green, the worktree as the row
\* recorded it, or gone.  What a death inside `git worktree remove` leaves is
\* neither, until somebody repairs it: files missing from a delivered tree, a
\* tree without its link, an entry without a tree.
Removable ==
  /\ record # None /\ attachment # "refused"
  /\ record.discard \/ task.mode = "report" \/ DeliveryIsCurrent
  /\ \/ worktree.tree = "gone"
     \/ /\ WorktreeIsClean \/ (record.discard /\ worktree.tree \in {"whole", "partial"})
        /\ record.snap = NoSnapshot \/ worktree.head = record.snap[1]
  /\ record.snap = NoSnapshot \/ branch \in {"none", record.snap[1]}

\* A held task whose conditions hold from some point on is removed in the end,
\* by operators who keep retrying, however often the service or a call stopped
\* half way between the stages, the tree, its branch and the row.
HeldWorkIsRemoved == <>[]Removable => <>(task.state = "cleaned")
=============================================================================
