--------------------------- MODULE ForgePullRequest ---------------------------
(***************************************************************************)
(* One task's branch, its pull request and the verdict of the required    *)
(* check, with the adapter of internal/forge that publishes the branch and    *)
(* reads all three back.  GitHub itself, the people who use it and the     *)
(* developer in the worktree are the environment.  Commits are abstracted  *)
(* to "work", the head the candidate was validated at, and "extra", any    *)
(* commit on top of it.                                                    *)
(***************************************************************************)
EXTENDS Naturals

CONSTANT
  MaxFaults    \* crashes, lost replies and moves of the environment

ASSUME ForgeAssumption == MaxFaults \in Nat

VARIABLES
  task,        \* [mode, state] of the tasks row
  worktree,    \* [tree, head, dirty]: the task worktree on disk, see Trees
  branch,      \* the local task branch: a head, or "none" once deleted
  remote,      \* the branch at the forge: a head, or "none" before the push
  pull,        \* [state, method]: the pull request; its head is remote
  checks,      \* the verdict on the required check of the head
  evidence,    \* sealed delivery evidence: "none", "fresh" or "expired"
  delivering,  \* where the candidate supervisor is in DeliverPullRequest
  faults       \* faults spent

forgeVars == <<task, worktree, branch, remote, pull, checks, evidence, delivering, faults>>

Heads == {"work", "extra"}
\* A worktree as created; one that a cut off `git worktree remove` left with files
\* missing, or without the link to its repository; one whose directory is gone
\* while the repository still lists it; and one that is gone.
Trees == {"whole", "partial", "broken", "stale", "gone"}
Modes == {"pull_request", "report", "merge_after_approval"}
Methods == {"squash", "rebase"}
TaskStates == {"validating", "delivered", "failed", "cancelled", "cleanup_held", "cleaned"}

\* What readChecks makes of a complete, twice identical listing of the required
\* check's runs: the latest run's conclusion, unknown when a run cannot be read.
Verdicts == {"passed", "failed", "unknown"}

\* The pull request is open at exactly the delivered head.
PullIsCurrent == pull.state = "open" /\ remote = "work"

\* VerifyPullRequest, read again with read authority only.
DeliveryIsCurrent == PullIsCurrent /\ checks = "passed"

\* InspectWorkspace at the recorded head.
WorktreeIsClean == worktree.tree = "whole" /\ ~worktree.dirty /\ worktree.head = "work"

-----------------------------------------------------------------------------
(* DeliverPullRequest, step by step: the process may stop between any two. *)

\* GitBranchPusher.Push: exact branch, exact head, clean tree, never forced.
PushBranch ==
  /\ task.state = "validating" /\ task.mode # "report" /\ delivering = "idle"
  /\ WorktreeIsClean
  /\ remote \in {"none", "work"}
  /\ remote' = "work"
  /\ delivering' = "resolve"
  /\ UNCHANGED <<task, worktree, branch, pull, checks, evidence, faults>>

\* resolvePullRequest: adopt the one open pull request or create it.
ResolvePull ==
  /\ delivering = "resolve"
  /\ \/ /\ pull.state = "open"
        /\ delivering' = "reread" /\ UNCHANGED pull
     \/ /\ pull.state \in {"none", "closed"}
        /\ delivering' = "reread" /\ pull' = [state |-> "open", method |-> "none"]
     \/ /\ pull.state = "merged"
        /\ delivering' = "idle" /\ UNCHANGED pull
  /\ UNCHANGED <<task, worktree, branch, remote, checks, evidence, faults>>

\* The re-read of the pull request and its checks; accepted evidence delivers.
RereadPull ==
  /\ delivering = "reread"
  /\ delivering' = "idle"
  /\ IF DeliveryIsCurrent
     THEN evidence' = "fresh" /\ task' = [task EXCEPT !.state = "delivered"]
     ELSE UNCHANGED <<evidence, task>>
  /\ UNCHANGED <<worktree, branch, remote, pull, checks, faults>>

\* InspectReportArtifact: a report task delivers the hash of a stable file.
InspectReport ==
  /\ task.state = "validating" /\ task.mode = "report"
  /\ WorktreeIsClean
  /\ evidence' = "fresh" /\ task' = [task EXCEPT !.state = "delivered"]
  /\ UNCHANGED <<worktree, branch, remote, pull, checks, delivering, faults>>

Deliver == PushBranch \/ ResolvePull \/ RereadPull \/ InspectReport

-----------------------------------------------------------------------------
(* The environment.                                                        *)

Fault == faults < MaxFaults /\ faults' = faults + 1

\* CI finishes or re-runs the required check.
CheckRuns ==
  /\ remote # "none"
  /\ IF task.state = "validating" THEN UNCHANGED faults ELSE Fault
  /\ checks' \in Verdicts \ {checks}
  /\ UNCHANGED <<task, worktree, branch, remote, pull, evidence, delivering>>

\* Somebody pushes on top of the branch, merges the pull request on the web
\* with a method of their own, or closes it.
UseForge ==
  /\ Fault /\ pull.state = "open"
  /\ \/ remote' = "extra" /\ UNCHANGED pull
     \/ \E m \in Methods : pull' = [state |-> "merged", method |-> m] /\ UNCHANGED remote
     \/ pull' = [pull EXCEPT !.state = "closed"] /\ UNCHANGED remote
  /\ UNCHANGED <<task, worktree, branch, checks, evidence, delivering>>

\* A developer edits the worktree or commits in it; undoing an edit costs nothing.
EditWorktree ==
  /\ worktree.tree = "whole"
  /\ \/ Fault /\ ~worktree.dirty /\ worktree' = [worktree EXCEPT !.dirty = TRUE] /\ UNCHANGED branch
     \/ Fault /\ worktree.head = "work" /\ worktree' = [worktree EXCEPT !.head = "extra"] /\ branch' = "extra"
     \/ worktree.dirty /\ worktree' = [worktree EXCEPT !.dirty = FALSE] /\ UNCHANGED <<branch, faults>>
  /\ UNCHANGED <<task, remote, pull, checks, evidence, delivering>>

\* Sealed evidence outlives its validity.
ExpireEvidence ==
  /\ evidence = "fresh" /\ Fault
  /\ evidence' = "expired"
  /\ UNCHANGED <<task, worktree, branch, remote, pull, checks, delivering>>

\* The task is given up before it is delivered.
AbandonTask ==
  /\ task.state = "validating" /\ delivering = "idle" /\ Fault
  /\ \E s \in {"failed", "cancelled"} : task' = [task EXCEPT !.state = s]
  /\ UNCHANGED <<worktree, branch, remote, pull, checks, evidence, delivering>>

Environment == CheckRuns \/ UseForge \/ EditWorktree \/ ExpireEvidence \/ AbandonTask

ForgeInit ==
  /\ worktree = [tree |-> "whole", head |-> "work", dirty |-> FALSE]
  /\ branch = "work"
  /\ remote = "none"
  /\ pull = [state |-> "none", method |-> "none"]
  /\ checks = "unknown"
  /\ evidence = "none"
  /\ delivering = "idle"
  /\ faults = 0

ForgeTypeOK ==
  /\ task \in [mode: Modes, state: TaskStates]
  /\ worktree \in [tree: Trees, head: Heads, dirty: BOOLEAN]
  /\ branch \in Heads \cup {"none"}
  /\ remote \in Heads \cup {"none"}
  /\ pull \in [state: {"none", "open", "merged", "closed"}, method: Methods \cup {"none"}]
  /\ checks \in Verdicts
  /\ evidence \in {"none", "fresh", "expired"}
  /\ delivering \in {"idle", "resolve", "reread"}
  /\ faults \in 0..MaxFaults
=============================================================================
