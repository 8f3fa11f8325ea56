---------------------- MODULE IntegrationApplication ----------------------
(***************************************************************************)
(* Applying one accepted candidate to an initiative's integration branch:  *)
(* the reservation rows of the store (store/sqlite/integration_*.go), the  *)
(* coordinator (application/integration.go) and the Git adapter            *)
(* (git/integration*.go), which share nothing but what the adapter leaves  *)
(* in the repository.  Client calls run concurrently; the adapter runs one *)
(* at a time under the registry lock; the process may be killed between    *)
(* any two writes, and a call may be cancelled.                            *)
(*                                                                         *)
(* Two operations name the candidate: the original one, and a recovery of  *)
(* it that a client may reserve while the original is still reserved.      *)
(* merge and cherry-pick take the same path and are one strategy here.     *)
(* Rebase conflicts left in a worktree by an earlier release are not       *)
(* modelled: this code refuses a conflict before any shared write.         *)
(***************************************************************************)
EXTENDS Naturals

CONSTANTS MaxCalls,   \* client calls that may be in flight together
          MaxFaults   \* bound on crashes, cancellations and refused checks

ASSUME IntegrationConstants == MaxCalls \in Nat \ {0} /\ MaxFaults \in Nat

VARIABLES
  strategy,   \* the initiative's reviewed strategy
  row,        \* status of each operation's row
  evid,       \* the evidence each operation was reserved with
  latest,     \* the candidate's latest accepted evidence
  expired,    \* evidence whose deadline has passed
  git,        \* branch, index, worktree, proof files and receipts
  call,       \* the calls in flight
  lock,       \* the call inside the adapter
  movedBy,    \* the operation whose compare-and-swap moved the branch
  faults, unpreflighted, doubled

store == <<strategy, row, evid>>
world == <<latest, expired>>
ghost == <<movedBy, faults, unpreflighted, doubled>>
vars == <<strategy, row, evid, latest, expired,
          git, call, lock, movedBy, faults, unpreflighted, doubled>>

Calls == 1..MaxCalls
Idle == 0
Ops == {"orig", "rec"}
Evidence == {"first", "renewed"}
Outcomes == {"applied", "aborted", "invalidated"}
Rows == Outcomes \cup {"none", "reserved"}
Head == {"expected", "result"}
Phases == {"idle", "wait", "decide", "inputs", "plan", "target", "proof", "publish",
           "advance", "index", "worktree", "link", "write", "promote", "retire", "receipt", "settle"}
Results == {"none", "notStarted", "applied", "invalidated"}
Modes == {"fresh", "resume", "finalize", "pending"}
NoCall == [op |-> "orig", pc |-> "idle", receiptOnly |-> FALSE, mode |-> "fresh", result |-> "none"]

Pristine(g) == g.branch = "expected" /\ g.index = "expected" /\ g.worktree = "expected"
Materialized(g) == g.branch = "result" /\ g.index = "result" /\ g.worktree = "result"

----------------------------------------------------------------------------
(* The end of an adapter call, and moving it on.  An error goes back to the *)
(* client and leaves the row reserved.                                     *)

Goto(c, phase) == call' = [call EXCEPT ![c].pc = phase] /\ UNCHANGED lock
Return(c, result) ==
  /\ call' = [call EXCEPT ![c] = IF result = "error" THEN NoCall
                                  ELSE [@ EXCEPT !.pc = "settle", !.result = result]]
  /\ lock' = Idle
In(c, phase) == lock = c /\ call[c].pc = phase
Expired(c) == evid[call[c].op] \in expired
Rebase == strategy = "rebase"

----------------------------------------------------------------------------
Init ==
  /\ strategy \in {"merge", "rebase"}
  /\ row = [o \in Ops |-> "none"] /\ evid = [o \in Ops |-> "first"]
  /\ latest = "first" /\ expired = {}
  /\ git = [branch |-> "expected", index |-> "expected", worktree |-> "expected",
            plan |-> FALSE, transition |-> FALSE, target |-> FALSE, proof |-> FALSE,
            rebased |-> {}, applied |-> {}]
  /\ call = [c \in Calls |-> NoCall] /\ lock = Idle
  /\ movedBy = "none" /\ faults = 0 /\ unpreflighted = FALSE /\ doubled = FALSE

\* What resolveIntegrationReservation accepts now.  A recovery needs an
\* original that is still reserved; evidence is judged at the time of the
\* call.
CanReserve(o) ==
  /\ latest \notin expired
  /\ o = "rec" => row["orig"] = "reserved"

\* A replay of a reserved recovery whose evidence has run out is an error of
\* its own kind and reaches neither the adapter nor the receipts.
RecoveryTimeInvalid(o) ==
  o = "rec" /\ row["orig"] = "reserved" /\ latest \in expired

\* Calls are interchangeable: the lowest free number is used.
Free(c) == call[c].pc = "idle" /\ \A d \in Calls : d < c => call[d].pc # "idle"
Doubles(c, o) == \E d \in Calls \ {c} : call[d].pc # "idle" /\ call[d].op = o

\* The coordinator's reservation transaction: a first call inserts the row, a
\* later one takes the stored row and learns whether its authority stands.
Reserve(c, o) ==
  /\ Free(c)
  /\ \/ /\ row[o] = "none" /\ CanReserve(o)
        /\ row' = [row EXCEPT ![o] = "reserved"]
        /\ evid' = [evid EXCEPT ![o] = latest]
        /\ call' = [call EXCEPT ![c] = [NoCall EXCEPT !.op = o, !.pc = "wait"]]
     \/ /\ row[o] = "reserved" /\ ~RecoveryTimeInvalid(o)
        /\ call' = [call EXCEPT ![c] = [NoCall EXCEPT !.op = o, !.pc = "wait",
                      !.receiptOnly = ~(CanReserve(o) /\ evid[o] = latest)]]
        /\ UNCHANGED <<row, evid>>
  /\ doubled' = (doubled \/ Doubles(c, o))
  /\ UNCHANGED <<strategy, world, git, lock, movedBy, faults, unpreflighted>>

\* The initiative, its owner or a preparation does not allow the write now:
\* the call may only read receipts.
ReserveUnauthorized(c, o) ==
  /\ Free(c) /\ row[o] = "reserved" /\ faults < MaxFaults
  /\ call' = [call EXCEPT ![c] = [NoCall EXCEPT !.op = o, !.pc = "wait", !.receiptOnly = TRUE]]
  /\ doubled' = (doubled \/ Doubles(c, o))
  /\ faults' = faults + 1
  /\ UNCHANGED <<strategy, row, evid, world, git, lock, movedBy, unpreflighted>>

----------------------------------------------------------------------------
(* ApplyIntegrationCandidate, up to the choice of what there is to do. *)

Family(o) == IF o = "rec" THEN Ops ELSE {"orig"}

\* integrationReplayEvidenceAbsent
EvidenceAbsent(o) ==
  /\ Family(o) \cap (git.applied \cup git.rebased) = {}
  /\ ~git.plan /\ ~git.transition /\ ~git.target /\ ~git.proof

Enter(c) ==
  /\ call[c].pc = "wait" /\ lock = Idle
  /\ lock' = c /\ call' = [call EXCEPT ![c].pc = "decide"]
  /\ UNCHANGED <<store, world, git, ghost>>

\* preflightIntegrationWorktrees fails: a worktree cannot be identified now.
EnterUnidentified(c) ==
  /\ call[c].pc = "wait" /\ lock = Idle /\ faults < MaxFaults
  /\ call' = [call EXCEPT ![c].pc = "settle", ![c].result = "notStarted"]
  /\ faults' = faults + 1 /\ unpreflighted' = TRUE
  /\ UNCHANGED <<store, world, git, lock, movedBy, doubled>>

\* validateAppliedIntegrationReceiptFamily
AppliedFamily(g, o) ==
  /\ o \in g.applied /\ ~g.proof
  /\ g.target = Rebase
  /\ g.rebased \cap Family(o) = IF Rebase THEN {o} ELSE {}
  /\ o = "rec" => "orig" \notin g.applied

\* validateCompletedIntegrationReceiptFamily
NoReceipts(o) ==
  /\ Family(o) \cap (git.applied \cup git.rebased) = {}
  /\ ~git.target /\ ~git.proof

\* validatePendingMaterializationReceiptSet
PendingReceipts ==
  /\ git.applied = {} /\ git.rebased = {}
  /\ git.target = Rebase /\ git.proof = Rebase

\* provePristineIntegrationState, provePristinePublishedRebaseProof
ProvedPristine ==
  /\ ~git.transition /\ ~git.proof /\ Pristine(git)
  /\ "orig" \notin git.applied \cup git.rebased
  /\ ~Rebase => ~git.target

\* authorizeRebaseFinalization, all but its deadline
FinalizationReceipts(o) == git.target /\ o = "orig" /\ o \notin git.applied

\* validateReceiptOnlyRebaseReceipts
ReceiptOnlyReceipts == git.target /\ (git.proof \/ "orig" \in git.rebased)

\* replayAppliedIntegration
ReplayApplied(c) ==
  /\ In(c, "decide") /\ call[c].op \in git.applied
  /\ Return(c, IF AppliedFamily(git, call[c].op) /\ Materialized(git) THEN "applied" ELSE "error")
  /\ UNCHANGED <<store, world, git, ghost>>

\* Faulty variant: without a transition the published plan alone is resumed
ResumePlanUnproved(c) ==
  /\ In(c, "decide") /\ call[c].op = "orig" /\ ~Rebase /\ git.plan
  /\ "orig" \notin git.applied
  /\ Return(c, "applied")
  /\ UNCHANGED <<store, world, git, ghost>>

\* reconcileCompletedIntegrationPlan: a merge finds its published plan.
ReconcilePlan(c) ==
  /\ In(c, "decide") /\ call[c].op = "orig" /\ ~Rebase /\ git.plan
  /\ "orig" \notin git.applied
  /\ \/ /\ git.transition /\ ~call[c].receiptOnly
        /\ call' = [call EXCEPT ![c].pc = "advance", ![c].mode = "resume"]
        /\ UNCHANGED lock
     \/ /\ git.transition /\ call[c].receiptOnly
        /\ Return(c, IF Materialized(git) /\ NoReceipts("orig") THEN "applied" ELSE "error")
     \/ /\ ~git.transition /\ call[c].receiptOnly
        /\ Return(c, IF ProvedPristine THEN "notStarted" ELSE "error")
     \/ ~git.transition /\ ~call[c].receiptOnly /\ Goto(c, "inputs")
  /\ UNCHANGED <<store, world, git, ghost>>

\* Faulty variant: the rebase receipts are required of every strategy
ResumePendingRebased(c) ==
  /\ In(c, "decide") /\ call[c].op = "rec" /\ "rec" \notin git.applied
  /\ \/ /\ git.plan /\ git.transition /\ PendingReceipts /\ Rebase
        /\ call' = [call EXCEPT ![c].pc = "advance", ![c].mode = "pending"]
        /\ UNCHANGED lock
     \/ git.transition /\ ~(PendingReceipts /\ Rebase) /\ Return(c, "error")
     \/ ~git.transition /\ Return(c, IF git.plan /\ ProvedPristine THEN "notStarted" ELSE "error")
  /\ UNCHANGED <<store, world, git, ghost>>

\* resumePendingIntegrationMaterialization: a recovery takes up what the
\* original published.  It is asked before the receipt-only refusal.
ResumePending(c) ==
  /\ In(c, "decide") /\ call[c].op = "rec" /\ "rec" \notin git.applied
  /\ \/ /\ git.plan /\ git.transition /\ PendingReceipts
        /\ call' = [call EXCEPT ![c].pc = "advance", ![c].mode = "pending"]
        /\ UNCHANGED lock
     \/ git.plan /\ git.transition /\ ~PendingReceipts /\ Return(c, "error")
     \/ /\ git.plan /\ ~git.transition
        /\ Return(c, IF ProvedPristine THEN "notStarted" ELSE "error")
     \/ ~git.plan /\ Return(c, "error")
  /\ UNCHANGED <<store, world, git, ghost>>

\* reconcileReceiptOnlyCompletedRebase, and the refusal after it
ReconcileReceiptOnly(c) ==
  /\ In(c, "decide") /\ call[c].op = "orig" /\ "orig" \notin git.applied
  /\ call[c].receiptOnly /\ (Rebase \/ ~git.plan)
  /\ Return(c, IF ~git.plan THEN "error"
               ELSE IF ProvedPristine THEN "notStarted"
               ELSE IF ReceiptOnlyReceipts /\ Materialized(git) THEN "applied" ELSE "error")
  /\ UNCHANGED <<store, world, git, ghost>>

\* reconcileInterruptedRebase: the branch tells whether the rebase moved it.
\* finalizeRecoveredRebase starts by asking for the deadline.
ReconcileRebase(c) ==
  /\ In(c, "decide") /\ call[c].op = "orig" /\ "orig" \notin git.applied
  /\ ~call[c].receiptOnly /\ (Rebase \/ ~git.plan)
  /\ \/ /\ ~git.target \/ git.branch = "expected"
        /\ IF "orig" \in git.rebased THEN Return(c, "error") ELSE Goto(c, "inputs")
     \/ /\ git.target /\ git.branch = "result"
        /\ \/ Expired(c) /\ Return(c, "notStarted")
           \/ /\ ~Expired(c) /\ FinalizationReceipts("orig")
              /\ call' = [call EXCEPT ![c].pc = "advance", ![c].mode = "finalize"]
              /\ UNCHANGED lock
  /\ UNCHANGED <<store, world, git, ghost>>

----------------------------------------------------------------------------
(* A fresh application: inputs, an isolated result, and its publication. *)

InspectInputs(c) ==
  /\ In(c, "inputs")
  /\ \/ ~Pristine(git) /\ Return(c, "error")
     \/ Pristine(git) /\ Expired(c) /\ Return(c, "notStarted")
     \/ Pristine(git) /\ ~Expired(c) /\ Goto(c, "plan")
  /\ UNCHANGED <<store, world, git, ghost>>

\* The candidate worktree is no longer the accepted head.
InspectChangedCandidate(c) ==
  /\ In(c, "inputs") /\ Pristine(git) /\ faults < MaxFaults
  /\ Return(c, "invalidated")
  /\ faults' = faults + 1
  /\ UNCHANGED <<store, world, git, movedBy, unpreflighted, doubled>>

\* runIsolatedIntegration: the merge runs in a service-owned workspace and
\* its plan is published, unless an earlier call published one.
RunIsolated(c) ==
  /\ In(c, "plan") /\ ~Rebase
  /\ git' = [git EXCEPT !.plan = TRUE] /\ Goto(c, "publish")
  /\ UNCHANGED <<store, world, ghost>>

\* prepareServerRebaseProof: the same for a rebase and its proof file.
PrepareRebaseProof(c) ==
  /\ In(c, "plan") /\ Rebase
  /\ git' = [git EXCEPT !.plan = TRUE] /\ Goto(c, "target")
  /\ UNCHANGED <<store, world, ghost>>

\* Conflicts in isolation, or a result that does more than add files, end
\* the operation before anything shared is written.
RefuseIsolated(c) ==
  /\ In(c, "plan") /\ ~git.plan
  /\ Return(c, "notStarted")
  /\ UNCHANGED <<store, world, git, ghost>>

\* runRebaseIntegration between the proof file and the target receipt
RecordTarget(c) ==
  /\ In(c, "target")
  /\ \/ Expired(c) /\ Return(c, "notStarted") /\ UNCHANGED git
     \/ ~Expired(c) /\ git' = [git EXCEPT !.target = TRUE] /\ Goto(c, "proof")
  /\ UNCHANGED <<store, world, ghost>>

RecordProof(c) ==
  /\ In(c, "proof")
  /\ IF Expired(c) \/ ~FinalizationReceipts(call[c].op)
       THEN Return(c, "error") /\ UNCHANGED git
       ELSE git' = [git EXCEPT !.proof = TRUE] /\ Goto(c, "publish")
  /\ UNCHANGED <<store, world, ghost>>

\* materializeIntegrationResult: the transition file.  A merge is checked
\* once more before it, a rebase was; every later failure of the fresh path
\* is stripped of the not-started mark.
PublishTransition(c) ==
  /\ In(c, "publish")
  /\ \/ /\ ~git.transition /\ Expired(c)
        /\ Return(c, IF Rebase THEN "error" ELSE "notStarted") /\ UNCHANGED git
     \/ ~git.transition /\ ~Expired(c) /\ ~Pristine(git)
        /\ Return(c, "error") /\ UNCHANGED git
     \/ /\ git.transition \/ (~Expired(c) /\ Pristine(git))
        /\ git' = [git EXCEPT !.transition = TRUE] /\ Goto(c, "advance")
  /\ UNCHANGED <<store, world, ghost>>

----------------------------------------------------------------------------
(* advanceIntegrationMaterialization: branch, index, worktree. *)

\* A refusal before the branch moves is reported as not started, unless the
\* caller is the fresh path, which strips the mark.
Unstarted(c) == IF call[c].mode = "fresh" THEN "error" ELSE "notStarted"

MoveReceipts(c) == Rebase \/ call[c].mode = "pending" \/ NoReceipts("orig")

AfterMaterialization(c) ==
  IF Rebase THEN "promote"
  ELSE IF call[c].mode = "resume" THEN "applied" ELSE "receipt"

\* The resumed merge returns at once; the other flows go on to their receipts.
Finish(c) ==
  IF AfterMaterialization(c) = "applied"
    THEN Return(c, IF NoReceipts("orig") THEN "applied" ELSE "error")
    ELSE IF call[c].mode = "finalize" /\ Expired(c)
           THEN Return(c, "notStarted")
           ELSE Goto(c, AfterMaterialization(c))

AdvanceBranch(c) ==
  /\ In(c, "advance")
  /\ \/ /\ git.branch = "expected"
        /\ \/ ~Pristine(git) /\ Return(c, "error") /\ UNCHANGED <<git, movedBy>>
           \/ /\ Pristine(git) /\ Expired(c)
              /\ Return(c, Unstarted(c)) /\ UNCHANGED <<git, movedBy>>
           \/ /\ Pristine(git) /\ ~Expired(c)
              /\ IF MoveReceipts(c)
                   THEN /\ git' = [git EXCEPT !.branch = "result"]
                        /\ movedBy' = call[c].op
                        /\ Goto(c, "index")
                   ELSE Return(c, "error") /\ UNCHANGED <<git, movedBy>>
     \/ /\ git.branch = "result" /\ UNCHANGED <<git, movedBy>>
        /\ IF Materialized(git) THEN Finish(c) ELSE Goto(c, "index")
  /\ UNCHANGED <<store, world, faults, unpreflighted, doubled>>

\* authorizeIntegrationMaterializationAfterCAS: a recovery answers to its
\* receipts alone, everything else to the deadline too.
AuthorizedAfterCAS(c) ==
  IF call[c].mode = "pending" THEN PendingReceipts
  ELSE ~Expired(c) /\ IF Rebase THEN FinalizationReceipts(call[c].op) ELSE NoReceipts("orig")

ReadTree(c) ==
  /\ In(c, "index")
  /\ IF AuthorizedAfterCAS(c)
       THEN git' = [git EXCEPT !.index = "result"] /\ Goto(c, "worktree")
       ELSE Return(c, "error") /\ UNCHANGED git
  /\ UNCHANGED <<store, world, ghost>>

\* materializeIntegrationWorktree, in three steps: see WorktreeMaterialization.
\* The recovery directory is opened or made and the additions are staged in it.
StartWorktree(c) ==
  /\ In(c, "worktree")
  /\ IF AuthorizedAfterCAS(c)
       THEN /\ git' = [git EXCEPT !.worktree = IF @ = "expected" THEN "staged" ELSE @]
            /\ Goto(c, "link")
       ELSE Return(c, "error") /\ UNCHANGED git
  /\ UNCHANGED <<store, world, ghost>>

\* The first addition is linked.  An addition that a killed call linked occupies
\* its name: no later call gets past it.
LinkAdditions(c) ==
  /\ In(c, "link")
  /\ IF git.worktree = "staged"
       THEN git' = [git EXCEPT !.worktree = "partial"] /\ Goto(c, "write")
       ELSE Return(c, "error") /\ UNCHANGED git
  /\ UNCHANGED <<store, world, ghost>>

\* The others follow, the whole is compared, and the recovery directory goes.
FinishWorktree(c) ==
  /\ In(c, "write")
  /\ git' = [git EXCEPT !.worktree = "result"]
  /\ Finish(c)
  /\ UNCHANGED <<store, world, ghost>>

----------------------------------------------------------------------------
(* Receipts of a rebase, and the applied receipt. *)

\* promoteCompletedRebaseProof
PromoteProof(c) ==
  /\ In(c, "promote")
  /\ IF call[c].op \in git.rebased \/ git.proof
       THEN git' = [git EXCEPT !.rebased = @ \cup {call[c].op}] /\ Goto(c, "retire")
       ELSE Return(c, "error") /\ UNCHANGED git
  /\ UNCHANGED <<store, world, ghost>>

\* retireIntegrationRebaseProof; a recovered rebase asks for the deadline
\* around it.
RetireProof(c) ==
  /\ In(c, "retire")
  /\ IF call[c].mode = "finalize" /\ Expired(c)
       THEN Return(c, "notStarted") /\ UNCHANGED git
       ELSE git' = [git EXCEPT !.proof = FALSE] /\ Goto(c, "receipt")
  /\ UNCHANGED <<store, world, ghost>>

CreateAppliedReceipt(c) ==
  /\ In(c, "receipt")
  /\ LET deadline == Rebase /\ call[c].mode # "pending"
         receipts == IF call[c].mode = "pending" THEN TRUE
                     ELSE IF Rebase THEN FinalizationReceipts(call[c].op)
                     ELSE NoReceipts(call[c].op)
     IN \/ deadline /\ Expired(c) /\ Return(c, "notStarted") /\ UNCHANGED git
        \/ ~(deadline /\ Expired(c)) /\ ~receipts /\ Return(c, "error") /\ UNCHANGED git
        \/ /\ ~(deadline /\ Expired(c)) /\ receipts
           /\ git' = [git EXCEPT !.applied = @ \cup {call[c].op}]
           /\ Return(c, IF call[c].mode = "pending" \/ AppliedFamily(git', call[c].op)
                        THEN "applied" ELSE "error")
  /\ UNCHANGED <<store, world, ghost>>

\* validateIntegrationExecutionPolicy refuses: the repository's configuration
\* could run commands.  What that says of the operation depends on where.
PolicyRefusal(c) ==
  LET p == call[c].pc
  IN CASE p = "decide" -> IF EvidenceAbsent(call[c].op) THEN "notStarted" ELSE "error"
       [] p = "inputs" -> IF Pristine(git) THEN "notStarted" ELSE "error"
       [] p = "publish" -> IF Rebase THEN "error" ELSE "notStarted"
       [] p = "advance" -> IF Pristine(git) THEN Unstarted(c) ELSE "error"
       [] OTHER -> "error"

RefuseConfiguration(c) ==
  /\ lock = c /\ faults < MaxFaults
  /\ \/ call[c].pc \in {"decide", "inputs", "target", "publish"}
     \/ call[c].pc = "advance" /\ git.branch = "expected"
     \/ call[c].pc \in {"index", "worktree"} /\ call[c].mode = "pending"
  /\ Return(c, PolicyRefusal(c))
  /\ faults' = faults + 1
  /\ UNCHANGED <<store, world, git, movedBy, unpreflighted, doubled>>

Adapter(c) ==
  \/ ReplayApplied(c) \/ ReconcilePlan(c) \/ ResumePending(c)
  \/ ReconcileReceiptOnly(c) \/ ReconcileRebase(c)
  \/ InspectInputs(c) \/ InspectChangedCandidate(c)
  \/ RunIsolated(c) \/ PrepareRebaseProof(c) \/ RefuseIsolated(c)
  \/ RecordTarget(c) \/ RecordProof(c)
  \/ PublishTransition(c) \/ AdvanceBranch(c) \/ ReadTree(c)
  \/ StartWorktree(c) \/ LinkAdditions(c) \/ FinishWorktree(c)
  \/ PromoteProof(c) \/ RetireProof(c) \/ CreateAppliedReceipt(c)

----------------------------------------------------------------------------
(* The coordinator settles the row. *)

Settlement(result) == IF result = "notStarted" THEN "aborted" ELSE result

\* CompleteIntegrationApplication: an applied recovery settles its original.
SettledRows(o, outcome) ==
  [row EXCEPT ![o] = outcome,
              !["orig"] = IF o = "rec" /\ outcome = "applied" /\ row["orig"] = "reserved"
                          THEN "applied" ELSE IF o = "orig" THEN outcome ELSE @]

\* Faulty variant: a settled row is written again
CompleteAlways(c) ==
  /\ call[c].pc = "settle"
  /\ row' = SettledRows(call[c].op, Settlement(call[c].result))
  /\ call' = [call EXCEPT ![c] = NoCall]
  /\ UNCHANGED <<strategy, evid, world, git, lock, ghost>>

\* A row that is no longer reserved is never written again.
Complete(c) ==
  /\ call[c].pc = "settle"
  /\ row' = IF row[call[c].op] = "reserved"
              THEN SettledRows(call[c].op, Settlement(call[c].result)) ELSE row
  /\ call' = [call EXCEPT ![c] = NoCall]
  /\ UNCHANGED <<strategy, evid, world, git, lock, ghost>>

----------------------------------------------------------------------------
(* The environment.  Time starts to matter with the first reservation. *)

Expire(e) ==
  /\ e \notin expired /\ row["orig"] # "none" /\ (e = "renewed" => latest = "renewed")
  /\ expired' = expired \cup {e}
  /\ UNCHANGED <<store, latest, git, call, lock, ghost>>

\* The candidate is validated again and its new evidence accepted.
Renew ==
  /\ latest = "first" /\ row["orig"] # "none"
  /\ latest' = "renewed"
  /\ UNCHANGED <<store, expired, git, call, lock, ghost>>

\* A cancelled context or a failed read ends the call with a plain error.
Cancel(c) ==
  /\ lock = c /\ faults < MaxFaults
  /\ Return(c, "error")
  /\ faults' = faults + 1
  /\ UNCHANGED <<store, world, git, movedBy, unpreflighted, doubled>>

Crash ==
  /\ faults < MaxFaults /\ \E c \in Calls : call[c].pc # "idle"
  /\ call' = [c \in Calls |-> NoCall] /\ lock' = Idle
  /\ faults' = faults + 1
  /\ UNCHANGED <<store, world, git, movedBy, unpreflighted, doubled>>

Environment ==
  \/ \E e \in Evidence : Expire(e)
  \/ Renew
  \/ (\E c \in Calls : Cancel(c)) \/ Crash

Next ==
  \/ \E c \in Calls : \/ \E o \in Ops : Reserve(c, o)
                      \/ \E o \in Ops : ReserveUnauthorized(c, o)
                      \/ Enter(c) \/ EnterUnidentified(c) \/ RefuseConfiguration(c)
                      \/ Adapter(c) \/ Complete(c)
  \/ Environment

\* A call that runs is carried on, and clients repeat an operation whose row
\* is still reserved and reserve a recovery of one that stays reserved.
Fairness ==
  /\ \A c \in Calls : SF_vars(Enter(c) \/ Adapter(c) \/ Complete(c))
  /\ \A o \in Ops : SF_vars(\E c \in Calls : Reserve(c, o))

Spec == Init /\ [][Next]_vars /\ Fairness

----------------------------------------------------------------------------
(* Properties. *)

TypeOK ==
  /\ strategy \in {"merge", "rebase"}
  /\ row \in [Ops -> Rows] /\ evid \in [Ops -> Evidence]
  /\ latest \in Evidence /\ expired \subseteq Evidence
  /\ git \in [branch : Head, index : Head, worktree : Head \cup {"staged", "partial"},
              plan : BOOLEAN, transition : BOOLEAN, target : BOOLEAN, proof : BOOLEAN,
              rebased : SUBSET Ops, applied : SUBSET Ops]
  /\ call \in [Calls -> [op : Ops, pc : Phases, receiptOnly : BOOLEAN, mode : Modes, result : Results]]
  /\ lock \in Calls \cup {Idle}
  /\ movedBy \in Ops \cup {"none"} /\ faults \in 0..MaxFaults
  /\ unpreflighted \in BOOLEAN /\ doubled \in BOOLEAN

\* The ledger never says applied, and the repository never holds an applied
\* receipt, before branch, index and worktree all are the result.
AppliedIsMaterialized ==
  (\E o \in Ops : row[o] = "applied" \/ o \in git.applied) => Materialized(git)

\* Whatever the process died in, the repository explains how far the
\* application got: the worktree never runs ahead of the index, the index
\* never ahead of the branch, and a moved branch has its plan and transition.
MoveIsRecorded ==
  /\ git.worktree # "expected" => git.index = "result"
  /\ git.index = "result" => git.branch = "result"
  /\ git.branch = "result" => git.plan /\ git.transition
  /\ git.branch = "result" /\ Rebase =>
       git.target /\ (git.proof \/ git.rebased # {})

\* A row settled as aborted or invalidated says that no Git mutation of this
\* operation began.  Where that fails, a check was refused on a later call, two
\* calls of one operation overlapped, or a rebase's evidence ran out after the
\* move.
AbortAfterMoveIsExplained ==
  \A o \in Ops : row[o] \in {"aborted", "invalidated"} /\ movedBy = o =>
    unpreflighted \/ doubled \/ (Rebase /\ evid[o] \in expired)

\* An applied recovery leaves no reservation behind: the original is settled
\* in the same transaction, so its guards release owner and candidate.
RecoverySettlesOriginal == row["rec"] = "applied" => row["orig"] \in Outcomes

\* The ledger and the repository tell the same story about an application,
\* whichever step of whichever call was the last of its process.
ReceiptsAreTrue ==
  /\ TypeOK
  /\ AppliedIsMaterialized
  /\ MoveIsRecorded
  /\ AbortAfterMoveIsExplained
  /\ RecoverySettlesOriginal

\* A settled row is final.
SettledRowIsFinal ==
  [][\A o \in Ops : row[o] \in Outcomes => row'[o] = row[o]]_vars

\* A branch that moved is settled in the ledger, provided unexpired evidence
\* stays available, no call settled otherwise before, none died between its first
\* linked addition and the removal of its recovery directory, and no recovery of
\* a rebase died between retiring the proof and its applied receipt.
Stranded ==
  \/ latest \in expired
  \/ git.worktree = "partial"
  \/ "rec" \in git.rebased /\ ~git.proof /\ "rec" \notin git.applied
  \/ \E o \in Ops : row[o] \in {"aborted", "invalidated"}
MovedBranchSettles ==
  <>[](git.branch = "result" /\ ~Stranded) => <>(\E o \in Ops : row[o] = "applied")

============================================================================
