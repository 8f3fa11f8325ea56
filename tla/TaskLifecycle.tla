--------------------------- MODULE TaskLifecycle ---------------------------
(***************************************************************************)
(* The durable life of a task in comis-dev-crew, from preparation to       *)
(* delivery.  Every mutation of the service is one SQLite transaction      *)
(* behind a single writer, so an action of this module is one committed    *)
(* transaction; what happens between two transactions (an event delivered  *)
(* late, a cancel that slips in, a crash) is their interleaving.           *)
(*                                                                         *)
(* The variables are tables of the store, one record per task:             *)
(*   task  the tasks row and its preparation                               *)
(*   term  launch generations, wrapper acknowledgements, terminal binding  *)
(*   dec   decisions asked, answered, withdrawn and resolved               *)
(*   cand  candidate report, reconciliation, judgment and both outboxes    *)
(*                                                                         *)
(* Service time, digests and opaque identifiers are abstracted.  A replay  *)
(* of a committed operation changes nothing, so it is a stuttering step.   *)
(* Initiative membership and integration reservations are not modelled:    *)
(* the tasks here are standalone.  Nor is the startup refusal of a task    *)
(* whose runtime directory cannot be proven, which makes any task unknown. *)
(***************************************************************************)
EXTENDS Naturals, FiniteSets, TaskStates

CONSTANTS
  Tasks,          \* task handles
  Sessions,       \* terminal session identities minted by Comis
  NoSession,      \* no terminal binding row
  DecisionKeys,   \* external keys of worker decisions
  Profiles,       \* worker profiles an operator may select
  FixtureWorker,  \* the in-process fixture profile, which has no terminal
  Observed,       \* terminal transitions the host reports in this instance
  MaxLaunch,      \* bound on launch generations of one task
  MaxBrief        \* bound on brief revisions of one task

ASSUME ConstantsAssumption ==
  /\ NoSession \notin Sessions
  /\ Observed \subseteq TerminalTransition
  /\ MaxLaunch \in Nat /\ MaxBrief \in Nat \ {0}

VARIABLES task, term, dec, cand

vars == <<task, term, dec, cand>>

\* The two evidence publications sealed with an accepted candidate.
Publications == {"candidate_bundle", "delivery_evidence"}

TaskRow ==
  [state: TaskState \cup {"absent"},
   bound: BOOLEAN,                        \* managed run and workspace lease present
   prep: {"none", "open", "abandoned"},   \* managed-run preparation
   profile: Profiles \cup {"none"},
   brief: Nat,                            \* pinned brief revision
   pause: BOOLEAN,                        \* a pause request stands
   judged: BOOLEAN]                       \* state_version is that of the latest evidence row

TermRow ==
  [launch: Nat,                           \* StartTask generations committed
   ack: Nat,                              \* latest generation a wrapper acknowledged
   session: Sessions \cup {NoSession},
   latest: TerminalTransition \cup {"none"},
   running: BOOLEAN,                      \* running_observed
   posture: [Sessions -> Settled \cup {"none"}]]  \* last event other than lost, if settled

DecRow ==
  [asked: SUBSET DecisionKeys, answered: SUBSET DecisionKeys,
   withdrawn: SUBSET DecisionKeys, resolved: SUBSET DecisionKeys]

Outbox == {"none", "pending", "delivered"}

CandRow ==
  [report: Outbox,                        \* worker or handback candidate_complete report
   reconciled: BOOLEAN,                   \* task_candidate_reconciliations row
   verdict: {"none", "unknown", "rejected", "accepted"},  \* latest candidate_evidence row
   acked: SUBSET Publications,            \* publications the host acknowledged
   projection: Outbox,                    \* service-owned report of a reconciled candidate
   expired: BOOLEAN,                      \* the accepted evidence has passed its expiry
   checking: BOOLEAN,                     \* a validation process is not exited or absent
   judging: BOOLEAN,                      \* volatile: a pass of the candidate supervisor
   evidenceSent: Publications \cup {"none"},             \* volatile: awaiting the host
   reportSent: {"none", "worker", "reconciliation"}]     \* volatile: awaiting the host

\* One durable row of the right shape per task.
TypeOK ==
  /\ task \in [Tasks -> TaskRow]
  /\ term \in [Tasks -> TermRow]
  /\ dec \in [Tasks -> DecRow]
  /\ cand \in [Tasks -> CandRow]

Init ==
  /\ task = [t \in Tasks |->
              [state |-> "absent", bound |-> FALSE, prep |-> "none", profile |-> "none",
               brief |-> 1, pause |-> FALSE, judged |-> FALSE]]
  /\ term = [t \in Tasks |->
              [launch |-> 0, ack |-> 0, session |-> NoSession, latest |-> "none",
               running |-> FALSE, posture |-> [s \in Sessions |-> "none"]]]
  /\ dec = [t \in Tasks |->
             [asked |-> {}, answered |-> {}, withdrawn |-> {}, resolved |-> {}]]
  /\ cand = [t \in Tasks |->
              [report |-> "none", reconciled |-> FALSE, verdict |-> "none", acked |-> {},
               projection |-> "none", expired |-> FALSE, checking |-> FALSE, judging |-> FALSE,
               evidenceSent |-> "none", reportSent |-> "none"]]

-----------------------------------------------------------------------------
(* The two writers of tasks.state                                          *)

\* updateTaskState: every write takes a fresh global state version.
UpdateTaskState(row, s) == [row EXCEPT !.state = s, !.judged = FALSE]

\* updateReportedTask and the activation UPDATE write the row directly; they
\* differ in the service event they do not append.
UpdateReportedTask(row, s) == UpdateTaskState(row, s)

\* ApplyTransition accepts the edge from the current state, and the row it
\* leaves is still bound where Task.Validate wants it bound.
Applies(t, edge) ==
  /\ task[t].state \in Edge[edge].from
  /\ task[t].bound \/ AllowsUnboundPreparation(Edge[edge].to)

Take(t, edge) == task' = [task EXCEPT ![t] = UpdateTaskState(@, Edge[edge].to)]

\* A mutation that leaves the state alone still rewrites the row's version.
Touch(t) == task' = [task EXCEPT ![t] = UpdateTaskState(@, @.state)]

-----------------------------------------------------------------------------
(* Preparation and binding                                                 *)

CommitPreparedTask(t, p) ==
  /\ task[t].state = "absent"
  /\ task' = [task EXCEPT ![t] = [@ EXCEPT !.state = "prepared", !.prep = "open",
                                           !.profile = p]]
  /\ UNCHANGED <<term, dec, cand>>

\* Faulty variant: activation does not look at the preparation.
MutActivationIgnoresPreparation(t) ==
  /\ task[t].state = "prepared" /\ ~task[t].bound
  /\ task' = [task EXCEPT ![t] = [UpdateReportedTask(@, "ready") EXCEPT !.bound = TRUE]]
  /\ UNCHANGED <<term, dec, cand>>

\* The preparation must be open and unexpired; expiry is a refusal, which
\* this action simply does not take.
CommitManagedRunActivation(t) ==
  /\ task[t].prep = "open"
  /\ task[t].state = "prepared" /\ ~task[t].bound
  /\ task' = [task EXCEPT ![t] = [UpdateReportedTask(@, "ready") EXCEPT !.bound = TRUE]]
  /\ UNCHANGED <<term, dec, cand>>

CommitManagedRunAbandon(t, reapSafe) ==
  /\ task[t].prep = "open"
  /\ LET edge == IF reapSafe THEN "preparation_abandoned" ELSE "preparation_preserved"
     IN  /\ Applies(t, edge)
         /\ task' = [task EXCEPT ![t] = [UpdateTaskState(@, Edge[edge].to)
                                           EXCEPT !.prep = "abandoned"]]
  /\ UNCHANGED <<term, dec, cand>>

-----------------------------------------------------------------------------
(* Launch: the start, the wrapper's acknowledgement and the terminal       *)
(* events are three transactions, in any order the host produces them.     *)

CommitTaskStart(t) ==
  /\ Applies(t, "launch_requested")
  /\ term[t].launch < MaxLaunch
  /\ Take(t, "launch_requested")
  /\ term' = [term EXCEPT ![t].launch = @ + 1]
  /\ UNCHANGED <<dec, cand>>

HasLaunchAcknowledgement(t) == term[t].ack = term[t].launch

\* A profile whose terminal evidence the acknowledgement path waives.
IsFixture(t) == task[t].profile = FixtureWorker

\* Faulty variant: a late wrapper may acknowledge a task already unknown.
MutAcknowledgeUnknown(t, brief) ==
  /\ task[t].state \in {"launching", "unknown"} /\ brief = task[t].brief
  /\ Take(t, "worker_acknowledged")
  /\ term' = [term EXCEPT ![t].ack = term[t].launch]
  /\ UNCHANGED <<dec, cand>>

CommitWorkerLaunchAcknowledgement(t, brief) ==
  /\ task[t].state = "launching" /\ brief = task[t].brief
  /\ IF term[t].running \/ IsFixture(t)
       THEN Take(t, "worker_acknowledged")
       ELSE Touch(t)
  /\ term' = [term EXCEPT ![t].ack = term[t].launch]
  /\ UNCHANGED <<dec, cand>>

\* A terminal of another session takes over a settled binding only as the
\* created event of the launch in progress.
CanRotate(t, tr) ==
  task[t].state = "launching" /\ tr = "created" /\ term[t].latest \in Settled

\* lastSettledTerminalPosture reads the newest event of a session that is not
\* a loss; the posture is that event where it settles the terminal.
PostureAfter(posture, s, tr) ==
  [posture EXCEPT ![s] = IF tr = "lost" THEN @ ELSE IF tr \in Settled THEN tr ELSE "none"]

\* Faulty variant: the latest event always wins.
MutLatestEventWins(t, s, tr) ==
  LET b == term[t] IN
  [b EXCEPT !.session = s, !.latest = tr,
            !.running = (b.running /\ b.session = s) \/ tr = "running",
            !.posture = PostureAfter(@, s, tr)]

\* The binding row after one event of session s.  A loss that follows a
\* settled posture of the same session does not unsettle it.
BindingAfter(t, s, tr) ==
  LET b == term[t]
      found == b.session # NoSession
      rotated == found /\ b.session # s
      settledBeforeLoss == found /\ tr = "lost" /\ b.posture[s] # "none"
  IN  [b EXCEPT
        !.session = s,
        !.latest = IF settledBeforeLoss THEN b.posture[s] ELSE tr,
        !.running = (b.running /\ ~rotated) \/ tr = "running",
        !.posture = PostureAfter(@, s, tr)]

CommitTerminalEvent(t, s, tr) ==
  /\ task[t].bound /\ task[t].state # "ready"
  /\ term[t].session \in {NoSession, s} \/ CanRotate(t, tr)
  /\ term' = [term EXCEPT ![t] = BindingAfter(t, s, tr)]
  /\ IF tr \in TerminalUnavailable /\ task[t].state \in TerminalLossChangesTask
       THEN Take(t, "terminal_unavailable")
       ELSE IF task[t].state = "launching" /\ BindingAfter(t, s, tr).running
                 /\ HasLaunchAcknowledgement(t)
              THEN Take(t, "worker_acknowledged")
              ELSE Touch(t)
  /\ UNCHANGED <<dec, cand>>

-----------------------------------------------------------------------------
(* Worker reports.  A worker exists once a launch was started; its report  *)
(* names the brief it was given.                                           *)

Reporting(t, brief) == term[t].launch > 0 /\ brief = task[t].brief

\* Faulty variant: the report kind is stored as the state.
MutKindAsState(t, kind) ==
  /\ Applies(t, ReportTransition[kind])
  /\ task' = [task EXCEPT ![t] = UpdateReportedTask(@, kind)]

Reported(t, kind) ==
  /\ Applies(t, ReportTransition[kind])
  /\ task' = [task EXCEPT ![t] = UpdateReportedTask(@, Edge[ReportTransition[kind]].to)]

ReportProgress(t, brief) ==
  /\ Reporting(t, brief)
  /\ IF task[t].state = "launching" /\ IsFixture(t)
       THEN Reported(t, "progress")
       ELSE /\ task[t].state = "working"
            /\ task' = [task EXCEPT ![t] = UpdateReportedTask(@, "working")]
  /\ UNCHANGED <<term, dec, cand>>

ReportDecision(t, brief, k) ==
  /\ Reporting(t, brief)
  /\ k \notin dec[t].asked
  /\ Reported(t, "decision")
  /\ dec' = [dec EXCEPT ![t].asked = @ \cup {k}]
  /\ UNCHANGED <<term, cand>>

ReportResolution(t, brief, k) ==
  /\ Reporting(t, brief)
  /\ k \in dec[t].asked \ dec[t].resolved
  /\ Reported(t, "resolution")
  /\ dec' = [dec EXCEPT ![t].resolved = @ \cup {k}]
  /\ UNCHANGED <<term, cand>>

ReportBlocked(t, brief) ==
  /\ Reporting(t, brief)
  /\ Reported(t, "blocked")
  /\ UNCHANGED <<term, dec, cand>>

\* Faulty variant: the request outlives the report that answers it.
MutPauseRequestKept(t, brief) ==
  /\ Reporting(t, brief)
  /\ Reported(t, "paused")
  /\ UNCHANGED <<term, dec, cand>>

\* consumeTaskPauseRequest: a paused report answers the request.
ReportPaused(t, brief) ==
  /\ Reporting(t, brief)
  /\ Applies(t, "paused")
  /\ task' = [task EXCEPT ![t] = [UpdateReportedTask(@, "paused") EXCEPT !.pause = FALSE]]
  /\ UNCHANGED <<term, dec, cand>>

ReportFailed(t, brief) ==
  /\ Reporting(t, brief)
  /\ Reported(t, "failed")
  /\ UNCHANGED <<term, dec, cand>>

ReportCandidateComplete(t, brief) ==
  /\ Reporting(t, brief)
  /\ Reported(t, "candidate_complete")
  /\ cand' = [cand EXCEPT ![t].report = "pending"]
  /\ UNCHANGED <<term, dec>>

-----------------------------------------------------------------------------
(* Operator and host interventions                                         *)

\* proveNothingIsStillRunning with a required binding.
NothingIsStillRunning(t) ==
  /\ term[t].session # NoSession
  /\ term[t].latest \in Settled
  /\ ~cand[t].checking

CommitTaskPauseRequest(t) ==
  /\ task[t].state \in TaskHoldsAWorker
  /\ task' = [task EXCEPT ![t] = [UpdateTaskState(@, @.state) EXCEPT !.pause = TRUE]]
  /\ UNCHANGED <<term, dec, cand>>

CommitTaskResume(t) ==
  /\ task[t].state = "paused"
  /\ NothingIsStillRunning(t)
  /\ Take(t, "resumed")
  /\ UNCHANGED <<term, dec, cand>>

\* Replacement goes through reconciling and re-pins the brief.
CommitTaskReplace(t, p) ==
  /\ task[t].state = "paused" /\ task[t].brief < MaxBrief
  /\ NothingIsStillRunning(t)
  /\ task' = [task EXCEPT ![t] = [UpdateTaskState(@, ReconciledEdge.ready)
                                    EXCEPT !.profile = p, !.brief = task[t].brief + 1]]
  /\ UNCHANGED <<term, dec, cand>>

\* Handback stores the developer's candidate report and starts validation.
CommitTaskHandback(t) ==
  /\ task[t].state = "paused"
  /\ NothingIsStillRunning(t)
  /\ Reported(t, "candidate_complete")
  /\ cand' = [cand EXCEPT ![t].report = "pending"]
  /\ UNCHANGED <<term, dec>>

\* A task already validating only has its version rewritten.
CommitTaskVerify(t) ==
  /\ \/ task[t].state = "validating" /\ Touch(t)
     \/ Applies(t, "validation_started") /\ Take(t, "validation_started")
  /\ UNCHANGED <<term, dec, cand>>

\* cancelTaskState: an unknown task is cancelled only once nothing runs.
CommitTaskCancel(t) ==
  /\ \/ task[t].state = "cancelled" /\ Touch(t)
     \/ /\ Applies(t, "cancel_requested") \/ (task[t].state = "unknown" /\ NothingIsStillRunning(t))
        /\ task' = [task EXCEPT ![t] = [UpdateTaskState(@, "cancelled") EXCEPT !.pause = FALSE]]
  /\ UNCHANGED <<term, dec, cand>>

\* The host's cancel finds the task by its managed run.
CommitManagedRunCancel(t) ==
  /\ task[t].bound
  /\ \/ task[t].state = "cancelled" /\ Touch(t)
     \/ Applies(t, "cancel_requested") /\ Take(t, "cancel_requested")
  /\ UNCHANGED <<term, dec, cand>>

\* decisionStillOpenClause: asked, neither resolved nor withdrawn.
OpenDecisions(t) == dec[t].asked \ (dec[t].resolved \cup dec[t].withdrawn)

CommitDecisionResponse(t, k) ==
  /\ k \in OpenDecisions(t) \ dec[t].answered
  /\ Touch(t)
  /\ dec' = [dec EXCEPT ![t].answered = @ \cup {k}]
  /\ UNCHANGED <<term, cand>>

CommitDecisionCancellation(t, k) ==
  /\ k \in OpenDecisions(t)
  /\ Touch(t)
  /\ dec' = [dec EXCEPT ![t].withdrawn = @ \cup {k}]
  /\ UNCHANGED <<term, cand>>

-----------------------------------------------------------------------------
(* Candidate recovery and validation                                       *)

\* Faulty variant: only an earlier reconciliation counts as history.
MutHistoryIgnoresEvidence(t) == cand[t].reconciled

\* candidateRecoveryHistoryExists.
RecoveryHistoryExists(t) == cand[t].reconciled \/ cand[t].verdict # "none"

\* The worktree must be clean with a head beyond the base, which the Git
\* inspection decides; a refusal is this action not taken.
CommitTaskCandidateReconciliation(t) ==
  /\ task[t].state = "unknown" /\ task[t].prep = "open"
  /\ NothingIsStillRunning(t)
  /\ ~RecoveryHistoryExists(t)
  /\ OpenDecisions(t) = {}
  /\ task' = [task EXCEPT ![t] = UpdateTaskState(@, ReconciledEdge.validating)]
  /\ cand' = [cand EXCEPT ![t].reconciled = TRUE]
  /\ UNCHANGED <<term, dec>>

\* A pass counts the decisions without a resolution report once, at its
\* start; its checks, Git and the forge may take minutes after that.  One
\* supervisor takes the tasks one after the other.
ValidateTask(t) ==
  /\ task[t].state = "validating" /\ dec[t].asked \subseteq dec[t].resolved
  /\ \A u \in Tasks : ~cand[u].judging
  /\ cand' = [cand EXCEPT ![t].judging = TRUE]
  /\ UNCHANGED <<task, term, dec>>

\* Git, a check or the forge failed, or the evidence is what it was.
ValidationEnds(t) ==
  /\ cand[t].judging
  /\ cand' = [cand EXCEPT ![t].judging = FALSE]
  /\ UNCHANGED <<task, term, dec>>

\* A process of an earlier life of the service may still be on record.
RecordValidationProcess(t) ==
  /\ cand[t].judging /\ task[t].state = "validating"
  /\ cand' = [cand EXCEPT ![t].checking = TRUE]
  /\ UNCHANGED <<task, term, dec>>

\* The last of them is recorded as exited or absent.
SettleValidationProcess(t) ==
  /\ cand[t].checking
  /\ cand' = [cand EXCEPT ![t].checking = FALSE]
  /\ UNCHANGED <<task, term, dec>>

\* The pure judge is external to this model: it may return any verdict.  Only
\* the state is read again; the evidence says what the pass found.  An
\* accepted candidate is published, and a reconciled one also gets its
\* service-owned report row.
CommitCandidateEvidence(t, verdict) ==
  /\ cand[t].judging /\ task[t].state = "validating"
  /\ LET next == CASE verdict = "accepted" -> "candidate_complete"
                    [] verdict = "rejected" -> "failed"
                    [] verdict = "unknown" -> "validating"
     IN  task' = [task EXCEPT ![t] = [UpdateTaskState(@, next) EXCEPT !.judged = TRUE]]
  /\ cand' = [cand EXCEPT ![t].verdict = verdict, ![t].judging = FALSE,
                          ![t].projection = IF verdict = "accepted" /\ cand[t].reconciled
                                              THEN "pending" ELSE @]
  /\ UNCHANGED <<term, dec>>

\* Sealed evidence carries an expiry that service time eventually passes.
EvidenceExpires(t) ==
  /\ cand[t].verdict = "accepted" /\ ~cand[t].expired
  /\ cand' = [cand EXCEPT ![t].expired = TRUE]
  /\ UNCHANGED <<task, term, dec>>

-----------------------------------------------------------------------------
(* Delivery.  Each forwarder reads the oldest eligible item, sends it and  *)
(* marks it once the host has acknowledged it: two transactions with the   *)
(* host call between them.                                                 *)

Published(t) == cand[t].verdict = "accepted"
AllAcknowledged(t) == Published(t) /\ cand[t].acked = Publications

NextComisEvidence(t, p) ==
  /\ \A u \in Tasks : cand[u].evidenceSent = "none"
  /\ Published(t) /\ p \notin cand[t].acked
  /\ task[t].state \in {"candidate_complete", "delivering", "delivered"}
  /\ cand' = [cand EXCEPT ![t].evidenceSent = p]
  /\ UNCHANGED <<task, term, dec>>

\* Faulty variant: the recovery lane also waits for a worker report.
MutRecoveryWaitsForReport(t, acked) ==
  /\ task[t].state = "candidate_complete" /\ cand[t].report = "delivered"
  /\ cand[t].reconciled /\ acked = Publications

\* completeReconciledCandidateDelivery applies to a reconciled candidate
\* without a candidate report once both publications are acknowledged.
CompletesReconciledDelivery(t, acked) ==
  /\ task[t].state = "candidate_complete" /\ cand[t].report = "none"
  /\ cand[t].reconciled /\ acked = Publications

MarkComisEvidenceDelivered(t, p) ==
  /\ cand[t].evidenceSent = p
  /\ LET acked == cand[t].acked \cup {p}
     IN  /\ cand' = [cand EXCEPT ![t].acked = acked, ![t].evidenceSent = "none"]
         /\ IF CompletesReconciledDelivery(t, acked)
              THEN task' = [task EXCEPT ![t] = UpdateTaskState(@, Edge.delivery_accepted.to)]
              ELSE UNCHANGED task
  /\ UNCHANGED <<term, dec>>

NextComisReport(t, source) ==
  /\ \A u \in Tasks : cand[u].reportSent = "none"
  /\ AllAcknowledged(t)
  /\ \/ /\ source = "worker" /\ cand[t].report = "pending"
        /\ task[t].state \in {"candidate_complete", "delivering", "delivered"}
     \/ /\ source = "reconciliation" /\ cand[t].projection = "pending"
        /\ task[t].state \in {"candidate_complete", "delivering", "delivered",
                              "cleanup_held", "cleaned"}
  /\ cand' = [cand EXCEPT ![t].reportSent = source]
  /\ UNCHANGED <<task, term, dec>>

\* The acknowledged worker report delivers the task in the same transaction;
\* where delivery_started does not apply any more the transaction rolls back.
MarkComisReportDelivered(t) ==
  /\ \/ /\ cand[t].reportSent = "reconciliation"
        /\ cand' = [cand EXCEPT ![t].projection = "delivered", ![t].reportSent = "none"]
        /\ UNCHANGED task
     \/ /\ cand[t].reportSent = "worker" /\ Applies(t, "delivery_started")
        /\ cand' = [cand EXCEPT ![t].report = "delivered", ![t].reportSent = "none"]
        /\ task' = [task EXCEPT ![t] = UpdateTaskState(@, Edge.delivery_accepted.to)]
     \/ /\ cand[t].reportSent = "worker" /\ ~Applies(t, "delivery_started")
        /\ cand' = [cand EXCEPT ![t].reportSent = "none"]
        /\ UNCHANGED task
  /\ UNCHANGED <<term, dec>>

\* The host call failed or its answer was lost; the item stays eligible.
SendFails(t) ==
  /\ cand[t].evidenceSent # "none" \/ cand[t].reportSent # "none"
  /\ cand' = [cand EXCEPT ![t].evidenceSent = "none", ![t].reportSent = "none"]
  /\ UNCHANGED <<task, term, dec>>

-----------------------------------------------------------------------------
(* Restart                                                                 *)

\* resumableCandidateDelivery.
Resumable(t) ==
  /\ task[t].judged /\ Published(t) /\ ~cand[t].expired
  /\ \/ cand[t].report = "none" /\ cand[t].reconciled /\ cand[t].acked # Publications
     \/ cand[t].report = "pending" /\ ~cand[t].reconciled

\* The service may stop at any point; what it held in memory is gone and the
\* next start reconciles every task in one transaction.
ReconcileStartup ==
  /\ task' = [t \in Tasks |->
       IF task[t].state \in RuntimeSensitiveState
          /\ ~(task[t].state = "candidate_complete" /\ Resumable(t))
         THEN UpdateTaskState(task[t], ReconciledEdge.unresolved)
         ELSE task[t]]
  /\ term' = [t \in Tasks |->
       LET b == term[t]
       IN  IF b.latest = "lost" /\ b.session # NoSession /\ b.posture[b.session] # "none"
             THEN [b EXCEPT !.latest = b.posture[b.session]]
             ELSE b]
  /\ cand' = [t \in Tasks |-> [cand[t] EXCEPT !.judging = FALSE, !.evidenceSent = "none",
                                             !.reportSent = "none"]]
  /\ UNCHANGED dec

-----------------------------------------------------------------------------
WorkerStep(t) ==
  \E b \in 1..MaxBrief :
    \/ CommitWorkerLaunchAcknowledgement(t, b)
    \/ ReportProgress(t, b)
    \/ ReportBlocked(t, b)
    \/ ReportPaused(t, b)
    \/ ReportFailed(t, b)
    \/ ReportCandidateComplete(t, b)
    \/ \E k \in DecisionKeys : ReportDecision(t, b, k) \/ ReportResolution(t, b, k)

HostStep(t) ==
  \/ CommitManagedRunActivation(t)
  \/ \E reapSafe \in BOOLEAN : CommitManagedRunAbandon(t, reapSafe)
  \/ CommitManagedRunCancel(t)
  \/ \E s \in Sessions, tr \in Observed : CommitTerminalEvent(t, s, tr)

OperatorStep(t) ==
  \/ \E p \in Profiles : CommitPreparedTask(t, p) \/ CommitTaskReplace(t, p)
  \/ CommitTaskPauseRequest(t)
  \/ CommitTaskResume(t)
  \/ CommitTaskHandback(t)
  \/ CommitTaskVerify(t)
  \/ CommitTaskCancel(t)
  \/ CommitTaskCandidateReconciliation(t)
  \/ \E k \in DecisionKeys : CommitDecisionResponse(t, k) \/ CommitDecisionCancellation(t, k)

ServiceStep(t) ==
  \/ CommitTaskStart(t)
  \/ ValidateTask(t) \/ ValidationEnds(t)
  \/ RecordValidationProcess(t)
  \/ SettleValidationProcess(t)
  \/ \E v \in {"unknown", "rejected", "accepted"} : CommitCandidateEvidence(t, v)
  \/ EvidenceExpires(t)
  \/ \E p \in Publications : NextComisEvidence(t, p) \/ MarkComisEvidenceDelivered(t, p)
  \/ \E source \in {"worker", "reconciliation"} : NextComisReport(t, source)
  \/ MarkComisReportDelivered(t)
  \/ SendFails(t)

Next ==
  \/ \E t \in Tasks : WorkerStep(t) \/ HostStep(t) \/ OperatorStep(t) \/ ServiceStep(t)
  \/ ReconcileStartup

Spec == Init /\ [][Next]_vars

\* The forwarders poll for as long as the service runs and back off without
\* giving up, and the host answers some of the calls they repeat.
DeliveryFairness ==
  \A t \in Tasks :
    /\ \A p \in Publications :
         SF_vars(NextComisEvidence(t, p)) /\ SF_vars(MarkComisEvidenceDelivered(t, p))
    /\ \A source \in {"worker", "reconciliation"} : SF_vars(NextComisReport(t, source))
    /\ SF_vars(MarkComisReportDelivered(t))

FairSpec == Spec /\ DeliveryFairness

-----------------------------------------------------------------------------
(* Properties                                                              *)

\* Host authority is all or nothing: a task without managed run and lease has
\* neither launched nor bound a terminal and is in a state Task.Validate
\* allows unbound, and neither a prepared task nor one whose preparation was
\* abandoned ever carries a run (activation against abandon and cancel).
BindingDiscipline ==
  \A t \in Tasks :
    /\ ~task[t].bound => /\ task[t].state = "absent" \/ AllowsUnboundPreparation(task[t].state)
                         /\ term[t].launch = 0 /\ term[t].session = NoSession
    /\ task[t].state \in {"absent", "prepared"} \/ task[t].prep = "abandoned" => ~task[t].bound

\* A production worker counts as working only on joined evidence: the wrapper
\* acknowledged the launch in progress and a running terminal was observed,
\* in whichever order the two transactions committed.
LaunchEvidence ==
  \A t \in Tasks :
    task[t].state \in {"working", "awaiting_decision", "blocked"} /\ ~IsFixture(t)
      => term[t].ack = term[t].launch /\ term[t].running

\* CommitTaskResume relies on it without checking: a paused task, and the
\* ready task it becomes, carries no pause request that would stop the next
\* generation at its first report.
PausedCarriesNoRequest ==
  \A t \in Tasks : task[t].state \in {"prepared", "ready", "paused"} => ~task[t].pause

\* A loss reported after a terminal settled never unsettles the binding, so
\* the evidence that nothing runs any more survives duplicated and late
\* events, and the repair in ReconcileStartup finds nothing to repair.
LossNeverUnsettles ==
  \A t \in Tasks :
    term[t].latest = "lost" => term[t].posture[term[t].session] = "none"

\* A task waits for a decision only while a question it asked lacks its
\* resolution, whatever was answered or withdrawn meanwhile.
AwaitedDecisionIsUnresolved ==
  \A t \in Tasks :
    task[t].state = "awaiting_decision" => dec[t].asked \ dec[t].resolved # {}

\* How far a candidate has come and the task state never contradict each
\* other: nothing of a candidate exists while a worker may still change it, a
\* reconciled candidate closes in the transaction that acknowledges its last
\* publication, and whatever a forwarder holds in flight is still what the
\* store would hand out, save a report whose task was cancelled meanwhile.
CandidateStages ==
  \A t \in Tasks :
    LET s == task[t].state
        c == cand[t]
    IN  /\ s \notin {"reconciling", "delivering", "cleanup_held", "cleaned"}
        /\ s \in {"absent", "prepared", "ready", "launching", "working", "awaiting_decision",
                  "blocked", "paused"}
             => c.report = "none" /\ ~c.reconciled /\ c.verdict = "none"
        /\ s = "unknown" /\ c.verdict = "none" => c.report = "none"
        /\ s = "candidate_complete" => Published(t) /\ (c.reconciled => c.acked # Publications)
        /\ c.acked # {} \/ c.evidenceSent # "none" => Published(t)
        /\ c.projection # "none" => c.reconciled
        /\ c.reportSent = "worker" => AllAcknowledged(t) /\ c.report = "pending"
        /\ c.reportSent = "reconciliation" => s = "delivered" /\ c.projection = "pending"

\* Cleanup and delivery accept exactly one candidate origin: no task ever has
\* both a candidate report and a reconciliation record.
OneCandidateOrigin ==
  \A t \in Tasks : ~(cand[t].report # "none" /\ cand[t].reconciled)

\* Evidence is accepted only for a task without unresolved decisions, and an
\* accepted candidate never returns to a worker or to the judge.
AcceptedCandidateIsFinal ==
  \A t \in Tasks :
    cand[t].verdict = "accepted" =>
      /\ dec[t].asked \subseteq dec[t].resolved
      /\ task[t].state \in {"candidate_complete", "delivered", "failed", "cancelled", "unknown"}

\* A delivered task has accepted evidence, both publications acknowledged and
\* exactly one origin that closed it.
DeliveredIsProven ==
  \A t \in Tasks :
    task[t].state = "delivered" =>
      /\ AllAcknowledged(t)
      /\ cand[t].report = "delivered" \/ (cand[t].report = "none" /\ cand[t].reconciled)

\* The host and the service agree on completion: once the host acknowledged a
\* candidate report that the store recorded, the task is delivered, however
\* cancels and restarts interleave with the call.
DeliveryAgreement ==
  \A t \in Tasks :
    cand[t].report = "delivered" \/ cand[t].projection = "delivered"
      => task[t].state = "delivered"

\* What lets a worker be replaced, resumed or cancelled survives the order in
\* which its evidence arrives: the two halves of a launch, and the end of a
\* terminal before the news of its loss.
TerminalEvidence == LaunchEvidence /\ LossNeverUnsettles

\* What stands against a worker is still meant for it: no pause request is
\* inherited by the next generation, and no question is waited for that was
\* already resolved.
StandingRequestsAreCurrent == PausedCarriesNoRequest /\ AwaitedDecisionIsUnresolved

\* From its origin to its delivery the history of a candidate is consistent,
\* in the store and with the host, across reports, recovery and restarts.
CandidateHistory ==
  /\ CandidateStages
  /\ OneCandidateOrigin
  /\ AcceptedCandidateIsFinal
  /\ DeliveredIsProven
  /\ DeliveryAgreement

\* No late event, report, acknowledgement or restart moves a settled task.
SettledTasksStay ==
  [][\A t \in Tasks : task[t].state \in {"delivered", "failed", "cancelled"}
                        => task'[t].state = task[t].state]_vars

\* What the service cannot vouch for it never silently resumes: an unknown
\* task leaves only by an operator's cancel or candidate reconciliation, the
\* latter once and never after evidence exists.
UnknownNeverResumes ==
  [][\A t \in Tasks : task[t].state = "unknown" =>
       /\ task'[t].state \in {"unknown", "cancelled", "validating"}
       /\ task'[t].state = "validating" => ~RecoveryHistoryExists(t)]_vars

\* Neither a task that ended nor one the service lost sight of comes back to
\* life by itself.
TasksNeverReturn == SettledTasksStay /\ UnknownNeverResumes

\* The abstract task that other components build on: no interleaving of these
\* transactions moves a task in a way TaskMachine does not allow.
Machine == INSTANCE TaskMachine WITH state <- [t \in Tasks |-> task[t].state]
ImplementsTaskMachine == Machine!Spec

\* Delivery completes: a candidate with one origin does not stay undelivered
\* unless it is cancelled, fails or a restart finds it unresolved.
OriginatedCandidateIsDelivered ==
  \A t \in Tasks :
    (task[t].state = "candidate_complete" /\ (cand[t].report # "none" \/ cand[t].reconciled))
      ~> task[t].state # "candidate_complete"
=============================================================================
