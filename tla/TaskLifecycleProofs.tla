------------------------ MODULE TaskLifecycleProofs ------------------------
(***************************************************************************)
(* Proofs about TaskLifecycle for any sets of tasks, sessions, decision    *)
(* keys and profiles, and any bounds: the types, the safety invariants and *)
(* the refinement of TaskMachine.                                          *)
(*                                                                         *)
(* The invariants are not inductive one by one: that a delivered task is   *)
(* proven rests on what a report in flight was when it was handed out, and *)
(* that there is one candidate origin on where an unknown task came from.  *)
(* TaskInv collects them per task with the facts they lean on.  A step of  *)
(* one task leaves the rows of every other task alone, so each action is   *)
(* examined for its own task only.  That evidence is accepted without an    *)
(* open question rests on a pass of the supervisor: no worker asks any more *)
(* once a task is validating, so what the pass counted at its start still   *)
(* holds when its evidence is committed.                                    *)
(***************************************************************************)
EXTENDS TaskLifecycle, TLAPS

-----------------------------------------------------------------------------
(* The two row writers                                                     *)

\* updateTaskState keeps a row a row and changes nothing but state, event mark
\* and version.
LEMMA UpdateTaskStateRow ==
  ASSUME NEW row \in TaskRow, NEW s \in TaskState \cup {"absent"}
  PROVE  /\ UpdateTaskState(row, s) \in TaskRow
         /\ UpdateTaskState(row, s).state = s
         /\ UpdateTaskState(row, s).bound = row.bound
         /\ UpdateTaskState(row, s).prep = row.prep
         /\ UpdateTaskState(row, s).profile = row.profile
         /\ UpdateTaskState(row, s).brief = row.brief
         /\ UpdateTaskState(row, s).pause = row.pause
  BY DEF UpdateTaskState, TaskRow

\* So do the direct writes of reports and activation.
LEMMA UpdateReportedTaskRow ==
  ASSUME NEW row \in TaskRow, NEW s \in TaskState \cup {"absent"}
  PROVE  /\ UpdateReportedTask(row, s) \in TaskRow
         /\ UpdateReportedTask(row, s).state = s
         /\ UpdateReportedTask(row, s).bound = row.bound
         /\ UpdateReportedTask(row, s).prep = row.prep
         /\ UpdateReportedTask(row, s).profile = row.profile
         /\ UpdateReportedTask(row, s).brief = row.brief
         /\ UpdateReportedTask(row, s).pause = row.pause
  BY DEF UpdateReportedTask, UpdateTaskState, TaskRow

\* Where every edge leads.
LEMMA EdgeTargets ==
  /\ Edge["preparation_preserved"].to = "prepared"
  /\ Edge["preparation_abandoned"].to = "cancelled"
  /\ Edge["launch_requested"].to = "launching"
  /\ Edge["worker_acknowledged"].to = "working"
  /\ Edge["terminal_unavailable"].to = "unknown"
  /\ Edge["decision_requested"].to = "awaiting_decision"
  /\ Edge["decision_answered"].to = "working"
  /\ Edge["blocked"].to = "blocked"
  /\ Edge["paused"].to = "paused"
  /\ Edge["resumed"].to = "ready"
  /\ Edge["validation_started"].to = "validating"
  /\ Edge["delivery_accepted"].to = "delivered"
  /\ Edge["failure_observed"].to = "failed"
  /\ Edge["cancel_requested"].to = "cancelled"
  BY DEF Edge

\* Where every edge may start.
LEMMA EdgeSources ==
  /\ Edge["preparation_preserved"].from = {"prepared"}
  /\ Edge["preparation_abandoned"].from = {"prepared"}
  /\ Edge["launch_requested"].from = {"ready"}
  /\ Edge["decision_requested"].from = {"working"}
  /\ Edge["decision_answered"].from = {"awaiting_decision"}
  /\ Edge["blocked"].from = {"working", "awaiting_decision"}
  /\ Edge["paused"].from = {"ready", "working", "awaiting_decision", "blocked"}
  /\ Edge["validation_started"].from = {"working", "paused"}
  /\ Edge["delivery_started"].from = {"candidate_complete"}
  /\ Edge["failure_observed"].from =
       {"prepared", "ready", "launching", "working", "awaiting_decision", "blocked",
        "paused", "validating", "candidate_complete", "delivering"}
  /\ Edge["cancel_requested"].from =
       {"prepared", "ready", "launching", "working", "awaiting_decision", "blocked",
        "paused", "validating", "candidate_complete"}
  BY DEF Edge

-----------------------------------------------------------------------------
(* Type correctness                                                        *)

LEMMA InitTypeOK == Init => TypeOK
  BY ConstantsAssumption DEF Init, TypeOK, TaskRow, TermRow, DecRow, CandRow, Outbox, Publications

\* The two ways an action writes only the task row.
LEMMA TakeType ==
  ASSUME TypeOK, NEW t \in Tasks, NEW edge, Edge[edge].to \in TaskState, Take(t, edge)
  PROVE  task' \in [Tasks -> TaskRow]
  <1>1. UpdateTaskState(task[t], Edge[edge].to) \in TaskRow
    BY UpdateTaskStateRow DEF TypeOK
  <1>2. QED
    BY <1>1 DEF Take, TypeOK

LEMMA TouchType ==
  ASSUME TypeOK, NEW t \in Tasks, Touch(t)
  PROVE  task' \in [Tasks -> TaskRow]
  <1>1. UpdateTaskState(task[t], task[t].state) \in TaskRow
    BY UpdateTaskStateRow DEF TypeOK, TaskRow
  <1>2. QED
    BY <1>1 DEF Touch, TypeOK

LEMMA ReportedType ==
  ASSUME TypeOK, NEW t \in Tasks, NEW kind, Edge[ReportTransition[kind]].to \in TaskState,
         Reported(t, kind)
  PROVE  task' \in [Tasks -> TaskRow]
  <1>1. UpdateReportedTask(task[t], Edge[ReportTransition[kind]].to) \in TaskRow
    BY UpdateReportedTaskRow DEF TypeOK
  <1>2. QED
    BY <1>1 DEF Reported, TypeOK

\* A stored candidate report.
LEMMA CandidateReportType ==
  ASSUME TypeOK, NEW t \in Tasks
  PROVE  [cand EXCEPT ![t].report = "pending"] \in [Tasks -> CandRow]
  <1>1. cand[t] \in CandRow /\ "pending" \in Outbox
    BY DEF TypeOK, Outbox
  <1>2. [cand[t] EXCEPT !.report = "pending"] \in CandRow
    BY <1>1 DEF CandRow
  <1>3. QED
    BY <1>2 DEF TypeOK

\* The terminal binding row after an event is a row.
LEMMA BindingAfterType ==
  ASSUME TypeOK, NEW t \in Tasks, NEW s \in Sessions, NEW tr \in TerminalTransition
  PROVE  BindingAfter(t, s, tr) \in TermRow
  <1> DEFINE b == term[t]
             found == b.session # NoSession
             latest == IF found /\ tr = "lost" /\ b.posture[s] # "none" THEN b.posture[s] ELSE tr
             running == (b.running /\ ~(found /\ b.session # s)) \/ tr = "running"
             posture == PostureAfter(b.posture, s, tr)
  <1>1. b \in TermRow
    BY DEF TypeOK
  <1>2. latest \in TerminalTransition \cup {"none"}
    BY <1>1 DEF TermRow, Settled, TerminalTransition
  <1>3. running \in BOOLEAN
    OBVIOUS
  <1>4. posture \in [Sessions -> Settled \cup {"none"}]
    BY <1>1 DEF PostureAfter, TermRow, Settled
  <1>5. BindingAfter(t, s, tr) =
          [b EXCEPT !.session = s, !.latest = latest, !.running = running,
                    !.posture = posture]
    BY DEF BindingAfter
  <1> HIDE DEF b, latest, running, posture
  <1>6. QED
    BY <1>1, <1>2, <1>3, <1>4, <1>5 DEF TermRow

\* A decision key added to one of the sets of a decision row.
LEMMA DecisionType ==
  ASSUME TypeOK, NEW t \in Tasks, NEW k \in DecisionKeys
  PROVE  /\ [dec EXCEPT ![t].asked = @ \cup {k}] \in [Tasks -> DecRow]
         /\ [dec EXCEPT ![t].answered = @ \cup {k}] \in [Tasks -> DecRow]
         /\ [dec EXCEPT ![t].withdrawn = @ \cup {k}] \in [Tasks -> DecRow]
         /\ [dec EXCEPT ![t].resolved = @ \cup {k}] \in [Tasks -> DecRow]
  <1>1. dec \in [Tasks -> DecRow]
    BY DEF TypeOK
  <1>2. /\ dec[t].asked \cup {k} \in SUBSET DecisionKeys
        /\ dec[t].answered \cup {k} \in SUBSET DecisionKeys
        /\ dec[t].withdrawn \cup {k} \in SUBSET DecisionKeys
        /\ dec[t].resolved \cup {k} \in SUBSET DecisionKeys
    BY <1>1 DEF DecRow
  <1>3. /\ [dec[t] EXCEPT !.asked = @ \cup {k}] \in DecRow
        /\ [dec[t] EXCEPT !.answered = @ \cup {k}] \in DecRow
        /\ [dec[t] EXCEPT !.withdrawn = @ \cup {k}] \in DecRow
        /\ [dec[t] EXCEPT !.resolved = @ \cup {k}] \in DecRow
    BY <1>1, <1>2 DEF DecRow
  <1>4. QED
    BY <1>1, <1>3

USE DEF vars

LEMMA WorkerTypeOK ==
  ASSUME TypeOK, NEW t \in Tasks, WorkerStep(t)
  PROVE  TypeOK'
  <1> PICK b \in 1..MaxBrief :
        \/ CommitWorkerLaunchAcknowledgement(t, b)
        \/ ReportProgress(t, b)
        \/ ReportBlocked(t, b)
        \/ ReportPaused(t, b)
        \/ ReportFailed(t, b)
        \/ ReportCandidateComplete(t, b)
        \/ \E k \in DecisionKeys : ReportDecision(t, b, k) \/ ReportResolution(t, b, k)
    BY DEF WorkerStep
  <1>1. CASE CommitWorkerLaunchAcknowledgement(t, b)
    <2>1. task' \in [Tasks -> TaskRow]
      BY <1>1, TakeType, TouchType, EdgeTargets DEF CommitWorkerLaunchAcknowledgement, TaskState
    <2>2. term' \in [Tasks -> TermRow]
      <3>1. [term[t] EXCEPT !.ack = term[t].launch] \in TermRow
        BY DEF TypeOK, TermRow
      <3>2. QED
        BY <1>1, <3>1 DEF CommitWorkerLaunchAcknowledgement, TypeOK
    <2>3. QED
      BY <1>1, <2>1, <2>2 DEF CommitWorkerLaunchAcknowledgement, TypeOK
  <1>2. CASE ReportProgress(t, b)
    <2>1. UpdateReportedTask(task[t], "working") \in TaskRow
      BY UpdateReportedTaskRow DEF TypeOK, TaskState
    <2>2. task' \in [Tasks -> TaskRow]
      BY <1>2, <2>1, ReportedType, EdgeTargets DEF ReportProgress, TypeOK, TaskState, ReportTransition
    <2>3. QED
      BY <1>2, <2>2 DEF ReportProgress, TypeOK
  <1>3. CASE ReportBlocked(t, b)
    BY <1>3, ReportedType, EdgeTargets DEF ReportBlocked, TypeOK, TaskState, ReportTransition
  <1>4. CASE ReportPaused(t, b)
    <2>1. UpdateReportedTask(task[t], "paused") \in TaskRow
      BY UpdateReportedTaskRow DEF TypeOK, TaskState
    <2>2. [UpdateReportedTask(task[t], "paused") EXCEPT !.pause = FALSE] \in TaskRow
      BY <2>1 DEF TaskRow
    <2>3. QED
      BY <1>4, <2>2 DEF ReportPaused, TypeOK
  <1>5. CASE ReportFailed(t, b)
    BY <1>5, ReportedType, EdgeTargets DEF ReportFailed, TypeOK, TaskState, ReportTransition
  <1>6. CASE ReportCandidateComplete(t, b)
    <2>1. task' \in [Tasks -> TaskRow]
      BY <1>6, ReportedType, EdgeTargets DEF ReportCandidateComplete, TaskState, ReportTransition
    <2>2. cand' \in [Tasks -> CandRow]
      BY <1>6, CandidateReportType DEF ReportCandidateComplete
    <2>3. QED
      BY <1>6, <2>1, <2>2 DEF ReportCandidateComplete, TypeOK
  <1>7. ASSUME NEW k \in DecisionKeys, ReportDecision(t, b, k) \/ ReportResolution(t, b, k)
        PROVE  TypeOK'
    <2>1. task' \in [Tasks -> TaskRow]
      BY <1>7, ReportedType, EdgeTargets
      DEF ReportDecision, ReportResolution, TaskState, ReportTransition
    <2>2. dec' \in [Tasks -> DecRow]
      <3>1. CASE ReportDecision(t, b, k)
        BY <3>1, DecisionType DEF ReportDecision
      <3>2. CASE ReportResolution(t, b, k)
        BY <3>2, DecisionType DEF ReportResolution
      <3>3. QED
        BY <1>7, <3>1, <3>2
    <2>3. QED
      BY <1>7, <2>1, <2>2 DEF ReportDecision, ReportResolution, TypeOK
  <1>8. QED
    BY <1>1, <1>2, <1>3, <1>4, <1>5, <1>6, <1>7

LEMMA HostTypeOK ==
  ASSUME TypeOK, NEW t \in Tasks, HostStep(t)
  PROVE  TypeOK'
  <1>1. CASE CommitManagedRunActivation(t)
    <2>1. UpdateReportedTask(task[t], "ready") \in TaskRow
      BY UpdateReportedTaskRow DEF TypeOK, TaskState
    <2>2. [UpdateReportedTask(task[t], "ready") EXCEPT !.bound = TRUE] \in TaskRow
      BY <2>1 DEF TaskRow
    <2>3. QED
      BY <1>1, <2>2 DEF CommitManagedRunActivation, TypeOK
  <1>2. ASSUME NEW reapSafe \in BOOLEAN, CommitManagedRunAbandon(t, reapSafe)
        PROVE  TypeOK'
    <2> DEFINE edge == IF reapSafe THEN "preparation_abandoned" ELSE "preparation_preserved"
               row == UpdateTaskState(task[t], Edge[edge].to)
    <2>1. Edge[edge].to \in TaskState
      BY EdgeTargets DEF TaskState
    <2>2. row \in TaskRow
      BY <2>1, UpdateTaskStateRow DEF TypeOK
    <2>3. [row EXCEPT !.prep = "abandoned"] \in TaskRow
      BY <2>2 DEF TaskRow
    <2>4. /\ task' = [task EXCEPT ![t] = [row EXCEPT !.prep = "abandoned"]]
          /\ UNCHANGED <<term, dec, cand>>
      BY <1>2 DEF CommitManagedRunAbandon
    <2>5. QED
      BY <2>3, <2>4 DEF TypeOK
  <1>3. CASE CommitManagedRunCancel(t)
    <2>1. task' \in [Tasks -> TaskRow]
      BY <1>3, TakeType, TouchType, EdgeTargets DEF CommitManagedRunCancel, TaskState
    <2>2. QED
      BY <1>3, <2>1 DEF CommitManagedRunCancel, TypeOK
  <1>4. ASSUME NEW s \in Sessions, NEW tr \in Observed, CommitTerminalEvent(t, s, tr)
        PROVE  TypeOK'
    <2>1. BindingAfter(t, s, tr) \in TermRow
      BY ConstantsAssumption, BindingAfterType
    <2>2. task' \in [Tasks -> TaskRow]
      BY <1>4, TakeType, TouchType, EdgeTargets DEF CommitTerminalEvent, TaskState
    <2>3. term' \in [Tasks -> TermRow]
      BY <1>4, <2>1 DEF CommitTerminalEvent, TypeOK
    <2>4. QED
      BY <1>4, <2>2, <2>3 DEF CommitTerminalEvent, TypeOK
  <1>5. QED
    BY <1>1, <1>2, <1>3, <1>4 DEF HostStep

LEMMA OperatorTypeOK ==
  ASSUME TypeOK, NEW t \in Tasks, OperatorStep(t)
  PROVE  TypeOK'
  <1>1. ASSUME NEW p \in Profiles, CommitPreparedTask(t, p)
        PROVE  TypeOK'
    <2>1. task[t] \in TaskRow
      BY DEF TypeOK
    <2>2. /\ p \in Profiles \cup {"none"}
          /\ "prepared" \in TaskState \cup {"absent"}
      BY DEF TaskState
    <2>3. [task[t] EXCEPT !.state = "prepared", !.prep = "open", !.profile = p] \in TaskRow
      BY <2>1, <2>2 DEF TaskRow
    <2>4. QED
      BY <1>1, <2>3 DEF CommitPreparedTask, TypeOK
  <1>2. ASSUME NEW p \in Profiles, CommitTaskReplace(t, p)
        PROVE  TypeOK'
    <2>1. UpdateTaskState(task[t], "ready") \in TaskRow
      BY UpdateTaskStateRow DEF TypeOK, TaskState
    <2> DEFINE row == UpdateTaskState(task[t], "ready")
    <2>2. /\ p \in Profiles \cup {"none"}
          /\ task[t].brief + 1 \in Nat
      BY DEF TypeOK, TaskRow
    <2>3. task' = [task EXCEPT ![t] = [row EXCEPT !.profile = p, !.brief = task[t].brief + 1]]
      <3>1. ReconciledEdge.ready = "ready"
        BY DEF ReconciledEdge
      <3>2. QED
        BY <1>2, <3>1 DEF CommitTaskReplace
    <2> HIDE DEF row
    <2>4. [row EXCEPT !.profile = p, !.brief = task[t].brief + 1] \in TaskRow
      BY <2>1, <2>2 DEF TaskRow, row
    <2>5. QED
      BY <1>2, <2>3, <2>4 DEF CommitTaskReplace, TypeOK
  <1>3. CASE CommitTaskPauseRequest(t)
    <2>1. UpdateTaskState(task[t], task[t].state) \in TaskRow
      BY UpdateTaskStateRow DEF TypeOK, TaskRow
    <2>2. [UpdateTaskState(task[t], task[t].state) EXCEPT !.pause = TRUE] \in TaskRow
      BY <2>1 DEF TaskRow
    <2>3. QED
      BY <1>3, <2>2 DEF CommitTaskPauseRequest, TypeOK
  <1>4. CASE CommitTaskResume(t)
    BY <1>4, TakeType, EdgeTargets DEF CommitTaskResume, TaskState, TypeOK
  <1>5. CASE CommitTaskHandback(t)
    <2>1. task' \in [Tasks -> TaskRow]
      BY <1>5, ReportedType, EdgeTargets DEF CommitTaskHandback, TaskState, ReportTransition
    <2>2. cand' \in [Tasks -> CandRow]
      BY <1>5, CandidateReportType DEF CommitTaskHandback
    <2>3. QED
      BY <1>5, <2>1, <2>2 DEF CommitTaskHandback, TypeOK
  <1>6. CASE CommitTaskVerify(t)
    <2>1. task' \in [Tasks -> TaskRow]
      BY <1>6, TakeType, TouchType, EdgeTargets DEF CommitTaskVerify, TaskState
    <2>2. QED
      BY <1>6, <2>1 DEF CommitTaskVerify, TypeOK
  <1>7. CASE CommitTaskCancel(t)
    <2>1. UpdateTaskState(task[t], "cancelled") \in TaskRow
      BY UpdateTaskStateRow DEF TypeOK, TaskState
    <2>2. [UpdateTaskState(task[t], "cancelled") EXCEPT !.pause = FALSE] \in TaskRow
      BY <2>1 DEF TaskRow
    <2>3. task' \in [Tasks -> TaskRow]
      BY <1>7, <2>2, TouchType DEF CommitTaskCancel, TypeOK
    <2>4. QED
      BY <1>7, <2>3 DEF CommitTaskCancel, TypeOK
  <1>8. CASE CommitTaskCandidateReconciliation(t)
    <2>1. UpdateTaskState(task[t], "validating") \in TaskRow
      BY UpdateTaskStateRow DEF TypeOK, TaskState
    <2>2. [cand[t] EXCEPT !.reconciled = TRUE] \in CandRow
      BY DEF TypeOK, CandRow
    <2>3. QED
      BY <1>8, <2>1, <2>2 DEF CommitTaskCandidateReconciliation, TypeOK, ReconciledEdge
  <1>9. ASSUME NEW k \in DecisionKeys,
               CommitDecisionResponse(t, k) \/ CommitDecisionCancellation(t, k)
        PROVE  TypeOK'
    <2>1. task' \in [Tasks -> TaskRow]
      BY <1>9, TouchType DEF CommitDecisionResponse, CommitDecisionCancellation
    <2>2. dec' \in [Tasks -> DecRow]
      <3>1. CASE CommitDecisionResponse(t, k)
        BY <3>1, DecisionType DEF CommitDecisionResponse
      <3>2. CASE CommitDecisionCancellation(t, k)
        BY <3>2, DecisionType DEF CommitDecisionCancellation
      <3>3. QED
        BY <1>9, <3>1, <3>2
    <2>3. QED
      BY <1>9, <2>1, <2>2 DEF CommitDecisionResponse, CommitDecisionCancellation, TypeOK
  <1>10. QED
    BY <1>1, <1>2, <1>3, <1>4, <1>5, <1>6, <1>7, <1>8, <1>9 DEF OperatorStep

LEMMA ServiceTypeOK ==
  ASSUME TypeOK, NEW t \in Tasks, ServiceStep(t)
  PROVE  TypeOK'
  <1>0. cand[t] \in CandRow /\ task[t] \in TaskRow /\ term[t] \in TermRow
    BY DEF TypeOK
  <1>1. CASE CommitTaskStart(t)
    <2>1. task' \in [Tasks -> TaskRow]
      BY <1>1, TakeType, EdgeTargets DEF CommitTaskStart, TaskState
    <2>2. term[t] \in TermRow /\ term[t].launch + 1 \in Nat
      BY <1>0 DEF TermRow
    <2>3. [term[t] EXCEPT !.launch = @ + 1] \in TermRow
      BY <2>2 DEF TermRow
    <2>4. QED
      BY <1>1, <2>1, <2>3 DEF CommitTaskStart, TypeOK
  <1>2. CASE \/ ValidateTask(t) \/ ValidationEnds(t)
             \/ RecordValidationProcess(t) \/ SettleValidationProcess(t)
    <2>1. \A v \in BOOLEAN : /\ [cand[t] EXCEPT !.checking = v] \in CandRow
                            /\ [cand[t] EXCEPT !.judging = v] \in CandRow
      BY <1>0 DEF CandRow
    <2>2. QED
      BY <1>2, <2>1
      DEF ValidateTask, ValidationEnds, RecordValidationProcess, SettleValidationProcess, TypeOK
  <1>3. ASSUME NEW v \in {"unknown", "rejected", "accepted"}, CommitCandidateEvidence(t, v)
        PROVE  TypeOK'
    <2> DEFINE next == CASE v = "accepted" -> "candidate_complete"
                         [] v = "rejected" -> "failed"
                         [] v = "unknown" -> "validating"
               row == UpdateTaskState(task[t], next)
               proj == IF v = "accepted" /\ cand[t].reconciled THEN "pending"
                       ELSE cand[t].projection
    <2>1. next \in TaskState
      BY DEF TaskState
    <2>2. row \in TaskRow
      BY <1>0, <2>1, UpdateTaskStateRow
    <2>3. [row EXCEPT !.judged = TRUE] \in TaskRow
      BY <2>2 DEF TaskRow
    <2>4. /\ task' = [task EXCEPT ![t] = [row EXCEPT !.judged = TRUE]]
          /\ cand' = [cand EXCEPT ![t].verdict = v, ![t].judging = FALSE, ![t].projection = proj]
          /\ UNCHANGED <<term, dec>>
      BY <1>3 DEF CommitCandidateEvidence
    <2>5. [cand[t] EXCEPT !.verdict = v, !.judging = FALSE, !.projection = proj] \in CandRow
      <3>1. proj \in Outbox
        BY <1>0 DEF CandRow, Outbox
      <3> HIDE DEF proj
      <3>2. QED
        BY <1>0, <3>1 DEF CandRow
    <2> HIDE DEF next, row, proj
    <2>6. QED
      BY <2>3, <2>4, <2>5 DEF TypeOK
  <1>4. CASE EvidenceExpires(t)
    <2>1. [cand[t] EXCEPT !.expired = TRUE] \in CandRow
      BY <1>0 DEF CandRow
    <2>2. QED
      BY <1>4, <2>1 DEF EvidenceExpires, TypeOK
  <1>5. ASSUME NEW p \in Publications, NextComisEvidence(t, p)
        PROVE  TypeOK'
    <2>1. [cand[t] EXCEPT !.evidenceSent = p] \in CandRow
      BY <1>0 DEF CandRow
    <2>2. QED
      BY <1>5, <2>1 DEF NextComisEvidence, TypeOK
  <1>6. ASSUME NEW p \in Publications, MarkComisEvidenceDelivered(t, p)
        PROVE  TypeOK'
    <2>1. cand[t].acked \cup {p} \in SUBSET Publications
      BY <1>0 DEF CandRow
    <2>2. [cand[t] EXCEPT !.acked = @ \cup {p}, !.evidenceSent = "none"] \in CandRow
      BY <1>0, <2>1 DEF CandRow
    <2>3. UpdateTaskState(task[t], Edge.delivery_accepted.to) \in TaskRow
      BY <1>0, UpdateTaskStateRow, EdgeTargets DEF TaskState
    <2>4. QED
      BY <1>6, <2>2, <2>3 DEF MarkComisEvidenceDelivered, TypeOK
  <1>7. ASSUME NEW source \in {"worker", "reconciliation"}, NextComisReport(t, source)
        PROVE  TypeOK'
    <2>1. [cand[t] EXCEPT !.reportSent = source] \in CandRow
      BY <1>0 DEF CandRow
    <2>2. QED
      BY <1>7, <2>1 DEF NextComisReport, TypeOK
  <1>8. CASE MarkComisReportDelivered(t)
    <2>1. /\ [cand[t] EXCEPT !.projection = "delivered", !.reportSent = "none"] \in CandRow
          /\ [cand[t] EXCEPT !.report = "delivered", !.reportSent = "none"] \in CandRow
          /\ [cand[t] EXCEPT !.reportSent = "none"] \in CandRow
      BY <1>0 DEF CandRow, Outbox
    <2>2. UpdateTaskState(task[t], Edge.delivery_accepted.to) \in TaskRow
      BY <1>0, UpdateTaskStateRow, EdgeTargets DEF TaskState
    <2>3. QED
      BY <1>8, <2>1, <2>2 DEF MarkComisReportDelivered, TypeOK
  <1>9. CASE SendFails(t)
    <2>1. [cand[t] EXCEPT !.evidenceSent = "none", !.reportSent = "none"] \in CandRow
      BY <1>0 DEF CandRow
    <2>2. QED
      BY <1>9, <2>1 DEF SendFails, TypeOK
  <1>10. QED
    BY <1>1, <1>2, <1>3, <1>4, <1>5, <1>6, <1>7, <1>8, <1>9 DEF ServiceStep

LEMMA RestartTypeOK ==
  ASSUME TypeOK, ReconcileStartup
  PROVE  TypeOK'
  <1>0. ReconciledEdge.unresolved \in TaskState
    BY DEF ReconciledEdge, TaskState
  <1>1. ASSUME NEW t \in Tasks
        PROVE  UpdateTaskState(task[t], ReconciledEdge.unresolved) \in TaskRow
    BY <1>0, UpdateTaskStateRow DEF TypeOK
  <1>2. task' \in [Tasks -> TaskRow]
    BY <1>1 DEF ReconcileStartup, TypeOK
  <1>3. ASSUME NEW t \in Tasks, term[t].session # NoSession
        PROVE  [term[t] EXCEPT !.latest = term[t].posture[term[t].session]] \in TermRow
    <2>1. term[t].posture[term[t].session] \in TerminalTransition \cup {"none"}
      BY <1>3 DEF TypeOK, TermRow, Settled, TerminalTransition
    <2>2. QED
      BY <2>1 DEF TypeOK, TermRow
  <1>4. term' \in [Tasks -> TermRow]
    BY <1>3 DEF ReconcileStartup, TypeOK
  <1>5. ASSUME NEW t \in Tasks
        PROVE  [cand[t] EXCEPT !.judging = FALSE, !.evidenceSent = "none",
                               !.reportSent = "none"] \in CandRow
    <2>1. cand[t] \in CandRow
      BY DEF TypeOK
    <2>2. QED
      BY <2>1 DEF CandRow
  <1>6. cand' \in [Tasks -> CandRow]
    BY <1>5 DEF ReconcileStartup, TypeOK
  <1>7. QED
    BY <1>2, <1>4, <1>6 DEF ReconcileStartup, TypeOK

LEMMA TypeStep == TypeOK /\ [Next]_vars => TypeOK'
  <1> SUFFICES ASSUME TypeOK, [Next]_vars
               PROVE  TypeOK'
    OBVIOUS
  <1>1. CASE UNCHANGED vars
    BY <1>1 DEF TypeOK
  <1>2. CASE ReconcileStartup
    BY <1>2, RestartTypeOK
  <1>3. ASSUME NEW t \in Tasks,
               WorkerStep(t) \/ HostStep(t) \/ OperatorStep(t) \/ ServiceStep(t)
        PROVE  TypeOK'
    BY <1>3, WorkerTypeOK, HostTypeOK, OperatorTypeOK, ServiceTypeOK
  <1>4. QED
    BY <1>1, <1>2, <1>3 DEF Next

\* Every transaction of the service writes well-formed rows, for every set of
\* tasks, sessions, decisions and profiles: each state the store writes is a
\* state the domain knows.
THEOREM TypeCorrect == Spec => []TypeOK
  BY InitTypeOK, TypeStep, PTL DEF Spec

-----------------------------------------------------------------------------
(* The inductive safety invariant.                                         *)

\* BindingDiscipline of one task.
BindOK(t) ==
  /\ ~task[t].bound => /\ task[t].state = "absent" \/ AllowsUnboundPreparation(task[t].state)
                       /\ term[t].launch = 0 /\ term[t].session = NoSession
  /\ task[t].state \in {"absent", "prepared"} \/ task[t].prep = "abandoned" => ~task[t].bound

\* LaunchEvidence of one task.
LaunchOK(t) ==
  task[t].state \in {"working", "awaiting_decision", "blocked"} /\ task[t].profile # FixtureWorker
    => term[t].ack = term[t].launch /\ term[t].running

\* PausedCarriesNoRequest of one task; a handle without a row has no request.
PauseOK(t) == task[t].state \in {"absent", "prepared", "ready", "paused"} => ~task[t].pause

\* LossNeverUnsettles of one task; without a binding no event was recorded.
LossOK(t) ==
  /\ term[t].latest = "lost" => term[t].posture[term[t].session] = "none"
  /\ term[t].session = NoSession
       => term[t].latest = "none" /\ \A s \in Sessions : term[t].posture[s] = "none"

\* AwaitedDecisionIsUnresolved of one task; only asked decisions are resolved.
DecisionOK(t) ==
  /\ task[t].state = "awaiting_decision" => \E k \in dec[t].asked : k \notin dec[t].resolved
  /\ dec[t].resolved \subseteq dec[t].asked

\* The candidate invariants of one task.
CandidateOK(t) ==
  LET s == task[t].state
      c == cand[t]
      all == c.verdict = "accepted" /\ c.acked = Publications
  IN  /\ s \notin {"reconciling", "delivering", "cleanup_held", "cleaned"}
      /\ s \in {"absent", "prepared", "ready", "launching", "working", "awaiting_decision",
                "blocked", "paused"}
           => c.report = "none" /\ ~c.reconciled /\ c.verdict = "none"
      /\ s = "unknown" /\ c.verdict = "none" => c.report = "none"
      /\ s = "candidate_complete"
           => c.verdict = "accepted" /\ (c.reconciled => c.acked # Publications)
      /\ c.acked # {} \/ c.evidenceSent # "none" => c.verdict = "accepted"
      /\ c.projection # "none" => c.reconciled
      /\ c.reportSent = "worker" => all /\ c.report = "pending"
      /\ c.reportSent = "reconciliation" => s = "delivered" /\ c.projection = "pending"
      /\ ~(c.report # "none" /\ c.reconciled)
      /\ c.verdict = "accepted" =>
           /\ dec[t].asked \subseteq dec[t].resolved
           /\ s \in {"candidate_complete", "delivered", "failed", "cancelled", "unknown"}
      /\ c.judging =>
           /\ dec[t].asked \subseteq dec[t].resolved
           /\ s \in {"validating", "failed", "cancelled"}
      /\ s = "delivered" => all /\ (c.report = "delivered" \/ (c.report = "none" /\ c.reconciled))
      /\ c.report = "delivered" \/ c.projection = "delivered" => s = "delivered"

TaskInv(t) ==
  BindOK(t) /\ LaunchOK(t) /\ PauseOK(t) /\ LossOK(t) /\ DecisionOK(t) /\ CandidateOK(t)

\* The inductive invariant.
IInv == TypeOK /\ \A t \in Tasks : TaskInv(t)

\* The rows of one task are left alone.
Untouched(t) ==
  task'[t] = task[t] /\ term'[t] = term[t] /\ dec'[t] = dec[t] /\ cand'[t] = cand[t]

\* The row of task t takes state s; what the invariants read of it stays.
Moves(t, s) ==
  /\ task'[t].state = s
  /\ task'[t].bound = task[t].bound
  /\ task'[t].prep = task[t].prep
  /\ task'[t].profile = task[t].profile
  /\ task'[t].pause = task[t].pause

LEMMA TakeMoves ==
  ASSUME TypeOK, NEW t \in Tasks, NEW edge, Edge[edge].to \in TaskState, Take(t, edge)
  PROVE  Moves(t, Edge[edge].to)
  BY UpdateTaskStateRow DEF Take, Moves, TypeOK

LEMMA TouchMoves ==
  ASSUME TypeOK, NEW t \in Tasks, Touch(t)
  PROVE  Moves(t, task[t].state)
  <1>1. task[t].state \in TaskState \cup {"absent"}
    BY DEF TypeOK, TaskRow
  <1>2. QED
    BY <1>1, UpdateTaskStateRow DEF Touch, Moves, TypeOK

LEMMA ReportedMoves ==
  ASSUME TypeOK, NEW t \in Tasks, NEW kind, Edge[ReportTransition[kind]].to \in TaskState,
         Reported(t, kind)
  PROVE  Moves(t, Edge[ReportTransition[kind]].to)
  BY UpdateReportedTaskRow DEF Reported, Moves, TypeOK

\* What a stored report of each kind does to the row, and where from.
LEMMA ReportEffect ==
  ASSUME TypeOK, NEW t \in Tasks
  PROVE  /\ Reported(t, "decision") => Moves(t, "awaiting_decision") /\ task[t].state = "working"
         /\ Reported(t, "resolution") => Moves(t, "working") /\ task[t].state = "awaiting_decision"
         /\ Reported(t, "blocked") => Moves(t, "blocked") /\ task[t].state \in {"working", "awaiting_decision"}
         /\ Reported(t, "candidate_complete") => Moves(t, "validating") /\ task[t].bound /\ task[t].state \in {"working", "paused"}
         /\ Reported(t, "failed") => Moves(t, "failed") /\ task[t].bound /\ task[t].state \in Edge["failure_observed"].from
  <1>1. /\ ReportTransition["decision"] = "decision_requested"
        /\ ReportTransition["resolution"] = "decision_answered"
        /\ ReportTransition["blocked"] = "blocked"
        /\ ReportTransition["candidate_complete"] = "validation_started"
        /\ ReportTransition["failed"] = "failure_observed"
    BY DEF ReportTransition
  <1>2. {"awaiting_decision", "working", "blocked", "validating", "failed"} \subseteq TaskState
    BY DEF TaskState
  <1>3. ASSUME Reported(t, "decision")
        PROVE  Moves(t, "awaiting_decision") /\ task[t].state = "working"
    <2>1. Moves(t, "awaiting_decision")
      BY <1>1, <1>2, <1>3, ReportedMoves, EdgeTargets
    <2>2. task[t].state = "working"
      BY <1>1, <1>3, EdgeSources, EdgeTargets DEF Reported, Applies, AllowsUnboundPreparation
    <2>3. QED
      BY <2>1, <2>2
  <1>4. ASSUME Reported(t, "resolution")
        PROVE  Moves(t, "working") /\ task[t].state = "awaiting_decision"
    <2>1. Moves(t, "working")
      BY <1>1, <1>2, <1>4, ReportedMoves, EdgeTargets
    <2>2. task[t].state = "awaiting_decision"
      BY <1>1, <1>4, EdgeSources, EdgeTargets DEF Reported, Applies, AllowsUnboundPreparation
    <2>3. QED
      BY <2>1, <2>2
  <1>5. ASSUME Reported(t, "blocked")
        PROVE  Moves(t, "blocked") /\ task[t].state \in {"working", "awaiting_decision"}
    <2>1. Moves(t, "blocked")
      BY <1>1, <1>2, <1>5, ReportedMoves, EdgeTargets
    <2>2. task[t].state \in {"working", "awaiting_decision"}
      BY <1>1, <1>5, EdgeSources, EdgeTargets DEF Reported, Applies, AllowsUnboundPreparation
    <2>3. QED
      BY <2>1, <2>2
  <1>6. ASSUME Reported(t, "candidate_complete")
        PROVE  Moves(t, "validating") /\ task[t].bound /\ task[t].state \in {"working", "paused"}
    <2>1. Moves(t, "validating")
      BY <1>1, <1>2, <1>6, ReportedMoves, EdgeTargets
    <2>2. task[t].bound /\ task[t].state \in {"working", "paused"}
      BY <1>1, <1>6, EdgeSources, EdgeTargets DEF Reported, Applies, AllowsUnboundPreparation
    <2>3. QED
      BY <2>1, <2>2
  <1>7. ASSUME Reported(t, "failed")
        PROVE  Moves(t, "failed") /\ task[t].bound /\ task[t].state \in Edge["failure_observed"].from
    <2>1. Moves(t, "failed")
      BY <1>1, <1>2, <1>7, ReportedMoves, EdgeTargets
    <2>2. task[t].bound /\ task[t].state \in Edge["failure_observed"].from
      BY <1>1, <1>7, EdgeSources, EdgeTargets DEF Reported, Applies, AllowsUnboundPreparation
    <2>3. QED
      BY <2>1, <2>2
  <1>8. QED
    BY <1>3, <1>4, <1>5, <1>6, <1>7

-----------------------------------------------------------------------------
(* A step of one task leaves every other task alone                        *)

LEMMA OthersUntouched ==
  ASSUME TypeOK, NEW t \in Tasks, NEW u \in Tasks, u # t,
         WorkerStep(t) \/ HostStep(t) \/ OperatorStep(t) \/ ServiceStep(t)
  PROVE  Untouched(u)
  <1> USE DEF Untouched, TypeOK
  <1>1. CASE WorkerStep(t)
    BY <1>1 DEF WorkerStep, CommitWorkerLaunchAcknowledgement, ReportProgress, ReportBlocked,
       ReportPaused, ReportFailed, ReportCandidateComplete, ReportDecision, ReportResolution,
       Take, Touch, Reported
  <1>2. CASE HostStep(t)
    BY <1>2 DEF HostStep, CommitManagedRunActivation, CommitManagedRunAbandon,
       CommitManagedRunCancel, CommitTerminalEvent, Take, Touch
  <1>3. CASE OperatorStep(t)
    <2>1. CASE \/ \E p \in Profiles : CommitPreparedTask(t, p) \/ CommitTaskReplace(t, p)
               \/ CommitTaskPauseRequest(t) \/ CommitTaskResume(t) \/ CommitTaskHandback(t)
      BY <2>1 DEF CommitPreparedTask, CommitTaskReplace, CommitTaskPauseRequest,
         CommitTaskResume, CommitTaskHandback, Take, Reported
    <2>2. CASE \/ CommitTaskVerify(t) \/ CommitTaskCancel(t)
               \/ CommitTaskCandidateReconciliation(t)
      BY <2>2 DEF CommitTaskVerify, CommitTaskCancel, CommitTaskCandidateReconciliation, Take, Touch
    <2>3. ASSUME NEW k \in DecisionKeys, CommitDecisionResponse(t, k)
          PROVE  Untouched(u)
      BY <2>3 DEF CommitDecisionResponse, Touch
    <2>4. ASSUME NEW k \in DecisionKeys, CommitDecisionCancellation(t, k)
          PROVE  Untouched(u)
      BY <2>4 DEF CommitDecisionCancellation, Touch
    <2> HIDE DEF Untouched, TypeOK
    <2>5. QED
      BY <1>3, <2>1, <2>2, <2>3, <2>4 DEF OperatorStep
  <1>4. CASE ServiceStep(t)
    BY <1>4 DEF ServiceStep, CommitTaskStart, ValidateTask, ValidationEnds,
       RecordValidationProcess, SettleValidationProcess,
       CommitCandidateEvidence, EvidenceExpires, NextComisEvidence, MarkComisEvidenceDelivered,
       NextComisReport, MarkComisReportDelivered, SendFails, Take
  <1>5. QED
    BY <1>1, <1>2, <1>3, <1>4

LEMMA UntouchedInv ==
  ASSUME NEW t \in Tasks, TaskInv(t), Untouched(t)
  PROVE  TaskInv(t)'
  BY DEF Untouched, TaskInv, BindOK, LaunchOK, PauseOK, LossOK, DecisionOK, CandidateOK

-----------------------------------------------------------------------------
(* Steps of the worker                                                     *)

LEMMA WorkerInv ==
  ASSUME IInv, NEW t \in Tasks, WorkerStep(t)
  PROVE  TaskInv(t)'
  <1> USE DEF TaskInv
  <1>0. TypeOK /\ TaskInv(t)
    BY DEF IInv
  <1> PICK b \in 1..MaxBrief :
        \/ CommitWorkerLaunchAcknowledgement(t, b)
        \/ ReportProgress(t, b)
        \/ ReportBlocked(t, b)
        \/ ReportPaused(t, b)
        \/ ReportFailed(t, b)
        \/ ReportCandidateComplete(t, b)
        \/ \E k \in DecisionKeys : ReportDecision(t, b, k) \/ ReportResolution(t, b, k)
    BY DEF WorkerStep
  <1>1. CASE CommitWorkerLaunchAcknowledgement(t, b)
    <2>1. /\ (Moves(t, "working") /\ (term[t].running \/ IsFixture(t))) \/ Moves(t, "launching")
          /\ task[t].state = "launching"
      BY <1>0, <1>1, TakeMoves, TouchMoves, EdgeTargets
      DEF CommitWorkerLaunchAcknowledgement, TaskState
    <2>2. /\ term'[t].ack = term[t].launch
          /\ term'[t].launch = term[t].launch /\ term'[t].session = term[t].session
          /\ term'[t].latest = term[t].latest /\ term'[t].running = term[t].running
          /\ term'[t].posture = term[t].posture
          /\ UNCHANGED <<dec, cand>>
      BY <1>0, <1>1 DEF CommitWorkerLaunchAcknowledgement, TypeOK, TermRow
    <2>3. BindOK(t)'
      BY <1>0, <2>1, <2>2 DEF Moves, BindOK, AllowsUnboundPreparation
    <2>4. LaunchOK(t)'
      BY <1>0, <2>1, <2>2 DEF Moves, LaunchOK, IsFixture
    <2>5. PauseOK(t)' /\ LossOK(t)' /\ DecisionOK(t)'
      BY <1>0, <2>1, <2>2 DEF Moves, PauseOK, LossOK, DecisionOK
    <2>6. CandidateOK(t)'
      BY <1>0, <2>1, <2>2 DEF Moves, CandidateOK
    <2>7. QED
      BY <2>3, <2>4, <2>5, <2>6
  <1>2. CASE ReportProgress(t, b)
    <2>1. Moves(t, "working")
      <3>1. CASE task[t].state = "launching" /\ IsFixture(t)
        BY <1>0, <1>2, <3>1, ReportedMoves, EdgeTargets
        DEF ReportProgress, TaskState, ReportTransition
      <3>2. CASE ~(task[t].state = "launching" /\ IsFixture(t))
        BY <1>0, <1>2, <3>2, UpdateReportedTaskRow DEF ReportProgress, TypeOK, TaskState, Moves
      <3>3. QED
        BY <3>1, <3>2
    <2>2. /\ task[t].state = "working" \/ (task[t].state = "launching" /\ IsFixture(t))
          /\ UNCHANGED <<term, dec, cand>>
      BY <1>2 DEF ReportProgress
    <2>3. BindOK(t)' /\ LaunchOK(t)' /\ PauseOK(t)' /\ LossOK(t)' /\ DecisionOK(t)'
      BY <1>0, <2>1, <2>2
      DEF Moves, BindOK, LaunchOK, PauseOK, LossOK, DecisionOK, IsFixture, AllowsUnboundPreparation
    <2>4. CandidateOK(t)'
      BY <1>0, <2>1, <2>2 DEF Moves, CandidateOK
    <2>5. QED
      BY <2>3, <2>4
  <1>3. CASE ReportBlocked(t, b)
    <2>1. Moves(t, "blocked") /\ task[t].state \in {"working", "awaiting_decision"}
      BY <1>0, <1>3, ReportEffect DEF ReportBlocked
    <2>2. UNCHANGED <<term, dec, cand>>
      BY <1>3 DEF ReportBlocked
    <2>3. BindOK(t)' /\ LaunchOK(t)' /\ PauseOK(t)' /\ LossOK(t)' /\ DecisionOK(t)'
      BY <1>0, <2>1, <2>2
      DEF Moves, BindOK, LaunchOK, PauseOK, LossOK, DecisionOK, AllowsUnboundPreparation
    <2>4. CandidateOK(t)'
      BY <1>0, <2>1, <2>2 DEF Moves, CandidateOK
    <2>5. QED
      BY <2>3, <2>4
  <1>4. CASE ReportPaused(t, b)
    <2>1. /\ task'[t].state = "paused" /\ task'[t].bound = task[t].bound
          /\ task'[t].prep = task[t].prep /\ ~task'[t].pause
      BY <1>0, <1>4, UpdateReportedTaskRow DEF ReportPaused, TypeOK, TaskState, TaskRow
    <2>2. /\ task[t].state \in {"ready", "working", "awaiting_decision", "blocked"}
          /\ UNCHANGED <<term, dec, cand>>
      BY <1>4, EdgeSources DEF ReportPaused, Applies
    <2>3. BindOK(t)' /\ LaunchOK(t)' /\ PauseOK(t)' /\ LossOK(t)' /\ DecisionOK(t)'
      BY <1>0, <2>1, <2>2
      DEF Moves, BindOK, LaunchOK, PauseOK, LossOK, DecisionOK, AllowsUnboundPreparation
    <2>4. CandidateOK(t)'
      BY <1>0, <2>1, <2>2 DEF Moves, CandidateOK
    <2>5. QED
      BY <2>3, <2>4
  <1>5. CASE ReportFailed(t, b)
    <2>1. /\ Moves(t, "failed")
          /\ task[t].bound
          /\ task[t].state \in Edge["failure_observed"].from
      BY <1>0, <1>5, ReportEffect DEF ReportFailed
    <2>2. UNCHANGED <<term, dec, cand>>
      BY <1>5 DEF ReportFailed
    <2>3. BindOK(t)' /\ LaunchOK(t)' /\ PauseOK(t)' /\ LossOK(t)' /\ DecisionOK(t)'
      BY <1>0, <2>1, <2>2, EdgeSources DEF Moves, BindOK, LaunchOK, PauseOK, LossOK, DecisionOK
    <2>4. CandidateOK(t)'
      BY <1>0, <2>1, <2>2, EdgeSources DEF Moves, CandidateOK
    <2>5. QED
      BY <2>3, <2>4
  <1>6. CASE ReportCandidateComplete(t, b)
    <2>1. /\ Moves(t, "validating")
          /\ task[t].bound /\ task[t].state \in {"working", "paused"}
      BY <1>0, <1>6, ReportEffect DEF ReportCandidateComplete
    <2>2. /\ cand'[t] = [cand[t] EXCEPT !.report = "pending"]
          /\ UNCHANGED <<term, dec>>
      BY <1>0, <1>6 DEF ReportCandidateComplete, TypeOK
    <2>3. BindOK(t)' /\ LaunchOK(t)' /\ PauseOK(t)' /\ LossOK(t)' /\ DecisionOK(t)'
      BY <1>0, <2>1, <2>2 DEF Moves, BindOK, LaunchOK, PauseOK, LossOK, DecisionOK
    <2>4. CandidateOK(t)'
      BY <1>0, <2>1, <2>2 DEF Moves, CandidateOK, TypeOK, CandRow
    <2>5. QED
      BY <2>3, <2>4
  <1>7. ASSUME NEW k \in DecisionKeys, ReportDecision(t, b, k)
        PROVE  TaskInv(t)'
    <2>1. Moves(t, "awaiting_decision") /\ task[t].state = "working"
      BY <1>0, <1>7, ReportEffect DEF ReportDecision
    <2>2. /\ dec'[t].asked = dec[t].asked \cup {k} /\ dec'[t].resolved = dec[t].resolved
          /\ k \notin dec[t].asked
          /\ UNCHANGED <<term, cand>>
      BY <1>0, <1>7 DEF ReportDecision, TypeOK, DecRow
    <2>3. BindOK(t)' /\ LaunchOK(t)' /\ PauseOK(t)' /\ LossOK(t)'
      BY <1>0, <2>1, <2>2 DEF Moves, BindOK, LaunchOK, PauseOK, LossOK, AllowsUnboundPreparation
    <2>4. DecisionOK(t)'
      BY <1>0, <2>1, <2>2 DEF Moves, DecisionOK
    <2>5. CandidateOK(t)'
      BY <1>0, <2>1, <2>2 DEF Moves, CandidateOK
    <2>6. QED
      BY <2>3, <2>4, <2>5
  <1>8. ASSUME NEW k \in DecisionKeys, ReportResolution(t, b, k)
        PROVE  TaskInv(t)'
    <2>1. Moves(t, "working") /\ task[t].state = "awaiting_decision"
      BY <1>0, <1>8, ReportEffect DEF ReportResolution
    <2>2. /\ dec'[t].resolved = dec[t].resolved \cup {k} /\ dec'[t].asked = dec[t].asked
          /\ k \in dec[t].asked
          /\ UNCHANGED <<term, cand>>
      BY <1>0, <1>8 DEF ReportResolution, TypeOK, DecRow
    <2>3. BindOK(t)' /\ LaunchOK(t)' /\ PauseOK(t)' /\ LossOK(t)'
      BY <1>0, <2>1, <2>2 DEF Moves, BindOK, LaunchOK, PauseOK, LossOK, AllowsUnboundPreparation
    <2>4. DecisionOK(t)'
      BY <1>0, <2>1, <2>2 DEF Moves, DecisionOK
    <2>5. CandidateOK(t)'
      BY <1>0, <2>1, <2>2 DEF Moves, CandidateOK
    <2>6. QED
      BY <2>3, <2>4, <2>5
  <1>9. QED
    BY <1>1, <1>2, <1>3, <1>4, <1>5, <1>6, <1>7, <1>8

-----------------------------------------------------------------------------
(* Steps of the host                                                       *)

LEMMA HostInv ==
  ASSUME IInv, NEW t \in Tasks, HostStep(t)
  PROVE  TaskInv(t)'
  <1> USE DEF TaskInv
  <1>0. TypeOK /\ TaskInv(t)
    BY DEF IInv
  <1>1. CASE CommitManagedRunActivation(t)
    <2>1. /\ task'[t].state = "ready" /\ task'[t].bound
          /\ task'[t].prep = task[t].prep /\ task'[t].pause = task[t].pause
      BY <1>0, <1>1, UpdateReportedTaskRow DEF CommitManagedRunActivation, TypeOK, TaskState, TaskRow
    <2>2. /\ task[t].state = "prepared" /\ task[t].prep = "open"
          /\ UNCHANGED <<term, dec, cand>>
      BY <1>1 DEF CommitManagedRunActivation
    <2>3. BindOK(t)' /\ LaunchOK(t)' /\ PauseOK(t)' /\ LossOK(t)' /\ DecisionOK(t)'
      BY <1>0, <2>1, <2>2 DEF BindOK, LaunchOK, PauseOK, LossOK, DecisionOK
    <2>4. CandidateOK(t)'
      BY <1>0, <2>1, <2>2 DEF CandidateOK
    <2>5. QED
      BY <2>3, <2>4
  <1>2. ASSUME NEW reapSafe \in BOOLEAN, CommitManagedRunAbandon(t, reapSafe)
        PROVE  TaskInv(t)'
    <2> DEFINE edge == IF reapSafe THEN "preparation_abandoned" ELSE "preparation_preserved"
               row == UpdateTaskState(task[t], Edge[edge].to)
    <2>1. Edge[edge].to \in {"prepared", "cancelled"} /\ Edge[edge].to \in TaskState
      BY EdgeTargets DEF TaskState
    <2>2. /\ row \in TaskRow /\ row.state \in {"prepared", "cancelled"}
          /\ row.bound = task[t].bound /\ row.pause = task[t].pause
      BY <1>0, <2>1, UpdateTaskStateRow DEF TypeOK
    <2>3. /\ task' = [task EXCEPT ![t] = [row EXCEPT !.prep = "abandoned"]]
          /\ task[t].state = "prepared"
          /\ UNCHANGED <<term, dec, cand>>
      BY <1>2, EdgeSources DEF CommitManagedRunAbandon, Applies
    <2> HIDE DEF row
    <2>4. /\ task'[t].state \in {"prepared", "cancelled"} /\ task'[t].prep = "abandoned"
          /\ task'[t].bound = task[t].bound /\ task'[t].pause = task[t].pause
      BY <1>0, <2>2, <2>3 DEF TypeOK, TaskRow
    <2>5. BindOK(t)' /\ LaunchOK(t)' /\ PauseOK(t)' /\ LossOK(t)' /\ DecisionOK(t)'
      BY <1>0, <2>3, <2>4
      DEF BindOK, LaunchOK, PauseOK, LossOK, DecisionOK, AllowsUnboundPreparation
    <2>6. CandidateOK(t)'
      BY <1>0, <2>3, <2>4 DEF CandidateOK
    <2>7. QED
      BY <2>5, <2>6
  <1>3. CASE CommitManagedRunCancel(t)
    <2>1. Moves(t, "cancelled")
      <3>1. CASE task[t].state = "cancelled" /\ Touch(t)
        BY <1>0, <3>1, TouchMoves
      <3>2. CASE Take(t, "cancel_requested")
        BY <1>0, <3>2, TakeMoves, EdgeTargets DEF TaskState
      <3>3. QED
        BY <1>3, <3>1, <3>2 DEF CommitManagedRunCancel
    <2>2. /\ task[t].bound
          /\ task[t].state = "cancelled" \/ task[t].state \in Edge["cancel_requested"].from
          /\ UNCHANGED <<term, dec, cand>>
      BY <1>3 DEF CommitManagedRunCancel, Applies
    <2>3. BindOK(t)' /\ LaunchOK(t)' /\ PauseOK(t)' /\ LossOK(t)' /\ DecisionOK(t)'
      BY <1>0, <2>1, <2>2, EdgeSources DEF Moves, BindOK, LaunchOK, PauseOK, LossOK, DecisionOK
    <2>4. CandidateOK(t)'
      BY <1>0, <2>1, <2>2, EdgeSources DEF Moves, CandidateOK
    <2>5. QED
      BY <2>3, <2>4
  <1>4. ASSUME NEW s \in Sessions, NEW tr \in Observed, CommitTerminalEvent(t, s, tr)
        PROVE  TaskInv(t)'
    <2>0. tr \in TerminalTransition
      BY ConstantsAssumption
    <2>1. /\ term'[t].launch = term[t].launch /\ term'[t].ack = term[t].ack
          /\ term'[t].session = s
          /\ term'[t].running = BindingAfter(t, s, tr).running
          /\ term'[t].running =
               ((term[t].running /\ ~(term[t].session # NoSession /\ term[t].session # s))
                  \/ tr = "running")
          /\ term'[t].posture = PostureAfter(term[t].posture, s, tr)
          /\ term'[t].latest = IF /\ term[t].session # NoSession
                                  /\ tr = "lost" /\ term[t].posture[s] # "none"
                               THEN term[t].posture[s] ELSE tr
      BY <1>0, <1>4 DEF CommitTerminalEvent, BindingAfter, TypeOK, TermRow
    <2>2. /\ task[t].bound
          /\ term[t].session \in {NoSession, s}
               \/ (task[t].state = "launching" /\ tr = "created")
          /\ UNCHANGED <<dec, cand>>
      BY <1>4 DEF CommitTerminalEvent, CanRotate
    <2>3. \/ Moves(t, task[t].state)
          \/ Moves(t, "unknown") /\ task[t].state \in TerminalLossChangesTask
          \/ /\ Moves(t, "working") /\ task[t].state = "launching"
             /\ BindingAfter(t, s, tr).running /\ term[t].ack = term[t].launch
      <3>1. CASE Touch(t)
        BY <1>0, <3>1, TouchMoves
      <3>2. CASE Take(t, "terminal_unavailable") /\ task[t].state \in TerminalLossChangesTask
        BY <1>0, <3>2, TakeMoves, EdgeTargets DEF TaskState
      <3>3. CASE /\ Take(t, "worker_acknowledged") /\ task[t].state = "launching"
                 /\ BindingAfter(t, s, tr).running /\ HasLaunchAcknowledgement(t)
        BY <1>0, <3>3, TakeMoves, EdgeTargets DEF TaskState, HasLaunchAcknowledgement
      <3>4. QED
        BY <1>4, <3>1, <3>2, <3>3 DEF CommitTerminalEvent
    <2>4. BindOK(t)' /\ PauseOK(t)'
      BY <1>0, <2>1, <2>2, <2>3 DEF BindOK, PauseOK, Moves, TerminalLossChangesTask
    <2>5. LaunchOK(t)'
      BY <1>0, <2>1, <2>2, <2>3 DEF LaunchOK, Moves
    <2>6. LossOK(t)'
      <3>1. s # NoSession /\ term[t].posture \in [Sessions -> Settled \cup {"none"}]
        BY <1>0, ConstantsAssumption DEF TypeOK, TermRow
      <3>2. term'[t].posture[s] =
              IF tr = "lost" THEN term[t].posture[s] ELSE IF tr \in Settled THEN tr ELSE "none"
        BY <2>1, <3>1 DEF PostureAfter
      <3>3. ASSUME term'[t].latest = "lost"
            PROVE  term'[t].posture[s] = "none"
        <4>1. tr = "lost" /\ term[t].session \in {NoSession, s}
          BY <2>1, <2>2, <3>1, <3>3 DEF Settled
        <4>2. term[t].posture[s] = "none"
          BY <1>0, <2>1, <3>1, <3>3, <4>1 DEF LossOK, Settled
        <4>3. QED
          BY <3>2, <4>1, <4>2
      <3>4. QED
        BY <2>1, <3>1, <3>3 DEF LossOK
    <2>7. DecisionOK(t)'
      BY <1>0, <2>2, <2>3 DEF DecisionOK, Moves
    <2>8. CandidateOK(t)'
      BY <1>0, <2>2, <2>3 DEF CandidateOK, Moves, TerminalLossChangesTask
    <2>9. QED
      BY <2>4, <2>5, <2>6, <2>7, <2>8
  <1>5. QED
    BY <1>1, <1>2, <1>3, <1>4 DEF HostStep

-----------------------------------------------------------------------------
(* Steps of the operator                                                   *)

LEMMA OperatorInv ==
  ASSUME IInv, NEW t \in Tasks, OperatorStep(t)
  PROVE  TaskInv(t)'
  <1> USE DEF TaskInv
  <1>0. TypeOK /\ TaskInv(t)
    BY DEF IInv
  <1>1. ASSUME NEW p \in Profiles, CommitPreparedTask(t, p)
        PROVE  TaskInv(t)'
    <2>1. /\ task'[t].state = "prepared" /\ task'[t].prep = "open"
          /\ task'[t].bound = task[t].bound /\ task'[t].pause = task[t].pause
          /\ task[t].state = "absent"
          /\ UNCHANGED <<term, dec, cand>>
      BY <1>0, <1>1 DEF CommitPreparedTask, TypeOK, TaskRow
    <2>2. BindOK(t)' /\ LaunchOK(t)' /\ PauseOK(t)' /\ LossOK(t)' /\ DecisionOK(t)'
      BY <1>0, <2>1 DEF BindOK, LaunchOK, PauseOK, LossOK, DecisionOK, AllowsUnboundPreparation
    <2>3. CandidateOK(t)'
      BY <1>0, <2>1 DEF CandidateOK
    <2>4. QED
      BY <2>2, <2>3
  <1>2. ASSUME NEW p \in Profiles, CommitTaskReplace(t, p)
        PROVE  TaskInv(t)'
    <2> DEFINE row == UpdateTaskState(task[t], "ready")
    <2>1. /\ row \in TaskRow /\ row.state = "ready" /\ row.bound = task[t].bound
          /\ row.prep = task[t].prep /\ row.pause = task[t].pause
      BY <1>0, UpdateTaskStateRow DEF TypeOK, TaskState
    <2>2. ReconciledEdge.ready = "ready"
      BY DEF ReconciledEdge
    <2>3. /\ task' = [task EXCEPT ![t] = [row EXCEPT !.profile = p, !.brief = task[t].brief + 1]]
          /\ task[t].state = "paused"
          /\ UNCHANGED <<term, dec, cand>>
      BY <1>2, <2>2 DEF CommitTaskReplace
    <2> HIDE DEF row
    <2>4. /\ task'[t].state = "ready" /\ task'[t].bound = task[t].bound
          /\ task'[t].prep = task[t].prep /\ task'[t].pause = task[t].pause
      BY <1>0, <2>1, <2>3 DEF TypeOK, TaskRow
    <2>5. BindOK(t)' /\ LaunchOK(t)' /\ PauseOK(t)' /\ LossOK(t)' /\ DecisionOK(t)'
      BY <1>0, <2>3, <2>4 DEF BindOK, LaunchOK, PauseOK, LossOK, DecisionOK, AllowsUnboundPreparation
    <2>6. CandidateOK(t)'
      BY <1>0, <2>3, <2>4 DEF CandidateOK
    <2>7. QED
      BY <2>5, <2>6
  <1>3. CASE CommitTaskPauseRequest(t)
    <2>1. /\ task'[t].state = task[t].state /\ task'[t].bound = task[t].bound
          /\ task'[t].prep = task[t].prep /\ task'[t].profile = task[t].profile
      <3>1. task[t].state \in TaskState \cup {"absent"}
        BY <1>0 DEF TypeOK, TaskRow
      <3>2. QED
        BY <1>0, <1>3, <3>1, UpdateTaskStateRow DEF CommitTaskPauseRequest, TypeOK, TaskRow
    <2>2. task[t].state \in TaskHoldsAWorker /\ UNCHANGED <<term, dec, cand>>
      BY <1>3 DEF CommitTaskPauseRequest
    <2>3. BindOK(t)' /\ LaunchOK(t)' /\ PauseOK(t)' /\ LossOK(t)' /\ DecisionOK(t)'
      BY <1>0, <2>1, <2>2 DEF BindOK, LaunchOK, PauseOK, LossOK, DecisionOK, TaskHoldsAWorker
    <2>4. CandidateOK(t)'
      BY <1>0, <2>1, <2>2 DEF CandidateOK
    <2>5. QED
      BY <2>3, <2>4
  <1>4. CASE CommitTaskResume(t)
    <2>1. Moves(t, "ready")
      BY <1>0, <1>4, TakeMoves, EdgeTargets DEF CommitTaskResume, TaskState
    <2>2. task[t].state = "paused" /\ UNCHANGED <<term, dec, cand>>
      BY <1>4 DEF CommitTaskResume
    <2>3. BindOK(t)' /\ LaunchOK(t)' /\ PauseOK(t)' /\ LossOK(t)' /\ DecisionOK(t)'
      BY <1>0, <2>1, <2>2 DEF Moves, BindOK, LaunchOK, PauseOK, LossOK, DecisionOK, AllowsUnboundPreparation
    <2>4. CandidateOK(t)'
      BY <1>0, <2>1, <2>2 DEF Moves, CandidateOK
    <2>5. QED
      BY <2>3, <2>4
  <1>5. CASE CommitTaskHandback(t)
    <2>1. /\ Moves(t, "validating")
          /\ task[t].bound /\ task[t].state \in {"working", "paused"}
      BY <1>0, <1>5, ReportEffect DEF CommitTaskHandback
    <2>2. /\ cand'[t] = [cand[t] EXCEPT !.report = "pending"]
          /\ UNCHANGED <<term, dec>>
      BY <1>0, <1>5 DEF CommitTaskHandback, TypeOK
    <2>3. BindOK(t)' /\ LaunchOK(t)' /\ PauseOK(t)' /\ LossOK(t)' /\ DecisionOK(t)'
      BY <1>0, <2>1, <2>2 DEF Moves, BindOK, LaunchOK, PauseOK, LossOK, DecisionOK
    <2>4. CandidateOK(t)'
      BY <1>0, <2>1, <2>2 DEF Moves, CandidateOK, TypeOK, CandRow
    <2>5. QED
      BY <2>3, <2>4
  <1>6. CASE CommitTaskVerify(t)
    <2>1. Moves(t, "validating")
      <3>1. CASE task[t].state = "validating" /\ Touch(t)
        BY <1>0, <3>1, TouchMoves
      <3>2. CASE Take(t, "validation_started")
        BY <1>0, <3>2, TakeMoves, EdgeTargets DEF TaskState
      <3>3. QED
        BY <1>6, <3>1, <3>2 DEF CommitTaskVerify
    <2>2. /\ task[t].state \in {"validating", "working", "paused"}
          /\ UNCHANGED <<term, dec, cand>>
      BY <1>6, EdgeSources DEF CommitTaskVerify, Applies
    <2>3. BindOK(t)' /\ LaunchOK(t)' /\ PauseOK(t)' /\ LossOK(t)' /\ DecisionOK(t)'
      BY <1>0, <2>1, <2>2 DEF Moves, BindOK, LaunchOK, PauseOK, LossOK, DecisionOK, AllowsUnboundPreparation
    <2>4. CandidateOK(t)'
      BY <1>0, <2>1, <2>2 DEF Moves, CandidateOK
    <2>5. QED
      BY <2>3, <2>4
  <1>7. CASE CommitTaskCancel(t)
    <2>1. /\ task'[t].state = "cancelled" /\ task'[t].bound = task[t].bound
          /\ task'[t].prep = task[t].prep
      <3>1. CASE task[t].state = "cancelled" /\ Touch(t)
        BY <1>0, <3>1, TouchMoves DEF Moves
      <3>2. CASE task' = [task EXCEPT ![t] =
                            [UpdateTaskState(@, "cancelled") EXCEPT !.pause = FALSE]]
        BY <1>0, <3>2, UpdateTaskStateRow DEF TypeOK, TaskState, TaskRow
      <3>3. QED
        BY <1>7, <3>1, <3>2 DEF CommitTaskCancel
    <2>2. /\ task[t].state \in {"cancelled", "unknown"}
               \/ task[t].state \in Edge["cancel_requested"].from
          /\ UNCHANGED <<term, dec, cand>>
      BY <1>7 DEF CommitTaskCancel, Applies
    <2>3. BindOK(t)' /\ LaunchOK(t)' /\ PauseOK(t)' /\ LossOK(t)' /\ DecisionOK(t)'
      BY <1>0, <2>1, <2>2, EdgeSources DEF BindOK, LaunchOK, PauseOK, LossOK, DecisionOK, AllowsUnboundPreparation
    <2>4. CandidateOK(t)'
      BY <1>0, <2>1, <2>2, EdgeSources DEF CandidateOK
    <2>5. QED
      BY <2>3, <2>4
  <1>8. CASE CommitTaskCandidateReconciliation(t)
    <2>1. Moves(t, "validating")
      BY <1>0, <1>8, UpdateTaskStateRow
      DEF CommitTaskCandidateReconciliation, ReconciledEdge, Moves, TypeOK, TaskState
    <2>2. /\ task[t].state = "unknown" /\ term[t].session # NoSession
          /\ ~cand[t].reconciled /\ cand[t].verdict = "none"
          /\ cand'[t] = [cand[t] EXCEPT !.reconciled = TRUE]
          /\ UNCHANGED <<term, dec>>
      BY <1>0, <1>8
      DEF CommitTaskCandidateReconciliation, NothingIsStillRunning, RecoveryHistoryExists, TypeOK
    <2>3. BindOK(t)' /\ LaunchOK(t)' /\ PauseOK(t)' /\ LossOK(t)' /\ DecisionOK(t)'
      BY <1>0, <2>1, <2>2 DEF Moves, BindOK, LaunchOK, PauseOK, LossOK, DecisionOK
    <2>4. CandidateOK(t)'
      BY <1>0, <2>1, <2>2 DEF Moves, CandidateOK, TypeOK, CandRow
    <2>5. QED
      BY <2>3, <2>4
  <1>9. ASSUME NEW k \in DecisionKeys,
               CommitDecisionResponse(t, k) \/ CommitDecisionCancellation(t, k)
        PROVE  TaskInv(t)'
    <2>1. Moves(t, task[t].state)
      BY <1>0, <1>9, TouchMoves DEF CommitDecisionResponse, CommitDecisionCancellation
    <2>2. /\ dec'[t].asked = dec[t].asked /\ dec'[t].resolved = dec[t].resolved
          /\ UNCHANGED <<term, cand>>
      <3>1. CASE CommitDecisionResponse(t, k)
        BY <1>0, <3>1 DEF CommitDecisionResponse, TypeOK, DecRow
      <3>2. CASE CommitDecisionCancellation(t, k)
        BY <1>0, <3>2 DEF CommitDecisionCancellation, TypeOK, DecRow
      <3>3. QED
        BY <1>9, <3>1, <3>2
    <2>3. BindOK(t)' /\ LaunchOK(t)' /\ PauseOK(t)' /\ LossOK(t)' /\ DecisionOK(t)'
      BY <1>0, <2>1, <2>2 DEF Moves, BindOK, LaunchOK, PauseOK, LossOK, DecisionOK
    <2>4. CandidateOK(t)'
      BY <1>0, <2>1, <2>2 DEF Moves, CandidateOK
    <2>5. QED
      BY <2>3, <2>4
  <1>10. QED
    BY <1>1, <1>2, <1>3, <1>4, <1>5, <1>6, <1>7, <1>8, <1>9 DEF OperatorStep

-----------------------------------------------------------------------------
(* Steps of the service's own loops                                        *)

\* A step that rewrites only what the candidate invariants read.
LEMMA CandidateStep ==
  ASSUME NEW t \in Tasks, TaskInv(t), task'[t] = task[t], UNCHANGED <<term, dec>>
  PROVE  BindOK(t)' /\ LaunchOK(t)' /\ PauseOK(t)' /\ LossOK(t)' /\ DecisionOK(t)'
  BY DEF TaskInv, BindOK, LaunchOK, PauseOK, LossOK, DecisionOK

LEMMA ServiceInv ==
  ASSUME IInv, NEW t \in Tasks, ServiceStep(t)
  PROVE  TaskInv(t)'
  <1> USE DEF TaskInv
  <1>0. TypeOK /\ TaskInv(t)
    BY DEF IInv
  <1>1. CASE CommitTaskStart(t)
    <2>1. Moves(t, "launching")
      BY <1>0, <1>1, TakeMoves, EdgeTargets DEF CommitTaskStart, TaskState
    <2>2. /\ task[t].state = "ready" /\ task[t].bound
          /\ term'[t].session = term[t].session /\ term'[t].latest = term[t].latest
          /\ term'[t].posture = term[t].posture
          /\ UNCHANGED <<dec, cand>>
      BY <1>0, <1>1, EdgeSources, EdgeTargets
      DEF CommitTaskStart, Applies, AllowsUnboundPreparation, TypeOK, TermRow
    <2>3. BindOK(t)' /\ LaunchOK(t)' /\ PauseOK(t)' /\ LossOK(t)' /\ DecisionOK(t)'
      BY <1>0, <2>1, <2>2 DEF Moves, BindOK, LaunchOK, PauseOK, LossOK, DecisionOK
    <2>4. CandidateOK(t)'
      BY <1>0, <2>1, <2>2 DEF Moves, CandidateOK
    <2>5. QED
      BY <2>3, <2>4
  <1>2. CASE \/ ValidateTask(t) \/ ValidationEnds(t)
             \/ RecordValidationProcess(t) \/ SettleValidationProcess(t)
    <2>1. /\ \E v \in BOOLEAN :
               \/ cand'[t] = [cand[t] EXCEPT !.checking = v]
               \/ /\ cand'[t] = [cand[t] EXCEPT !.judging = v]
                  /\ v => task[t].state = "validating" /\ dec[t].asked \subseteq dec[t].resolved
          /\ UNCHANGED <<task, term, dec>>
      BY <1>0, <1>2
      DEF ValidateTask, ValidationEnds, RecordValidationProcess, SettleValidationProcess, TypeOK
    <2>2. CandidateOK(t)'
      BY <1>0, <2>1 DEF CandidateOK, TypeOK, CandRow
    <2>3. QED
      BY <1>0, <2>1, <2>2, CandidateStep
  <1>3. ASSUME NEW v \in {"unknown", "rejected", "accepted"}, CommitCandidateEvidence(t, v)
        PROVE  TaskInv(t)'
    <2> DEFINE next == CASE v = "accepted" -> "candidate_complete"
                         [] v = "rejected" -> "failed"
                         [] v = "unknown" -> "validating"
               row == UpdateTaskState(task[t], next)
               proj == IF v = "accepted" /\ cand[t].reconciled THEN "pending"
                       ELSE cand[t].projection
    <2>1. next \in TaskState
      BY DEF TaskState
    <2>2. /\ row \in TaskRow /\ row.state = next /\ row.bound = task[t].bound
          /\ row.prep = task[t].prep /\ row.profile = task[t].profile
          /\ row.pause = task[t].pause
      BY <1>0, <2>1, UpdateTaskStateRow DEF TypeOK
    <2>3. /\ task' = [task EXCEPT ![t] = [row EXCEPT !.judged = TRUE]]
          /\ cand' = [cand EXCEPT ![t].verdict = v, ![t].judging = FALSE, ![t].projection = proj]
          /\ task[t].state = "validating" /\ dec[t].asked \subseteq dec[t].resolved
          /\ UNCHANGED <<term, dec>>
      <3>1. task[t].state = "validating" /\ cand[t].judging
        BY <1>3 DEF CommitCandidateEvidence
      <3>2. QED
        BY <1>0, <1>3, <3>1 DEF CommitCandidateEvidence, CandidateOK
    <2>4. \/ v = "accepted" /\ next = "candidate_complete"
          \/ v = "rejected" /\ next = "failed"
          \/ v = "unknown" /\ next = "validating"
      OBVIOUS
    <2>5. proj # "none" => (cand[t].projection # "none" \/ cand[t].reconciled)
      OBVIOUS
    <2>6. proj = "delivered" => cand[t].projection = "delivered"
      OBVIOUS
    <2> HIDE DEF next, row, proj
    <2>7. Moves(t, next)
      BY <1>0, <2>2, <2>3 DEF Moves, TypeOK, TaskRow
    <2>8. /\ cand'[t].verdict = v /\ cand'[t].projection = proj /\ ~cand'[t].judging
          /\ cand'[t].report = cand[t].report /\ cand'[t].reconciled = cand[t].reconciled
          /\ cand'[t].acked = cand[t].acked /\ cand'[t].evidenceSent = cand[t].evidenceSent
          /\ cand'[t].reportSent = cand[t].reportSent
      BY <1>0, <2>3 DEF TypeOK, CandRow
    <2>9. BindOK(t)' /\ LaunchOK(t)' /\ PauseOK(t)' /\ LossOK(t)' /\ DecisionOK(t)'
      BY <1>0, <2>3, <2>4, <2>7 DEF Moves, BindOK, LaunchOK, PauseOK, LossOK, DecisionOK, AllowsUnboundPreparation
    <2>10. CandidateOK(t)'
      <3>1. cand[t].verdict # "accepted" /\ cand[t].acked = {} /\ cand[t].evidenceSent = "none"
        BY <1>0, <2>3 DEF CandidateOK
      <3>2. Publications # {}
        BY DEF Publications
      <3>3. QED
        BY <1>0, <2>3, <2>4, <2>5, <2>6, <2>7, <2>8, <3>1, <3>2 DEF Moves, CandidateOK
    <2>11. QED
      BY <2>9, <2>10
  <1>4. CASE EvidenceExpires(t)
    <2>1. /\ cand'[t] = [cand[t] EXCEPT !.expired = TRUE]
          /\ UNCHANGED <<task, term, dec>>
      BY <1>0, <1>4 DEF EvidenceExpires, TypeOK
    <2>2. CandidateOK(t)'
      BY <1>0, <2>1 DEF CandidateOK, TypeOK, CandRow
    <2>3. QED
      BY <1>0, <2>1, <2>2, CandidateStep
  <1>5. ASSUME NEW p \in Publications, NextComisEvidence(t, p)
        PROVE  TaskInv(t)'
    <2>1. /\ cand'[t] = [cand[t] EXCEPT !.evidenceSent = p]
          /\ cand[t].verdict = "accepted"
          /\ UNCHANGED <<task, term, dec>>
      BY <1>0, <1>5 DEF NextComisEvidence, Published, TypeOK
    <2>2. CandidateOK(t)'
      BY <1>0, <2>1 DEF CandidateOK, TypeOK, CandRow
    <2>3. QED
      BY <1>0, <2>1, <2>2, CandidateStep
  <1>6. ASSUME NEW p \in Publications, MarkComisEvidenceDelivered(t, p)
        PROVE  TaskInv(t)'
    <2> DEFINE acked == cand[t].acked \cup {p}
    <2>1. /\ cand[t].evidenceSent # "none"
          /\ cand'[t].acked = acked /\ cand'[t].evidenceSent = "none"
          /\ cand'[t].verdict = cand[t].verdict /\ cand'[t].projection = cand[t].projection
          /\ cand'[t].report = cand[t].report /\ cand'[t].reconciled = cand[t].reconciled
          /\ cand'[t].reportSent = cand[t].reportSent /\ cand'[t].judging = cand[t].judging
          /\ UNCHANGED <<term, dec>>
      BY <1>0, <1>6 DEF MarkComisEvidenceDelivered, TypeOK, CandRow, Publications
    <2>2. cand[t].acked \subseteq Publications /\ (cand[t].acked = Publications => acked = Publications)
      BY <1>0 DEF TypeOK, CandRow
    <2>3. CASE CompletesReconciledDelivery(t, acked)
      <3>1. Moves(t, "delivered")
        BY <1>0, <1>6, <2>3, UpdateTaskStateRow, EdgeTargets
        DEF MarkComisEvidenceDelivered, Moves, TypeOK, TaskState
      <3>2. /\ task[t].state = "candidate_complete" /\ cand[t].report = "none"
            /\ cand[t].reconciled /\ acked = Publications
        BY <2>3 DEF CompletesReconciledDelivery
      <3> HIDE DEF acked
      <3>3. BindOK(t)' /\ LaunchOK(t)' /\ PauseOK(t)' /\ LossOK(t)' /\ DecisionOK(t)'
        BY <1>0, <2>1, <3>1, <3>2 DEF Moves, BindOK, LaunchOK, PauseOK, LossOK, DecisionOK, AllowsUnboundPreparation
      <3>4. CandidateOK(t)'
        BY <1>0, <2>1, <3>1, <3>2 DEF Moves, CandidateOK
      <3>5. QED
        BY <3>3, <3>4
    <2>4. CASE ~CompletesReconciledDelivery(t, acked)
      <3>1. UNCHANGED task
        BY <1>6, <2>4 DEF MarkComisEvidenceDelivered
      <3>2. ~(/\ task[t].state = "candidate_complete" /\ cand[t].report = "none"
              /\ cand[t].reconciled /\ acked = Publications)
        BY <2>4 DEF CompletesReconciledDelivery
      <3> HIDE DEF acked
      <3>3. CandidateOK(t)'
        BY <1>0, <2>1, <2>2, <3>1, <3>2 DEF CandidateOK
      <3>4. QED
        BY <1>0, <2>1, <3>1, <3>3, CandidateStep
    <2>5. QED
      BY <2>3, <2>4
  <1>7. ASSUME NEW source \in {"worker", "reconciliation"}, NextComisReport(t, source)
        PROVE  TaskInv(t)'
    <2>1. /\ cand'[t] = [cand[t] EXCEPT !.reportSent = source]
          /\ cand[t].verdict = "accepted" /\ cand[t].acked = Publications
          /\ source = "worker" => cand[t].report = "pending"
          /\ source = "reconciliation" =>
               /\ cand[t].projection = "pending"
               /\ task[t].state \in {"candidate_complete", "delivering", "delivered",
                                     "cleanup_held", "cleaned"}
          /\ UNCHANGED <<task, term, dec>>
      BY <1>0, <1>7 DEF NextComisReport, AllAcknowledged, Published, TypeOK
    <2>2. CandidateOK(t)'
      BY <1>0, <2>1 DEF CandidateOK, TypeOK, CandRow
    <2>3. QED
      BY <1>0, <2>1, <2>2, CandidateStep
  <1>8. CASE MarkComisReportDelivered(t)
    <2>1. UNCHANGED <<term, dec>>
      BY <1>8 DEF MarkComisReportDelivered
    <2>2. CASE /\ cand[t].reportSent = "reconciliation" /\ UNCHANGED task
               /\ cand' = [cand EXCEPT ![t].projection = "delivered", ![t].reportSent = "none"]
      <3>1. cand[t].reconciled
        BY <1>0, <2>2 DEF CandidateOK
      <3>2. CandidateOK(t)'
        BY <1>0, <2>1, <2>2, <3>1 DEF CandidateOK, TypeOK, CandRow
      <3>3. QED
        BY <1>0, <2>1, <2>2, <3>2, CandidateStep
    <2>3. CASE /\ cand[t].reportSent = "worker" /\ Applies(t, "delivery_started")
               /\ cand' = [cand EXCEPT ![t].report = "delivered", ![t].reportSent = "none"]
               /\ task' = [task EXCEPT ![t] = UpdateTaskState(@, Edge.delivery_accepted.to)]
      <3>1. Moves(t, "delivered") /\ task[t].state = "candidate_complete"
        BY <1>0, <2>3, UpdateTaskStateRow, EdgeTargets, EdgeSources
        DEF Applies, Moves, TypeOK, TaskState
      <3>2. /\ cand'[t].report = "delivered" /\ cand'[t].reportSent = "none"
            /\ cand'[t].verdict = cand[t].verdict /\ cand'[t].projection = cand[t].projection
            /\ cand'[t].acked = cand[t].acked /\ cand'[t].reconciled = cand[t].reconciled
            /\ cand'[t].evidenceSent = cand[t].evidenceSent /\ cand'[t].judging = cand[t].judging
        BY <1>0, <2>3 DEF TypeOK, CandRow
      <3>3. BindOK(t)' /\ LaunchOK(t)' /\ PauseOK(t)' /\ LossOK(t)' /\ DecisionOK(t)'
        BY <1>0, <2>1, <3>1 DEF Moves, BindOK, LaunchOK, PauseOK, LossOK, DecisionOK, AllowsUnboundPreparation
      <3>4. CandidateOK(t)'
        BY <1>0, <2>1, <2>3, <3>1, <3>2 DEF Moves, CandidateOK
      <3>5. QED
        BY <3>3, <3>4
    <2>4. CASE /\ cand[t].reportSent = "worker" /\ UNCHANGED task
               /\ cand' = [cand EXCEPT ![t].reportSent = "none"]
      <3>1. CandidateOK(t)'
        BY <1>0, <2>1, <2>4 DEF CandidateOK, TypeOK, CandRow
      <3>2. QED
        BY <1>0, <2>1, <2>4, <3>1, CandidateStep
    <2>5. QED
      BY <1>8, <2>2, <2>3, <2>4 DEF MarkComisReportDelivered
  <1>9. CASE SendFails(t)
    <2>1. /\ cand'[t] = [cand[t] EXCEPT !.evidenceSent = "none", !.reportSent = "none"]
          /\ UNCHANGED <<task, term, dec>>
      BY <1>0, <1>9 DEF SendFails, TypeOK
    <2>2. CandidateOK(t)'
      BY <1>0, <2>1 DEF CandidateOK, TypeOK, CandRow
    <2>3. QED
      BY <1>0, <2>1, <2>2, CandidateStep
  <1>10. QED
    BY <1>1, <1>2, <1>3, <1>4, <1>5, <1>6, <1>7, <1>8, <1>9 DEF ServiceStep

-----------------------------------------------------------------------------
(* Restart                                                                 *)

LEMMA RestartInv ==
  ASSUME IInv, ReconcileStartup, NEW t \in Tasks
  PROVE  TaskInv(t)'
  <1> USE DEF TaskInv
  <1>0. TypeOK /\ TaskInv(t)
    BY DEF IInv
  <1>1. \/ task'[t] = task[t]
        \/ Moves(t, "unknown") /\ task[t].state \in RuntimeSensitiveState
    <2>1. ReconciledEdge.unresolved = "unknown"
      BY DEF ReconciledEdge
    <2>2. \/ task'[t] = task[t]
          \/ /\ task'[t] = UpdateTaskState(task[t], "unknown")
             /\ task[t].state \in RuntimeSensitiveState
      BY <2>1 DEF ReconcileStartup
    <2>3. task[t] \in TaskRow /\ "unknown" \in TaskState
      BY <1>0 DEF TypeOK, TaskState
    <2>4. QED
      BY <2>2, <2>3, UpdateTaskStateRow DEF Moves
  <1>2. /\ term'[t].launch = term[t].launch /\ term'[t].ack = term[t].ack
        /\ term'[t].session = term[t].session /\ term'[t].running = term[t].running
        /\ term'[t].posture = term[t].posture
        /\ \/ term'[t].latest = term[t].latest
           \/ /\ term[t].session # NoSession
              /\ term'[t].latest = term[t].posture[term[t].session]
    BY <1>0 DEF ReconcileStartup, TypeOK, TermRow
  <1>3. dec'[t] = dec[t] /\ cand'[t] = [cand[t] EXCEPT !.judging = FALSE, !.evidenceSent = "none",
                                                        !.reportSent = "none"]
    BY DEF ReconcileStartup
  <1>4. BindOK(t)' /\ LaunchOK(t)' /\ PauseOK(t)'
    BY <1>0, <1>1, <1>2 DEF BindOK, LaunchOK, PauseOK, Moves, AllowsUnboundPreparation
  <1>5. LossOK(t)'
    <2>1. LossOK(t) /\ term[t].session \in Sessions \cup {NoSession}
      BY <1>0 DEF TypeOK, TermRow
    <2>2. ASSUME term[t].session # NoSession
          PROVE  term[t].posture[term[t].session] # "lost"
      BY <1>0, <2>1, <2>2 DEF TypeOK, TermRow, Settled
    <2>3. QED
      BY <1>2, <2>1, <2>2 DEF LossOK
  <1>6. DecisionOK(t)'
    BY <1>0, <1>1, <1>3 DEF DecisionOK, Moves
  <1>7. CandidateOK(t)'
    BY <1>0, <1>1, <1>3 DEF CandidateOK, Moves, RuntimeSensitiveState, TypeOK, CandRow
  <1>8. QED
    BY <1>4, <1>5, <1>6, <1>7

-----------------------------------------------------------------------------
(* The theorems                                                            *)

LEMMA InitInv == Init => IInv
  <1>1. ASSUME Init, NEW t \in Tasks
        PROVE  TaskInv(t)
    BY <1>1, ConstantsAssumption
    DEF Init, TaskInv, BindOK, LaunchOK, PauseOK, LossOK, DecisionOK, CandidateOK, Publications
  <1>2. QED
    BY <1>1, InitTypeOK DEF IInv

LEMMA NextInv == IInv /\ [Next]_vars => IInv'
  <1> SUFFICES ASSUME IInv, [Next]_vars
               PROVE  IInv'
    OBVIOUS
  <1>0. TypeOK /\ \A u \in Tasks : TaskInv(u)
    BY DEF IInv
  <1>1. TypeOK'
    BY <1>0, TypeStep
  <1>2. ASSUME NEW u \in Tasks
        PROVE  TaskInv(u)'
    <2>1. CASE UNCHANGED vars
      BY <1>0, <2>1, UntouchedInv DEF Untouched, vars
    <2>2. CASE ReconcileStartup
      BY <2>2, RestartInv
    <2>3. ASSUME NEW t \in Tasks,
                 WorkerStep(t) \/ HostStep(t) \/ OperatorStep(t) \/ ServiceStep(t)
          PROVE  TaskInv(u)'
      <3>1. CASE u = t
        BY <2>3, <3>1, WorkerInv, HostInv, OperatorInv, ServiceInv
      <3>2. CASE u # t
        BY <1>0, <2>3, <3>2, OthersUntouched, UntouchedInv
      <3>3. QED
        BY <3>1, <3>2
    <2>4. QED
      BY <2>1, <2>2, <2>3 DEF Next
  <1>3. QED
    BY <1>1, <1>2 DEF IInv

\* The inductive invariant holds in every reachable state.
THEOREM Inductive == Spec => []IInv
  BY InitInv, NextInv, PTL DEF Spec

\* Host authority is all or nothing for every task the service ever holds.
THEOREM BindingSafe == Spec => []BindingDiscipline
  <1>1. IInv => BindingDiscipline
    BY DEF IInv, TaskInv, BindOK, BindingDiscipline
  <1>2. QED
    BY <1>1, Inductive, PTL

\* No production worker counts as working on one half of its launch evidence,
\* and the evidence that a terminal settled survives every late or repeated
\* loss.
THEOREM TerminalSafe == Spec => []TerminalEvidence
  <1>1. IInv => LaunchEvidence
    BY DEF IInv, TaskInv, LaunchOK, LaunchEvidence, IsFixture
  <1>2. IInv => LossNeverUnsettles
    BY DEF IInv, TaskInv, LossOK, LossNeverUnsettles
  <1>3. QED
    BY <1>1, <1>2, Inductive, PTL DEF TerminalEvidence

\* A resumed generation never finds its predecessor's pause request, and a
\* task waits for a decision only while one it asked is unresolved.
THEOREM RequestsSafe == Spec => []StandingRequestsAreCurrent
  <1>1. IInv => PausedCarriesNoRequest
    BY DEF IInv, TaskInv, PauseOK, PausedCarriesNoRequest
  <1>2. IInv => AwaitedDecisionIsUnresolved
    BY DEF IInv, TaskInv, DecisionOK, AwaitedDecisionIsUnresolved
  <1>3. QED
    BY <1>1, <1>2, Inductive, PTL DEF StandingRequestsAreCurrent

\* From its origin to its delivery a candidate has one origin, is final once
\* accepted, is delivered only on acknowledged evidence, and the host's
\* acknowledgement and the task state agree.
THEOREM CandidateSafe == Spec => []CandidateHistory
  <1>1. ASSUME IInv, NEW t \in Tasks
        PROVE  CandidateOK(t)
    BY <1>1 DEF IInv, TaskInv
  <1>2. IInv => CandidateStages
    BY <1>1 DEF CandidateOK, CandidateStages, Published, AllAcknowledged
  <1>3. IInv => OneCandidateOrigin /\ AcceptedCandidateIsFinal
    BY <1>1 DEF CandidateOK, OneCandidateOrigin, AcceptedCandidateIsFinal
  <1>4. IInv => DeliveredIsProven /\ DeliveryAgreement
    BY <1>1 DEF CandidateOK, DeliveredIsProven, DeliveryAgreement, Published, AllAcknowledged
  <1>5. QED
    BY <1>2, <1>3, <1>4, Inductive, PTL DEF CandidateHistory

-----------------------------------------------------------------------------
(* What no step does to a settled or an unknown task                       *)

\* The two action properties of one task.
Rests(t) ==
  /\ task[t].state \in {"delivered", "failed", "cancelled"} => task'[t].state = task[t].state
  /\ task[t].state = "unknown" =>
       /\ task'[t].state \in {"unknown", "cancelled", "validating"}
       /\ task'[t].state = "validating" => ~RecoveryHistoryExists(t)

LEMMA WorkerRests ==
  ASSUME TypeOK, NEW t \in Tasks, WorkerStep(t)
  PROVE  Rests(t)
  <1>1. task[t].state \notin {"delivered", "failed", "cancelled", "unknown"}
    BY EdgeSources, ReportEffect
    DEF WorkerStep, CommitWorkerLaunchAcknowledgement, ReportProgress, ReportBlocked, ReportPaused,
        ReportFailed, ReportCandidateComplete, ReportDecision, ReportResolution, Applies
  <1>2. QED
    BY <1>1 DEF Rests

LEMMA HostRests ==
  ASSUME TypeOK, NEW t \in Tasks, HostStep(t)
  PROVE  Rests(t)
  <1>1. CASE CommitManagedRunActivation(t)
    BY <1>1 DEF CommitManagedRunActivation, Rests
  <1>2. ASSUME NEW reapSafe \in BOOLEAN, CommitManagedRunAbandon(t, reapSafe)
        PROVE  Rests(t)
    BY <1>2, EdgeSources DEF CommitManagedRunAbandon, Applies, Rests
  <1>3. CASE CommitManagedRunCancel(t)
    BY <1>3, TouchMoves, EdgeSources DEF CommitManagedRunCancel, Applies, Moves, Rests
  <1>4. ASSUME NEW s \in Sessions, NEW tr \in Observed, CommitTerminalEvent(t, s, tr)
        PROVE  Rests(t)
    <2>1. Moves(t, task[t].state) \/ task[t].state \in TerminalLossChangesTask
      BY <1>4, TouchMoves DEF CommitTerminalEvent, TerminalLossChangesTask
    <2>2. QED
      BY <2>1 DEF Moves, TerminalLossChangesTask, Rests
  <1>5. QED
    BY <1>1, <1>2, <1>3, <1>4 DEF HostStep

LEMMA OperatorRests ==
  ASSUME TypeOK, NEW t \in Tasks, OperatorStep(t)
  PROVE  Rests(t)
  <1>1. CASE \E p \in Profiles : CommitPreparedTask(t, p) \/ CommitTaskReplace(t, p)
    BY <1>1 DEF CommitPreparedTask, CommitTaskReplace, Rests
  <1>2. CASE CommitTaskPauseRequest(t)
    BY <1>2 DEF CommitTaskPauseRequest, TaskHoldsAWorker, Rests
  <1>3. CASE CommitTaskResume(t) \/ CommitTaskHandback(t)
    BY <1>3 DEF CommitTaskResume, CommitTaskHandback, Rests
  <1>4. CASE CommitTaskVerify(t)
    BY <1>4, EdgeSources DEF CommitTaskVerify, Applies, Rests
  <1>5. CASE CommitTaskCancel(t)
    <2>1. CASE task[t].state = "cancelled" /\ Touch(t)
      BY <2>1, TouchMoves DEF Moves, Rests
    <2>2. CASE /\ Applies(t, "cancel_requested") \/ task[t].state = "unknown"
               /\ task' = [task EXCEPT ![t] =
                            [UpdateTaskState(@, "cancelled") EXCEPT !.pause = FALSE]]
      <3>1. task'[t].state = "cancelled"
        BY <2>2, UpdateTaskStateRow DEF TypeOK, TaskState, TaskRow
      <3>2. QED
        BY <2>2, <3>1, EdgeSources DEF Applies, Rests
    <2>3. QED
      BY <1>5, <2>1, <2>2 DEF CommitTaskCancel
  <1>6. CASE CommitTaskCandidateReconciliation(t)
    <2>1. /\ task[t].state = "unknown" /\ ~RecoveryHistoryExists(t)
          /\ task' = [task EXCEPT ![t] = UpdateTaskState(@, "validating")]
      BY <1>6 DEF CommitTaskCandidateReconciliation, ReconciledEdge
    <2>2. task'[t].state = "validating"
      BY <2>1, UpdateTaskStateRow DEF TypeOK, TaskState
    <2>3. QED
      BY <2>1, <2>2 DEF Rests
  <1>7. CASE \E k \in DecisionKeys : CommitDecisionResponse(t, k) \/ CommitDecisionCancellation(t, k)
    <2>1. Moves(t, task[t].state)
      BY <1>7, TouchMoves DEF CommitDecisionResponse, CommitDecisionCancellation
    <2>2. QED
      BY <2>1 DEF Moves, Rests
  <1>8. QED
    BY <1>1, <1>2, <1>3, <1>4, <1>5, <1>6, <1>7 DEF OperatorStep

LEMMA ServiceRests ==
  ASSUME TypeOK, NEW t \in Tasks, ServiceStep(t)
  PROVE  Rests(t)
  <1>1. \/ UNCHANGED task
        \/ task[t].state \in {"ready", "validating", "candidate_complete"}
    BY EdgeSources
    DEF ServiceStep, CommitTaskStart, ValidateTask, ValidationEnds,
       RecordValidationProcess, SettleValidationProcess,
        CommitCandidateEvidence, EvidenceExpires, NextComisEvidence, MarkComisEvidenceDelivered,
        NextComisReport, MarkComisReportDelivered, SendFails, Applies,
        CompletesReconciledDelivery
  <1>2. QED
    BY <1>1 DEF Rests

LEMMA NextRests ==
  ASSUME TypeOK, [Next]_vars, NEW t \in Tasks
  PROVE  Rests(t)
  <1>1. CASE UNCHANGED vars
    BY <1>1 DEF vars, Rests
  <1>2. CASE ReconcileStartup
    BY <1>2 DEF ReconcileStartup, RuntimeSensitiveState, Rests
  <1>3. ASSUME NEW u \in Tasks,
               WorkerStep(u) \/ HostStep(u) \/ OperatorStep(u) \/ ServiceStep(u)
        PROVE  Rests(t)
    <2>1. CASE u = t
      BY <1>3, <2>1, WorkerRests, HostRests, OperatorRests, ServiceRests
    <2>2. CASE u # t
      <3>1. Untouched(t)
        BY <1>3, <2>2, OthersUntouched
      <3>2. QED
        BY <3>1 DEF Untouched, Rests
    <2>3. QED
      BY <2>1, <2>2
  <1>4. QED
    BY <1>1, <1>2, <1>3 DEF Next

\* No late event, report, acknowledgement or restart moves a settled task, and
\* an unknown task is never resumed: it is cancelled, or validated once.
THEOREM NeverReturn == Spec => TasksNeverReturn
  <1>1. TypeOK /\ [Next]_vars =>
          [\A t \in Tasks : task[t].state \in {"delivered", "failed", "cancelled"}
                              => task'[t].state = task[t].state]_vars
    BY NextRests DEF Rests
  <1>2. TypeOK /\ [Next]_vars =>
          [\A t \in Tasks : task[t].state = "unknown" =>
             /\ task'[t].state \in {"unknown", "cancelled", "validating"}
             /\ task'[t].state = "validating" => ~RecoveryHistoryExists(t)]_vars
    BY NextRests DEF Rests
  <1>3. QED
    BY <1>1, <1>2, TypeCorrect, PTL
    DEF Spec, TasksNeverReturn, SettledTasksStay, UnknownNeverResumes

-----------------------------------------------------------------------------
(* TaskLifecycle implements TaskMachine.  The mapping reads only the       *)
(* states, so the proof asks of each action where it may start and where   *)
(* it leads.  The inductive invariant is needed where a guard alone admits *)
(* more than Follows does: a prepared task can neither fail nor be started *)
(* because it is not bound.                                                *)

\* The state of task t stays or moves along Follows.
MovesAlong(t) ==
  task'[t].state = task[t].state \/ task'[t].state \in Follows[task[t].state]

\* The rows of Follows that the lifecycle uses.
LEMMA FollowsTable ==
  /\ Follows["absent"] = {"prepared"}
  /\ Follows["prepared"] = {"ready", "cancelled"}
  /\ Follows["ready"] = {"launching", "paused", "failed", "cancelled"}
  /\ Follows["launching"] = {"working", "failed", "cancelled", "unknown"}
  /\ Follows["working"] = {"awaiting_decision", "blocked", "paused", "validating",
                           "failed", "cancelled", "unknown"}
  /\ Follows["awaiting_decision"] = {"working", "blocked", "paused", "failed", "cancelled",
                                     "unknown"}
  /\ Follows["blocked"] = {"paused", "failed", "cancelled", "unknown"}
  /\ Follows["paused"] = {"ready", "validating", "failed", "cancelled"}
  /\ Follows["validating"] = {"candidate_complete", "failed", "cancelled"}
  /\ Follows["candidate_complete"] = {"delivered", "failed", "cancelled", "unknown"}
  /\ Follows["delivering"] = {"delivered", "failed", "unknown"}
  /\ Follows["reconciling"] = {"unknown"}
  /\ Follows["unknown"] = {"validating", "cancelled"}
  BY DEF Follows

\* Reports lead along Follows.
LEMMA WorkerFollows ==
  ASSUME IInv, NEW t \in Tasks, WorkerStep(t)
  PROVE  MovesAlong(t)
  <1>0. TypeOK /\ TaskInv(t)
    BY DEF IInv
  <1> PICK b \in 1..MaxBrief :
        \/ CommitWorkerLaunchAcknowledgement(t, b)
        \/ ReportProgress(t, b)
        \/ ReportBlocked(t, b)
        \/ ReportPaused(t, b)
        \/ ReportFailed(t, b)
        \/ ReportCandidateComplete(t, b)
        \/ \E k \in DecisionKeys : ReportDecision(t, b, k) \/ ReportResolution(t, b, k)
    BY DEF WorkerStep
  <1>1. CASE CommitWorkerLaunchAcknowledgement(t, b)
    <2>1. task[t].state = "launching" /\ (Take(t, "worker_acknowledged") \/ Touch(t))
      BY <1>1 DEF CommitWorkerLaunchAcknowledgement
    <2>2. Moves(t, "working") \/ Moves(t, "launching")
      BY <1>0, <2>1, TakeMoves, TouchMoves, EdgeTargets DEF TaskState
    <2>3. QED
      BY <2>1, <2>2, FollowsTable DEF Moves, MovesAlong
  <1>2. CASE ReportProgress(t, b)
    <2>1. \/ task[t].state = "launching" /\ Reported(t, "progress")
          \/ /\ task[t].state = "working"
             /\ task' = [task EXCEPT ![t] = UpdateReportedTask(@, "working")]
      BY <1>2 DEF ReportProgress
    <2>2. ReportTransition["progress"] = "worker_acknowledged" /\ "working" \in TaskState
      BY DEF ReportTransition, TaskState
    <2>3. task'[t].state = "working"
      BY <1>0, <2>1, <2>2, ReportedMoves, UpdateReportedTaskRow, EdgeTargets DEF Moves, TypeOK
    <2>4. QED
      BY <2>1, <2>3, FollowsTable DEF MovesAlong
  <1>3. CASE ReportBlocked(t, b)
    BY <1>0, <1>3, ReportEffect, FollowsTable DEF ReportBlocked, Moves, MovesAlong
  <1>4. CASE ReportPaused(t, b)
    <2>1. /\ task[t].state \in {"ready", "working", "awaiting_decision", "blocked"}
          /\ task' = [task EXCEPT ![t] = [UpdateReportedTask(@, "paused") EXCEPT !.pause = FALSE]]
      BY <1>4, EdgeSources DEF ReportPaused, Applies
    <2>2. task'[t].state = "paused"
      BY <1>0, <2>1, UpdateReportedTaskRow DEF TypeOK, TaskState, TaskRow
    <2>3. QED
      BY <2>1, <2>2, FollowsTable DEF MovesAlong
  <1>5. CASE ReportFailed(t, b)
    <2>1. Moves(t, "failed") /\ task[t].bound /\ task[t].state \in Edge["failure_observed"].from
      BY <1>0, <1>5, ReportEffect DEF ReportFailed
    <2>2. task[t].state # "prepared"
      BY <1>0, <2>1 DEF TaskInv, BindOK
    <2>3. QED
      BY <2>1, <2>2, EdgeSources, FollowsTable DEF Moves, MovesAlong
  <1>6. CASE ReportCandidateComplete(t, b)
    BY <1>0, <1>6, ReportEffect, FollowsTable DEF ReportCandidateComplete, Moves, MovesAlong
  <1>7. CASE \E k \in DecisionKeys : ReportDecision(t, b, k) \/ ReportResolution(t, b, k)
    BY <1>0, <1>7, ReportEffect, FollowsTable
    DEF ReportDecision, ReportResolution, Moves, MovesAlong
  <1>8. QED
    BY <1>1, <1>2, <1>3, <1>4, <1>5, <1>6, <1>7

\* Host commands and terminal events lead along Follows.
LEMMA HostFollows ==
  ASSUME IInv, NEW t \in Tasks, HostStep(t)
  PROVE  MovesAlong(t)
  <1>0. TypeOK /\ TaskInv(t)
    BY DEF IInv
  <1>1. CASE CommitManagedRunActivation(t)
    <2>1. task[t].state = "prepared" /\ task'[t].state = "ready"
      BY <1>0, <1>1, UpdateReportedTaskRow DEF CommitManagedRunActivation, TypeOK, TaskState, TaskRow
    <2>2. QED
      BY <2>1, FollowsTable DEF MovesAlong
  <1>2. ASSUME NEW reapSafe \in BOOLEAN, CommitManagedRunAbandon(t, reapSafe)
        PROVE  MovesAlong(t)
    <2>1. PICK edge \in {"preparation_abandoned", "preparation_preserved"} :
            /\ Applies(t, edge)
            /\ task' = [task EXCEPT ![t] = [UpdateTaskState(@, Edge[edge].to)
                                              EXCEPT !.prep = "abandoned"]]
      BY <1>2 DEF CommitManagedRunAbandon
    <2>2. task[t].state = "prepared" /\ Edge[edge].to \in {"prepared", "cancelled"}
      BY <2>1, EdgeSources, EdgeTargets DEF Applies
    <2>3. task'[t].state \in {"prepared", "cancelled"}
      BY <1>0, <2>1, <2>2, UpdateTaskStateRow DEF TypeOK, TaskState, TaskRow
    <2>4. QED
      BY <2>2, <2>3, FollowsTable DEF MovesAlong
  <1>3. CASE CommitManagedRunCancel(t)
    <2>1. \/ task[t].state = "cancelled" /\ Touch(t)
          \/ task[t].state \in Edge["cancel_requested"].from /\ Take(t, "cancel_requested")
      BY <1>3 DEF CommitManagedRunCancel, Applies
    <2>2. Moves(t, "cancelled")
      BY <1>0, <2>1, TakeMoves, TouchMoves, EdgeTargets DEF TaskState
    <2>3. QED
      BY <2>1, <2>2, EdgeSources, FollowsTable DEF Moves, MovesAlong
  <1>4. ASSUME NEW s \in Sessions, NEW tr \in Observed, CommitTerminalEvent(t, s, tr)
        PROVE  MovesAlong(t)
    <2>1. \/ task[t].state \in TerminalLossChangesTask /\ Take(t, "terminal_unavailable")
          \/ task[t].state = "launching" /\ Take(t, "worker_acknowledged")
          \/ Touch(t)
      BY <1>4 DEF CommitTerminalEvent
    <2>2. \/ task[t].state \in TerminalLossChangesTask /\ Moves(t, "unknown")
          \/ task[t].state = "launching" /\ Moves(t, "working")
          \/ Moves(t, task[t].state)
      BY <1>0, <2>1, TakeMoves, TouchMoves, EdgeTargets DEF TaskState
    <2>3. QED
      BY <2>2, FollowsTable DEF TerminalLossChangesTask, Moves, MovesAlong
  <1>5. QED
    BY <1>1, <1>2, <1>3, <1>4 DEF HostStep

\* Operator commands lead along Follows.
LEMMA OperatorFollows ==
  ASSUME IInv, NEW t \in Tasks, OperatorStep(t)
  PROVE  MovesAlong(t)
  <1>0. TypeOK /\ TaskInv(t)
    BY DEF IInv
  <1>1. ASSUME NEW p \in Profiles, CommitPreparedTask(t, p)
        PROVE  MovesAlong(t)
    <2>1. task[t].state = "absent" /\ task'[t].state = "prepared"
      BY <1>0, <1>1 DEF CommitPreparedTask, TypeOK, TaskRow
    <2>2. QED
      BY <2>1, FollowsTable DEF MovesAlong
  <1>2. ASSUME NEW p \in Profiles, CommitTaskReplace(t, p)
        PROVE  MovesAlong(t)
    <2>1. UpdateTaskState(task[t], "ready") \in TaskRow /\ UpdateTaskState(task[t], "ready").state = "ready"
      BY <1>0, UpdateTaskStateRow DEF TypeOK, TaskState
    <2>2. /\ task[t].state = "paused"
          /\ task' = [task EXCEPT ![t] = [UpdateTaskState(@, "ready")
                                            EXCEPT !.profile = p, !.brief = task[t].brief + 1]]
      BY <1>2 DEF CommitTaskReplace, ReconciledEdge
    <2>3. task'[t].state = "ready"
      BY <1>0, <2>1, <2>2 DEF TypeOK, TaskRow
    <2>4. QED
      BY <2>2, <2>3, FollowsTable DEF MovesAlong
  <1>3. CASE CommitTaskPauseRequest(t)
    <2>1. UpdateTaskState(task[t], task[t].state) \in TaskRow
          /\ UpdateTaskState(task[t], task[t].state).state = task[t].state
      BY <1>0, UpdateTaskStateRow DEF TypeOK, TaskRow
    <2>2. QED
      BY <1>0, <1>3, <2>1 DEF CommitTaskPauseRequest, TypeOK, TaskRow, MovesAlong
  <1>4. CASE CommitTaskResume(t)
    <2>1. task[t].state = "paused" /\ Moves(t, "ready")
      BY <1>0, <1>4, TakeMoves, EdgeTargets DEF CommitTaskResume, TaskState
    <2>2. QED
      BY <2>1, FollowsTable DEF Moves, MovesAlong
  <1>5. CASE CommitTaskHandback(t)
    BY <1>0, <1>5, ReportEffect, FollowsTable DEF CommitTaskHandback, Moves, MovesAlong
  <1>6. CASE CommitTaskVerify(t)
    <2>1. \/ task[t].state = "validating" /\ Touch(t)
          \/ task[t].state \in {"working", "paused"} /\ Take(t, "validation_started")
      BY <1>6, EdgeSources DEF CommitTaskVerify, Applies
    <2>2. Moves(t, "validating")
      BY <1>0, <2>1, TakeMoves, TouchMoves, EdgeTargets DEF TaskState
    <2>3. QED
      BY <2>1, <2>2, FollowsTable DEF Moves, MovesAlong
  <1>7. CASE CommitTaskCancel(t)
    <2>1. \/ task[t].state = "cancelled" /\ Touch(t)
          \/ /\ task[t].state \in Edge["cancel_requested"].from \cup {"unknown"}
             /\ task' = [task EXCEPT ![t] = [UpdateTaskState(@, "cancelled") EXCEPT !.pause = FALSE]]
      BY <1>7 DEF CommitTaskCancel, Applies
    <2>2. UpdateTaskState(task[t], "cancelled") \in TaskRow
          /\ UpdateTaskState(task[t], "cancelled").state = "cancelled"
      BY <1>0, UpdateTaskStateRow DEF TypeOK, TaskState
    <2>3. CASE task[t].state = "cancelled" /\ Touch(t)
      BY <1>0, <2>3, TouchMoves DEF Moves, MovesAlong
    <2>4. CASE /\ task[t].state \in Edge["cancel_requested"].from \cup {"unknown"}
               /\ task' = [task EXCEPT ![t] = [UpdateTaskState(@, "cancelled") EXCEPT !.pause = FALSE]]
      <3>1. task'[t].state = "cancelled"
        BY <1>0, <2>2, <2>4 DEF TypeOK, TaskRow
      <3>2. QED
        BY <2>4, <3>1, EdgeSources, FollowsTable DEF MovesAlong
    <2>5. QED
      BY <2>1, <2>3, <2>4
  <1>8. CASE CommitTaskCandidateReconciliation(t)
    <2>1. /\ task[t].state = "unknown"
          /\ task' = [task EXCEPT ![t] = UpdateTaskState(@, "validating")]
      BY <1>8 DEF CommitTaskCandidateReconciliation, ReconciledEdge
    <2>2. task'[t].state = "validating"
      BY <1>0, <2>1, UpdateTaskStateRow DEF TypeOK, TaskState
    <2>3. QED
      BY <2>1, <2>2, FollowsTable DEF MovesAlong
  <1>9. ASSUME NEW k \in DecisionKeys,
               CommitDecisionResponse(t, k) \/ CommitDecisionCancellation(t, k)
        PROVE  MovesAlong(t)
    BY <1>0, <1>9, TouchMoves
    DEF CommitDecisionResponse, CommitDecisionCancellation, Moves, MovesAlong
  <1>10. QED
    BY <1>1, <1>2, <1>3, <1>4, <1>5, <1>6, <1>7, <1>8, <1>9 DEF OperatorStep

\* What the service does on its own leads along Follows.
LEMMA ServiceFollows ==
  ASSUME IInv, NEW t \in Tasks, ServiceStep(t)
  PROVE  MovesAlong(t)
  <1>0. TypeOK /\ TaskInv(t)
    BY DEF IInv
  <1>1. CASE CommitTaskStart(t)
    <2>1. task[t].state = "ready" /\ Moves(t, "launching")
      BY <1>0, <1>1, TakeMoves, EdgeSources, EdgeTargets DEF CommitTaskStart, Applies, TaskState
    <2>2. QED
      BY <2>1, FollowsTable DEF Moves, MovesAlong
  <1>2. ASSUME NEW v \in {"unknown", "rejected", "accepted"}, CommitCandidateEvidence(t, v)
        PROVE  MovesAlong(t)
    <2>1. PICK next \in {"candidate_complete", "failed", "validating"} :
            task' = [task EXCEPT ![t] = [UpdateTaskState(@, next) EXCEPT !.judged = TRUE]]
      BY <1>2 DEF CommitCandidateEvidence
    <2>2. UpdateTaskState(task[t], next) \in TaskRow /\ UpdateTaskState(task[t], next).state = next
      BY <1>0, UpdateTaskStateRow DEF TypeOK, TaskState
    <2>3. task[t].state = "validating" /\ task'[t].state = next
      BY <1>0, <1>2, <2>1, <2>2 DEF CommitCandidateEvidence, TypeOK, TaskRow
    <2>4. QED
      BY <2>3, FollowsTable DEF MovesAlong
  <1>3. CASE \/ \E p \in Publications : MarkComisEvidenceDelivered(t, p)
             \/ MarkComisReportDelivered(t)
    <2>1. \/ UNCHANGED task
          \/ /\ task[t].state = "candidate_complete"
             /\ task' = [task EXCEPT ![t] = UpdateTaskState(@, "delivered")]
      BY <1>3, EdgeSources, EdgeTargets
      DEF MarkComisEvidenceDelivered, MarkComisReportDelivered, CompletesReconciledDelivery, Applies
    <2>2. \/ UNCHANGED task
          \/ task[t].state = "candidate_complete" /\ task'[t].state = "delivered"
      BY <1>0, <2>1, UpdateTaskStateRow DEF TypeOK, TaskState
    <2>3. QED
      BY <2>2, FollowsTable DEF MovesAlong
  <1>4. CASE \/ ValidateTask(t) \/ ValidationEnds(t)
             \/ RecordValidationProcess(t) \/ SettleValidationProcess(t) \/ EvidenceExpires(t)
             \/ \E p \in Publications : NextComisEvidence(t, p)
             \/ \E source \in {"worker", "reconciliation"} : NextComisReport(t, source)
             \/ SendFails(t)
    BY <1>4 DEF ValidateTask, ValidationEnds,
       RecordValidationProcess, SettleValidationProcess, EvidenceExpires,
       NextComisEvidence, NextComisReport, SendFails, MovesAlong
  <1>5. QED
    BY <1>1, <1>2, <1>3, <1>4 DEF ServiceStep

\* A restart leads along Follows.
LEMMA RestartFollows ==
  ASSUME IInv, ReconcileStartup, NEW t \in Tasks
  PROVE  MovesAlong(t)
  <1>1. TypeOK
    BY DEF IInv
  <1>2. \/ task'[t] = task[t]
        \/ /\ task'[t] = UpdateTaskState(task[t], "unknown")
           /\ task[t].state \in RuntimeSensitiveState
    BY DEF ReconcileStartup, ReconciledEdge
  <1>3. \/ task'[t] = task[t]
        \/ task'[t].state = "unknown" /\ task[t].state \in RuntimeSensitiveState
    BY <1>1, <1>2, UpdateTaskStateRow DEF TypeOK, TaskState
  <1>4. QED
    BY <1>3, FollowsTable DEF RuntimeSensitiveState, MovesAlong

LEMMA StepFollows ==
  ASSUME IInv, [Next]_vars, NEW t \in Tasks
  PROVE  MovesAlong(t)
  <1>1. CASE UNCHANGED vars
    BY <1>1 DEF vars, MovesAlong
  <1>2. CASE ReconcileStartup
    BY <1>2, RestartFollows
  <1>3. ASSUME NEW u \in Tasks,
               WorkerStep(u) \/ HostStep(u) \/ OperatorStep(u) \/ ServiceStep(u)
        PROVE  MovesAlong(t)
    <2>1. CASE u = t
      BY <1>3, <2>1, WorkerFollows, HostFollows, OperatorFollows, ServiceFollows
    <2>2. CASE u # t
      <3>1. Untouched(t)
        BY <1>3, <2>2, OthersUntouched DEF IInv
      <3>2. QED
        BY <3>1 DEF Untouched, MovesAlong
    <2>3. QED
      BY <2>1, <2>2
  <1>4. QED
    BY <1>1, <1>2, <1>3 DEF Next

\* Every behaviour of the reports, terminals, operators, forwarders and
\* restarts is, seen through the task states, a behaviour of TaskMachine.
THEOREM LifecycleImplementsMachine == Spec => ImplementsTaskMachine
  <1>1. Init => Machine!Init
    BY DEF Init, Machine!Init
  <1>2. IInv /\ IInv' /\ [Next]_vars => [Machine!Next]_([t \in Tasks |-> task[t].state])
    <2> SUFFICES ASSUME IInv, IInv', [Next]_vars
                 PROVE  Machine!Next
      OBVIOUS
    <2>1. \A t \in Tasks : MovesAlong(t)
      BY StepFollows
    <2>2. \A t \in Tasks : task'[t].state \in TaskState \cup {"absent"}
      BY DEF IInv, TypeOK, TaskRow
    <2>3. [t \in Tasks |-> task[t].state]' \in [Tasks -> TaskState \cup {"absent"}]
      BY <2>2
    <2>4. \A t \in Tasks : \/ ([u \in Tasks |-> task[u].state]')[t] = [u \in Tasks |-> task[u].state][t]
                           \/ ([u \in Tasks |-> task[u].state]')[t] \in Follows[[u \in Tasks |-> task[u].state][t]]
      BY <2>1 DEF MovesAlong
    <2>5. Machine!Follows = Follows /\ Machine!TaskState = TaskState
      BY DEF Machine!Follows, Machine!TaskState, Follows, TaskState
    <2>6. QED
      BY <2>3, <2>4, <2>5 DEF Machine!Next
  <1>3. QED
    BY <1>1, <1>2, Inductive, PTL DEF Spec, ImplementsTaskMachine, Machine!Spec
=============================================================================
