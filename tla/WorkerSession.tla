---------------------------- MODULE WorkerSession ---------------------------
(***************************************************************************)
(* One task and its worker, seen through the service's calls: the task is  *)
(* prepared, activated and launched; the worker acknowledges its launch,   *)
(* reports and awaits decisions through the task's socket; and a paused    *)
(* task is relaunched with the same worker or with another.                *)
(*                                                                         *)
(* Each of these commits to the store and then, in a separate step that    *)
(* may fail or never happen, changes what the socket's server answers.     *)
(* The reporter handles every connection in a goroutine of its own, which  *)
(* reads the server's binding first and calls the store later.             *)
(***************************************************************************)
EXTENDS Naturals, Sequences, FiniteSets, TaskStates

CONSTANTS
    Callers,          \* concurrent host and operator calls
    MaxReady,         \* ready generations of the task
    MaxInstructions,  \* steering instructions queued
    MaxHandlers,      \* connections being served at one time
    MaxFaults         \* crashes, timeouts, failed steps and lost answers

ASSUME SessionBounds == MaxReady \in Nat \ {0} /\ MaxHandlers \in Nat \ {0}

VARIABLES
    intent,    \* durable: the task preparation intent is recorded
    worktree,  \* durable: "absent" | "stranded" (whatever cannot be adopted: a
               \*   branch without its target, a partial or a locked target)
               \*   | "base" | "worked" (the worker changed it)
    task,      \* durable: state, brief revision, ready generation, binding
    term,      \* durable: the terminal binding of the last launch it saw
    ledger,    \* durable: the completed launch acknowledgement operations
    launched,  \* durable: the ready generations with an acknowledgement row
    steering,  \* durable: instructions queued and not delivered
    service,   \* "up" | "down"
    call,      \* what each caller is doing
    server,    \* the coordinator's entry and its RuntimeServer
    handlers,  \* connections read but not answered
    worker,    \* the live worker process
    offered,   \* the last generation whose activation or relaunch succeeded
    steered, faults,
    shown,     \* history: the instructions rendered to a worker, in order
    heard,     \* history: whose reports were accepted under the present brief
    spoke,     \* history: the generations whose worker's echo was recorded
    pinned,    \* history: the first generation of the present brief
    unproven   \* history: the generations left though no terminal of theirs
               \*   was recorded, on the end of an earlier one's

durable == <<intent, worktree, task, term, ledger, launched, steering>>
history == <<shown, heard, spoke, pinned, unproven>>
memory == <<service, call, server, handlers>>
vars == <<durable, memory, worker, offered, steered, faults, history>>

(* Operation identities of launch acknowledgements are generations: the     *)
(* first is fixed for the task, a relaunch's derives from its ready state  *)
(* version.                                                                *)
FirstLaunch == 1
RelaunchOperation(generation) == generation

Idle == [stage |-> "idle", generation |-> 0, brief |-> 0]
Down == [up |-> FALSE, brief |-> 0, operation |-> 0, recovered |-> FALSE]
NoWorker == [generation |-> 0, stage |-> "none", told |-> FALSE]
Waiting == {"acknowledging", "reporting"}

Init ==
    /\ intent = FALSE /\ worktree = "absent"
    /\ task = [state |-> "absent", brief |-> 1, ready |-> 0, bound |-> FALSE]
    /\ term = [launch |-> 0, latest |-> "none", running |-> FALSE]
    /\ ledger = {} /\ launched = {} /\ steering = <<>>
    /\ service = "up" /\ call = [c \in Callers |-> Idle]
    /\ server = Down /\ handlers = {} /\ worker = NoWorker
    /\ offered = 0 /\ steered = 0 /\ faults = 0
    /\ shown = <<>> /\ heard = {} /\ spoke = {} /\ pinned = 1 /\ unproven = {}

-----------------------------------------------------------------------------
Applies(edge) == task.state \in Edge[edge].from
Fault == faults < MaxFaults /\ faults' = faults + 1
Begin(c) == service = "up" /\ call[c].stage = "idle"
Stage(c, stage) == call' = [call EXCEPT ![c].stage = stage]
Return(c) == call' = [call EXCEPT ![c] = Idle]

-----------------------------------------------------------------------------
(* PrepareTask.  Every caller here presents the same operation; the host    *)
(* repeats it until it has an answer.                                      *)

RecordTaskPreparationIntent == intent' = TRUE

\* The transaction that inserts the task deletes the intent it came from.
ConsumeTaskPreparationIntent == intent /\ intent' = FALSE

PrepareTask(c) ==
    /\ Begin(c) /\ task.state = "absent"
    /\ RecordTaskPreparationIntent
    /\ Stage(c, "intended")
    /\ UNCHANGED <<worktree, task, term, ledger, launched, steering, service, server,
                   handlers, worker, offered, steered, faults, history>>

(* An existing target is adopted only while it is exactly the pinned base; *)
(* anything else is preserved and refuses every retry.                     *)
AdoptPreparedWorktree == worktree \in {"absent", "base"}

PrepareWorktree(c) ==
    /\ call[c].stage = "intended"
    /\ IF AdoptPreparedWorktree
       THEN worktree' = "base" /\ Stage(c, "workspaced")
       ELSE Return(c) /\ UNCHANGED worktree
    /\ UNCHANGED <<intent, task, term, ledger, launched, steering, service, server,
                   handlers, worker, offered, steered, faults, history>>

\* `git worktree add` fails, or is killed, after it made the branch.
WorktreeAddFails(c) ==
    /\ Fault
    /\ call[c].stage = "intended" /\ worktree = "absent"
    /\ worktree' = "stranded" /\ Return(c)
    /\ UNCHANGED <<intent, task, term, ledger, launched, steering, service, server,
                   handlers, worker, offered, steered, history>>

(* The entry answers a replay of the request that made it and no other: a  *)
(* recovered entry carries another operation, a replaced one another brief.*)
PrepareRuntimeAttachment(c) ==
    /\ call[c].stage = "workspaced"
    /\ \/ /\ ~server.up
          /\ server' = [Down EXCEPT !.up = TRUE, !.brief = 1]
          /\ Stage(c, "attached")
       \/ /\ server.up
          /\ IF server.brief = 1 /\ ~server.recovered THEN Stage(c, "attached") ELSE Return(c)
          /\ UNCHANGED server
    /\ UNCHANGED <<durable, service, handlers, worker, offered, steered, faults, history>>

\* The commit consumes the intent; a second commit is a replay.
CommitPreparedTask(c) ==
    /\ call[c].stage = "attached"
    /\ IF task.state = "absent"
       THEN task' = [task EXCEPT !.state = "prepared"] /\ ConsumeTaskPreparationIntent
       ELSE UNCHANGED <<task, intent>>
    /\ Return(c)
    /\ UNCHANGED <<worktree, term, ledger, launched, steering, service, server, handlers,
                   worker, offered, steered, faults, history>>

-----------------------------------------------------------------------------
(* ActivateManagedRun: the commit joins the run to the task, the bind tells *)
(* the socket's server which launch to expect.  A replay binds again; with  *)
(* a bound server that changes nothing.                                    *)


ActivateManagedRun(c) ==
    /\ Begin(c) /\ task.state # "absent"
    /\ \/ /\ Applies("bind_acknowledged")
          /\ task' = [task EXCEPT !.state = "ready", !.ready = 1, !.bound = TRUE]
       \/ task.bound /\ server.operation = 0 /\ UNCHANGED task
    /\ Stage(c, "binding")
    /\ UNCHANGED <<intent, worktree, term, ledger, launched, steering, service, server,
                   handlers, worker, offered, steered, faults, history>>

\* A server already bound to a later launch refuses the activation's replay.
BindRuntimeAttachment(c) ==
    /\ call[c].stage = "binding"
    /\ server' = IF server.up /\ server.operation = 0
                 THEN [server EXCEPT !.operation = FirstLaunch]
                 ELSE server
    /\ offered' = IF server'.operation = FirstLaunch THEN FirstLaunch ELSE offered
    /\ Return(c)
    /\ UNCHANGED <<durable, service, handlers, worker, steered, faults, history>>

AbandonManagedRun(c) ==
    /\ Begin(c) /\ Applies("preparation_abandoned")
    /\ task' = [task EXCEPT !.state = Edge["preparation_abandoned"].to]
    /\ UNCHANGED <<intent, worktree, term, ledger, launched, steering, memory, worker,
                   offered, steered, faults, history>>

-----------------------------------------------------------------------------
(* ResumeTask and ReplaceWorker.  Both inspect the paused worktree and may   *)
(* refuse it (a resume wants the tree the worker left); the store checks   *)
(* everything else again, readies a new generation, and the server is then *)
(* bound to it.                                                            *)

\* Whichever launch the binding is of: nothing in it says.
NothingIsStillRunning == term.launch # 0 /\ term.latest \in Settled

Readied(c, brief) ==
    /\ Begin(c) /\ Applies("resumed") /\ NothingIsStillRunning /\ task.ready < MaxReady
    /\ task' = [task EXCEPT !.state = Edge["resumed"].to, !.ready = @ + 1, !.brief = brief]
    /\ call' = [call EXCEPT ![c] = [stage |-> "rebinding", generation |-> task.ready + 1,
                                    brief |-> brief]]
    /\ unproven' = IF term.launch = task.ready THEN unproven ELSE unproven \cup {task.ready}

ResumeTask(c) ==
    /\ Readied(c, task.brief)
    /\ UNCHANGED <<intent, worktree, term, ledger, launched, steering, service, server, handlers,
                   worker, offered, steered, faults, shown, heard, spoke, pinned>>

\* A replacement pins a new brief: the earlier worker's reports are stale.
ReplaceWorker(c) ==
    /\ Readied(c, task.brief + 1) /\ heard' = {} /\ pinned' = task.ready + 1
    /\ UNCHANGED <<intent, worktree, term, ledger, launched, steering, service, server, handlers,
                   worker, offered, steered, faults, shown, spoke>>

\* The replay reads the task as it is now, and rebinds while it is ready.
ReplayRelaunch(c) ==
    /\ Begin(c) /\ task.state = "ready" /\ task.ready > FirstLaunch
    /\ server.operation # RelaunchOperation(task.ready) \/ server.brief # task.brief
    /\ call' = [call EXCEPT ![c] = [stage |-> "rebinding", generation |-> task.ready,
                                    brief |-> task.brief]]
    /\ UNCHANGED <<durable, service, server, handlers, worker, offered, steered, faults, history>>

\* RebindLaunch changes the operation only: the brief it is given is the same.
RebindGeneration(generation, brief) ==
    [server EXCEPT !.operation = RelaunchOperation(generation), !.brief = brief]

\* Both need a bound server; neither asks whether a later launch is bound.
RebindRuntimeAttachmentLaunch(c) ==
    /\ call[c].stage = "rebinding"
    /\ server' = IF server.up /\ server.operation # 0
                 THEN RebindGeneration(call[c].generation, call[c].brief)
                 ELSE server
    /\ offered' = IF server.up /\ server.operation # 0 THEN call[c].generation ELSE offered
    /\ Return(c)
    /\ UNCHANGED <<durable, service, handlers, worker, steered, faults, history>>

\* A dependency fails, or the caller's context ends, between two steps.
CallFails(c) ==
    /\ Fault
    /\ call[c].stage # "idle"
    /\ Return(c)
    /\ UNCHANGED <<durable, service, server, handlers, worker, offered, steered, history>>

-----------------------------------------------------------------------------
(* The terminal.  Comis starts the worker of a ready task, one at a time,   *)
(* and reports its terminal's events, a created one until it is recorded;  *)
(* the launch supervisor turns the created event of a ready task into      *)
(* launch intent before it records the event.  An event names a session,   *)
(* not a launch.                                                           *)

\* BuildWorkerTaskLaunchDescriptor: what a ready task may be launched as.
Launchable == task.state = "ready" /\ offered = task.ready /\ term.launch < task.ready

SpawnWorker ==
    /\ Launchable /\ worker = NoWorker
    /\ worker' = [NoWorker EXCEPT !.generation = task.ready, !.stage = "idle"]
    /\ UNCHANGED <<durable, memory, offered, steered, faults, history>>

StartTask ==
    /\ Applies("launch_requested")
    /\ task' = [task EXCEPT !.state = Edge["launch_requested"].to]

CreatedUnrecorded == worker # NoWorker /\ term.launch < worker.generation

RecordLaunchIntent ==
    /\ service = "up" /\ CreatedUnrecorded
    /\ StartTask
    /\ UNCHANGED <<intent, worktree, term, ledger, launched, steering, memory, worker,
                   offered, steered, faults, history>>

\* A new session takes over the binding only where the earlier one settled.
RecordTerminalCreated ==
    /\ service = "up" /\ CreatedUnrecorded
    /\ task.state = "launching"
    /\ term.launch = 0 \/ term.latest \in Settled
    /\ term' = [launch |-> worker.generation, latest |-> "created", running |-> FALSE]
    /\ UNCHANGED <<intent, worktree, task, ledger, launched, steering, memory, worker,
                   offered, steered, faults, history>>

\* Faulty variant: any acknowledgement row of the task joins the evidence.
MutAnyAcknowledgement == launched # {}

HasLaunchAcknowledgement == task.ready \in launched

RecordTerminalRunning ==
    /\ service = "up" /\ term.launch = worker.generation /\ term.latest = "created"
    /\ task.state # "ready"
    /\ term' = [term EXCEPT !.latest = "running", !.running = TRUE]
    /\ task' = IF Applies("worker_acknowledged") /\ HasLaunchAcknowledgement
               THEN [task EXCEPT !.state = Edge["worker_acknowledged"].to]
               ELSE task
    /\ UNCHANGED <<intent, worktree, ledger, launched, steering, memory, worker, offered, steered,
                   faults, history>>

\* The process ends; whoever waited for its requests is gone.
WorkerExits ==
    /\ worker # NoWorker
    /\ IF worker.stage \in Waiting THEN Fault ELSE UNCHANGED faults
    /\ worker' = NoWorker
    /\ handlers' = {[h EXCEPT !.client = FALSE] : h \in handlers}
    /\ UNCHANGED <<durable, service, call, server, offered, steered, history>>

RecordTerminalExited ==
    /\ service = "up" /\ term.latest \in {"created", "running"}
    /\ worker.generation # term.launch /\ task.state # "ready"
    /\ term' = [term EXCEPT !.latest = "exited"]
    /\ task' = IF task.state \in TerminalLossChangesTask
               THEN [task EXCEPT !.state = Edge["terminal_unavailable"].to]
               ELSE task
    /\ UNCHANGED <<intent, worktree, ledger, launched, steering, memory, worker, offered, steered,
                   faults, history>>

-----------------------------------------------------------------------------
(* devcrew-report.  A request that reaches the server becomes a handler     *)
(* carrying what the handler read of the binding when it began.            *)

DialMountedRuntimeSocket == service = "up" /\ server.up

\* Both ends prove the relay identity before a request is read.
Reachable == DialMountedRuntimeSocket /\ worker # NoWorker
WorkerStage(stage) == worker' = [worker EXCEPT !.stage = stage]

Request(kind, report) ==
    [kind |-> kind, report |-> report, brief |-> server.brief, generation |-> worker.generation,
     operation |-> IF kind = "acknowledge" THEN server.operation ELSE 0, client |-> TRUE]

Send(h, stage) ==
    /\ Reachable /\ worker.stage = "idle"
    /\ Cardinality(handlers) < MaxHandlers
    /\ handlers' = handlers \cup {h}
    /\ WorkerStage(stage)
    /\ UNCHANGED <<durable, service, call, server, offered, steered, faults, history>>

(* Acknowledge reads the launch and the brief in connections of their own;  *)
(* when either has changed by the time the server compares the echo the    *)
(* command ends without effect, so the three are one step here.            *)
SendAcknowledgement ==
    /\ ~worker.told /\ server.operation # 0
    /\ Send(Request("acknowledge", "none"), "acknowledging")

\* A report likewise reads its brief first; Endpoint.accept compares it.
SendReport(report) ==
    /\ worker.told
    /\ Send(Request("report", report), "reporting")

\* The server's answer, and the receipt it prints, reach the client that sent the
\* request, if it still waits.
Answer(h, w) ==
    /\ handlers' = handlers \ {h}
    /\ worker' = IF h.client THEN w ELSE worker

(* AcknowledgeWorkerLaunch under the operation the connection read.  A      *)
(* replay answers with the task as it is now.                              *)
AcknowledgeReplays(h) ==
    /\ \E entry \in ledger : entry.operation = h.operation
    /\ IF [operation |-> h.operation, brief |-> h.brief] \in ledger
            /\ task.state \in {"launching", "working"} /\ task.brief = h.brief
       THEN Answer(h, [worker EXCEPT !.stage = "idle", !.told = TRUE])
       ELSE Answer(h, [worker EXCEPT !.stage = "idle"])
    /\ UNCHANGED <<durable, history>>

\* The terminal that ran may be that of an earlier launch.
AcknowledgeCommits(h) ==
    /\ \A entry \in ledger : entry.operation # h.operation
    /\ task.state = "launching" /\ task.brief = h.brief
    /\ ledger' = ledger \cup {[operation |-> h.operation, brief |-> h.brief]}
    /\ launched' = launched \cup {task.ready}
    /\ spoke' = spoke \cup {h.generation}
    /\ task' = IF term.launch # 0 /\ term.running
               THEN [task EXCEPT !.state = Edge["worker_acknowledged"].to]
               ELSE task
    /\ Answer(h, [worker EXCEPT !.stage = "idle", !.told = TRUE])
    /\ UNCHANGED <<intent, worktree, term, steering, shown, heard, pinned, unproven>>

AcknowledgeRefused(h) ==
    /\ \A entry \in ledger : entry.operation # h.operation
    /\ task.state # "launching" \/ task.brief # h.brief
    /\ Answer(h, [worker EXCEPT !.stage = "idle"])
    /\ UNCHANGED <<durable, history>>

AcknowledgeWorkerLaunch(h) ==
    /\ service = "up" /\ h \in handlers /\ h.kind = "acknowledge"
    /\ AcknowledgeReplays(h) \/ AcknowledgeCommits(h) \/ AcknowledgeRefused(h)
    /\ UNCHANGED <<service, call, server, offered, steered, faults>>

\* Where an accepted report of each kind leads; progress needs a working task.
ReportApplies(h) ==
    IF h.report = "progress" THEN task.state = "working" ELSE Applies(ReportTransition[h.report])

\* Faulty variant: the connection's own brief check is trusted.
MutBriefCheckedOnce(h) == ReportApplies(h)

\* AcceptWorkerReport checks the brief again, inside the transaction.
AcceptsReport(h) == h.brief = task.brief /\ ReportApplies(h)

\* Faulty variant: the instruction is marked delivered by nobody.
MutInstructionKept == steering

\* The oldest instruction is delivered by the transaction that returns it.
ConsumeSteeringInstruction == Tail(steering)

(* The decision command keeps its output for the answer, so a decision's    *)
(* receipt carries no instruction; the others render theirs.               *)
CommitReport(h) ==
    /\ AcceptsReport(h)
    /\ task' = [task EXCEPT !.state = Edge[ReportTransition[h.report]].to]
    /\ heard' = heard \cup {h.generation}
    /\ worktree' = "worked"
    /\ IF h.report # "decision" /\ steering # <<>>
       THEN /\ steering' = ConsumeSteeringInstruction
            /\ shown' = IF h.client THEN Append(shown, Head(steering)) ELSE shown
       ELSE UNCHANGED <<steering, shown>>
    /\ Answer(h, [worker EXCEPT !.stage = IF h.report = "decision" THEN "awaiting" ELSE "idle"])
    /\ UNCHANGED <<intent, term, ledger, launched, spoke, pinned, unproven>>

RefuseReport(h) ==
    /\ ~AcceptsReport(h)
    /\ Answer(h, [worker EXCEPT !.stage = "idle"])
    /\ UNCHANGED <<durable, history>>

AcceptReport(h) ==
    /\ service = "up" /\ h \in handlers /\ h.kind = "report"
    /\ CommitReport(h) \/ RefuseReport(h)
    /\ UNCHANGED <<service, call, server, offered, steered, faults>>

\* AwaitDecision polls until the keyed response, or an error, reaches it.
AwaitDecision ==
    /\ worker.stage = "awaiting"
    /\ WorkerStage("idle")
    /\ UNCHANGED <<durable, memory, offered, steered, faults, history>>

CommitTaskSteer ==
    /\ service = "up" /\ task.state \in TaskHoldsAWorker /\ steered < MaxInstructions
    /\ steered' = steered + 1
    /\ steering' = Append(steering, steered + 1)
    /\ UNCHANGED <<intent, worktree, task, term, ledger, launched, memory, worker, offered, faults,
                   history>>

-----------------------------------------------------------------------------
(* Faults                                                                   *)

\* A request times out at the client; its handler goes on.
ClientTimesOut ==
    /\ Fault
    /\ worker.stage \in Waiting
    /\ WorkerStage("idle")
    /\ handlers' = {[h EXCEPT !.client = FALSE] : h \in handlers}
    /\ UNCHANGED <<durable, service, call, server, offered, steered, history>>

Crash ==
    /\ Fault
    /\ service = "up"
    /\ service' = "down"
    /\ call' = [c \in Callers |-> Idle] /\ server' = Down /\ handlers' = {}
    /\ worker' = IF worker.stage \in Waiting THEN [worker EXCEPT !.stage = "idle"] ELSE worker
    /\ UNCHANGED <<durable, offered, steered, history>>

\* The launch operation recovery binds is the task's first, whatever the launch.
RecoveredOperation(t) == IF t.bound THEN FirstLaunch ELSE 0

(* Startup turns a task whose runtime it cannot vouch for into unknown and  *)
(* listens again for every task that is committed and not cleaned.         *)
RecoverRuntimeAttachments ==
    /\ service = "down"
    /\ service' = "up"
    /\ task' = IF task.state \in RuntimeSensitiveState THEN [task EXCEPT !.state = "unknown"] ELSE task
    /\ server' = IF task.state = "absent" THEN Down
                 ELSE [up |-> TRUE, brief |-> task.brief, recovered |-> TRUE,
                       operation |-> RecoveredOperation(task)]
    /\ UNCHANGED <<intent, worktree, term, ledger, launched, steering, call, handlers,
                   worker, offered, steered, faults, history>>

-----------------------------------------------------------------------------
Reports == DOMAIN ReportTransition \ {"candidate_complete", "blocked", "failed"}

CallerStep(c) ==
    \/ PrepareTask(c) \/ PrepareWorktree(c) \/ WorktreeAddFails(c)
    \/ PrepareRuntimeAttachment(c) \/ CommitPreparedTask(c)
    \/ ActivateManagedRun(c) \/ BindRuntimeAttachment(c) \/ AbandonManagedRun(c)
    \/ ResumeTask(c) \/ ReplaceWorker(c) \/ ReplayRelaunch(c)
    \/ RebindRuntimeAttachmentLaunch(c) \/ CallFails(c)

WorkerStep ==
    \/ SendAcknowledgement \/ (\E r \in Reports : SendReport(r)) \/ AwaitDecision

HandlerStep == \E h \in handlers : AcknowledgeWorkerLaunch(h) \/ AcceptReport(h)

TerminalStep ==
    \/ SpawnWorker \/ RecordLaunchIntent \/ RecordTerminalCreated \/ RecordTerminalRunning
    \/ WorkerExits \/ RecordTerminalExited

Next ==
    \/ \E c \in Callers : CallerStep(c)
    \/ WorkerStep \/ HandlerStep \/ TerminalStep
    \/ CommitTaskSteer
    \/ ClientTimesOut \/ Crash \/ RecoverRuntimeAttachments

(* The host repeats a preparation and an activation until they succeed, a   *)
(* call runs on, and the service manager restarts the service.             *)
Fairness ==
    /\ WF_vars(RecoverRuntimeAttachments)
    /\ WF_vars(\E c \in Callers : PrepareTask(c) \/ ActivateManagedRun(c))
    /\ \A c \in Callers :
          WF_vars(\/ PrepareWorktree(c) \/ PrepareRuntimeAttachment(c) \/ CommitPreparedTask(c)
                  \/ BindRuntimeAttachment(c)
                  \/ RebindRuntimeAttachmentLaunch(c))

Spec == Init /\ [][Next]_vars /\ Fairness

-----------------------------------------------------------------------------
(* Properties                                                               *)


(* A replaced worker is silent: no report of a worker whose terminal was     *)
(* recorded is accepted under the brief of its replacement, not even one    *)
(* whose connection was admitted before the replacement                    *)
(* (AcceptWorkerReport, proveNothingIsStillRunning).                       *)
ReplacedWorkerIsSilent == heard \subseteq (pinned..task.ready) \cup unproven

(* A task is working only with an acknowledgement of its present generation *)
(* and a terminal that ran; while every generation was left on the end of   *)
(* its own terminal, the echo is the present worker's own, and an older     *)
(* terminal stands in for its own only once it has ended                    *)
(* (terminal_lifecycle.go).                                                *)
WorkingIsAcknowledged ==
    task.state = "working" =>
        /\ task.ready \in launched /\ term.running
        /\ unproven = {} =>
              task.ready \in spoke /\ (term.launch = task.ready \/ term.latest \in Settled)

(* Steering instructions reach workers at most once each and in the order   *)
(* they were queued, whatever receipts are lost (consumeSteeringInstruction).*)
InstructionsOnceInOrder ==
    \A i, j \in DOMAIN shown : i < j => shown[i] < shown[j]
=============================================================================
