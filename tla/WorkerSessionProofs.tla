-------------------------- MODULE WorkerSessionProofs -------------------------
(***************************************************************************)
(* The safety invariants of WorkerSession for any number of calls,         *)
(* generations, connections, instructions and faults.                      *)
(*                                                                         *)
(* A connection carries what its handler read of the server, the server    *)
(* what some caller last bound, and either may be long stale when it is    *)
(* used.  The invariant says how stale: briefs and generations only grow,  *)
(* and a generation left on the end of its own terminal is left with its   *)
(* launch acknowledged, so while every generation was left so an operation *)
(* not yet in the ledger is that of the present launch.                    *)
(***************************************************************************)
EXTENDS WorkerSession, TLAPS

-----------------------------------------------------------------------------
(* The inductive invariant.                                                *)

CallStages == {"idle", "intended", "workspaced", "attached", "binding", "rebinding"}
Requests ==
    [kind: {"acknowledge", "report"}, report: Reports \cup {"none"}, brief: Nat,
     generation: Nat, operation: Nat, client: BOOLEAN]

SessionTypeOK ==
    /\ task \in [state: TaskState \cup {"absent"}, brief: Nat, ready: Nat, bound: BOOLEAN]
    /\ term \in [launch: Nat, latest: {"none"} \cup TerminalTransition, running: BOOLEAN]
    /\ server \in [up: BOOLEAN, brief: Nat, operation: Nat, recovered: BOOLEAN]
    /\ call \in [Callers -> [stage: CallStages, generation: Nat, brief: Nat]]
    /\ worker \in [generation: Nat, stage: Waiting \cup {"none", "idle", "awaiting"}, told: BOOLEAN]
    /\ handlers \subseteq Requests
    /\ steering \in Seq(Nat) /\ shown \in Seq(Nat) /\ steered \in Nat
    /\ pinned \in Nat \ {0} /\ unproven \subseteq Nat

\* The task has a generation once it is activated, the present brief was pinned
\* in one it has had, and only earlier ones were left.
TaskInv ==
    /\ task.state \in {"absent", "prepared"} => task.ready = 0
    /\ task.bound => task.ready # 0
    /\ task.brief # 0
    /\ pinned = 1 \/ pinned <= task.ready
    /\ \A g \in unproven : g # 0 /\ g < task.ready

\* A settled terminal has no worker, a ready task no terminal of its own yet,
\* and an earlier terminal has settled unless its generation was left unproven.
TermInv ==
    /\ term.launch <= task.ready
    /\ (term.latest # "none" \/ term.running) => term.launch # 0
    /\ term.latest \in Settled => worker.generation # term.launch
    /\ task.state = "ready" => term.launch < task.ready
    /\ unproven = {} /\ term.launch # 0 /\ term.launch < task.ready => term.latest \in Settled

\* A worker that lives is that of the present generation or of one left unproven.
Current(generation) == generation = task.ready \/ generation \in unproven

WorkerInv ==
    worker # NoWorker => worker.generation \in 1..task.ready /\ Current(worker.generation)

\* What a call will bind, and what is bound, may be old but never ahead.
BindingInv ==
    /\ server.brief <= task.brief /\ server.operation <= task.ready
    /\ \A c \in Callers :
         /\ call[c].stage = "binding" => task.ready # 0
         /\ call[c].stage = "rebinding" =>
              call[c].generation <= task.ready /\ call[c].brief <= task.brief

\* A connection under the present brief is of a worker of that brief or of one
\* left unproven; where none was, one under the present launch operation is of
\* the present worker.
ConnectionInv(h) ==
    /\ h.generation \in 1..task.ready /\ h.brief <= task.brief
    /\ h.brief = task.brief => pinned <= h.generation \/ h.generation \in unproven
    /\ h.client => worker # NoWorker
    /\ h.kind = "report" => h.report \in Reports
    /\ h.kind = "acknowledge" =>
         /\ h.operation \in 1..task.ready
         /\ unproven = {} /\ h.operation = task.ready => h.generation = task.ready

Completed(operation) == \E entry \in ledger : entry.operation = operation

\* While every generation was left on the end of its own terminal, every launch
\* but the present one was acknowledged, by its worker and under its operation.
LedgerInv ==
    /\ launched \subseteq 1..task.ready
    /\ unproven = {} =>
         /\ launched \subseteq spoke
         /\ \A n \in 1..task.ready : n < task.ready \/ n \in launched => Completed(n)

\* A task leaves launching only acknowledged and with a terminal that ran, and
\* is paused with its own terminal only from there.
LaunchInv ==
    /\ task.state \in {"working", "awaiting_decision", "blocked"} =>
         task.ready \in launched /\ term.running
    /\ task.state = "paused" /\ term.launch = task.ready => task.ready \in launched

\* What was shown, then what is queued, rises.
InstructionInv ==
    /\ InstructionsOnceInOrder
    /\ \A i, j \in DOMAIN steering : i < j => steering[i] < steering[j]
    /\ \A i \in DOMAIN shown, j \in DOMAIN steering : shown[i] < steering[j]
    /\ \A i \in DOMAIN shown : shown[i] <= steered
    /\ \A j \in DOMAIN steering : steering[j] <= steered

SessionInv ==
    /\ SessionTypeOK /\ TaskInv /\ TermInv /\ WorkerInv /\ BindingInv
    /\ \A h \in handlers : ConnectionInv(h)
    /\ LedgerInv /\ LaunchInv /\ ReplacedWorkerIsSilent /\ InstructionInv

-----------------------------------------------------------------------------
(* The edges the session takes, and what a step leaves alone.              *)

LEMMA SessionEdges ==
    /\ Applies("bind_acknowledged") <=> task.state = "prepared"
    /\ Applies("preparation_abandoned") <=> task.state = "prepared"
    /\ Applies("resumed") <=> task.state = "paused"
    /\ Applies("launch_requested") <=> task.state = "ready"
    /\ Applies("worker_acknowledged") <=> task.state = "launching"
    /\ Edge["preparation_abandoned"].to = "cancelled" /\ Edge["resumed"].to = "ready"
    /\ Edge["launch_requested"].to = "launching" /\ Edge["worker_acknowledged"].to = "working"
    /\ Edge["terminal_unavailable"].to = "unknown"
    BY DEF Applies, Edge

\* A report is accepted from a worker at work, or, as a pause, from a task that
\* is ready again.
LEMMA ReportEdges ==
    ASSUME NEW h, h.report \in Reports, ReportApplies(h), NEW s, s = Edge[ReportTransition[h.report]].to
    PROVE  \/ task.state \in {"working", "awaiting_decision"} /\ s \in {"working", "awaiting_decision"}
           \/ task.state \in {"ready", "working", "awaiting_decision", "blocked"} /\ s = "paused"
    BY DEF Reports, ReportTransition, ReportApplies, Applies, Edge

\* A step that binds, or moves a call, and touches nothing else.
LEMMA BindingKeeps ==
    ASSUME SessionInv,
           UNCHANGED <<task, term, ledger, launched, steering, handlers, worker, steered,
                       shown, heard, spoke, pinned, unproven>>,
           server' \in [up: BOOLEAN, brief: Nat, operation: Nat, recovered: BOOLEAN],
           call' \in [Callers -> [stage: CallStages, generation: Nat, brief: Nat]],
           BindingInv'
    PROVE  SessionInv'
    <1>1. SessionTypeOK'
        BY DEF SessionInv, SessionTypeOK
    <1>2. TaskInv' /\ TermInv' /\ WorkerInv' /\ LedgerInv' /\ LaunchInv'
        BY DEF SessionInv, TaskInv, TermInv, WorkerInv, Current, LedgerInv, LaunchInv, Completed
    <1>3. \A h \in handlers' : ConnectionInv(h)'
        BY DEF SessionInv, ConnectionInv
    <1>4. ReplacedWorkerIsSilent' /\ InstructionInv'
        BY DEF SessionInv, ReplacedWorkerIsSilent, InstructionInv, InstructionsOnceInOrder
    <1>5. QED
        BY <1>1, <1>2, <1>3, <1>4 DEF SessionInv

\* A call that goes on to a stage that binds nothing, or returns.
LEMMA CallMoves ==
    ASSUME SessionInv, NEW c \in Callers, NEW k \in [stage: CallStages, generation: Nat, brief: Nat],
           call' = [call EXCEPT ![c] = k],
           k.stage = "binding" => task.ready # 0,
           k.stage = "rebinding" => k.generation <= task.ready /\ k.brief <= task.brief,
           task'.ready >= task.ready, task'.brief >= task.brief,
           task \in [state: TaskState \cup {"absent"}, brief: Nat, ready: Nat, bound: BOOLEAN],
           task' \in [state: TaskState \cup {"absent"}, brief: Nat, ready: Nat, bound: BOOLEAN],
           server' \in [up: BOOLEAN, brief: Nat, operation: Nat, recovered: BOOLEAN],
           server'.brief <= task'.brief, server'.operation <= task'.ready
    PROVE  /\ call' \in [Callers -> [stage: CallStages, generation: Nat, brief: Nat]]
           /\ BindingInv'
    <1>1. call \in [Callers -> [stage: CallStages, generation: Nat, brief: Nat]]
        BY DEF SessionInv, SessionTypeOK
    <1>2. \A d \in Callers : call'[d] = IF d = c THEN k ELSE call[d]
        BY <1>1
    <1>3. call' \in [Callers -> [stage: CallStages, generation: Nat, brief: Nat]]
        BY <1>1
    <1>4. task.ready \in Nat /\ task'.ready \in Nat /\ task.brief \in Nat /\ task'.brief \in Nat
        OBVIOUS
    <1>5. ASSUME NEW d \in Callers
          PROVE  /\ call'[d].stage = "binding" => task'.ready # 0
                 /\ call'[d].stage = "rebinding" =>
                      call'[d].generation <= task'.ready /\ call'[d].brief <= task'.brief
        <2>1. CASE d = c
            BY <1>2, <1>4, <2>1
        <2>2. CASE d # c
            <3>1. call'[d] = call[d] /\ call[d].generation \in Nat /\ call[d].brief \in Nat
                BY <1>1, <1>2, <2>2
            <3>2. QED
                BY <1>4, <3>1 DEF SessionInv, BindingInv
        <2>3. QED
            BY <2>1, <2>2
    <1>6. QED
        BY <1>3, <1>5 DEF BindingInv

Untouched ==
    UNCHANGED <<task, term, ledger, launched, steering, handlers, worker, steered,
                shown, heard, spoke, pinned, unproven>>

LEMMA CallBinds ==
    ASSUME SessionInv, Untouched, NEW c \in Callers,
           NEW k \in [stage: CallStages, generation: Nat, brief: Nat],
           call' = [call EXCEPT ![c] = k],
           k.stage = "binding" => task.ready # 0,
           k.stage = "rebinding" => k.generation <= task.ready /\ k.brief <= task.brief,
           server' \in [up: BOOLEAN, brief: Nat, operation: Nat, recovered: BOOLEAN],
           server'.brief <= task.brief, server'.operation <= task.ready
    PROVE  SessionInv'
    <1>1. /\ task' = task
          /\ task \in [state: TaskState \cup {"absent"}, brief: Nat, ready: Nat, bound: BOOLEAN]
        BY DEF Untouched, SessionInv, SessionTypeOK
    <1>2. task'.ready >= task.ready /\ task'.brief >= task.brief
        BY <1>1
    <1>3. /\ call' \in [Callers -> [stage: CallStages, generation: Nat, brief: Nat]]
          /\ BindingInv'
        BY <1>1, <1>2, CallMoves
    <1>4. QED
        BY <1>3, BindingKeeps DEF Untouched

\* A call goes to a stage that binds nothing, or returns, and leaves the server.
LEMMA CallStops ==
    ASSUME SessionInv, Untouched, UNCHANGED server, NEW c \in Callers,
           \/ Return(c)
           \/ \E s \in CallStages \ {"binding", "rebinding"} : Stage(c, s)
    PROVE  SessionInv'
    <1>1. call[c] \in [stage: CallStages, generation: Nat, brief: Nat]
        BY DEF SessionInv, SessionTypeOK
    <1>2. server' \in [up: BOOLEAN, brief: Nat, operation: Nat, recovered: BOOLEAN]
          /\ server'.brief <= task.brief /\ server'.operation <= task.ready
        BY DEF SessionInv, SessionTypeOK, BindingInv
    <1>3. CASE Return(c)
        <2>1. Idle \in [stage: CallStages, generation: Nat, brief: Nat] /\ Idle.stage = "idle"
            BY DEF Idle, CallStages
        <2>2. QED
            BY <1>2, <1>3, <2>1, CallBinds DEF Return
    <1>4. ASSUME NEW s \in CallStages \ {"binding", "rebinding"}, Stage(c, s) PROVE SessionInv'
        <2> DEFINE k == [call[c] EXCEPT !.stage = s]
        <2>1. k \in [stage: CallStages, generation: Nat, brief: Nat] /\ k.stage = s
            BY <1>1
        <2>2. call' = [call EXCEPT ![c] = k]
            BY <1>4 DEF Stage
        <2> HIDE DEF k
        <2>3. QED
            BY <1>2, <1>4, <2>1, <2>2, CallBinds
    <1>5. QED
        BY <1>3, <1>4

-----------------------------------------------------------------------------
(* The calls.                                                              *)

LEMMA PreparationKeeps ==
    ASSUME SessionInv, NEW c \in Callers,
           \/ PrepareTask(c) \/ PrepareWorktree(c) \/ WorktreeAddFails(c) \/ CallFails(c)
    PROVE  SessionInv'
    <1>1. Untouched /\ UNCHANGED server
        BY DEF PrepareTask, PrepareWorktree, WorktreeAddFails, CallFails, Untouched, durable, history
    <1>2. Return(c) \/ Stage(c, "intended") \/ Stage(c, "workspaced")
        BY DEF PrepareTask, PrepareWorktree, WorktreeAddFails, CallFails
    <1>3. QED
        BY <1>1, <1>2, CallStops DEF CallStages

LEMMA AttachmentKeeps ==
    ASSUME SessionInv, NEW c \in Callers, PrepareRuntimeAttachment(c)
    PROVE  SessionInv'
    <1>1. Untouched
        BY DEF PrepareRuntimeAttachment, Untouched, durable, history
    <1>2. CASE UNCHANGED server
        <2>1. Return(c) \/ Stage(c, "attached")
            BY DEF PrepareRuntimeAttachment
        <2>2. QED
            BY <1>1, <1>2, <2>1, CallStops DEF CallStages
    <1>3. CASE server' = [Down EXCEPT !.up = TRUE, !.brief = 1] /\ Stage(c, "attached")
        <2> DEFINE k == [call[c] EXCEPT !.stage = "attached"]
        <2>1. k \in [stage: CallStages, generation: Nat, brief: Nat] /\ k.stage = "attached"
            BY DEF SessionInv, SessionTypeOK, CallStages
        <2>2. call' = [call EXCEPT ![c] = k]
            BY <1>3 DEF Stage
        <2>3. /\ server' \in [up: BOOLEAN, brief: Nat, operation: Nat, recovered: BOOLEAN]
              /\ server'.brief = 1 /\ server'.operation = 0
            BY <1>3 DEF Down
        <2>4. server'.brief <= task.brief /\ server'.operation <= task.ready
            BY <2>3 DEF SessionInv, SessionTypeOK, TaskInv
        <2> HIDE DEF k
        <2>5. QED
            BY <1>1, <2>1, <2>2, <2>3, <2>4, CallBinds
    <1>4. QED
        BY <1>2, <1>3 DEF PrepareRuntimeAttachment

LEMMA BindingsKeep ==
    ASSUME SessionInv, NEW c \in Callers,
           BindRuntimeAttachment(c) \/ RebindRuntimeAttachmentLaunch(c)
    PROVE  SessionInv'
    <1>1. Untouched /\ Return(c)
        BY DEF BindRuntimeAttachment, RebindRuntimeAttachmentLaunch, Untouched, durable, history
    <1>2. CASE UNCHANGED server
        BY <1>1, <1>2, CallStops
    <1>3. /\ server \in [up: BOOLEAN, brief: Nat, operation: Nat, recovered: BOOLEAN]
          /\ server.brief <= task.brief
          /\ task.brief \in Nat /\ task.ready \in Nat
          /\ call[c] \in [stage: CallStages, generation: Nat, brief: Nat]
        BY DEF SessionInv, SessionTypeOK, BindingInv
    <1>4. CASE server' # server
        <2>1. /\ server' \in [up: BOOLEAN, brief: Nat, operation: Nat, recovered: BOOLEAN]
              /\ server'.brief <= task.brief /\ server'.operation <= task.ready
            <3>1. CASE BindRuntimeAttachment(c)
                <4>1. server' = [server EXCEPT !.operation = FirstLaunch] /\ call[c].stage = "binding"
                    BY <1>4, <3>1 DEF BindRuntimeAttachment
                <4>2. task.ready # 0
                    BY <4>1 DEF SessionInv, BindingInv
                <4>3. QED
                    BY <1>3, <4>1, <4>2 DEF FirstLaunch
            <3>2. CASE RebindRuntimeAttachmentLaunch(c)
                <4>1. /\ server' = [server EXCEPT !.operation = call[c].generation,
                                                  !.brief = call[c].brief]
                      /\ call[c].stage = "rebinding"
                    BY <1>4, <3>2
                    DEF RebindRuntimeAttachmentLaunch, RebindGeneration, RelaunchOperation
                <4>2. call[c].generation <= task.ready /\ call[c].brief <= task.brief
                    BY <4>1 DEF SessionInv, BindingInv
                <4>3. QED
                    BY <1>3, <4>1, <4>2
            <3>3. QED
                BY <3>1, <3>2
        <2>2. Idle \in [stage: CallStages, generation: Nat, brief: Nat] /\ Idle.stage = "idle"
            BY DEF Idle, CallStages
        <2>3. QED
            BY <1>1, <2>1, <2>2, CallBinds DEF Return
    <1>5. QED
        BY <1>2, <1>4

LEMMA ReplayKeeps ==
    ASSUME SessionInv, NEW c \in Callers, ReplayRelaunch(c)
    PROVE  SessionInv'
    <1> DEFINE k == [stage |-> "rebinding", generation |-> task.ready, brief |-> task.brief]
    <1>1. Untouched /\ UNCHANGED server /\ call' = [call EXCEPT ![c] = k]
        BY DEF ReplayRelaunch, Untouched, durable, history
    <1>2. task.ready \in Nat /\ task.brief \in Nat
        BY DEF SessionInv, SessionTypeOK
    <1>3. /\ k \in [stage: CallStages, generation: Nat, brief: Nat]
          /\ k.stage = "rebinding" /\ k.generation <= task.ready /\ k.brief <= task.brief
        BY <1>2 DEF CallStages
    <1>4. server' \in [up: BOOLEAN, brief: Nat, operation: Nat, recovered: BOOLEAN]
          /\ server'.brief <= task.brief /\ server'.operation <= task.ready
        BY <1>1 DEF SessionInv, SessionTypeOK, BindingInv
    <1> HIDE DEF k
    <1>5. QED
        BY <1>1, <1>3, <1>4, CallBinds

\* A step that moves the task to a state s of the same generation and brief
\* and, with it, at most the terminal and a call that returns.
LEMMA StateMoves ==
    ASSUME SessionInv, NEW s \in TaskState, task' = [task EXCEPT !.state = s],
           s = "prepared" => task.ready = 0,
           UNCHANGED <<ledger, launched, steering, handlers, server, worker, steered,
                       shown, heard, spoke, pinned, unproven>>,
           UNCHANGED call \/ \E c \in Callers : Return(c),
           term' \in [launch: Nat, latest: {"none"} \cup TerminalTransition, running: BOOLEAN],
           TermInv', LaunchInv'
    PROVE  SessionInv'
    <1>1. /\ task \in [state: TaskState \cup {"absent"}, brief: Nat, ready: Nat, bound: BOOLEAN]
          /\ task' \in [state: TaskState \cup {"absent"}, brief: Nat, ready: Nat, bound: BOOLEAN]
          /\ task'.state = s /\ task'.brief = task.brief /\ task'.ready = task.ready
          /\ task'.bound = task.bound
        BY DEF SessionInv, SessionTypeOK
    <1>2. /\ call' \in [Callers -> [stage: CallStages, generation: Nat, brief: Nat]]
          /\ BindingInv'
        <2>1. CASE UNCHANGED call
            BY <1>1, <2>1 DEF SessionInv, SessionTypeOK, BindingInv
        <2>2. ASSUME NEW c \in Callers, Return(c)
              PROVE  /\ call' \in [Callers -> [stage: CallStages, generation: Nat, brief: Nat]]
                     /\ BindingInv'
            <3>1. Idle \in [stage: CallStages, generation: Nat, brief: Nat] /\ Idle.stage = "idle"
                BY DEF Idle, CallStages
            <3>2. task'.ready >= task.ready /\ task'.brief >= task.brief
                BY <1>1
            <3>3. /\ server' \in [up: BOOLEAN, brief: Nat, operation: Nat, recovered: BOOLEAN]
                  /\ server'.brief <= task'.brief /\ server'.operation <= task'.ready
                BY <1>1 DEF SessionInv, SessionTypeOK, BindingInv
            <3>4. QED
                BY <1>1, <2>2, <3>1, <3>2, <3>3, CallMoves DEF Return
        <2>3. QED
            BY <2>1, <2>2
    <1>3. SessionTypeOK'
        BY <1>1, <1>2 DEF SessionInv, SessionTypeOK
    <1>4. TaskInv' /\ WorkerInv' /\ LedgerInv'
        BY <1>1 DEF SessionInv, TaskInv, WorkerInv, Current, LedgerInv, Completed, TaskState
    <1>5. \A h \in handlers' : ConnectionInv(h)'
        BY <1>1 DEF SessionInv, ConnectionInv
    <1>6. ReplacedWorkerIsSilent' /\ InstructionInv'
        BY <1>1 DEF SessionInv, ReplacedWorkerIsSilent, InstructionInv, InstructionsOnceInOrder
    <1>7. QED
        BY <1>2, <1>3, <1>4, <1>5, <1>6 DEF SessionInv

LEMMA CommitKeeps ==
    ASSUME SessionInv, NEW c \in Callers, CommitPreparedTask(c) \/ AbandonManagedRun(c)
    PROVE  SessionInv'
    <1>1. UNCHANGED <<term, ledger, launched, steering, handlers, server, worker, steered,
                      shown, heard, spoke, pinned, unproven>>
        BY DEF CommitPreparedTask, AbandonManagedRun, memory, history
    <1>2. UNCHANGED call \/ Return(c)
        BY DEF CommitPreparedTask, AbandonManagedRun, memory
    <1>3. CASE UNCHANGED task
        <2>1. Untouched /\ Return(c)
            BY <1>1, <1>3, SessionEdges DEF CommitPreparedTask, AbandonManagedRun, Untouched,
                SessionInv, SessionTypeOK
        <2>2. QED
            BY <1>1, <2>1, CallStops
    <1>4. ASSUME NEW s \in {"prepared", "cancelled"}, task' = [task EXCEPT !.state = s],
                 task.state \in {"absent", "prepared"}
          PROVE  SessionInv'
        <2>1. task.ready = 0 /\ task'.ready = 0 /\ task'.state = s
            BY <1>4 DEF SessionInv, TaskInv, SessionTypeOK
        <2>2. TermInv' /\ LaunchInv'
            BY <1>1, <2>1 DEF SessionInv, TermInv, LaunchInv
        <2>3. term' \in [launch: Nat, latest: {"none"} \cup TerminalTransition, running: BOOLEAN]
            BY <1>1 DEF SessionInv, SessionTypeOK
        <2>4. s \in TaskState
            BY DEF TaskState
        <2>5. QED
            BY <1>1, <1>2, <1>4, <2>1, <2>2, <2>3, <2>4, StateMoves
    <1>5. QED
        BY <1>3, <1>4, SessionEdges DEF CommitPreparedTask, AbandonManagedRun

LEMMA ActivationKeeps ==
    ASSUME SessionInv, NEW c \in Callers, ActivateManagedRun(c)
    PROVE  SessionInv'
    <1> DEFINE k == [call[c] EXCEPT !.stage = "binding"]
    <1>1. /\ UNCHANGED <<term, ledger, launched, steering, handlers, server, worker, steered,
                         shown, heard, spoke, pinned, unproven>>
          /\ call' = [call EXCEPT ![c] = k]
        BY DEF ActivateManagedRun, Stage, history
    <1>2. k \in [stage: CallStages, generation: Nat, brief: Nat] /\ k.stage = "binding"
        BY DEF SessionInv, SessionTypeOK, CallStages
    <1>3. /\ task \in [state: TaskState \cup {"absent"}, brief: Nat, ready: Nat, bound: BOOLEAN]
          /\ server \in [up: BOOLEAN, brief: Nat, operation: Nat, recovered: BOOLEAN]
          /\ server.brief <= task.brief /\ server.operation <= task.ready
        BY DEF SessionInv, SessionTypeOK, BindingInv
    <1> HIDE DEF k
    <1>4. CASE task.bound /\ UNCHANGED task
        <2>1. Untouched /\ task.ready # 0
            BY <1>1, <1>4 DEF Untouched, SessionInv, TaskInv
        <2>2. QED
            BY <1>1, <1>2, <1>3, <2>1, CallBinds
    <1>5. CASE /\ task.state = "prepared"
               /\ task' = [task EXCEPT !.state = "ready", !.ready = 1, !.bound = TRUE]
        <2>1. /\ task.ready = 0
              /\ task' \in [state: TaskState \cup {"absent"}, brief: Nat, ready: Nat, bound: BOOLEAN]
              /\ task'.state = "ready" /\ task'.ready = 1 /\ task'.brief = task.brief
            BY <1>3, <1>5 DEF SessionInv, TaskInv, TaskState
        <2>2. /\ handlers = {} /\ worker = NoWorker /\ launched = {} /\ heard = {}
              /\ term.launch = 0 /\ unproven = {}
            <3>1. /\ 1..task.ready = {} /\ pinned = 1 /\ pinned..task.ready = {}
                  /\ unproven = {}
                BY <2>1 DEF SessionInv, TaskInv, SessionTypeOK
            <3>2. QED
                BY <2>1, <3>1 DEF SessionInv, ConnectionInv, WorkerInv, Current, LedgerInv, TermInv, ReplacedWorkerIsSilent,
                    SessionTypeOK
        <2>3. ASSUME NEW d \in Callers
              PROVE  /\ call'[d].stage = "binding" => task'.ready # 0
                     /\ call'[d].stage = "rebinding" =>
                          call'[d].generation <= task'.ready /\ call'[d].brief <= task'.brief
            <3>1. call[d] \in [stage: CallStages, generation: Nat, brief: Nat]
                BY DEF SessionInv, SessionTypeOK
            <3>2. call[d].stage = "rebinding" => call[d].generation <= 1 /\ call[d].brief <= task.brief
                BY <2>1, <3>1 DEF SessionInv, BindingInv
            <3>3. call'[d] = k \/ call'[d] = call[d]
                BY <1>1 DEF SessionInv, SessionTypeOK
            <3>4. QED
                BY <1>2, <2>1, <3>2, <3>3
        <2>4. BindingInv' /\ call' \in [Callers -> [stage: CallStages, generation: Nat, brief: Nat]]
            BY <1>1, <1>2, <1>3, <2>1, <2>3 DEF BindingInv, SessionInv, SessionTypeOK
        <2>5. SessionTypeOK'
            BY <1>1, <2>1, <2>4 DEF SessionInv, SessionTypeOK
        <2>6. TaskInv' /\ TermInv' /\ WorkerInv' /\ LaunchInv'
            <3>1. pinned = 1 /\ task.brief # 0
                BY <2>1 DEF SessionInv, TaskInv, SessionTypeOK
            <3>2. TaskInv' /\ WorkerInv' /\ LaunchInv'
                BY <1>1, <2>1, <2>2, <3>1 DEF TaskInv, WorkerInv, Current, LaunchInv
            <3>3. TermInv'
                BY <1>1, <2>1, <2>2 DEF SessionInv, TermInv
            <3>4. QED
                BY <3>2, <3>3
        <2>7. LedgerInv' /\ ReplacedWorkerIsSilent' /\ \A h \in handlers' : ConnectionInv(h)'
            BY <1>1, <2>1, <2>2 DEF SessionInv, LedgerInv, ReplacedWorkerIsSilent
        <2>8. InstructionInv'
            BY <1>1 DEF SessionInv, InstructionInv, InstructionsOnceInOrder
        <2>9. QED
            BY <2>4, <2>5, <2>6, <2>7, <2>8 DEF SessionInv
    <1>6. QED
        BY <1>4, <1>5, SessionEdges DEF ActivateManagedRun

\* A generation left on the end of its own terminal has its launch in the ledger.
LEMMA RelaunchKeeps ==
    ASSUME SessionInv, NEW c \in Callers, ResumeTask(c) \/ ReplaceWorker(c)
    PROVE  SessionInv'
    <1>1. PICK b : /\ Readied(c, b)
                   /\ \/ b = task.brief /\ UNCHANGED <<heard, pinned>>
                      \/ b = task.brief + 1 /\ heard' = {} /\ pinned' = task.ready + 1
        BY DEF ResumeTask, ReplaceWorker, history
    <1> DEFINE k == [stage |-> "rebinding", generation |-> task.ready + 1, brief |-> b]
    <1>2. UNCHANGED <<term, ledger, launched, steering, handlers, server, worker, steered, shown, spoke>>
        BY DEF ResumeTask, ReplaceWorker, history
    <1>3. /\ task \in [state: TaskState \cup {"absent"}, brief: Nat, ready: Nat, bound: BOOLEAN]
          /\ server \in [up: BOOLEAN, brief: Nat, operation: Nat, recovered: BOOLEAN]
          /\ server.brief <= task.brief /\ server.operation <= task.ready
          /\ term.launch \in Nat /\ pinned \in Nat \ {0} /\ unproven \subseteq Nat
          /\ term.launch <= task.ready
        BY DEF SessionInv, SessionTypeOK, BindingInv, TermInv
    <1>4. /\ task.state = "paused" /\ term.launch # 0 /\ term.latest \in Settled
          /\ task' = [task EXCEPT !.state = "ready", !.ready = @ + 1, !.brief = b]
          /\ call' = [call EXCEPT ![c] = k]
          /\ unproven' = IF term.launch = task.ready THEN unproven ELSE unproven \cup {task.ready}
        BY <1>1, SessionEdges DEF Readied, NothingIsStillRunning
    <1>5. /\ task.ready # 0 /\ unproven \subseteq unproven'
          /\ worker # NoWorker => worker.generation \in 1..task.ready /\ worker.generation \in unproven'
          /\ unproven' = {} =>
               term.launch = task.ready /\ task.ready \in launched /\ unproven = {}
        <2>1. worker.generation # term.launch
            BY <1>4 DEF SessionInv, TermInv
        <2>2. task.ready # 0 /\ unproven \subseteq unproven'
            BY <1>3, <1>4
        <2>3. CASE term.launch = task.ready
            <3>1. unproven' = unproven /\ worker.generation # task.ready /\ task.ready \in launched
                BY <1>4, <2>1, <2>3 DEF SessionInv, LaunchInv
            <3>2. QED
                BY <2>2, <2>3, <3>1 DEF SessionInv, WorkerInv, Current
        <2>4. CASE term.launch # task.ready
            <3>1. unproven' = unproven \cup {task.ready}
                BY <1>4, <2>4
            <3>2. QED
                BY <2>2, <3>1 DEF SessionInv, WorkerInv, Current
        <2>5. QED
            BY <2>3, <2>4
    <1>6. /\ task' \in [state: TaskState \cup {"absent"}, brief: Nat, ready: Nat, bound: BOOLEAN]
          /\ task'.state = "ready" /\ task'.ready = task.ready + 1 /\ task'.brief = b
          /\ task'.bound = task.bound /\ b \in Nat /\ b >= task.brief
        <2>1. b \in Nat /\ b >= task.brief /\ task.ready + 1 \in Nat
            BY <1>1, <1>3
        <2>2. "ready" \in TaskState
            BY DEF TaskState
        <2>3. QED
            BY <1>3, <1>4, <2>1, <2>2
    <1>7. BindingInv' /\ call' \in [Callers -> [stage: CallStages, generation: Nat, brief: Nat]]
        <2>1. k \in [stage: CallStages, generation: Nat, brief: Nat] /\ k.stage = "rebinding"
              /\ k.generation <= task'.ready /\ k.brief <= task'.brief
            BY <1>3, <1>6 DEF CallStages
        <2> HIDE DEF k
        <2>2. ASSUME NEW d \in Callers
              PROVE  /\ call'[d].stage = "binding" => task'.ready # 0
                     /\ call'[d].stage = "rebinding" =>
                          call'[d].generation <= task'.ready /\ call'[d].brief <= task'.brief
            <3>1. call[d] \in [stage: CallStages, generation: Nat, brief: Nat]
                BY DEF SessionInv, SessionTypeOK
            <3>2. call[d].stage = "rebinding" =>
                    call[d].generation <= task.ready + 1 /\ call[d].brief <= b
                BY <1>3, <1>6, <3>1 DEF SessionInv, BindingInv
            <3>3. call'[d] = k \/ call'[d] = call[d]
                BY <1>4 DEF SessionInv, SessionTypeOK
            <3>4. QED
                BY <1>3, <1>6, <2>1, <3>2, <3>3
        <2>3. call' \in [Callers -> [stage: CallStages, generation: Nat, brief: Nat]]
            BY <1>4, <2>1 DEF SessionInv, SessionTypeOK
        <2>4. server'.brief <= task'.brief /\ server'.operation <= task'.ready
            BY <1>2, <1>3, <1>6
        <2>5. QED
            BY <2>2, <2>3, <2>4 DEF BindingInv
    <1>8. SessionTypeOK'
        <2>1. pinned' \in Nat \ {0} /\ unproven' \subseteq Nat
            BY <1>1, <1>3, <1>4
        <2>2. QED
            BY <1>2, <1>6, <1>7, <2>1 DEF SessionInv, SessionTypeOK
    <1>9. TaskInv'
        <2>1. \A g \in unproven' : g # 0 /\ g < task'.ready
            <3>1. \A g \in unproven : g \in Nat /\ g # 0 /\ g < task.ready
                BY <1>3 DEF SessionInv, TaskInv
            <3>2. \A g \in unproven' : g \in unproven \/ g = task.ready
                BY <1>4
            <3>3. QED
                BY <1>3, <1>5, <1>6, <3>1, <3>2
        <2>2. QED
            BY <1>1, <1>3, <1>6, <2>1 DEF SessionInv, TaskInv
    <1>10. TermInv'
        BY <1>2, <1>3, <1>4, <1>6 DEF SessionInv, TermInv
    <1>11. WorkerInv' /\ LaunchInv'
        BY <1>2, <1>3, <1>5, <1>6 DEF WorkerInv, Current, LaunchInv
    <1>12. LedgerInv'
        <2>1. ASSUME unproven' = {}, NEW n \in 1..task'.ready, n < task'.ready \/ n \in launched
              PROVE  Completed(n)
            <3>1. task.ready \in launched /\ unproven = {} /\ n \in Nat /\ n # 0
                BY <1>5, <2>1
            <3>2. n \in 1..task.ready
                BY <1>3, <1>6, <2>1, <3>1 DEF SessionInv, LedgerInv
            <3>3. n < task.ready \/ n \in launched
                BY <1>3, <3>1, <3>2
            <3>4. QED
                BY <3>1, <3>2, <3>3 DEF SessionInv, LedgerInv
        <2>2. launched \subseteq 1..task'.ready
            BY <1>3, <1>6 DEF SessionInv, LedgerInv
        <2>3. unproven' = {} => launched \subseteq spoke
            BY <1>5 DEF SessionInv, LedgerInv
        <2>4. \A n : Completed(n)' <=> Completed(n)
            BY <1>2 DEF Completed
        <2>5. QED
            BY <1>2, <2>1, <2>2, <2>3, <2>4 DEF LedgerInv
    <1>13. ASSUME NEW h \in handlers PROVE ConnectionInv(h)'
        <2>1. /\ h.generation \in 1..task.ready /\ h.brief <= task.brief /\ h.brief \in Nat
              /\ h.brief = task.brief => pinned <= h.generation \/ h.generation \in unproven
              /\ h.kind = "acknowledge" => h.operation \in 1..task.ready
            BY DEF SessionInv, ConnectionInv, SessionTypeOK, Requests
        <2>2. h.client => worker' # NoWorker
            BY <1>2 DEF SessionInv, ConnectionInv
        <2>3. h.generation \in 1..task'.ready /\ h.brief <= task'.brief
            BY <1>3, <1>6, <2>1
        <2>4. h.brief = task'.brief => pinned' <= h.generation \/ h.generation \in unproven'
            <3>1. CASE b = task.brief
                BY <1>1, <1>3, <1>5, <1>6, <2>1, <3>1
            <3>2. CASE b # task.brief
                BY <1>1, <1>3, <1>6, <2>1, <3>2
            <3>3. QED
                BY <3>1, <3>2
        <2>5. h.kind = "acknowledge" => h.operation \in 1..task'.ready /\ h.operation # task'.ready
            BY <1>3, <1>6, <2>1
        <2>6. h.kind = "report" => h.report \in Reports
            BY DEF SessionInv, ConnectionInv
        <2>7. QED
            BY <2>2, <2>3, <2>4, <2>5, <2>6 DEF ConnectionInv
    <1>14. ReplacedWorkerIsSilent'
        <2>1. heard \subseteq (pinned..task.ready) \cup unproven
            BY DEF SessionInv, ReplacedWorkerIsSilent
        <2>2. ASSUME NEW g \in heard' PROVE g \in (pinned'..task'.ready) \cup unproven'
            <3>1. UNCHANGED <<heard, pinned>>
                BY <1>1, <2>2
            <3>2. g \in pinned..task.ready \/ g \in unproven
                BY <2>1, <2>2, <3>1
            <3>3. CASE g \in pinned..task.ready
                BY <1>3, <1>6, <3>1, <3>3
            <3>4. CASE g \in unproven
                BY <1>5, <3>4
            <3>5. QED
                BY <3>2, <3>3, <3>4
        <2>3. QED
            BY <2>2 DEF ReplacedWorkerIsSilent
    <1>15. InstructionInv'
        BY <1>2 DEF SessionInv, InstructionInv, InstructionsOnceInOrder
    <1>16. QED
        BY <1>2, <1>7, <1>8, <1>9, <1>10, <1>11, <1>12, <1>13, <1>14, <1>15 DEF SessionInv

-----------------------------------------------------------------------------
(* The terminal and the worker.                                            *)

\* A step of the worker or of its requests, with the task, the terminal and the
\* store left alone.
LEMMA WorkerMoves ==
    ASSUME SessionInv,
           UNCHANGED <<task, term, ledger, launched, steering, call, server, steered,
                       shown, heard, spoke, pinned, unproven>>,
           worker' \in [generation: Nat, stage: Waiting \cup {"none", "idle", "awaiting"}, told: BOOLEAN],
           WorkerInv', term.latest \in Settled => worker'.generation # term.launch,
           handlers' \subseteq Requests, \A h \in handlers' : ConnectionInv(h)'
    PROVE  SessionInv'
    <1>1. SessionTypeOK' /\ BindingInv'
        BY DEF SessionInv, SessionTypeOK, BindingInv
    <1>2. TaskInv' /\ TermInv' /\ LedgerInv' /\ LaunchInv'
        BY DEF SessionInv, TaskInv, TermInv, LedgerInv, LaunchInv, Completed
    <1>3. ReplacedWorkerIsSilent' /\ InstructionInv'
        BY DEF SessionInv, ReplacedWorkerIsSilent, InstructionInv, InstructionsOnceInOrder
    <1>4. QED
        BY <1>1, <1>2, <1>3 DEF SessionInv

LEMMA SpawnKeeps ==
    ASSUME SessionInv, SpawnWorker
    PROVE  SessionInv'
    <1>1. /\ UNCHANGED <<task, term, ledger, launched, steering, call, server, handlers, steered,
                         shown, heard, spoke, pinned, unproven>>
          /\ term.launch < task.ready /\ worker = NoWorker
          /\ worker' = [NoWorker EXCEPT !.generation = task.ready, !.stage = "idle"]
        BY DEF SpawnWorker, Launchable, durable, memory, history
    <1>2. task.ready \in Nat /\ term.launch \in Nat
        BY DEF SessionInv, SessionTypeOK
    <1>3. /\ worker' \in [generation: Nat, stage: Waiting \cup {"none", "idle", "awaiting"}, told: BOOLEAN]
          /\ worker'.generation = task.ready
        BY <1>1, <1>2 DEF NoWorker
    <1>4. WorkerInv' /\ worker'.generation # term.launch
        BY <1>1, <1>2, <1>3 DEF WorkerInv, Current
    <1>5. ASSUME NEW h \in handlers PROVE ConnectionInv(h)'
        <2>1. ~h.client
            BY <1>1 DEF SessionInv, ConnectionInv
        <2>2. QED
            BY <1>1, <2>1 DEF SessionInv, ConnectionInv
    <1>6. handlers' \subseteq Requests
        BY <1>1 DEF SessionInv, SessionTypeOK
    <1>7. QED
        BY <1>1, <1>3, <1>4, <1>5, <1>6, WorkerMoves

LEMMA ExitKeeps ==
    ASSUME SessionInv, WorkerExits \/ ClientTimesOut
    PROVE  SessionInv'
    <1>1. /\ UNCHANGED <<task, term, ledger, launched, steering, call, server, steered,
                         shown, heard, spoke, pinned, unproven>>
          /\ handlers' = {[h EXCEPT !.client = FALSE] : h \in handlers}
          /\ worker' = NoWorker \/ (worker # NoWorker /\ worker' = [worker EXCEPT !.stage = "idle"])
        BY DEF WorkerExits, ClientTimesOut, WorkerStage, durable, history, NoWorker, Waiting
    <1>2. ASSUME NEW h \in handlers' PROVE h \in Requests /\ ConnectionInv(h)'
        <2>1. PICK g \in handlers : h = [g EXCEPT !.client = FALSE]
            BY <1>1
        <2>2. /\ g \in Requests /\ ConnectionInv(g)
            BY DEF SessionInv, SessionTypeOK
        <2>3. /\ h \in Requests /\ ~h.client /\ h.kind = g.kind /\ h.report = g.report
              /\ h.brief = g.brief /\ h.generation = g.generation /\ h.operation = g.operation
            BY <2>1, <2>2 DEF Requests
        <2>4. QED
            BY <1>1, <2>2, <2>3 DEF ConnectionInv
    <1>3. /\ worker' \in [generation: Nat, stage: Waiting \cup {"none", "idle", "awaiting"}, told: BOOLEAN]
          /\ WorkerInv'
          /\ worker'.generation = 0 \/ worker'.generation = worker.generation
        <2>1. CASE worker' = NoWorker
            BY <2>1 DEF NoWorker, WorkerInv, Current
        <2>2. CASE worker # NoWorker /\ worker' = [worker EXCEPT !.stage = "idle"]
            <3>1. /\ worker' \in [generation: Nat, stage: Waiting \cup {"none", "idle", "awaiting"},
                                  told: BOOLEAN]
                  /\ worker'.generation = worker.generation
                BY <2>2 DEF SessionInv, SessionTypeOK
            <3>2. worker.generation \in 1..task.ready /\ Current(worker.generation)
                BY <2>2 DEF SessionInv, WorkerInv
            <3>3. QED
                BY <1>1, <3>1, <3>2 DEF WorkerInv, Current
        <2>3. QED
            BY <1>1, <2>1, <2>2
    <1>4. term.latest \in Settled => worker'.generation # term.launch
        BY <1>3 DEF Settled, SessionInv, TermInv
    <1>5. QED
        BY <1>1, <1>2, <1>3, <1>4, WorkerMoves

WorkerType == [generation: Nat, stage: Waiting \cup {"none", "idle", "awaiting"}, told: BOOLEAN]

LEMMA StageMoves ==
    ASSUME SessionInv, worker # NoWorker, NEW stage \in Waiting \cup {"idle", "awaiting"},
           WorkerStage(stage), UNCHANGED <<task, unproven>>
    PROVE  /\ worker' \in WorkerType /\ worker' # NoWorker
           /\ worker'.generation = worker.generation /\ WorkerInv'
    <1>1. worker' \in WorkerType /\ worker'.generation = worker.generation /\ worker'.stage = stage
        BY DEF WorkerStage, WorkerType, SessionInv, SessionTypeOK
    <1>2. worker' # NoWorker
        BY <1>1 DEF NoWorker, Waiting
    <1>3. QED
        BY <1>1, <1>2 DEF SessionInv, WorkerInv, Current

\* A request carries the present worker and what the server says now.
LEMMA SendKeeps ==
    ASSUME SessionInv, SendAcknowledgement \/ \E r \in Reports : SendReport(r)
    PROVE  SessionInv'
    <1>1. PICK kind \in {"acknowledge", "report"}, report \in Reports \cup {"none"}, stage \in Waiting :
              /\ Send(Request(kind, report), stage)
              /\ kind = "report" => report \in Reports
              /\ kind = "acknowledge" => server.operation # 0
        BY DEF SendAcknowledgement, SendReport, Waiting
    <1> DEFINE r == Request(kind, report)
    <1>2. /\ UNCHANGED <<task, term, ledger, launched, steering, call, server, steered,
                         shown, heard, spoke, pinned, unproven>>
          /\ worker # NoWorker /\ WorkerStage(stage) /\ handlers' = handlers \cup {r}
        BY <1>1 DEF Send, Reachable, durable, history
    <1>3. /\ worker' \in WorkerType /\ worker' # NoWorker
          /\ worker'.generation = worker.generation /\ WorkerInv'
        BY <1>2, StageMoves
    <1>4. /\ worker.generation \in 1..task.ready /\ task.ready # 0 /\ task.ready \in Nat
          /\ worker.generation = task.ready \/ worker.generation \in unproven
          /\ server.brief \in Nat /\ server.operation \in Nat
          /\ server.brief <= task.brief /\ server.operation <= task.ready
          /\ pinned \in Nat \ {0} /\ pinned <= task.ready
        BY <1>2 DEF SessionInv, WorkerInv, Current, BindingInv, SessionTypeOK, TaskInv
    <1>5. /\ r \in Requests
          /\ r.generation = worker.generation /\ r.brief = server.brief /\ r.kind = kind /\ r.report = report
          /\ kind = "acknowledge" => r.operation = server.operation
        BY <1>4 DEF Request, Requests
    <1> HIDE DEF r
    <1>6. ASSUME NEW h, h = r PROVE ConnectionInv(h)'
        BY <1>6, <1>1, <1>2, <1>3, <1>4, <1>5 DEF ConnectionInv
    <1>7. \A h \in handlers : ConnectionInv(h)'
        BY <1>2, <1>3 DEF SessionInv, ConnectionInv
    <1>8. handlers' \subseteq Requests /\ \A h \in handlers' : ConnectionInv(h)'
        BY <1>2, <1>5, <1>6, <1>7 DEF SessionInv, SessionTypeOK
    <1>9. term.latest \in Settled => worker'.generation # term.launch
        BY <1>3 DEF SessionInv, TermInv
    <1>10. QED
        BY <1>2, <1>3, <1>8, <1>9, WorkerMoves DEF WorkerType

LEMMA AwaitKeeps ==
    ASSUME SessionInv, AwaitDecision
    PROVE  SessionInv'
    <1>1. /\ UNCHANGED <<task, term, ledger, launched, steering, call, server, handlers, steered,
                         shown, heard, spoke, pinned, unproven>>
          /\ worker # NoWorker /\ WorkerStage("idle")
        BY DEF AwaitDecision, NoWorker, durable, memory, history
    <1>2. /\ worker' \in WorkerType /\ worker' # NoWorker
          /\ worker'.generation = worker.generation /\ WorkerInv'
        BY <1>1, StageMoves
    <1>3. handlers' \subseteq Requests /\ \A h \in handlers' : ConnectionInv(h)'
        BY <1>1, <1>2 DEF SessionInv, SessionTypeOK, ConnectionInv
    <1>4. term.latest \in Settled => worker'.generation # term.launch
        BY <1>2 DEF SessionInv, TermInv
    <1>5. QED
        BY <1>1, <1>2, <1>3, <1>4, WorkerMoves DEF WorkerType

LEMMA LaunchIntentKeeps ==
    ASSUME SessionInv, RecordLaunchIntent
    PROVE  SessionInv'
    <1>1. /\ UNCHANGED <<term, ledger, launched, steering, handlers, server, worker, steered,
                         shown, heard, spoke, pinned, unproven, call>>
          /\ task' = [task EXCEPT !.state = "launching"]
        BY SessionEdges DEF RecordLaunchIntent, StartTask, memory, history
    <1>2. /\ task'.state = "launching" /\ task'.ready = task.ready
          /\ term' \in [launch: Nat, latest: {"none"} \cup TerminalTransition, running: BOOLEAN]
        BY <1>1 DEF SessionInv, SessionTypeOK
    <1>3. TermInv' /\ LaunchInv'
        BY <1>1, <1>2 DEF SessionInv, TermInv, LaunchInv
    <1>4. "launching" \in TaskState /\ "launching" # "prepared"
        BY DEF TaskState
    <1>5. QED
        BY <1>1, <1>2, <1>3, <1>4, StateMoves

LEMMA TerminalKeeps ==
    ASSUME SessionInv, RecordTerminalCreated \/ RecordTerminalRunning \/ RecordTerminalExited
    PROVE  SessionInv'
    <1>1. /\ UNCHANGED <<ledger, launched, steering, handlers, server, worker, steered,
                         shown, heard, spoke, pinned, unproven, call>>
        BY DEF RecordTerminalCreated, RecordTerminalRunning, RecordTerminalExited, memory, history
    <1>2. /\ task \in [state: TaskState \cup {"absent"}, brief: Nat, ready: Nat, bound: BOOLEAN]
          /\ term \in [launch: Nat, latest: {"none"} \cup TerminalTransition, running: BOOLEAN]
          /\ worker.generation \in Nat /\ term.launch <= task.ready
          /\ term.latest # "none" => term.launch # 0
        BY DEF SessionInv, SessionTypeOK, TermInv
    <1>3. PICK s \in TaskState :
              /\ task' = [task EXCEPT !.state = s] /\ task' \in [state: TaskState, brief: Nat, ready: Nat, bound: BOOLEAN]
              /\ task'.state = s /\ task'.ready = task.ready
              /\ s = task.state \/ s \in {"working", "unknown"}
              /\ task.state # "ready"
        <2>1. CASE UNCHANGED task /\ task.state \in TaskState
            <3>1. task' = [task EXCEPT !.state = task.state]
                BY <1>2, <2>1
            <3>2. task.state # "ready"
                BY DEF RecordTerminalCreated, RecordTerminalRunning, RecordTerminalExited
            <3>3. task' \in [state: TaskState, brief: Nat, ready: Nat, bound: BOOLEAN]
                BY <1>2, <2>1
            <3>4. task'.state = task.state /\ task'.ready = task.ready
                BY <2>1
            <3>5. QED
                BY <2>1, <3>1, <3>2, <3>3, <3>4, Zenon
        <2>2. ASSUME NEW s \in {"working", "unknown"}, task' = [task EXCEPT !.state = s]
              PROVE  s \in TaskState /\ task' \in [state: TaskState, brief: Nat, ready: Nat, bound: BOOLEAN]
                     /\ task'.state = s /\ task'.ready = task.ready
            BY <1>2, <2>2 DEF TaskState
        <2>3. task.state # "absent"
            <3>1. CASE task.ready = 0
                <4>1. term.launch = 0 /\ term.latest = "none"
                    BY <1>2, <3>1
                <4>2. RecordTerminalCreated
                    BY <4>1 DEF RecordTerminalRunning, RecordTerminalExited
                <4>3. QED
                    BY <4>2 DEF RecordTerminalCreated
            <3>2. CASE task.ready # 0
                BY <3>2 DEF SessionInv, TaskInv
            <3>3. QED
                BY <3>1, <3>2
        <2>4. CASE UNCHANGED task
            BY <1>2, <2>1, <2>3, <2>4
        <2>5. CASE task' = [task EXCEPT !.state = "working"] \/ task' = [task EXCEPT !.state = "unknown"]
            <3>1. task.state # "ready"
                BY DEF RecordTerminalCreated, RecordTerminalRunning, RecordTerminalExited
            <3>2. QED
                BY <2>2, <2>5, <3>1
        <2>6. QED
            BY <2>4, <2>5, SessionEdges
            DEF RecordTerminalCreated, RecordTerminalRunning, RecordTerminalExited
    <1>4. s # "ready" /\ (s = "prepared" => task.ready = 0)
        BY <1>3 DEF SessionInv, TaskInv
    <1>5. /\ term' \in [launch: Nat, latest: {"none"} \cup TerminalTransition, running: BOOLEAN]
          /\ TermInv' /\ LaunchInv'
        <2>1. CASE RecordTerminalCreated
            <3>1. /\ term' = [launch |-> worker.generation, latest |-> "created", running |-> FALSE]
                  /\ task.state = "launching" /\ UNCHANGED task /\ worker # NoWorker
                BY <2>1 DEF RecordTerminalCreated, CreatedUnrecorded
            <3>2. worker.generation \in 1..task.ready /\ Current(worker.generation)
                BY <3>1 DEF SessionInv, WorkerInv
            <3>3. /\ term'.launch = worker.generation /\ term'.latest = "created" /\ term'.latest \notin Settled
                  /\ term' \in [launch: Nat, latest: {"none"} \cup TerminalTransition, running: BOOLEAN]
                BY <1>2, <3>1 DEF Settled, TerminalTransition
            <3>4. TermInv'
                BY <1>1, <1>2, <3>1, <3>2, <3>3 DEF TermInv, Current
            <3>5. LaunchInv'
                BY <3>1 DEF LaunchInv
            <3>6. QED
                BY <3>3, <3>4, <3>5
        <2>2. CASE RecordTerminalRunning
            <3>1. /\ term' = [term EXCEPT !.latest = "running", !.running = TRUE]
                  /\ term.launch = worker.generation /\ term.launch # 0
                  /\ s = task.state \/ (s = "working" /\ task.ready \in launched)
                BY <1>2, <1>3, <2>2, SessionEdges DEF RecordTerminalRunning, HasLaunchAcknowledgement
            <3>2. term.launch = task.ready \/ term.launch \in unproven
                BY <3>1 DEF SessionInv, WorkerInv, Current, NoWorker
            <3>3. /\ term' \in [launch: Nat, latest: {"none"} \cup TerminalTransition, running: BOOLEAN]
                  /\ term'.launch = term.launch /\ term'.latest = "running" /\ term'.running
                BY <1>2, <3>1, <3>2 DEF TerminalTransition
            <3>4. TermInv'
                BY <1>1, <1>2, <1>3, <1>4, <3>1, <3>2, <3>3 DEF TermInv, Settled
            <3>5. LaunchInv'
                BY <1>1, <1>3, <3>1, <3>2, <3>3 DEF SessionInv, LaunchInv
            <3>6. QED
                BY <3>3, <3>4, <3>5
        <2>3. CASE RecordTerminalExited
            <3>1. /\ term' = [term EXCEPT !.latest = "exited"] /\ worker.generation # term.launch
                  /\ s = task.state \/ s = "unknown"
                  /\ term.latest # "none"
                BY <1>3, <2>3, SessionEdges DEF RecordTerminalExited
            <3>2. /\ term' \in [launch: Nat, latest: {"none"} \cup TerminalTransition, running: BOOLEAN]
                  /\ term'.launch = term.launch /\ term'.running = term.running
                BY <1>2, <3>1 DEF TerminalTransition
            <3>3. TermInv'
                BY <1>1, <1>2, <1>3, <1>4, <3>1, <3>2 DEF SessionInv, TermInv, Settled
            <3>4. LaunchInv'
                BY <1>1, <1>3, <3>1, <3>2 DEF SessionInv, LaunchInv
            <3>5. QED
                BY <3>2, <3>3, <3>4
        <2>4. QED
            BY <2>1, <2>2, <2>3
    <1>6. QED
        BY <1>1, <1>3, <1>4, <1>5, StateMoves

-----------------------------------------------------------------------------
(* Steering instructions.                                                  *)

\* The oldest instruction leaves the queue, shown or lost.
LEMMA InstructionConsumed ==
    ASSUME InstructionInv, steering \in Seq(Nat), shown \in Seq(Nat), steered \in Nat,
           steering # <<>>, steering' = Tail(steering),
           shown' = shown \/ shown' = Append(shown, Head(steering)), UNCHANGED steered
    PROVE  InstructionInv' /\ steering' \in Seq(Nat) /\ shown' \in Seq(Nat)
    <1>1. /\ Len(steering) \in Nat \ {0} /\ Head(steering) = steering[1] /\ steering[1] \in Nat
          /\ steering' \in Seq(Nat) /\ Len(steering') = Len(steering) - 1
          /\ \A j \in 1..Len(steering') : steering'[j] = steering[j + 1] /\ j + 1 \in 1..Len(steering)
        OBVIOUS
    <1>2. /\ \A i, j \in 1..Len(steering') : i < j => steering'[i] < steering'[j]
          /\ \A j \in 1..Len(steering') : steering'[j] <= steered /\ steering[1] < steering'[j]
          /\ \A i \in 1..Len(shown), j \in 1..Len(steering') : shown[i] < steering'[j]
        <2>1. \A i, j \in 1..Len(steering) : i < j => steering[i] < steering[j]
            BY DEF InstructionInv
        <2>2. \A j \in 1..Len(steering) : steering[j] <= steered
            BY DEF InstructionInv
        <2>3. \A i \in 1..Len(shown), j \in 1..Len(steering) : shown[i] < steering[j]
            BY DEF InstructionInv
        <2>4. QED
            BY <1>1, <2>1, <2>2, <2>3
    <1>3. CASE shown' = shown
        <2>1. DOMAIN steering' = 1..Len(steering') /\ DOMAIN shown' = 1..Len(shown) /\ steering' \in Seq(Nat)
            BY <1>1, <1>3
        <2>2. \A i \in 1..Len(shown) : shown[i] <= steered
            BY DEF InstructionInv
        <2>3. \A i, j \in 1..Len(shown) : i < j => shown[i] < shown[j]
            BY DEF InstructionInv, InstructionsOnceInOrder
        <2>4. InstructionInv'
            BY <1>2, <1>3, <2>1, <2>2, <2>3 DEF InstructionInv, InstructionsOnceInOrder
        <2>5. QED
            BY <1>3, <2>1, <2>4
    <1>4. CASE shown' = Append(shown, Head(steering))
        <2>1. /\ shown' \in Seq(Nat) /\ Len(shown') = Len(shown) + 1
              /\ \A i \in 1..Len(shown) : shown'[i] = shown[i] /\ shown[i] \in Nat
              /\ shown'[Len(shown) + 1] = steering[1]
            BY <1>1, <1>4
        <2>2. \A i \in 1..Len(shown) : shown[i] < steering[1] /\ shown[i] <= steered
            BY <1>1 DEF InstructionInv
        <2>3. \A i, j \in 1..Len(shown) : i < j => shown[i] < shown[j]
            BY DEF InstructionInv, InstructionsOnceInOrder
        <2>4. steering[1] <= steered
            BY <1>1 DEF InstructionInv
        <2>5. \A i \in 1..Len(shown') : i \in 1..Len(shown) \/ i = Len(shown) + 1
            BY <2>1
        <2>6. \A i \in 1..Len(shown') : shown'[i] <= steered /\
                \A j \in 1..Len(steering') : shown'[i] < steering'[j]
            BY <1>2, <2>1, <2>2, <2>4, <2>5
        <2>7. \A i, j \in 1..Len(shown') : i < j => shown'[i] < shown'[j]
            <3>1. SUFFICES ASSUME NEW i \in 1..Len(shown'), NEW j \in 1..Len(shown'), i < j
                           PROVE  shown'[i] < shown'[j]
                OBVIOUS
            <3>2. i \in 1..Len(shown) /\ Len(shown) \in Nat
                BY <2>1, <3>1
            <3>3. CASE j \in 1..Len(shown)
                BY <2>1, <2>3, <3>1, <3>2, <3>3
            <3>4. CASE j = Len(shown) + 1
                BY <2>1, <2>2, <3>2, <3>4
            <3>5. QED
                BY <2>5, <3>3, <3>4
        <2>8. DOMAIN shown' = 1..Len(shown') /\ DOMAIN steering' = 1..Len(steering')
            BY <1>1, <2>1
        <2>9. QED
            BY <1>1, <1>2, <2>1, <2>6, <2>7, <2>8 DEF InstructionInv, InstructionsOnceInOrder
    <1>5. QED
        BY <1>3, <1>4

\* A new instruction joins the queue at its end.
LEMMA SteerKeeps ==
    ASSUME SessionInv, CommitTaskSteer
    PROVE  SessionInv'
    <1>1. /\ UNCHANGED <<task, term, ledger, launched, call, server, handlers, worker,
                         shown, heard, spoke, pinned, unproven>>
          /\ steered' = steered + 1 /\ steering' = Append(steering, steered + 1)
        BY DEF CommitTaskSteer, memory, history
    <1>2. steering \in Seq(Nat) /\ shown \in Seq(Nat) /\ steered \in Nat
        BY DEF SessionInv, SessionTypeOK
    <1>3. /\ steering' \in Seq(Nat) /\ Len(steering') = Len(steering) + 1
          /\ DOMAIN steering' = 1..Len(steering')
          /\ \A j \in 1..Len(steering) : steering'[j] = steering[j] /\ steering[j] \in Nat
          /\ steering'[Len(steering) + 1] = steered + 1
        BY <1>1, <1>2
    <1>4. /\ \A i, j \in 1..Len(steering) : i < j => steering[i] < steering[j]
          /\ \A j \in 1..Len(steering) : steering[j] <= steered
          /\ \A i \in DOMAIN shown, j \in 1..Len(steering) : shown[i] < steering[j]
          /\ \A i \in DOMAIN shown : shown[i] <= steered /\ shown[i] \in Nat
        BY <1>2 DEF SessionInv, InstructionInv
    <1>5. \A j \in 1..Len(steering') : j \in 1..Len(steering) \/ j = Len(steering) + 1
        BY <1>3
    <1>6. \A i, j \in 1..Len(steering') : i < j => steering'[i] < steering'[j]
        <2>1. SUFFICES ASSUME NEW i \in 1..Len(steering'), NEW j \in 1..Len(steering'), i < j
                       PROVE  steering'[i] < steering'[j]
            OBVIOUS
        <2>2. i \in 1..Len(steering)
            BY <1>3, <2>1
        <2>3. CASE j \in 1..Len(steering)
            BY <1>3, <1>4, <2>1, <2>2, <2>3
        <2>4. CASE j = Len(steering) + 1
            <3>1. steering'[i] \in Nat /\ steering'[i] <= steered
                BY <1>3, <1>4, <2>2
            <3>2. steering'[j] = steered + 1
                BY <1>3, <2>4
            <3>3. QED
                BY <1>2, <3>1, <3>2
        <2>5. QED
            BY <1>5, <2>1, <2>3, <2>4
    <1>7. /\ \A j \in 1..Len(steering') : steering'[j] <= steered'
          /\ \A i \in DOMAIN shown : shown[i] <= steered'
        BY <1>1, <1>2, <1>3, <1>4, <1>5
    <1>8. \A i \in DOMAIN shown, j \in 1..Len(steering') : shown[i] < steering'[j]
        <2>1. SUFFICES ASSUME NEW i \in DOMAIN shown, NEW j \in 1..Len(steering')
                       PROVE  shown[i] < steering'[j]
            OBVIOUS
        <2>2. CASE j \in 1..Len(steering)
            BY <1>3, <1>4, <2>2
        <2>3. CASE j = Len(steering) + 1
            <3>1. steering'[j] = steered + 1 /\ shown[i] \in Nat /\ shown[i] <= steered
                BY <1>3, <1>4, <2>3
            <3>2. QED
                BY <1>2, <3>1
        <2>4. QED
            BY <1>5, <2>2, <2>3
    <1>9. InstructionInv'
        BY <1>1, <1>3, <1>6, <1>7, <1>8 DEF SessionInv, InstructionInv, InstructionsOnceInOrder
    <1>10. SessionTypeOK' /\ BindingInv'
        BY <1>1, <1>2, <1>3 DEF SessionInv, SessionTypeOK, BindingInv
    <1>11. TaskInv' /\ TermInv' /\ WorkerInv' /\ LedgerInv' /\ LaunchInv' /\ ReplacedWorkerIsSilent'
        BY <1>1 DEF SessionInv, TaskInv, TermInv, WorkerInv, Current, LedgerInv, LaunchInv, Completed,
            ReplacedWorkerIsSilent
    <1>12. \A h \in handlers' : ConnectionInv(h)'
        BY <1>1 DEF SessionInv, ConnectionInv
    <1>13. QED
        BY <1>9, <1>10, <1>11, <1>12 DEF SessionInv

-----------------------------------------------------------------------------
(* The connections.                                                        *)

\* An answered connection is gone, and the client that waits for it goes on.
LEMMA AnswerKeeps ==
    ASSUME SessionInv, NEW h \in handlers, NEW w \in WorkerType,
           w.generation = worker.generation, w.stage # "none", Answer(h, w),
           task'.ready = task.ready, task'.brief = task.brief, UNCHANGED <<pinned, unproven>>
    PROVE  /\ worker' \in WorkerType /\ worker'.generation = worker.generation
           /\ WorkerInv' /\ handlers' \subseteq Requests
           /\ \A g \in handlers' : ConnectionInv(g)'
    <1>1. /\ handlers' \subseteq handlers /\ worker \in WorkerType
          /\ worker' = worker \/ (h.client /\ worker' = w)
        BY DEF Answer, SessionInv, SessionTypeOK, WorkerType
    <1>2. h.client => worker # NoWorker
        BY DEF SessionInv, ConnectionInv
    <1>3. w # NoWorker
        BY DEF NoWorker
    <1>4. worker' # NoWorker <=> worker # NoWorker
        BY <1>1, <1>2, <1>3
    <1>5. WorkerInv'
        BY <1>1, <1>4 DEF SessionInv, WorkerInv, Current
    <1>6. \A g \in handlers' : ConnectionInv(g)'
        BY <1>1, <1>4 DEF SessionInv, ConnectionInv
    <1>7. QED
        BY <1>1, <1>5, <1>6 DEF SessionInv, SessionTypeOK

\* An answer that changes the worker only.
LEMMA AnswerOnlyKeeps ==
    ASSUME SessionInv, NEW h \in handlers, NEW w \in WorkerType,
           w.generation = worker.generation, w.stage # "none", Answer(h, w),
           UNCHANGED <<durable, history, call, server, steered>>
    PROVE  SessionInv'
    <1>1. UNCHANGED <<task, term, ledger, launched, steering, call, server, steered,
                      shown, heard, spoke, pinned, unproven>>
        BY DEF durable, history
    <1>2. /\ worker' \in WorkerType /\ worker'.generation = worker.generation
          /\ WorkerInv' /\ handlers' \subseteq Requests
          /\ \A g \in handlers' : ConnectionInv(g)'
        BY <1>1, AnswerKeeps
    <1>3. term.latest \in Settled => worker'.generation # term.launch
        BY <1>2 DEF SessionInv, TermInv
    <1>4. QED
        BY <1>1, <1>2, <1>3, WorkerMoves DEF WorkerType

\* The worker as an answer leaves it.
LEMMA AnsweredWorker ==
    ASSUME SessionInv
    PROVE  /\ \A stage \in {"idle", "awaiting"} :
                LET w == [worker EXCEPT !.stage = stage] IN
                w \in WorkerType /\ w.generation = worker.generation /\ w.stage # "none"
           /\ LET w == [worker EXCEPT !.stage = "idle", !.told = TRUE] IN
              w \in WorkerType /\ w.generation = worker.generation /\ w.stage # "none"
    BY DEF SessionInv, SessionTypeOK, WorkerType

\* While every generation was left on the end of its own terminal, an
\* acknowledgement that is not a replay is the present worker's: every other
\* launch operation a connection may carry is in the ledger.
LEMMA AcknowledgementKeeps ==
    ASSUME SessionInv, NEW h \in handlers, AcknowledgeWorkerLaunch(h)
    PROVE  SessionInv'
    <1>1. UNCHANGED <<call, server, steered>> /\ h.kind = "acknowledge"
        BY DEF AcknowledgeWorkerLaunch
    <1>2. CASE AcknowledgeReplays(h) \/ AcknowledgeRefused(h)
        BY <1>1, <1>2, AnsweredWorker, AnswerOnlyKeeps DEF AcknowledgeReplays, AcknowledgeRefused
    <1>3. CASE AcknowledgeCommits(h)
        <2> DEFINE e == [operation |-> h.operation, brief |-> h.brief]
                   w == [worker EXCEPT !.stage = "idle", !.told = TRUE]
        <2>1. /\ \A entry \in ledger : entry.operation # h.operation
              /\ task.state = "launching"
              /\ ledger' = ledger \cup {e} /\ launched' = launched \cup {task.ready}
              /\ spoke' = spoke \cup {h.generation} /\ Answer(h, w)
              /\ UNCHANGED <<term, steering, shown, heard, pinned, unproven>>
              /\ \/ UNCHANGED task
                 \/ task' = [task EXCEPT !.state = "working"] /\ term.running
            BY <1>3, SessionEdges DEF AcknowledgeCommits
        <2>2. /\ task \in [state: TaskState \cup {"absent"}, brief: Nat, ready: Nat, bound: BOOLEAN]
              /\ h.operation \in 1..task.ready
              /\ unproven = {} /\ h.operation = task.ready => h.generation = task.ready
              /\ task.ready # 0
            BY <1>1 DEF SessionInv, SessionTypeOK, ConnectionInv
        <2>3. unproven = {} => h.operation = task.ready /\ h.generation = task.ready
            <3>1. ~Completed(h.operation)
                BY <2>1 DEF Completed
            <3>2. unproven = {} => ~(h.operation < task.ready)
                BY <2>2, <3>1 DEF SessionInv, LedgerInv
            <3>3. QED
                BY <2>2, <3>2
        <2>4. /\ task' \in [state: TaskState \cup {"absent"}, brief: Nat, ready: Nat, bound: BOOLEAN]
              /\ task'.ready = task.ready /\ task'.brief = task.brief /\ task'.bound = task.bound
              /\ \/ task'.state = "launching"
                 \/ task'.state = "working" /\ term.running
            BY <2>1, <2>2 DEF TaskState
        <2>5. /\ worker' \in WorkerType /\ worker'.generation = worker.generation
              /\ WorkerInv' /\ handlers' \subseteq Requests
              /\ \A g \in handlers' : ConnectionInv(g)'
            BY <2>1, <2>4, AnsweredWorker, AnswerKeeps
        <2>6. unproven = {} => e.operation = task.ready
            BY <2>3
        <2> HIDE DEF e, w
        <2>7. LedgerInv'
            <3>1. ASSUME unproven = {}, NEW n \in 1..task.ready, n < task.ready \/ n \in launched'
                  PROVE  Completed(n)'
                <4>1. CASE n = task.ready
                    BY <2>1, <2>6, <3>1, <4>1 DEF Completed
                <4>2. CASE n < task.ready
                    BY <2>1, <3>1, <4>2 DEF SessionInv, LedgerInv, Completed
                <4>3. QED
                    BY <2>2, <4>1, <4>2
            <3>2. /\ launched' \subseteq 1..task.ready
                  /\ unproven = {} => launched' \subseteq spoke'
                BY <2>1, <2>2, <2>3 DEF SessionInv, LedgerInv
            <3>3. QED
                BY <2>1, <2>4, <3>1, <3>2 DEF LedgerInv
        <2>8. LaunchInv'
            BY <2>1, <2>4 DEF LaunchInv
        <2>9. TaskInv' /\ TermInv'
            BY <2>1, <2>4, <2>5, <2>3 DEF SessionInv, TaskInv, TermInv
        <2>10. BindingInv'
            BY <1>1, <2>4 DEF SessionInv, BindingInv
        <2>11. ReplacedWorkerIsSilent' /\ InstructionInv'
            BY <1>1, <2>1, <2>4
            DEF SessionInv, ReplacedWorkerIsSilent, InstructionInv, InstructionsOnceInOrder
        <2>12. SessionTypeOK'
            BY <1>1, <2>1, <2>4, <2>5 DEF SessionInv, SessionTypeOK, WorkerType
        <2>13. QED
            BY <2>5, <2>7, <2>8, <2>9, <2>10, <2>11, <2>12 DEF SessionInv
    <1>4. QED
        BY <1>2, <1>3 DEF AcknowledgeWorkerLaunch

\* A report that is accepted carries the present brief, so its worker does too.
LEMMA ReportKeeps ==
    ASSUME SessionInv, NEW h \in handlers, AcceptReport(h)
    PROVE  SessionInv'
    <1>1. UNCHANGED <<call, server, steered>> /\ h.kind = "report" /\ h.report \in Reports
        BY DEF AcceptReport, SessionInv, ConnectionInv
    <1>2. CASE RefuseReport(h)
        BY <1>1, <1>2, AnsweredWorker, AnswerOnlyKeeps DEF RefuseReport
    <1>3. CASE CommitReport(h)
        <2> DEFINE s == Edge[ReportTransition[h.report]].to
        <2>1. /\ h.brief = task.brief /\ ReportApplies(h)
              /\ task' = [task EXCEPT !.state = s]
              /\ heard' = heard \cup {h.generation}
              /\ UNCHANGED <<term, ledger, launched, spoke, pinned, unproven>>
            BY <1>3 DEF CommitReport, AcceptsReport
        <2>2. PICK stage \in {"idle", "awaiting"} : Answer(h, [worker EXCEPT !.stage = stage])
            BY <1>3 DEF CommitReport
        <2>3. \/ task.state \in {"working", "awaiting_decision"} /\ s \in {"working", "awaiting_decision"}
              \/ task.state \in {"ready", "working", "awaiting_decision", "blocked"} /\ s = "paused"
            BY <1>1, <2>1, ReportEdges
        <2> HIDE DEF s
        <2>4. /\ task' \in [state: TaskState \cup {"absent"}, brief: Nat, ready: Nat, bound: BOOLEAN]
              /\ task'.ready = task.ready /\ task'.brief = task.brief /\ task'.bound = task.bound
              /\ task'.state = s
            BY <2>1, <2>3 DEF SessionInv, SessionTypeOK, TaskState
        <2>5. /\ worker' \in WorkerType /\ worker'.generation = worker.generation
              /\ WorkerInv' /\ handlers' \subseteq Requests
              /\ \A g \in handlers' : ConnectionInv(g)'
            BY <2>1, <2>2, <2>4, AnsweredWorker, AnswerKeeps
        <2>6. InstructionInv' /\ steering' \in Seq(Nat) /\ shown' \in Seq(Nat)
            <3>1. steering \in Seq(Nat) /\ shown \in Seq(Nat) /\ steered \in Nat
                BY DEF SessionInv, SessionTypeOK
            <3>2. CASE UNCHANGED <<steering, shown>>
                BY <1>1, <3>1, <3>2 DEF SessionInv, InstructionInv, InstructionsOnceInOrder
            <3>3. CASE /\ steering # <<>> /\ steering' = Tail(steering)
                       /\ shown' = shown \/ shown' = Append(shown, Head(steering))
                BY <1>1, <3>1, <3>3, InstructionConsumed DEF SessionInv
            <3>4. QED
                BY <1>3, <3>2, <3>3 DEF CommitReport, ConsumeSteeringInstruction
        <2>7. ReplacedWorkerIsSilent'
            <3>1. /\ h.generation \in 1..task.ready
                  /\ pinned <= h.generation \/ h.generation \in unproven
                BY <2>1 DEF SessionInv, ConnectionInv
            <3>2. pinned \in Nat /\ task.ready \in Nat
                BY DEF SessionInv, SessionTypeOK
            <3>3. h.generation \in (pinned..task.ready) \cup unproven
                BY <3>1, <3>2
            <3>4. QED
                BY <2>1, <2>4, <3>3 DEF SessionInv, ReplacedWorkerIsSilent
        <2>8. LaunchInv'
            <3>1. term.launch \in Nat /\ task.ready \in Nat
                BY DEF SessionInv, SessionTypeOK
            <3>2. task.state = "ready" => term.launch # task.ready
                BY <3>1 DEF SessionInv, TermInv
            <3>3. QED
                BY <2>1, <2>3, <2>4, <3>2 DEF SessionInv, LaunchInv
        <2>9. TaskInv' /\ TermInv'
            BY <2>1, <2>3, <2>4, <2>5 DEF SessionInv, TaskInv, TermInv
        <2>10. BindingInv' /\ LedgerInv'
            BY <1>1, <2>1, <2>4 DEF SessionInv, BindingInv, LedgerInv, Completed
        <2>11. SessionTypeOK'
            BY <1>1, <2>1, <2>4, <2>5, <2>6 DEF SessionInv, SessionTypeOK, WorkerType
        <2>12. QED
            BY <2>5, <2>6, <2>7, <2>8, <2>9, <2>10, <2>11 DEF SessionInv
    <1>4. QED
        BY <1>2, <1>3 DEF AcceptReport

-----------------------------------------------------------------------------
(* A crash and the recovery after it.                                      *)

LEMMA CrashKeeps ==
    ASSUME SessionInv, Crash
    PROVE  SessionInv'
    <1>1. /\ UNCHANGED <<task, term, ledger, launched, steering, steered, shown, heard, spoke, pinned, unproven>>
          /\ call' = [c \in Callers |-> Idle] /\ server' = Down /\ handlers' = {}
          /\ worker' = worker \/ (worker # NoWorker /\ worker' = [worker EXCEPT !.stage = "idle"])
        BY DEF Crash, durable, history, NoWorker, Waiting
    <1>2. worker' \in WorkerType /\ worker'.generation = worker.generation /\ WorkerInv'
        <2>1. CASE worker' = worker
            BY <1>1, <2>1 DEF SessionInv, SessionTypeOK, WorkerType, WorkerInv, Current
        <2>2. CASE worker # NoWorker /\ WorkerStage("idle")
            BY <1>1, <2>2, StageMoves
        <2>3. QED
            BY <1>1, <2>1, <2>2 DEF WorkerStage
    <1>3. SessionTypeOK' /\ BindingInv'
        BY <1>1, <1>2 DEF SessionInv, SessionTypeOK, BindingInv, WorkerType, Idle, Down, CallStages
    <1>4. TaskInv' /\ TermInv' /\ LedgerInv' /\ LaunchInv'
        BY <1>1, <1>2 DEF SessionInv, TaskInv, TermInv, LedgerInv, LaunchInv, Completed
    <1>5. ReplacedWorkerIsSilent' /\ InstructionInv'
        BY <1>1 DEF SessionInv, ReplacedWorkerIsSilent, InstructionInv, InstructionsOnceInOrder
    <1>6. QED
        BY <1>1, <1>2, <1>3, <1>4, <1>5 DEF SessionInv

\* Recovery binds an operation that may be old, under the present brief.
LEMMA RecoveryKeeps ==
    ASSUME SessionInv, RecoverRuntimeAttachments
    PROVE  SessionInv'
    <1>1. /\ UNCHANGED <<term, ledger, launched, steering, call, handlers, worker, steered,
                         shown, heard, spoke, pinned, unproven>>
          /\ task' = task \/ task' = [task EXCEPT !.state = "unknown"]
          /\ task' # task => task.state \in RuntimeSensitiveState
          /\ \/ server' = Down
             \/ server' = [up |-> TRUE, brief |-> task.brief, recovered |-> TRUE,
                           operation |-> RecoveredOperation(task)]
        BY DEF RecoverRuntimeAttachments, history
    <1>2. /\ task \in [state: TaskState \cup {"absent"}, brief: Nat, ready: Nat, bound: BOOLEAN]
          /\ task' \in [state: TaskState \cup {"absent"}, brief: Nat, ready: Nat, bound: BOOLEAN]
          /\ task'.ready = task.ready /\ task'.brief = task.brief /\ task'.bound = task.bound
          /\ task'.state = task.state \/ task'.state = "unknown"
        <2>1. task \in [state: TaskState \cup {"absent"}, brief: Nat, ready: Nat, bound: BOOLEAN]
            BY DEF SessionInv, SessionTypeOK
        <2>2. "unknown" \in TaskState
            BY DEF TaskState
        <2>3. CASE task' = task
            BY <2>1, <2>3
        <2>4. CASE task' = [task EXCEPT !.state = "unknown"]
            BY <2>1, <2>2, <2>4
        <2>5. QED
            BY <1>1, <2>1, <2>3, <2>4
    <1>3. RecoveredOperation(task) \in Nat /\ RecoveredOperation(task) <= task.ready
        BY <1>2 DEF RecoveredOperation, FirstLaunch, SessionInv, TaskInv
    <1>4. /\ server' \in [up: BOOLEAN, brief: Nat, operation: Nat, recovered: BOOLEAN]
          /\ server'.brief <= task.brief /\ server'.operation <= task.ready
        <2>1. task.brief \in Nat /\ task.ready \in Nat
            BY <1>2
        <2>2. CASE server' = Down
            BY <2>1, <2>2 DEF Down
        <2>3. CASE server' = [up |-> TRUE, brief |-> task.brief, recovered |-> TRUE,
                              operation |-> RecoveredOperation(task)]
            BY <1>3, <2>1, <2>3
        <2>4. QED
            BY <1>1, <2>2, <2>3
    <1>5. SessionTypeOK' /\ BindingInv'
        BY <1>1, <1>2, <1>4 DEF SessionInv, SessionTypeOK, BindingInv
    <1>6. TaskInv' /\ TermInv' /\ WorkerInv' /\ LedgerInv' /\ LaunchInv'
        BY <1>1, <1>2 DEF SessionInv, TaskInv, TermInv, WorkerInv, Current, LedgerInv, LaunchInv, Completed
    <1>7. \A h \in handlers' : ConnectionInv(h)'
        BY <1>1, <1>2 DEF SessionInv, ConnectionInv
    <1>8. ReplacedWorkerIsSilent' /\ InstructionInv'
        BY <1>1, <1>2 DEF SessionInv, ReplacedWorkerIsSilent, InstructionInv, InstructionsOnceInOrder
    <1>9. QED
        BY <1>5, <1>6, <1>7, <1>8 DEF SessionInv

-----------------------------------------------------------------------------
(* The invariant holds.                                                    *)

LEMMA SessionStarts ==
    ASSUME Init
    PROVE  SessionInv
    <1>1. SessionTypeOK
        BY DEF Init, SessionTypeOK, TerminalTransition, Idle, CallStages, Down, NoWorker
    <1>2. TaskInv /\ TermInv /\ WorkerInv /\ BindingInv /\ LaunchInv
        BY DEF Init, TaskInv, TermInv, WorkerInv, Current, BindingInv, LaunchInv, Settled, Idle, Down
    <1>3. LedgerInv /\ ReplacedWorkerIsSilent /\ InstructionInv
        BY DEF Init, LedgerInv, ReplacedWorkerIsSilent, InstructionInv, InstructionsOnceInOrder
    <1>4. QED
        BY <1>1, <1>2, <1>3 DEF Init, SessionInv

LEMMA SessionStep ==
    ASSUME SessionInv, [Next]_vars
    PROVE  SessionInv'
    <1>1. CASE UNCHANGED vars
        <2>1. Untouched /\ UNCHANGED <<server, call>>
            BY <1>1 DEF vars, Untouched, durable, memory, history
        <2>2. QED
            BY <2>1, BindingKeeps DEF Untouched, SessionInv, SessionTypeOK, BindingInv
    <1>2. ASSUME NEW c \in Callers, CallerStep(c) PROVE SessionInv'
        BY <1>2, PreparationKeeps, AttachmentKeeps, CommitKeeps, ActivationKeeps, BindingsKeep,
           RelaunchKeeps, ReplayKeeps DEF CallerStep
    <1>3. CASE WorkerStep
        BY <1>3, SendKeeps, AwaitKeeps DEF WorkerStep
    <1>4. CASE HandlerStep
        BY <1>4, AcknowledgementKeeps, ReportKeeps DEF HandlerStep
    <1>5. CASE TerminalStep
        BY <1>5, SpawnKeeps, LaunchIntentKeeps, TerminalKeeps, ExitKeeps DEF TerminalStep
    <1>6. CASE CommitTaskSteer \/ ClientTimesOut \/ Crash \/ RecoverRuntimeAttachments
        BY <1>6, SteerKeeps, ExitKeeps, CrashKeeps, RecoveryKeeps
    <1>7. QED
        BY <1>1, <1>2, <1>3, <1>4, <1>5, <1>6 DEF Next

\* What a connection, a call or the server remembers is at most old, never
\* ahead: briefs and generations only grow.  ResumeTask and ReplaceWorker leave a
\* generation on the end of some terminal; while that was always its own, every
\* generation left has its launch in the operation ledger, and a worker that
\* outlives its generation is always one left on the end of another's terminal.
THEOREM SessionInductive == Spec => []SessionInv
    <1>1. Init => SessionInv
        BY SessionStarts
    <1>2. SessionInv /\ [Next]_vars => SessionInv'
        BY SessionStep
    <1>3. QED
        BY <1>1, <1>2, PTL DEF Spec

\* No report of a replaced worker is accepted under its replacement's brief,
\* though its connection read the server before the replacement was bound
\* (AcceptWorkerReport checks the brief again in its transaction), unless the
\* replacement took an earlier terminal's end for its own
\* (proveNothingIsStillRunning).
THEOREM ReplacedWorkersAreSilent == Spec => []ReplacedWorkerIsSilent
    <1>1. SessionInv => ReplacedWorkerIsSilent
        BY DEF SessionInv
    <1>2. QED
        BY <1>1, SessionInductive, PTL

\* A working task has an acknowledgement of its present generation and a terminal
\* that ran.  While no generation was left on the end of another's terminal, the
\* echo is the present worker's own, as an acknowledgement left over from an
\* earlier launch is a replay or refused, and the terminal is its own or one that
\* ended (AcknowledgeWorkerLaunch, hasLaunchAcknowledgement).
THEOREM WorkersAcknowledge == Spec => []WorkingIsAcknowledged
    <1>1. SessionInv => WorkingIsAcknowledged
        <2>1. SUFFICES ASSUME SessionInv, task.state = "working" PROVE WorkingIsAcknowledged
            BY DEF WorkingIsAcknowledged
        <2>2. task.ready \in launched /\ term.running
            BY <2>1 DEF SessionInv, LaunchInv
        <2>3. /\ term.launch # 0 /\ term.launch <= task.ready
              /\ term.launch \in Nat /\ task.ready \in Nat
            BY <2>1, <2>2 DEF SessionInv, TermInv, SessionTypeOK
        <2>4. unproven = {} =>
                task.ready \in spoke /\ (term.launch = task.ready \/ term.latest \in Settled)
            BY <2>1, <2>2, <2>3 DEF SessionInv, LedgerInv, TermInv
        <2>5. QED
            BY <2>2, <2>4 DEF WorkingIsAcknowledged
    <1>2. QED
        BY <1>1, SessionInductive, PTL

\* An instruction is rendered at most once and after those queued before it,
\* whatever receipts are lost (consumeSteeringInstruction deletes the oldest
\* row in the transaction that returns it).
THEOREM InstructionsAreOrdered == Spec => []InstructionsOnceInOrder
    <1>1. SessionInv => InstructionsOnceInOrder
        BY DEF SessionInv, InstructionInv
    <1>2. QED
        BY <1>1, SessionInductive, PTL
=============================================================================
