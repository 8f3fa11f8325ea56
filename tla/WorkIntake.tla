----------------------------- MODULE WorkIntake -----------------------------
(***************************************************************************)
(* How work enters the service: requests added to the backlog, a request   *)
(* promoted to a prepared task, and a ship task minted from what a scout   *)
(* found.  Every command carries an operation identity that its client     *)
(* repeats until it has an answer; the operation ledger is what makes the  *)
(* repetition safe.                                                        *)
(*                                                                         *)
(* A promotion is several transactions with a workspace prepared between   *)
(* two of them, so copies of one command, rival commands and a crash may   *)
(* fall between any two.  Task and backlog handles are hashes of the       *)
(* operation that creates them, so a task is named by its preparation.     *)
(***************************************************************************)
EXTENDS Naturals, FiniteSets

CONSTANTS
    Items,        \* backlog requests
    DependsOn,    \* the requests each of them names
    Workloads,    \* sets of commands the clients may send in one behaviour,
                  \* each a [kind, op, item, contract] record
    Callers,      \* calls the service serves at one time
    None,
    MaxEvidence,  \* evidence the scout seals
    MaxFaults     \* crashes and calls cut off by their deadline

Commands == UNION Workloads
Kinds == {"add", "promote", "ship", "attest"}

Of(kind) == {cmd \in Commands : cmd.kind = kind}

(* A request's handle is a hash of the operation that adds it, so one      *)
(* operation adds it; it is added open, never as promoted.                 *)
ASSUME IntakeShape ==
    /\ DependsOn \in [Items -> SUBSET Items]
    /\ \A cmd \in Commands : cmd.kind \in Kinds /\ cmd.item \in Items \cup {None}
    /\ \A cmd \in Of("add") : cmd.item \in Items /\ cmd.contract \notin {"absent", "promoted"}
    /\ \A a, b \in Of("add") : a.item = b.item => a.op = b.op
    /\ \A cmd \in Of("promote") : cmd.item \in Items
    /\ MaxEvidence \in Nat /\ MaxFaults \in Nat

(* A promoted request's task is prepared under an operation of its own,    *)
(* derived from the promotion and the request; a ship task under the       *)
(* promotion's.                                                            *)
TaskOperation(cmd) == IF cmd.kind = "promote" THEN <<cmd.op, cmd.item>> ELSE <<cmd.op>>
PromotionTasks == {TaskOperation(cmd) : cmd \in Of("promote")}
Tasks == PromotionTasks \cup {TaskOperation(cmd) : cmd \in Of("ship")}
ShipOperations == {cmd.op : cmd \in Of("ship")}
Subject(cmd) == <<cmd.item, cmd.contract>>

\* The rows a promotion leaves, and the calls that may be in progress.
PromotionRows ==
    [op: {cmd.op : cmd \in Commands}, subject: {Subject(cmd) : cmd \in Commands},
     task: PromotionTasks \cup {None}]
CallStages == {"replay", "source", "commit", "reserve", "intent", "workspace", "add", "attach",
               "task", "inventory", "link"}
Calls == [cmd: Commands, stage: CallStages, evidence: (1..MaxEvidence) \cup {None}, prepared: BOOLEAN]

\* "None" is no row, no call, no evidence and no task.
ASSUME IntakeNone ==
    /\ None \notin PromotionRows /\ None \notin Calls
    /\ None \notin 1..MaxEvidence /\ None \notin PromotionTasks

VARIABLES
    ledger,     \* durable: completed operations
    item,       \* durable: each request's readiness, or "absent"
    reserved,   \* durable: the promotion each request is reserved to, or None
    intents,    \* durable: preparations under way
    workspace,  \* durable: the worktree of each task: "none", "partial" or "made"
    refused,    \* durable: tasks whose runtime attachment was refused for good
    task,       \* durable: "absent", "prepared" or "moved"
    links,      \* durable: the evidence each ship promotion rests on, or None
    evidence,   \* durable: evidence the scout has sealed
    inventory,  \* durable: the last recorded look at the scout's decisions
    call,       \* the calls being served
    answers,    \* completed promotions that left the service
    workload,   \* what the clients send
    faults

places == <<workspace, refused>>
durable == <<ledger, item, reserved, intents, places, task, links, evidence, inventory>>
vars == <<durable, call, answers, workload, faults>>

Init ==
    /\ ledger = {} /\ item = [i \in Items |-> "absent"] /\ reserved = [i \in Items |-> None]
    /\ intents = {} /\ workspace = [t \in Tasks |-> "none"] /\ refused = {}
    /\ task = [t \in Tasks |-> "absent"]
    /\ links = [q \in ShipOperations |-> None] /\ evidence = 0 /\ inventory = None
    /\ call = [c \in Callers |-> None] /\ answers = {} /\ faults = 0
    /\ workload \in Workloads

-----------------------------------------------------------------------------
(* The operation ledger.  State versions are compared only between         *)
(* operations of one command, so each command counts its own.              *)

\* Faulty variant: a recorded preparation is never a replay.
MutNeverFound(op, command, subject) ==
    IF command = "PrepareTask" /\ \E r \in ledger : r.op = op THEN "conflict"
    ELSE IF \A r \in ledger : r.op # op THEN "new"
    ELSE IF \E r \in ledger : r.op = op /\ r.command = command /\ r.subject = subject
         THEN "found" ELSE "conflict"

MutationReplay(op, command, subject) ==
    IF \A r \in ledger : r.op # op THEN "new"
    ELSE IF \E r \in ledger : r.op = op /\ r.command = command /\ r.subject = subject
         THEN "found" ELSE "conflict"

NextStateVersion(command) == 1 + Cardinality({r \in ledger : r.command = command})

InsertOperation(op, command, subject) ==
    ledger' = ledger \cup {[op |-> op, command |-> command, subject |-> subject,
                            version |-> NextStateVersion(command)]}

-----------------------------------------------------------------------------
(* A call, from its first transaction to its answer.                       *)

At(c, kind, stage) == call[c] # None /\ call[c].cmd.kind = kind /\ call[c].stage = stage
Goto(c, stage) == call' = [call EXCEPT ![c].stage = stage] /\ UNCHANGED answers
\* Refused, or answered with a result that says nothing of a task.
End(c) == call' = [call EXCEPT ![c] = None] /\ UNCHANGED answers
Answer(c, ref) ==
    /\ call' = [call EXCEPT ![c] = None]
    /\ answers' = answers \cup {[op |-> call[c].cmd.op, kind |-> call[c].cmd.kind,
                                 subject |-> Subject(call[c].cmd), ref |-> ref]}

(* The outcome of a promotion is only passed on while its task is still    *)
(* prepared.                                                               *)
AnswerPrepared(c, ref) ==
    IF task[TaskOperation(call[c].cmd)] = "prepared" THEN Answer(c, ref) ELSE End(c)

FirstStage(kind) ==
    [add |-> "replay", promote |-> "replay", ship |-> "source", attest |-> "commit"][kind]

Begin(c, cmd) ==
    /\ call[c] = None /\ cmd \in workload
    /\ call' = [call EXCEPT ![c] = [cmd |-> cmd, stage |-> FirstStage(cmd.kind),
                                    evidence |-> None, prepared |-> FALSE]]
    /\ UNCHANGED <<durable, answers, workload, faults>>

-----------------------------------------------------------------------------
(* Adding a request.                                                       *)

ReplayBacklogAddition(c) ==
    /\ At(c, "add", "replay")
    /\ LET cmd == call[c].cmd  replay == MutationReplay(<<cmd.op>>, "AddBacklog", Subject(cmd)) IN
       IF replay = "new" THEN Goto(c, "commit") ELSE End(c)
    /\ UNCHANGED <<durable, workload, faults>>

InsertBacklogItem(i, readiness) == item' = [item EXCEPT ![i] = readiness]

CommitBacklogAddition(c) ==
    /\ At(c, "add", "commit")
    /\ LET cmd == call[c].cmd  replay == MutationReplay(<<cmd.op>>, "AddBacklog", Subject(cmd)) IN
       IF replay = "new" /\ \A d \in DependsOn[cmd.item] : item[d] # "absent"
       THEN /\ InsertBacklogItem(cmd.item, cmd.contract)
            /\ InsertOperation(<<cmd.op>>, "AddBacklog", Subject(cmd))
       ELSE UNCHANGED <<ledger, item>>
    /\ End(c)
    /\ UNCHANGED <<places, reserved, intents, task, links, evidence, inventory, workload, faults>>

-----------------------------------------------------------------------------
(* Promoting a request: reserve it, prepare its task, bind the two.        *)

CheckPromotable(i, satisfied) == item[i] = "ready" /\ DependsOn[i] \subseteq satisfied
Promotable(i) == CheckPromotable(i, {d \in DependsOn[i] : item[d] = "promoted"})

(* The row a promotion writes, and finds again when it is repeated.        *)
Reservation(cmd) == [op |-> cmd.op, subject |-> Subject(cmd), task |-> None]

(* The answer of a promotion that completed before is read from its row.   *)
ReadBacklogPromotionResult(c) ==
    LET row == reserved[call[c].cmd.item] IN
    IF row = None \/ row.task = None \/ item[call[c].cmd.item] # "promoted" THEN End(c)
    ELSE AnswerPrepared(c, row.task)

ReplayBacklogPromotion(c) ==
    /\ At(c, "promote", "replay")
    /\ LET cmd == call[c].cmd
           replay == MutationReplay(<<cmd.op>>, "PromoteBacklog", Subject(cmd)) IN
       \/ replay = "new" /\ Goto(c, "reserve")
       \/ replay = "found" /\ ReadBacklogPromotionResult(c)
       \/ replay = "conflict" /\ End(c)
    /\ UNCHANGED <<durable, workload, faults>>

(* The row is keyed by the request and unique in its operation.            *)
RowOf(op) == {i \in Items : reserved[i] # None /\ reserved[i].op = op}

\* Faulty variant: a reservation does not see that another promotion holds the request.
MutRivalReserves(c) ==
    /\ At(c, "promote", "reserve")
    /\ LET cmd == call[c].cmd  i == cmd.item  mine == Reservation(cmd) IN
       \/ /\ RowOf(cmd.op) # {} /\ reserved[i] = mine /\ Promotable(i)
          /\ Goto(c, "intent") /\ UNCHANGED reserved
       \/ /\ RowOf(cmd.op) # {} /\ (reserved[i] # mine \/ ~Promotable(i))
          /\ End(c) /\ UNCHANGED reserved
       \/ /\ RowOf(cmd.op) = {} /\ Promotable(i)
          /\ reserved' = [reserved EXCEPT ![i] = mine] /\ Goto(c, "intent")
       \/ /\ RowOf(cmd.op) = {} /\ ~Promotable(i)
          /\ End(c) /\ UNCHANGED reserved
    /\ UNCHANGED <<places, ledger, item, intents, task, links, evidence, inventory,
                   workload, faults>>

ReserveBacklogPromotion(c) ==
    /\ At(c, "promote", "reserve")
    /\ LET cmd == call[c].cmd  i == cmd.item  mine == Reservation(cmd) IN
       \/ /\ RowOf(cmd.op) # {} /\ reserved[i] = mine /\ Promotable(i)
          /\ Goto(c, "intent") /\ UNCHANGED reserved
       \/ /\ RowOf(cmd.op) # {} /\ (reserved[i] # mine \/ ~Promotable(i))
          /\ End(c) /\ UNCHANGED reserved
       \/ /\ RowOf(cmd.op) = {} /\ Promotable(i) /\ reserved[i] = None
          /\ reserved' = [reserved EXCEPT ![i] = mine] /\ Goto(c, "intent")
       \/ /\ RowOf(cmd.op) = {} /\ (~Promotable(i) \/ reserved[i] # None)
          /\ End(c) /\ UNCHANGED reserved
    /\ UNCHANGED <<places, ledger, item, intents, task, links, evidence, inventory,
                   workload, faults>>

CommitBacklogPromotion(c) ==
    /\ At(c, "promote", "commit")
    /\ LET cmd == call[c].cmd  i == cmd.item  t == TaskOperation(cmd)
           replay == MutationReplay(<<cmd.op>>, "PromoteBacklog", Subject(cmd))
           bound == reserved[i] = Reservation(cmd) /\ Promotable(i) /\ task[t] = "prepared" IN
       \/ replay = "found" /\ ReadBacklogPromotionResult(c) /\ UNCHANGED <<ledger, item, reserved>>
       \/ /\ replay = "conflict" \/ (replay = "new" /\ ~bound)
          /\ End(c) /\ UNCHANGED <<ledger, item, reserved>>
       \/ /\ replay = "new" /\ bound
          /\ item' = [item EXCEPT ![i] = "promoted"]
          /\ reserved' = [reserved EXCEPT ![i].task = t]
          /\ InsertOperation(<<cmd.op>>, "PromoteBacklog", Subject(cmd))
          /\ Answer(c, t)
    /\ UNCHANGED <<places, intents, task, links, evidence, inventory, workload, faults>>

-----------------------------------------------------------------------------
(* Preparing a task.  A contract the service refuses is refused here, after*)
(* a request has been reserved.  The worktree and the runtime attachment   *)
(* are made between the two transactions; an interruption there may leave  *)
(* what no repetition can use.                                             *)

PreparationStage(c, stage) == At(c, "promote", stage) \/ At(c, "ship", stage)
PreparedStage(kind) == [promote |-> "commit", ship |-> "link"][kind]

(* A promotion goes on only with a task that is still prepared.            *)
Prepared(c, state) ==
    LET kind == call[c].cmd.kind IN
    IF kind = "promote" /\ state # "prepared" THEN End(c)
    ELSE /\ call' = [call EXCEPT ![c].stage = PreparedStage(kind), ![c].prepared = (state = "prepared")]
         /\ UNCHANGED answers

RecordTaskPreparationIntent(c) ==
    /\ PreparationStage(c, "intent")
    /\ LET cmd == call[c].cmd  t == TaskOperation(cmd)
           replay == MutationReplay(t, "PrepareTask", Subject(cmd))
           altered == \E r \in intents : r.op = t /\ r.subject # Subject(cmd) IN
       \/ replay = "found" /\ Prepared(c, task[t]) /\ UNCHANGED intents
       \/ /\ replay = "conflict" \/ (replay = "new" /\ (cmd.contract = "refused" \/ altered))
          /\ End(c) /\ UNCHANGED intents
       \/ /\ replay = "new" /\ cmd.contract # "refused" /\ ~altered
          /\ intents' = intents \cup {[op |-> t, subject |-> Subject(cmd)]}
          /\ Goto(c, "workspace")
    /\ UNCHANGED <<places, ledger, item, reserved, task, links, evidence, inventory,
                   workload, faults>>

Preparing(c, t, stage) == PreparationStage(c, stage) /\ TaskOperation(call[c].cmd) = t
RegistryLocked == \E c \in Callers : PreparationStage(c, "add")

(* What a killed `git worktree add` leaves is never adopted: a branch      *)
(* without its target, a target that is locked or not yet checked out.     *)
Unadoptable(t) == workspace[t] = "partial" /\ \A c \in Callers : ~Preparing(c, t, "add")

(* PrepareWorktree, under the registry lock.  The same operation adopts    *)
(* what it made before.                                                    *)
PrepareWorkspace(c) ==
    /\ PreparationStage(c, "workspace") /\ ~RegistryLocked
    /\ LET t == TaskOperation(call[c].cmd) IN
       \/ workspace[t] = "made" /\ Goto(c, "attach") /\ UNCHANGED workspace
       \/ workspace[t] = "partial" /\ End(c) /\ UNCHANGED workspace
       \/ /\ workspace[t] = "none" /\ Goto(c, "add")
          /\ workspace' = [workspace EXCEPT ![t] = "partial"]
    /\ UNCHANGED <<refused, ledger, item, reserved, intents, task, links, evidence,
                   inventory, workload, faults>>

WorktreeAdded(c) ==
    /\ PreparationStage(c, "add")
    /\ workspace' = [workspace EXCEPT ![TaskOperation(call[c].cmd)] = "made"] /\ Goto(c, "attach")
    /\ UNCHANGED <<refused, ledger, item, reserved, intents, task, links, evidence,
                   inventory, workload, faults>>

(* PrepareRuntimeAttachment: see RuntimeAttachment.                        *)
PrepareAttachment(c) ==
    /\ PreparationStage(c, "attach")
    /\ IF TaskOperation(call[c].cmd) \in refused THEN End(c) ELSE Goto(c, "task")
    /\ UNCHANGED <<durable, workload, faults>>

CommitPreparedTask(c) ==
    /\ PreparationStage(c, "task")
    /\ LET cmd == call[c].cmd  t == TaskOperation(cmd)
           replay == MutationReplay(t, "PrepareTask", Subject(cmd)) IN
       \/ /\ replay # "new" /\ UNCHANGED <<ledger, intents, task>>
          /\ IF replay = "found" THEN Prepared(c, task[t]) ELSE End(c)
       \/ /\ replay = "new"
          /\ intents' = {r \in intents : r.op # t}
          /\ task' = [task EXCEPT ![t] = "prepared"]
          /\ InsertOperation(t, "PrepareTask", Subject(cmd))
          /\ Prepared(c, "prepared")
    /\ UNCHANGED <<places, item, reserved, links, evidence, inventory, workload, faults>>

-----------------------------------------------------------------------------
(* Minting a ship task from a scout.  What the scout found, and whether its*)
(* open decisions were looked at, is read again by every repetition.       *)

ReadScoutPromotionSource(c) ==
    /\ At(c, "ship", "source")
    /\ IF evidence = 0 THEN End(c)
       ELSE /\ call' = [call EXCEPT ![c].stage = "inventory", ![c].evidence = evidence]
            /\ UNCHANGED answers
    /\ UNCHANGED <<durable, workload, faults>>

ClearsReview(finding) == finding = "no_open_decisions"

ProveScoutReviewCleared(c) ==
    /\ At(c, "ship", "inventory")
    /\ IF ClearsReview(inventory) THEN Goto(c, "intent") ELSE End(c)
    /\ UNCHANGED <<durable, workload, faults>>

\* Faulty variant: a repeated promotion replaces its link.
MutRelink(c) ==
    /\ At(c, "ship", "link")
    /\ LET q == call[c].cmd.op IN
       /\ links' = [links EXCEPT ![q] = call[c].evidence]
       /\ IF call[c].prepared THEN Answer(c, <<TaskOperation(call[c].cmd), call[c].evidence>>)
          ELSE End(c)
    /\ UNCHANGED <<places, ledger, item, reserved, intents, task, evidence, inventory,
                   workload, faults>>

CommitScoutPromotionLink(c) ==
    /\ At(c, "ship", "link")
    /\ LET q == call[c].cmd.op  linked == links[q] # None
           altered == linked /\ links[q] # call[c].evidence IN
       /\ links' = IF linked THEN links ELSE [links EXCEPT ![q] = call[c].evidence]
       /\ IF altered \/ ~call[c].prepared THEN End(c)
          ELSE Answer(c, <<TaskOperation(call[c].cmd), call[c].evidence>>)
    /\ UNCHANGED <<places, ledger, item, reserved, intents, task, evidence, inventory,
                   workload, faults>>

\* Faulty variant: a repeated attestation writes the inventory again.
MutLateLook(c) ==
    /\ At(c, "attest", "commit")
    /\ LET cmd == call[c].cmd
           replay == MutationReplay(<<cmd.op>>, "AttestScoutDecisions", Subject(cmd)) IN
       /\ inventory' = cmd.contract
       /\ IF replay = "new" THEN InsertOperation(<<cmd.op>>, "AttestScoutDecisions", Subject(cmd))
          ELSE UNCHANGED ledger
    /\ End(c)
    /\ UNCHANGED <<places, item, reserved, intents, task, links, evidence, workload, faults>>

AttestScoutDecisions(c) ==
    /\ At(c, "attest", "commit")
    /\ LET cmd == call[c].cmd
           replay == MutationReplay(<<cmd.op>>, "AttestScoutDecisions", Subject(cmd)) IN
       IF replay = "new"
       THEN /\ inventory' = cmd.contract
            /\ InsertOperation(<<cmd.op>>, "AttestScoutDecisions", Subject(cmd))
       ELSE UNCHANGED <<ledger, inventory>>
    /\ End(c)
    /\ UNCHANGED <<places, item, reserved, intents, task, links, evidence, workload, faults>>

-----------------------------------------------------------------------------
(* The rest of the system.                                                 *)

SealScoutEvidence ==
    /\ \E cmd \in workload : cmd.kind = "ship"
    /\ evidence < MaxEvidence /\ evidence' = evidence + 1
    /\ UNCHANGED <<places, ledger, item, reserved, intents, task, links, inventory, call,
                   answers, workload, faults>>

(* An operator cancels a prepared task, or the host activates or abandons  *)
(* it.                                                                     *)
TaskMovesOn(t) ==
    /\ task[t] = "prepared" /\ task' = [task EXCEPT ![t] = "moved"]
    /\ UNCHANGED <<places, ledger, item, reserved, intents, links, evidence, inventory,
                   call, answers, workload, faults>>

\* A deadline, or a Git that fails.
CallCutOff(c) ==
    /\ call[c] # None /\ faults < MaxFaults /\ faults' = faults + 1
    /\ End(c) /\ UNCHANGED <<durable, workload>>

(* The recovery after a crash may find a preparation's runtime directory   *)
(* in somebody else's hands, and refuses it: see RuntimeAttachment.        *)
Crash ==
    /\ faults < MaxFaults /\ faults' = faults + 1
    /\ \E c \in Callers : call[c] # None
    /\ call' = [c \in Callers |-> None]
    /\ refused' = refused \/ \E r \in intents : refused' = refused \cup {r.op}
    /\ UNCHANGED <<ledger, item, reserved, intents, workspace, task, links, evidence, inventory,
                   answers, workload>>

Step(c) ==
    \/ ReplayBacklogAddition(c) \/ CommitBacklogAddition(c)
    \/ ReplayBacklogPromotion(c) \/ ReserveBacklogPromotion(c) \/ CommitBacklogPromotion(c)
    \/ RecordTaskPreparationIntent(c) \/ PrepareWorkspace(c) \/ WorktreeAdded(c)
    \/ PrepareAttachment(c) \/ CommitPreparedTask(c)
    \/ ReadScoutPromotionSource(c) \/ ProveScoutReviewCleared(c) \/ CommitScoutPromotionLink(c)
    \/ AttestScoutDecisions(c)

Next ==
    \/ \E c \in Callers : Step(c) \/ CallCutOff(c) \/ \E cmd \in Commands : Begin(c, cmd)
    \/ SealScoutEvidence \/ Crash
    \/ \E t \in Tasks : TaskMovesOn(t)

(* A call runs to its end, and a client repeats a promotion until it is    *)
(* answered: the operation identity exists for that.                       *)
Fairness ==
    /\ \A c \in Callers : WF_vars(Step(c))
    /\ \A cmd \in Of("promote") \cup Of("ship") : SF_vars(\E c \in Callers : Begin(c, cmd))

Spec == Init /\ [][Next]_vars /\ Fairness

-----------------------------------------------------------------------------

\* A request becomes work once and in order: no two tasks are ever prepared
\* for it, the task there is belongs to the promotion it is reserved to, and
\* everything the request depends on was promoted first.  A promoted request
\* has its task, its row and its completed operation.
RequestBecomesWorkOnce ==
    \A i \in Items :
        LET minted == {t \in PromotionTasks : t[2] = i /\ task[t] # "absent"} IN
        /\ Cardinality(minted) <= 1
        /\ minted # {} => \A d \in DependsOn[i] : item[d] = "promoted"
        /\ \A t \in minted : reserved[i] # None /\ reserved[i].op = t[1]
        /\ item[i] = "promoted" =>
             /\ minted = {reserved[i].task}
             /\ MutationReplay(<<reserved[i].op>>, "PromoteBacklog", reserved[i].subject) = "found"

\* Whatever copies, rivals and crashes a command meets, everyone who is told
\* that an operation completed is told the same: one subject and one result,
\* for a ship task the evidence its link names too.
AnswersAgree ==
    /\ \A a, b \in answers : a.op = b.op => a = b
    /\ \A a \in answers : a.kind = "ship" => a.ref[2] = links[a.op]

\* A stale look never outvotes a fresher one: the inventory that gates cleanup
\* and promotion is that of the attestation first recorded last, however late
\* a copy of an earlier one arrives.
LatestLookStands ==
    LET looks == {r \in ledger : r.command = "AttestScoutDecisions"} IN
    inventory = IF looks = {} THEN None
                ELSE (CHOOSE r \in looks : \A s \in looks : s.version <= r.version).subject[2]

\* An interrupted promotion is finished by its repetition: a request reserved
\* under a contract the service accepts is promoted unless its task is moved
\* on first, or the interruption fell inside `git worktree add` or cost the
\* task its runtime directory; and a minted ship task gets its link unless a
\* later look finds open decisions.
InterruptedIntakeCompletes ==
    /\ \A i \in Items :
         (reserved[i] # None /\ reserved[i].subject[2] # "refused") ~>
             \/ item[i] = "promoted"
             \/ \E t \in PromotionTasks :
                  t[2] = i /\ (task[t] = "moved" \/ Unadoptable(t) \/ t \in refused)
    /\ \A q \in ShipOperations :
         (task[<<q>>] # "absent") ~> (links[q] # None \/ inventory # "no_open_decisions")

=============================================================================
