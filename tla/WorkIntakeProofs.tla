-------------------------- MODULE WorkIntakeProofs --------------------------
(***************************************************************************)
(* The safety invariants of WorkIntake for any commands, requests, callers *)
(* and faults.                                                             *)
(*                                                                         *)
(* What a call has seen is never written down in the properties; it is     *)
(* made exact here.  A reservation is final in its operation and subject,  *)
(* a ledger entry is final and unique in its identity, and a link is       *)
(* final, so each stage of a call may rely on what an earlier stage found. *)
(***************************************************************************)
EXTENDS WorkIntake, Sequences, FiniteSetTheorems, TLAPS

-----------------------------------------------------------------------------
(* The inductive invariant.                                                *)

LedgerCommands == {"AddBacklog", "PromoteBacklog", "PrepareTask", "AttestScoutDecisions"}
LedgerRows ==
    [op: {<<cmd.op>> : cmd \in Commands} \cup Tasks, command: LedgerCommands,
     subject: {Subject(cmd) : cmd \in Commands}, version: Nat \ {0}]

\* What the properties rest on; intents, worktrees and refusals decide only
\* whether a preparation goes on.
rows == <<ledger, item, reserved, task, links, evidence, inventory>>

StoreTypeOK ==
    /\ workload \in Workloads
    /\ ledger \subseteq LedgerRows /\ IsFiniteSet(ledger)
    /\ item \in [Items -> {"absent", "promoted"} \cup {cmd.contract : cmd \in Commands}]
    /\ reserved \in [Items -> PromotionRows \cup {None}]
    /\ task \in [Tasks -> {"absent", "prepared", "moved"}]
    /\ links \in [ShipOperations -> (1..MaxEvidence) \cup {None}]
    /\ evidence \in 0..MaxEvidence

Recorded(L, op, command, subject) ==
    \E r \in L : r.op = op /\ r.command = command /\ r.subject = subject

\* An operation is recorded once.
LedgerUnique == \A r, s \in ledger : r.op = s.op => r = s

\* A request that is there was added by its operation, which cannot add it again.
AddedOnce ==
    \A cmd \in Of("add") : item[cmd.item] # "absent" => \E r \in ledger : r.op = <<cmd.op>>

\* The row of a request: written after everything it depends on was promoted,
\* and carrying a task exactly when the request is promoted.
RowInv(i) ==
    LET row == reserved[i] IN
    /\ row # None =>
         /\ row.subject[1] = i
         /\ \A d \in DependsOn[i] : item[d] = "promoted"
         /\ row.task # None => row.task = <<row.op, i>>
    /\ item[i] = "promoted" <=> row # None /\ row.task # None
    /\ item[i] = "promoted" =>
         /\ row.task \in PromotionTasks /\ task[row.task] # "absent"
         /\ Recorded(ledger, <<row.op>>, "PromoteBacklog", row.subject)
RowsInv == \A i \in Items : RowInv(i)

\* A task is minted only for the promotion that holds the request.
MintedIsReserved ==
    \A t \in PromotionTasks :
        task[t] # "absent" => reserved[t[2]] # None /\ reserved[t[2]].op = t[1]

\* A recorded promotion is that of the row.
PromotionsAreRows ==
    \A r \in ledger : r.command = "PromoteBacklog" =>
        LET i == r.subject[1] IN
        /\ i \in Items /\ item[i] = "promoted"
        /\ r.op = <<reserved[i].op>> /\ r.subject = reserved[i].subject

\* The last look recorded has the highest version and is the inventory.
Looks == {r \in ledger : r.command = "AttestScoutDecisions"}
LooksInv ==
    IF Looks = {} THEN inventory = None
    ELSE \E r \in Looks :
           /\ inventory = r.subject[2]
           /\ r.version = Cardinality(Looks)
           /\ \A s \in Looks : s # r => s.version < r.version

StoreInv ==
    /\ StoreTypeOK /\ LedgerUnique /\ AddedOnce /\ RowsInv
    /\ MintedIsReserved /\ PromotionsAreRows /\ LooksInv

PreparationStages == {"intent", "workspace", "add", "attach", "task"}

\* What a call k has found, in the ledger L and the rows R, stays so until it
\* ends.
CallOK(k, L, R) ==
    /\ k.cmd.kind = "promote" /\ k.stage \in PreparationStages \cup {"commit"} =>
         R[k.cmd.item] # None /\ R[k.cmd.item].op = k.cmd.op
    /\ k.cmd.kind = "ship" /\ k.stage \in PreparationStages \cup {"inventory", "link"} =>
         k.evidence # None
    /\ k.cmd.kind = "ship" /\ k.stage = "link" =>
         Recorded(L, <<k.cmd.op>>, "PrepareTask", Subject(k.cmd))

CallsInv ==
    /\ call \in [Callers -> Calls \cup {None}]
    /\ \A c \in Callers : call[c] # None => CallOK(call[c], ledger, reserved)

\* An answer repeats what the ledger L and the links N say.
AnswerOK(a, L, N) ==
    \/ /\ a = [op |-> a.op, kind |-> "promote", subject |-> a.subject,
               ref |-> <<a.op, a.subject[1]>>]
       /\ Recorded(L, <<a.op>>, "PromoteBacklog", a.subject)
    \/ /\ a = [op |-> a.op, kind |-> "ship", subject |-> a.subject,
               ref |-> <<<<a.op>>, N[a.op]>>]
       /\ a.op \in ShipOperations /\ N[a.op] # None
       /\ Recorded(L, <<a.op>>, "PrepareTask", a.subject)
AnswersInv == \A a \in answers : AnswerOK(a, ledger, links)

IntakeInv == StoreInv /\ CallsInv /\ AnswersInv

-----------------------------------------------------------------------------
(* Commands, tasks and entries.                                            *)

LEMMA CommandShape ==
    ASSUME NEW cmd \in Commands
    PROVE  /\ Subject(cmd)[1] = cmd.item /\ Subject(cmd)[2] = cmd.contract
           /\ <<cmd.op>> \in {<<q.op>> : q \in Commands}
           /\ Subject(cmd) \in {Subject(q) : q \in Commands}
           /\ cmd.kind = "promote" =>
                /\ cmd.item \in Items /\ TaskOperation(cmd) = <<cmd.op, cmd.item>>
                /\ TaskOperation(cmd) \in PromotionTasks
           /\ cmd.kind = "ship" => TaskOperation(cmd) = <<cmd.op>> /\ cmd.op \in ShipOperations
           /\ cmd.kind \in {"promote", "ship"} => TaskOperation(cmd) \in Tasks
    BY IntakeShape DEF Subject, TaskOperation, Of, PromotionTasks, ShipOperations, Tasks

LEMMA PromotionTaskShape ==
    ASSUME NEW t \in PromotionTasks
    PROVE  /\ t = <<t[1], t[2]>> /\ t[2] \in Items /\ t \in Tasks
           /\ \A q : t # <<q>>
    <1>1. PICK cmd \in Of("promote") : t = TaskOperation(cmd)
        BY DEF PromotionTasks
    <1>2. t = <<cmd.op, cmd.item>> /\ cmd.item \in Items
        BY <1>1, IntakeShape DEF TaskOperation, Of
    <1>3. \A q : Len(t) # Len(<<q>>)
        BY <1>2
    <1>4. QED
        BY <1>2, <1>3 DEF Tasks

\* A command that is new to the ledger gets an entry of its own; all others
\* stay, and only attestations count among the looks.
LEMMA NewEntry ==
    ASSUME StoreTypeOK, LedgerUnique,
           NEW op \in {<<cmd.op>> : cmd \in Commands} \cup Tasks,
           NEW command \in LedgerCommands,
           NEW subject \in {Subject(cmd) : cmd \in Commands},
           MutationReplay(op, command, subject) = "new",
           InsertOperation(op, command, subject)
    PROVE  LET r == [op |-> op, command |-> command, subject |-> subject,
                     version |-> NextStateVersion(command)]
           IN  /\ ledger' = ledger \cup {r} /\ r \notin ledger /\ r \in LedgerRows
               /\ \A s \in ledger : s.op # op
               /\ ledger \subseteq ledger' /\ ledger' \subseteq LedgerRows /\ IsFiniteSet(ledger')
               /\ LedgerUnique'
               /\ Recorded(ledger', op, command, subject)
               /\ command # "AttestScoutDecisions" => Looks' = Looks
    <1> DEFINE r == [op |-> op, command |-> command, subject |-> subject,
                     version |-> NextStateVersion(command)]
    <1>1. \A s \in ledger : s.op # op
        BY DEF MutationReplay
    <1>2. NextStateVersion(command) \in Nat \ {0}
        <2>1. IsFiniteSet({s \in ledger : s.command = command})
            BY FS_Subset DEF StoreTypeOK
        <2>2. Cardinality({s \in ledger : s.command = command}) \in Nat
            BY <2>1, FS_CardinalityType
        <2>3. QED
            BY <2>2 DEF NextStateVersion
    <1>3. r \in LedgerRows
        BY <1>2 DEF LedgerRows
    <1>4. ledger' = ledger \cup {r}
        BY DEF InsertOperation
    <1>5. r \notin ledger /\ r.op = op /\ r.command = command /\ r.subject = subject
        BY <1>1
    <1>6. IsFiniteSet(ledger')
        BY <1>4, FS_AddElement DEF StoreTypeOK
    <1>7. LedgerUnique'
        BY <1>1, <1>4, <1>5 DEF LedgerUnique
    <1>8. command # "AttestScoutDecisions" => Looks' = Looks
        BY <1>4, <1>5 DEF Looks
    <1>9. QED
        BY <1>1, <1>3, <1>4, <1>5, <1>6, <1>7, <1>8 DEF Recorded, StoreTypeOK

\* ... the case of an operation recorded under its own identity.
LEMMA OwnEntry ==
    ASSUME StoreTypeOK, LedgerUnique, NEW cmd \in Commands, NEW command \in LedgerCommands,
           MutationReplay(<<cmd.op>>, command, Subject(cmd)) = "new",
           InsertOperation(<<cmd.op>>, command, Subject(cmd))
    PROVE  /\ ledger \subseteq ledger' /\ ledger' \subseteq LedgerRows /\ IsFiniteSet(ledger')
           /\ LedgerUnique'
           /\ command # "AttestScoutDecisions" => Looks' = Looks
           /\ Recorded(ledger', <<cmd.op>>, command, Subject(cmd))
           /\ \A s \in ledger : s.op # <<cmd.op>>
           /\ \A s \in ledger' : \/ s \in ledger
                                 \/ s.op = <<cmd.op>> /\ s.command = command /\ s.subject = Subject(cmd)
    <1> DEFINE op == <<cmd.op>>
               subject == Subject(cmd)
               r == [op |-> op, command |-> command, subject |-> subject,
                     version |-> NextStateVersion(command)]
    <1>1. op \in {<<q.op>> : q \in Commands} \cup Tasks /\ subject \in {Subject(q) : q \in Commands}
        BY CommandShape
    <1>2. r.op = op /\ r.command = command /\ r.subject = subject
        OBVIOUS
    <1> HIDE DEF op, subject
    <1>3. /\ ledger' = ledger \cup {r} /\ \A s \in ledger : s.op # op
          /\ ledger \subseteq ledger' /\ ledger' \subseteq LedgerRows /\ IsFiniteSet(ledger')
          /\ LedgerUnique'
          /\ Recorded(ledger', op, command, subject)
          /\ command # "AttestScoutDecisions" => Looks' = Looks
        BY <1>1, NewEntry DEF op, subject
    <1>4. QED
        BY <1>2, <1>3 DEF op, subject

LEMMA ReplayIsRecorded ==
    ASSUME NEW op, NEW command, NEW subject,
           MutationReplay(op, command, subject) = "found"
    PROVE  Recorded(ledger, op, command, subject)
    BY DEF MutationReplay, Recorded

-----------------------------------------------------------------------------
(* The store only moves forward, so calls and answers keep what they know. *)

Forward ==
    /\ ledger \subseteq ledger'
    /\ \A i \in Items : reserved[i] # None =>
         reserved'[i] # None /\ reserved'[i].op = reserved[i].op
    /\ \A q \in ShipOperations : links[q] # None => links'[q] = links[q]

LEMMA CallOKForward ==
    ASSUME Forward, NEW k \in Calls, CallOK(k, ledger, reserved)
    PROVE  CallOK(k, ledger', reserved')
    <1>1. k.cmd \in Commands
        BY DEF Calls
    <1>2. k.cmd.kind = "promote" => k.cmd.item \in Items
        BY <1>1, IntakeShape DEF Of
    <1>3. QED
        BY <1>2 DEF CallOK, Forward, Recorded, PreparationStages

\* One call moves to k, or ends.
LEMMA SetCall ==
    ASSUME CallsInv, Forward, NEW c \in Callers, NEW k \in Calls \cup {None},
           k # None => CallOK(k, ledger', reserved'),
           call' = [call EXCEPT ![c] = k]
    PROVE  CallsInv'
    <1>1. call' \in [Callers -> Calls \cup {None}]
        BY DEF CallsInv
    <1>2. ASSUME NEW d \in Callers, call'[d] # None PROVE CallOK(call'[d], ledger', reserved')
        <2>1. CASE d = c
            BY <1>2, <2>1 DEF CallsInv
        <2>2. CASE d # c
            <3>1. call'[d] = call[d] /\ call[d] \in Calls /\ CallOK(call[d], ledger, reserved)
                BY <1>2, <2>2 DEF CallsInv
            <3>2. QED
                BY <3>1, CallOKForward
        <2>3. QED
            BY <2>1, <2>2
    <1>3. QED
        BY <1>1, <1>2 DEF CallsInv

LEMMA KeepCalls ==
    ASSUME CallsInv, Forward, UNCHANGED call
    PROVE  CallsInv'
    BY CallOKForward DEF CallsInv

LEMMA KeepAnswers ==
    ASSUME AnswersInv, Forward, UNCHANGED answers
    PROVE  AnswersInv'
    BY DEF AnswersInv, AnswerOK, Forward, Recorded

LEMMA AddAnswer ==
    ASSUME AnswersInv, Forward, NEW a, answers' = answers \cup {a},
           AnswerOK(a, ledger', links')
    PROVE  AnswersInv'
    BY DEF AnswersInv, AnswerOK, Forward, Recorded

LEMMA StandingStill ==
    ASSUME UNCHANGED rows
    PROVE  Forward
    BY DEF rows, Forward

LEMMA StoreUnchanged ==
    ASSUME StoreInv, UNCHANGED <<rows, workload>>
    PROVE  StoreInv'
    <1>1. UNCHANGED <<ledger, item, reserved, task, links, evidence, inventory, workload>>
        BY DEF rows
    <1>2. Looks' = Looks
        BY <1>1 DEF Looks
    <1>3. LooksInv'
        BY <1>1, <1>2 DEF StoreInv, LooksInv
    <1>4. RowsInv'
        BY <1>1 DEF StoreInv, RowsInv, RowInv, Recorded
    <1>5. QED
        BY <1>1, <1>3, <1>4
        DEF StoreInv, StoreTypeOK, LedgerUnique, AddedOnce, MintedIsReserved, PromotionsAreRows

-----------------------------------------------------------------------------
(* Calls that only read.                                                   *)

LEMMA GotoKeeps ==
    ASSUME CallsInv, Forward, NEW c \in Callers, call[c] # None, NEW stage \in CallStages,
           Goto(c, stage),
           CallOK([call[c] EXCEPT !.stage = stage], ledger', reserved')
    PROVE  CallsInv'
    <1>1. call[c] \in Calls
        BY DEF CallsInv
    <1>2. [call[c] EXCEPT !.stage = stage] \in Calls
        BY <1>1 DEF Calls
    <1>3. call' = [call EXCEPT ![c] = [call[c] EXCEPT !.stage = stage]]
        BY DEF Goto
    <1>4. QED
        BY <1>2, <1>3, SetCall

LEMMA EndKeeps ==
    ASSUME CallsInv, Forward, NEW c \in Callers, call' = [call EXCEPT ![c] = None]
    PROVE  CallsInv'
    BY SetCall

\* The result of a recorded promotion is the one its row holds.
LEMMA PromotionResultKeeps ==
    ASSUME IntakeInv, Forward, NEW c \in Callers, call[c] # None, call[c].cmd.kind = "promote",
           Recorded(ledger, <<call[c].cmd.op>>, "PromoteBacklog", Subject(call[c].cmd)),
           ReadBacklogPromotionResult(c)
    PROVE  CallsInv' /\ AnswersInv'
    <1> DEFINE cmd == call[c].cmd
               row == reserved[cmd.item]
               a == [op |-> cmd.op, kind |-> cmd.kind, subject |-> Subject(cmd), ref |-> row.task]
    <1>1. cmd \in Commands
        BY DEF IntakeInv, CallsInv, Calls
    <1>2. /\ call' = [call EXCEPT ![c] = None]
          /\ UNCHANGED answers \/ (row # None /\ row.task # None /\ answers' = answers \cup {a})
        BY DEF ReadBacklogPromotionResult, AnswerPrepared, Answer, End
    <1>3. CallsInv'
        BY <1>2, EndKeeps DEF IntakeInv
    <1>4. CASE UNCHANGED answers
        BY <1>3, <1>4, KeepAnswers DEF IntakeInv
    <1>5. CASE row # None /\ row.task # None /\ answers' = answers \cup {a}
        <2>1. PICK r \in ledger : /\ r.op = <<cmd.op>> /\ r.command = "PromoteBacklog"
                                  /\ r.subject = Subject(cmd)
            BY DEF Recorded
        <2>2. Subject(cmd)[1] = cmd.item /\ cmd.item \in Items
            BY <1>1, CommandShape
        <2>3. <<cmd.op>> = <<row.op>>
            BY <2>1, <2>2 DEF IntakeInv, StoreInv, PromotionsAreRows
        <2>4. row.op = cmd.op
            BY <2>3
        <2>5. row.task = <<cmd.op, Subject(cmd)[1]>>
            BY <1>5, <2>2, <2>4 DEF IntakeInv, StoreInv, RowsInv, RowInv
        <2>6. Recorded(ledger', <<cmd.op>>, "PromoteBacklog", Subject(cmd))
            BY DEF Recorded, Forward
        <2>7. AnswerOK(a, ledger', links')
            BY <2>5, <2>6 DEF AnswerOK
        <2>8. QED
            BY <1>3, <1>5, <2>7, AddAnswer DEF IntakeInv
    <1>6. QED
        BY <1>2, <1>4, <1>5

LEMMA ReadersKeep ==
    ASSUME IntakeInv, UNCHANGED <<rows, workload>>, NEW c \in Callers,
           \/ ReplayBacklogAddition(c) \/ ReplayBacklogPromotion(c)
           \/ ReadScoutPromotionSource(c) \/ ProveScoutReviewCleared(c)
           \/ CallCutOff(c) \/ \E cmd \in Commands : Begin(c, cmd)
    PROVE  IntakeInv'
    <1>1. StoreInv' /\ Forward
        BY StoreUnchanged, StandingStill DEF IntakeInv
    <1>2. UNCHANGED <<ledger, reserved, links, evidence>>
        BY DEF rows
    <1>3. CASE End(c)
        BY <1>1, <1>3, EndKeeps, KeepAnswers DEF End, IntakeInv
    <1>4. CASE ReplayBacklogAddition(c)
        <2>1. CASE Goto(c, "commit")
            <3>1. CallOK([call[c] EXCEPT !.stage = "commit"], ledger', reserved')
                BY <1>4 DEF ReplayBacklogAddition, At, CallOK, IntakeInv, CallsInv, Calls, PreparationStages
            <3>2. QED
                BY <1>1, <1>4, <2>1, <3>1, GotoKeeps, KeepAnswers
                DEF IntakeInv, ReplayBacklogAddition, At, Goto, CallStages
        <2>2. QED
            BY <1>3, <1>4, <2>1 DEF ReplayBacklogAddition
    <1>5. CASE ReplayBacklogPromotion(c)
        <2>1. CASE Goto(c, "reserve")
            <3>1. CallOK([call[c] EXCEPT !.stage = "reserve"], ledger', reserved')
                BY <1>5 DEF ReplayBacklogPromotion, At, CallOK, IntakeInv, CallsInv, Calls, PreparationStages
            <3>2. QED
                BY <1>1, <1>5, <2>1, <3>1, GotoKeeps, KeepAnswers
                DEF IntakeInv, ReplayBacklogPromotion, At, Goto, CallStages
        <2>2. CASE /\ MutationReplay(<<call[c].cmd.op>>, "PromoteBacklog", Subject(call[c].cmd)) = "found"
                   /\ ReadBacklogPromotionResult(c)
            <3>1. call[c] # None /\ call[c].cmd.kind = "promote"
                BY <1>5 DEF ReplayBacklogPromotion, At
            <3>2. Recorded(ledger, <<call[c].cmd.op>>, "PromoteBacklog", Subject(call[c].cmd))
                BY <2>2, ReplayIsRecorded
            <3>3. QED
                BY <1>1, <2>2, <3>1, <3>2, PromotionResultKeeps DEF IntakeInv
        <2>3. QED
            BY <1>3, <1>5, <2>1, <2>2 DEF ReplayBacklogPromotion
    <1>6. CASE ReadScoutPromotionSource(c)
        <2>1. CASE /\ evidence # 0 /\ UNCHANGED answers
                   /\ call' = [call EXCEPT ![c].stage = "inventory", ![c].evidence = evidence]
            <3> DEFINE k == [call[c] EXCEPT !.stage = "inventory", !.evidence = evidence]
            <3>1. call[c] \in Calls /\ call[c].cmd.kind = "ship"
                BY <1>6 DEF ReadScoutPromotionSource, At, IntakeInv, CallsInv
            <3>2. evidence \in 1..MaxEvidence
                BY <2>1, IntakeShape DEF IntakeInv, StoreInv, StoreTypeOK
            <3>3. k \in Calls
                BY <3>1, <3>2 DEF Calls, CallStages
            <3>4. CallOK(k, ledger', reserved')
                BY <3>1, <3>2, IntakeNone DEF CallOK, Calls, PreparationStages
            <3>5. call' = [call EXCEPT ![c] = k]
                BY <2>1
            <3> HIDE DEF k
            <3>6. CallsInv'
                BY <1>1, <3>3, <3>4, <3>5, SetCall DEF IntakeInv
            <3>7. QED
                BY <1>1, <2>1, <3>6, KeepAnswers DEF IntakeInv
        <2>2. QED
            BY <1>3, <1>6, <2>1 DEF ReadScoutPromotionSource
    <1>7. CASE ProveScoutReviewCleared(c)
        <2>1. CASE Goto(c, "intent")
            <3>1. CallOK([call[c] EXCEPT !.stage = "intent"], ledger', reserved')
                BY <1>7 DEF ProveScoutReviewCleared, At, CallOK, IntakeInv, CallsInv, Calls, PreparationStages
            <3>2. QED
                BY <1>1, <1>7, <2>1, <3>1, GotoKeeps, KeepAnswers
                DEF IntakeInv, ProveScoutReviewCleared, At, Goto, CallStages
        <2>2. QED
            BY <1>3, <1>7, <2>1 DEF ProveScoutReviewCleared
    <1>8. CASE CallCutOff(c)
        BY <1>3, <1>8 DEF CallCutOff
    <1>9. ASSUME NEW cmd \in Commands, Begin(c, cmd) PROVE IntakeInv'
        <2> DEFINE k == [cmd |-> cmd, stage |-> FirstStage(cmd.kind), evidence |-> None, prepared |-> FALSE]
        <2>1. /\ cmd.kind \in Kinds
              /\ FirstStage(cmd.kind) \in {"replay", "source", "commit"}
              /\ cmd.kind = "promote" => FirstStage(cmd.kind) = "replay"
              /\ cmd.kind = "ship" => FirstStage(cmd.kind) = "source"
            BY IntakeShape DEF Kinds, FirstStage
        <2>2. k \in Calls /\ CallOK(k, ledger', reserved')
            BY <2>1 DEF Calls, CallStages, CallOK, PreparationStages
        <2>3. call' = [call EXCEPT ![c] = k] /\ UNCHANGED answers
            BY <1>9 DEF Begin
        <2> HIDE DEF k
        <2>4. QED
            BY <1>1, <2>2, <2>3, SetCall, KeepAnswers DEF IntakeInv
    <1>10. QED
        BY <1>4, <1>5, <1>6, <1>7, <1>8, <1>9

LEMMA CrashKeeps ==
    ASSUME IntakeInv, Crash
    PROVE  IntakeInv'
    <1>1. UNCHANGED <<rows, answers, workload>> /\ \A c \in Callers : call'[c] = None
        BY DEF Crash, rows
    <1>2. call' \in [Callers -> Calls \cup {None}]
        BY DEF Crash
    <1>3. QED
        BY <1>1, <1>2, StoreUnchanged, StandingStill, KeepAnswers DEF IntakeInv, CallsInv

-----------------------------------------------------------------------------
(* Calls that write.                                                       *)

LEMMA AdditionKeeps ==
    ASSUME IntakeInv, NEW c \in Callers, CommitBacklogAddition(c)
    PROVE  IntakeInv'
    <1> DEFINE cmd == call[c].cmd
    <1>1. /\ cmd \in Commands /\ cmd \in Of("add") /\ call' = [call EXCEPT ![c] = None]
          /\ UNCHANGED <<reserved, intents, task, links, evidence, inventory, workload, answers>>
        BY DEF CommitBacklogAddition, At, End, Of, IntakeInv, CallsInv, Calls
    <1>2. CASE UNCHANGED <<ledger, item>>
        BY <1>1, <1>2, StoreUnchanged, StandingStill, EndKeeps, KeepAnswers DEF rows, IntakeInv
    <1>3. CASE /\ MutationReplay(<<cmd.op>>, "AddBacklog", Subject(cmd)) = "new"
               /\ item' = [item EXCEPT ![cmd.item] = cmd.contract]
               /\ InsertOperation(<<cmd.op>>, "AddBacklog", Subject(cmd))
        <2>1. /\ ledger \subseteq ledger' /\ ledger' \subseteq LedgerRows /\ IsFiniteSet(ledger')
              /\ LedgerUnique' /\ Looks' = Looks
              /\ Recorded(ledger', <<cmd.op>>, "AddBacklog", Subject(cmd))
              /\ \A s \in ledger : s.op # <<cmd.op>>
              /\ \A s \in ledger' : s.command = "PromoteBacklog" => s \in ledger
            BY <1>1, <1>3, OwnEntry DEF IntakeInv, StoreInv, LedgerCommands
        <2>2. Forward
            BY <1>1, <2>1 DEF Forward
        <2>3. cmd.item \in Items /\ cmd.contract \notin {"absent", "promoted"} /\ item[cmd.item] = "absent"
            BY <1>1, <2>1, IntakeShape DEF IntakeInv, StoreInv, AddedOnce
        <2>4. item' \in [Items -> {"absent", "promoted"} \cup {q.contract : q \in Commands}]
            BY <1>1, <1>3 DEF IntakeInv, StoreInv, StoreTypeOK
        <2>5. \A i \in Items : /\ item'[i] = "promoted" <=> item[i] = "promoted"
                               /\ i # cmd.item => item'[i] = item[i]
            BY <1>3, <2>3 DEF IntakeInv, StoreInv, StoreTypeOK
        <2>6. AddedOnce'
            <3>1. SUFFICES ASSUME NEW b \in Of("add"), item'[b.item] # "absent"
                           PROVE  \E r \in ledger' : r.op = <<b.op>>
                BY DEF AddedOnce
            <3>2. CASE b.item = cmd.item
                BY <1>1, <2>1, <3>2, IntakeShape DEF Recorded
            <3>3. CASE b.item # cmd.item
                BY <2>1, <2>5, <3>1, <3>3, IntakeShape DEF IntakeInv, StoreInv, AddedOnce
            <3>4. QED
                BY <3>2, <3>3
        <2>7. RowsInv'
            <3>1. \A i \in Items : DependsOn[i] \subseteq Items
                BY IntakeShape
            <3>2. QED
                BY <1>1, <2>1, <2>5, <3>1 DEF IntakeInv, StoreInv, RowsInv, RowInv, Recorded
        <2>8. MintedIsReserved' /\ PromotionsAreRows' /\ LooksInv'
            BY <1>1, <2>1, <2>5 DEF IntakeInv, StoreInv, MintedIsReserved, PromotionsAreRows, LooksInv
        <2>9. StoreTypeOK'
            BY <1>1, <2>1, <2>4 DEF IntakeInv, StoreInv, StoreTypeOK
        <2>10. CallsInv' /\ AnswersInv'
            BY <1>1, <2>2, EndKeeps, KeepAnswers DEF IntakeInv
        <2>11. QED
            BY <2>1, <2>6, <2>7, <2>8, <2>9, <2>10 DEF IntakeInv, StoreInv
    <1>4. QED
        BY <1>2, <1>3 DEF CommitBacklogAddition, InsertBacklogItem

\* A row that is left alone stays true while the store moves on around it.
LEMMA RowKeeps ==
    ASSUME NEW j \in Items, RowInv(j), reserved'[j] = reserved[j],
           item'[j] = "promoted" <=> item[j] = "promoted",
           ledger \subseteq ledger',
           \A d \in DependsOn[j] : item[d] = "promoted" => item'[d] = "promoted",
           \A u \in PromotionTasks : task[u] # "absent" => task'[u] # "absent"
    PROVE  RowInv(j)'
    BY DEF RowInv, Recorded

LEMMA ReservationKeeps ==
    ASSUME IntakeInv, NEW c \in Callers, ReserveBacklogPromotion(c)
    PROVE  IntakeInv'
    <1> DEFINE cmd == call[c].cmd
               i == cmd.item
               mine == Reservation(cmd)
    <1>1. /\ call[c] # None /\ call[c] \in Calls /\ cmd \in Commands /\ cmd.kind = "promote"
          /\ i \in Items
          /\ UNCHANGED <<ledger, item, intents, task, links, evidence, inventory, workload>>
        BY CommandShape DEF ReserveBacklogPromotion, At, IntakeInv, CallsInv, Calls
    <1>2. mine \in PromotionRows /\ mine # None /\ mine.op = cmd.op /\ mine.task = None
          /\ mine.subject[1] = i
        <2>1. mine.op = cmd.op /\ mine.task = None /\ mine.subject = Subject(cmd)
            BY DEF Reservation
        <2>2. mine \in PromotionRows
            BY <1>1 DEF Reservation, PromotionRows
        <2>3. QED
            BY <1>1, <2>1, <2>2, IntakeNone, CommandShape
    <1>3. CASE End(c) /\ UNCHANGED reserved
        BY <1>1, <1>3, StoreUnchanged, StandingStill, EndKeeps, KeepAnswers DEF rows, IntakeInv, End
    <1>4. CASE reserved[i] = mine /\ Goto(c, "intent") /\ UNCHANGED reserved
        <2>1. CallOK([call[c] EXCEPT !.stage = "intent"], ledger', reserved')
            BY <1>1, <1>2, <1>4 DEF CallOK, Calls, PreparationStages
        <2>2. StoreInv' /\ Forward
            BY <1>1, <1>4, StoreUnchanged, StandingStill DEF rows, IntakeInv
        <2>3. QED
            BY <1>1, <1>4, <2>1, <2>2, GotoKeeps, KeepAnswers DEF IntakeInv, Goto, CallStages
    <1>5. CASE /\ Promotable(i) /\ reserved[i] = None
               /\ reserved' = [reserved EXCEPT ![i] = mine] /\ Goto(c, "intent")
        <2>1. /\ reserved' \in [Items -> PromotionRows \cup {None}]
              /\ reserved'[i] = mine /\ \A j \in Items : j # i => reserved'[j] = reserved[j]
            BY <1>1, <1>2, <1>5 DEF IntakeInv, StoreInv, StoreTypeOK
        <2>2. Forward
            BY <1>1, <1>5, <2>1 DEF Forward
        <2>3. item[i] # "promoted" /\ \A d \in DependsOn[i] : item[d] = "promoted"
            BY <1>5 DEF Promotable, CheckPromotable
        <2>4. RowsInv'
            <3>1. ASSUME NEW j \in Items, j = i PROVE RowInv(j)'
                <4>1. /\ reserved'[j].task = None /\ reserved'[j].subject[1] = j
                      /\ item'[j] # "promoted"
                    BY <1>1, <1>2, <2>1, <2>3, <3>1
                <4>2. \A d \in DependsOn[j] : item'[d] = "promoted"
                    BY <1>1, <2>3, <3>1
                <4> HIDE DEF cmd, mine
                <4>3. QED
                    BY <4>1, <4>2 DEF RowInv
            <3>2. ASSUME NEW j \in Items, j # i PROVE RowInv(j)'
                <4>1. RowInv(j) /\ reserved'[j] = reserved[j]
                    BY <2>1, <3>2 DEF IntakeInv, StoreInv, RowsInv
                <4>2. UNCHANGED <<ledger, item, task>>
                    BY <1>1
                <4>3. QED
                    BY <4>1, <4>2, RowKeeps
            <3>3. QED
                BY <3>1, <3>2 DEF RowsInv
        <2>5. MintedIsReserved'
            BY <1>1, <1>5, <2>1, PromotionTaskShape DEF IntakeInv, StoreInv, MintedIsReserved
        <2>6. PromotionsAreRows'
            BY <1>1, <2>1, <2>3 DEF IntakeInv, StoreInv, PromotionsAreRows
        <2>7. StoreTypeOK' /\ LedgerUnique' /\ AddedOnce'
            BY <1>1, <2>1 DEF IntakeInv, StoreInv, StoreTypeOK, LedgerUnique, AddedOnce
        <2>8. LooksInv'
            <3>1. Looks' = Looks
                BY <1>1 DEF Looks
            <3>2. QED
                BY <1>1, <3>1 DEF IntakeInv, StoreInv, LooksInv
        <2>9. CallOK([call[c] EXCEPT !.stage = "intent"], ledger', reserved')
            BY <1>1, <1>2, <2>1 DEF CallOK, Calls, PreparationStages
        <2>10. CallsInv' /\ AnswersInv'
            BY <1>1, <1>5, <2>2, <2>9, GotoKeeps, KeepAnswers DEF IntakeInv, Goto, CallStages
        <2>11. QED
            BY <2>4, <2>5, <2>6, <2>7, <2>8, <2>10 DEF IntakeInv, StoreInv
    <1>6. QED
        BY <1>3, <1>4, <1>5 DEF ReserveBacklogPromotion

LEMMA PromotionKeeps ==
    ASSUME IntakeInv, NEW c \in Callers, CommitBacklogPromotion(c)
    PROVE  IntakeInv'
    <1> DEFINE cmd == call[c].cmd
               i == cmd.item
               t == TaskOperation(cmd)
               row == Reservation(cmd)
               a == [op |-> cmd.op, kind |-> cmd.kind, subject |-> Subject(cmd), ref |-> t]
    <1>1. /\ call[c] # None /\ cmd \in Commands /\ cmd.kind = "promote" /\ i \in Items
          /\ t = <<cmd.op, i>> /\ t \in PromotionTasks /\ Subject(cmd)[1] = i
          /\ UNCHANGED <<intents, task, links, evidence, inventory, workload>>
        BY CommandShape DEF CommitBacklogPromotion, At, IntakeInv, CallsInv, Calls
    <1>2. CASE End(c) /\ UNCHANGED <<ledger, item, reserved>>
        BY <1>1, <1>2, StoreUnchanged, StandingStill, EndKeeps, KeepAnswers DEF rows, IntakeInv, End
    <1>3. CASE /\ MutationReplay(<<cmd.op>>, "PromoteBacklog", Subject(cmd)) = "found"
               /\ ReadBacklogPromotionResult(c) /\ UNCHANGED <<ledger, item, reserved>>
        <2>1. StoreInv' /\ Forward
            BY <1>1, <1>3, StoreUnchanged, StandingStill DEF rows, IntakeInv
        <2>2. QED
            BY <1>1, <1>3, <2>1, ReplayIsRecorded, PromotionResultKeeps DEF IntakeInv
    <1>4. CASE /\ MutationReplay(<<cmd.op>>, "PromoteBacklog", Subject(cmd)) = "new"
               /\ reserved[i] = row /\ Promotable(i) /\ task[t] = "prepared"
               /\ item' = [item EXCEPT ![i] = "promoted"]
               /\ reserved' = [reserved EXCEPT ![i].task = t]
               /\ InsertOperation(<<cmd.op>>, "PromoteBacklog", Subject(cmd))
               /\ Answer(c, t)
        <2>1. /\ ledger \subseteq ledger' /\ ledger' \subseteq LedgerRows /\ IsFiniteSet(ledger')
              /\ LedgerUnique' /\ Looks' = Looks
              /\ Recorded(ledger', <<cmd.op>>, "PromoteBacklog", Subject(cmd))
              /\ \A s \in ledger' : s \in ledger \/ (s.op = <<cmd.op>> /\ s.subject = Subject(cmd))
            BY <1>1, <1>4, OwnEntry DEF IntakeInv, StoreInv, LedgerCommands
        <2>2. row \in PromotionRows /\ row.op = cmd.op /\ row.subject = Subject(cmd)
              /\ row.task = None
            BY <1>1, CommandShape DEF Reservation, PromotionRows
        <2>3. reserved'[i] = [row EXCEPT !.task = t]
            BY <1>1, <1>4 DEF IntakeInv, StoreInv, StoreTypeOK
        <2>4. /\ reserved'[i] \in PromotionRows /\ reserved'[i] # None /\ reserved'[i].op = cmd.op
              /\ reserved'[i].subject = Subject(cmd) /\ reserved'[i].task = t
            BY <1>1, <2>2, <2>3, IntakeNone DEF PromotionRows
        <2>5. \A j \in Items : j # i => reserved'[j] = reserved[j] /\ item'[j] = item[j]
            BY <1>4 DEF IntakeInv, StoreInv, StoreTypeOK
        <2>6. item'[i] = "promoted" /\ item[i] # "promoted" /\ item[i] # "absent"
            BY <1>1, <1>4 DEF Promotable, CheckPromotable, IntakeInv, StoreInv, StoreTypeOK
        <2>7. /\ item' \in [Items -> {"absent", "promoted"} \cup {q.contract : q \in Commands}]
              /\ reserved' \in [Items -> PromotionRows \cup {None}]
            BY <1>4, <2>4, <2>5 DEF IntakeInv, StoreInv, StoreTypeOK
        <2>8. Forward
            <3>1. reserved[i].op = cmd.op
                BY <1>4, <2>2
            <3>2. QED
                BY <1>1, <2>1, <2>4, <2>5, <3>1 DEF Forward
        <2>9. StoreTypeOK'
            BY <1>1, <2>1, <2>7 DEF IntakeInv, StoreInv, StoreTypeOK
        <2>10. AddedOnce'
            <3>1. \A b \in Of("add") : b.item \in Items
                BY IntakeShape
            <3>2. QED
                BY <2>1, <2>5, <2>6, <3>1 DEF IntakeInv, StoreInv, AddedOnce
        <2>11. RowsInv'
            <3>1. \A j \in Items : item[j] = "promoted" => item'[j] = "promoted"
                BY <2>5, <2>6
            <3>2. \A j \in Items : DependsOn[j] \subseteq Items
                BY IntakeShape
            <3>3. \A d \in DependsOn[i] : item'[d] = "promoted"
                BY <1>1, <1>4, <3>1, <3>2 DEF Promotable, CheckPromotable
            <3>4. t # None
                BY <1>1, IntakeNone
            <3>5. ASSUME NEW j \in Items, j = i PROVE RowInv(j)'
                <4>1. /\ reserved'[j].op = cmd.op /\ reserved'[j].subject = Subject(cmd)
                      /\ reserved'[j].task = t /\ item'[j] = "promoted" /\ reserved'[j] # None
                      /\ t = <<cmd.op, j>> /\ Subject(cmd)[1] = j
                    BY <1>1, <2>4, <2>6, <3>5
                <4>2. \A d \in DependsOn[j] : item'[d] = "promoted"
                    BY <3>3, <3>5
                <4>3. t \in PromotionTasks /\ task'[t] # "absent" /\ t # None
                    BY <1>1, <1>4, <3>4
                <4>4. Recorded(ledger', <<cmd.op>>, "PromoteBacklog", Subject(cmd))
                    BY <2>1
                <4> HIDE DEF cmd, t
                <4>5. QED
                    BY <4>1, <4>2, <4>3, <4>4 DEF RowInv
            <3>6. ASSUME NEW j \in Items, j # i PROVE RowInv(j)'
                <4>1. RowInv(j) /\ reserved'[j] = reserved[j] /\ item'[j] = item[j]
                    BY <2>5, <3>6 DEF IntakeInv, StoreInv, RowsInv
                <4>2. \A d \in DependsOn[j] : item[d] = "promoted" => item'[d] = "promoted"
                    BY <3>1, <3>2
                <4>3. UNCHANGED task /\ ledger \subseteq ledger'
                    BY <1>1, <2>1
                <4>4. QED
                    BY <4>1, <4>2, <4>3, RowKeeps
            <3>7. QED
                BY <3>5, <3>6 DEF RowsInv
        <2>12. MintedIsReserved'
            <3>1. \A u \in PromotionTasks : u[2] \in Items
                BY PromotionTaskShape
            <3>2. reserved[i].op = cmd.op
                BY <1>4, <2>2
            <3>3. QED
                BY <1>1, <2>4, <2>5, <3>1, <3>2 DEF IntakeInv, StoreInv, MintedIsReserved
        <2>13. PromotionsAreRows'
            <3>1. SUFFICES ASSUME NEW r \in ledger', r.command = "PromoteBacklog"
                           PROVE  /\ r.subject[1] \in Items /\ item'[r.subject[1]] = "promoted"
                                  /\ r.op = <<reserved'[r.subject[1]].op>>
                                  /\ r.subject = reserved'[r.subject[1]].subject
                BY DEF PromotionsAreRows
            <3>2. CASE r \in ledger
                BY <2>5, <2>6, <3>1, <3>2 DEF IntakeInv, StoreInv, PromotionsAreRows
            <3>3. CASE r.op = <<cmd.op>> /\ r.subject = Subject(cmd)
                BY <1>1, <2>4, <2>6, <3>3
            <3>4. QED
                BY <2>1, <3>2, <3>3
        <2>14. LooksInv'
            BY <1>1, <2>1 DEF IntakeInv, StoreInv, LooksInv
        <2>15. AnswerOK(a, ledger', links')
            BY <1>1, <2>1 DEF AnswerOK
        <2>16. CallsInv' /\ AnswersInv'
            BY <1>4, <2>8, <2>15, EndKeeps, AddAnswer DEF IntakeInv, Answer
        <2>17. QED
            BY <2>1, <2>9, <2>10, <2>11, <2>12, <2>13, <2>14, <2>16 DEF IntakeInv, StoreInv
    <1>5. QED
        BY <1>2, <1>3, <1>4 DEF CommitBacklogPromotion

-----------------------------------------------------------------------------
(* Preparing a task, and what else moves tasks.                            *)

\* The store stays sound while tasks are prepared under reservations that
\* are held and prepared tasks move on.
LEMMA TasksMove ==
    ASSUME StoreInv, UNCHANGED <<item, reserved, links, evidence, inventory, workload>>,
           ledger \subseteq ledger', ledger' \subseteq LedgerRows, IsFiniteSet(ledger'),
           LedgerUnique', Looks' = Looks,
           \A s \in ledger' : s.command = "PromoteBacklog" => s \in ledger,
           task' \in [Tasks -> {"absent", "prepared", "moved"}],
           \A u \in PromotionTasks : task[u] # "absent" => task'[u] # "absent",
           \A u \in PromotionTasks : task'[u] # "absent" =>
               reserved[u[2]] # None /\ reserved[u[2]].op = u[1]
    PROVE  StoreInv'
    <1>1. StoreTypeOK'
        BY DEF StoreInv, StoreTypeOK
    <1>2. AddedOnce'
        BY DEF StoreInv, AddedOnce
    <1>3. ASSUME NEW j \in Items PROVE RowInv(j)'
        BY <1>3, RowKeeps DEF StoreInv, RowsInv
    <1>4. MintedIsReserved' /\ PromotionsAreRows' /\ LooksInv'
        BY DEF StoreInv, MintedIsReserved, PromotionsAreRows, LooksInv
    <1>5. QED
        BY <1>1, <1>2, <1>3, <1>4 DEF StoreInv, RowsInv

LEMMA PreparedKeeps ==
    ASSUME CallsInv, AnswersInv, Forward, NEW c \in Callers, call[c] # None, NEW state,
           call[c].cmd.kind \in {"promote", "ship"}, call[c].stage \in {"intent", "task"},
           call[c].cmd.kind = "ship" =>
               Recorded(ledger', TaskOperation(call[c].cmd), "PrepareTask", Subject(call[c].cmd)),
           Prepared(c, state)
    PROVE  CallsInv' /\ AnswersInv'
    <1> DEFINE cmd == call[c].cmd
               k == [call[c] EXCEPT !.stage = PreparedStage(cmd.kind), !.prepared = (state = "prepared")]
    <1>1. call[c] \in Calls /\ cmd \in Commands /\ CallOK(call[c], ledger, reserved)
        BY DEF CallsInv, Calls
    <1>2. CASE End(c)
        BY <1>2, EndKeeps, KeepAnswers DEF End
    <1>3. CASE call' = [call EXCEPT ![c].stage = PreparedStage(cmd.kind),
                                    ![c].prepared = (state = "prepared")]
               /\ UNCHANGED answers
        <2>1. call' = [call EXCEPT ![c] = k]
            BY <1>3
        <2>2. /\ PreparedStage(cmd.kind) \in {"commit", "link"}
              /\ cmd.kind = "promote" => PreparedStage(cmd.kind) = "commit"
              /\ cmd.kind = "ship" => PreparedStage(cmd.kind) = "link"
            BY DEF PreparedStage
        <2>3. k \in Calls
            BY <1>1, <2>2 DEF Calls, CallStages
        <2>4. /\ k.cmd = cmd /\ k.evidence = call[c].evidence /\ k.stage = PreparedStage(cmd.kind)
            BY <1>1 DEF Calls
        <2>5. cmd.kind = "ship" => TaskOperation(cmd) = <<cmd.op>>
            BY DEF TaskOperation
        <2>6. CallOK(call[c], ledger', reserved')
            BY <1>1, CallOKForward
        <2> HIDE DEF k
        <2>7. CallOK(k, ledger', reserved')
            BY <2>2, <2>4, <2>5, <2>6 DEF CallOK, PreparationStages
        <2>8. QED
            BY <1>3, <2>1, <2>3, <2>7, SetCall, KeepAnswers
    <1>4. QED
        BY <1>2, <1>3 DEF Prepared

LEMMA IntentKeeps ==
    ASSUME IntakeInv, NEW c \in Callers, RecordTaskPreparationIntent(c)
    PROVE  IntakeInv'
    <1> DEFINE cmd == call[c].cmd
               t == TaskOperation(cmd)
    <1>1. /\ call[c] # None /\ call[c] \in Calls /\ cmd \in Commands
          /\ cmd.kind \in {"promote", "ship"} /\ call[c].stage = "intent"
          /\ CallOK(call[c], ledger, reserved)
          /\ UNCHANGED <<ledger, item, reserved, task, links, evidence, inventory, workload>>
        BY DEF RecordTaskPreparationIntent, PreparationStage, At, IntakeInv, CallsInv, Calls
    <1>2. Looks' = Looks
        BY <1>1 DEF Looks
    <1>3. StoreInv'
        BY <1>1, <1>2, TasksMove
        DEF IntakeInv, StoreInv, StoreTypeOK, LedgerUnique, MintedIsReserved
    <1>4. Forward
        BY <1>1 DEF Forward
    <1>5. CASE End(c)
        BY <1>3, <1>4, <1>5, EndKeeps, KeepAnswers DEF End, IntakeInv
    <1>6. CASE MutationReplay(t, "PrepareTask", Subject(cmd)) = "found" /\ Prepared(c, task[t])
        <2>1. Recorded(ledger', t, "PrepareTask", Subject(cmd))
            BY <1>1, <1>6, ReplayIsRecorded
        <2>2. QED
            BY <1>1, <1>3, <1>4, <1>6, <2>1, PreparedKeeps DEF IntakeInv
    <1>7. CASE Goto(c, "workspace")
        <2>1. CallOK([call[c] EXCEPT !.stage = "workspace"], ledger', reserved')
            BY <1>1 DEF CallOK, Calls, PreparationStages
        <2>2. QED
            BY <1>1, <1>3, <1>4, <1>7, <2>1, GotoKeeps, KeepAnswers DEF IntakeInv, Goto, CallStages
    <1>8. QED
        BY <1>5, <1>6, <1>7 DEF RecordTaskPreparationIntent

\* The worktree and the attachment are made, found or refused.
LEMMA PlacesKeep ==
    ASSUME IntakeInv, NEW c \in Callers,
           PrepareWorkspace(c) \/ WorktreeAdded(c) \/ PrepareAttachment(c)
    PROVE  IntakeInv'
    <1>1. /\ call[c] # None /\ call[c] \in Calls /\ call[c].cmd \in Commands
          /\ call[c].cmd.kind \in {"promote", "ship"} /\ call[c].stage \in PreparationStages
          /\ CallOK(call[c], ledger, reserved)
        BY DEF PrepareWorkspace, WorktreeAdded, PrepareAttachment, PreparationStage, At,
               PreparationStages, IntakeInv, CallsInv, Calls
    <1>2. UNCHANGED <<rows, workload>>
        BY DEF PrepareWorkspace, WorktreeAdded, PrepareAttachment, durable, rows
    <1>3. StoreInv' /\ Forward
        BY <1>2, StoreUnchanged, StandingStill DEF IntakeInv
    <1>4. ASSUME NEW stage \in {"add", "attach", "task"}, Goto(c, stage) PROVE IntakeInv'
        <2>1. CallOK([call[c] EXCEPT !.stage = stage], ledger', reserved')
            BY <1>1, <1>2 DEF rows, CallOK, Calls, PreparationStages
        <2>2. QED
            BY <1>1, <1>3, <1>4, <2>1, GotoKeeps, KeepAnswers DEF IntakeInv, Goto, CallStages
    <1>5. CASE End(c)
        BY <1>3, <1>5, EndKeeps, KeepAnswers DEF End, IntakeInv
    <1>6. QED
        BY <1>4, <1>5 DEF PrepareWorkspace, WorktreeAdded, PrepareAttachment

LEMMA PreparationKeeps ==
    ASSUME IntakeInv, NEW c \in Callers, CommitPreparedTask(c)
    PROVE  IntakeInv'
    <1> DEFINE cmd == call[c].cmd
               t == TaskOperation(cmd)
               subject == Subject(cmd)
    <1>1. /\ call[c] # None /\ call[c] \in Calls /\ cmd \in Commands
          /\ cmd.kind \in {"promote", "ship"} /\ call[c].stage = "task"
          /\ CallOK(call[c], ledger, reserved)
          /\ t \in Tasks /\ subject \in {Subject(q) : q \in Commands}
          /\ UNCHANGED <<item, reserved, links, evidence, inventory, workload>>
        BY CommandShape DEF CommitPreparedTask, PreparationStage, At, IntakeInv, CallsInv, Calls
    <1>2. CASE /\ MutationReplay(t, "PrepareTask", subject) # "new" /\ UNCHANGED <<ledger, intents, task>>
               /\ IF MutationReplay(t, "PrepareTask", subject) = "found" THEN Prepared(c, task[t]) ELSE End(c)
        <2>1. StoreInv' /\ Forward
            BY <1>1, <1>2, StoreUnchanged, StandingStill DEF rows, IntakeInv
        <2>2. CASE End(c)
            BY <2>1, <2>2, EndKeeps, KeepAnswers DEF End, IntakeInv
        <2>3. CASE MutationReplay(t, "PrepareTask", subject) = "found" /\ Prepared(c, task[t])
            <3>1. Recorded(ledger', t, "PrepareTask", subject)
                BY <1>2, <2>3, ReplayIsRecorded
            <3>2. QED
                BY <1>1, <2>1, <2>3, <3>1, PreparedKeeps DEF IntakeInv
        <2>4. QED
            BY <1>2, <2>2, <2>3
    <1>3. CASE /\ MutationReplay(t, "PrepareTask", subject) = "new"
               /\ task' = [task EXCEPT ![t] = "prepared"]
               /\ InsertOperation(t, "PrepareTask", subject)
               /\ Prepared(c, "prepared")
        <2> DEFINE r == [op |-> t, command |-> "PrepareTask", subject |-> subject,
                         version |-> NextStateVersion("PrepareTask")]
        <2>1. r.command = "PrepareTask"
            OBVIOUS
        <2> HIDE DEF t, subject
        <2>2. /\ ledger' = ledger \cup {r}
              /\ ledger \subseteq ledger' /\ ledger' \subseteq LedgerRows /\ IsFiniteSet(ledger')
              /\ LedgerUnique' /\ Looks' = Looks
              /\ Recorded(ledger', t, "PrepareTask", subject)
            BY <1>1, <1>3, NewEntry DEF IntakeInv, StoreInv, LedgerCommands
        <2>3. \A s \in ledger' : s.command = "PromoteBacklog" => s \in ledger
            BY <2>1, <2>2
        <2>4. /\ task' \in [Tasks -> {"absent", "prepared", "moved"}]
              /\ \A u \in Tasks : u # t => task'[u] = task[u]
              /\ task'[t] = "prepared"
            BY <1>1, <1>3 DEF IntakeInv, StoreInv, StoreTypeOK
        <2>5. \A u \in PromotionTasks : task[u] # "absent" => task'[u] # "absent"
            BY <2>4, PromotionTaskShape
        <2>6. ASSUME NEW u \in PromotionTasks, task'[u] # "absent"
              PROVE  reserved[u[2]] # None /\ reserved[u[2]].op = u[1]
            <3>1. CASE u # t
                BY <2>4, <2>6, <3>1, PromotionTaskShape DEF IntakeInv, StoreInv, MintedIsReserved
            <3>2. CASE u = t
                <4>1. cmd.kind # "ship"
                    BY <1>1, <3>2, PromotionTaskShape, CommandShape DEF t
                <4>2. u = <<cmd.op, cmd.item>> /\ cmd.kind = "promote"
                    BY <1>1, <3>2, <4>1, CommandShape DEF t
                <4>3. QED
                    BY <1>1, <4>2 DEF CallOK, PreparationStages
            <3>3. QED
                BY <3>1, <3>2
        <2>7. StoreInv'
            BY <1>1, <2>2, <2>3, <2>4, <2>5, <2>6, TasksMove DEF IntakeInv
        <2>8. Forward
            BY <1>1, <2>2 DEF Forward
        <2>9. Recorded(ledger', TaskOperation(call[c].cmd), "PrepareTask", Subject(call[c].cmd))
            BY <2>2 DEF t, subject
        <2>10. QED
            BY <1>1, <1>3, <2>7, <2>8, <2>9, PreparedKeeps DEF IntakeInv
    <1>4. QED
        BY <1>2, <1>3 DEF CommitPreparedTask

LEMMA TaskMovesOnKeeps ==
    ASSUME IntakeInv, NEW t \in Tasks, TaskMovesOn(t)
    PROVE  IntakeInv'
    <1>1. UNCHANGED <<ledger, item, reserved, links, evidence, inventory, workload, call, answers>>
        BY DEF TaskMovesOn
    <1>2. /\ task' \in [Tasks -> {"absent", "prepared", "moved"}]
          /\ \A u \in Tasks : task'[u] # "absent" <=> task[u] # "absent"
        BY DEF TaskMovesOn, IntakeInv, StoreInv, StoreTypeOK
    <1>3. Looks' = Looks /\ Forward
        BY <1>1 DEF Looks, Forward
    <1>4. \A u \in PromotionTasks : u \in Tasks
        BY PromotionTaskShape
    <1>5. StoreInv'
        BY <1>1, <1>2, <1>3, <1>4, TasksMove
        DEF IntakeInv, StoreInv, StoreTypeOK, LedgerUnique, MintedIsReserved
    <1>6. QED
        BY <1>1, <1>3, <1>5, KeepCalls, KeepAnswers DEF IntakeInv

LEMMA LinkKeeps ==
    ASSUME IntakeInv, NEW c \in Callers, CommitScoutPromotionLink(c)
    PROVE  IntakeInv'
    <1> DEFINE cmd == call[c].cmd
               q == cmd.op
               e == call[c].evidence
               a == [op |-> q, kind |-> cmd.kind, subject |-> Subject(cmd), ref |-> <<TaskOperation(cmd), e>>]
    <1>1. /\ call[c] # None /\ call[c] \in Calls /\ cmd \in Commands /\ cmd.kind = "ship"
          /\ q \in ShipOperations /\ TaskOperation(cmd) = <<q>>
          /\ e \in 1..MaxEvidence /\ e # None
          /\ Recorded(ledger, <<q>>, "PrepareTask", Subject(cmd))
        <2>1. /\ call[c] # None /\ call[c] \in Calls /\ cmd \in Commands /\ cmd.kind = "ship"
              /\ call[c].stage = "link" /\ CallOK(call[c], ledger, reserved)
            BY DEF CommitScoutPromotionLink, At, IntakeInv, CallsInv, Calls
        <2>2. e # None /\ Recorded(ledger, <<q>>, "PrepareTask", Subject(cmd))
            BY <2>1 DEF CallOK, PreparationStages
        <2>3. e \in 1..MaxEvidence
            BY <2>1, <2>2 DEF Calls
        <2>4. QED
            BY <2>1, <2>2, <2>3, CommandShape
    <1>2. /\ UNCHANGED <<ledger, item, reserved, intents, task, evidence, inventory, workload>>
          /\ links' = IF links[q] # None THEN links ELSE [links EXCEPT ![q] = e]
          /\ call' = [call EXCEPT ![c] = None]
          /\ UNCHANGED answers \/ (links'[q] = e /\ answers' = answers \cup {a})
        <2>1. links[q] = None => [links EXCEPT ![q] = e][q] = e
            BY <1>1 DEF IntakeInv, StoreInv, StoreTypeOK
        <2>2. QED
            BY <2>1 DEF CommitScoutPromotionLink, End, Answer
    <1>3. /\ links' \in [ShipOperations -> (1..MaxEvidence) \cup {None}]
          /\ \A p \in ShipOperations : links[p] # None => links'[p] = links[p]
        BY <1>1, <1>2 DEF IntakeInv, StoreInv, StoreTypeOK
    <1>4. Forward /\ Looks' = Looks
        BY <1>2, <1>3 DEF Forward, Looks
    <1>5. RowsInv'
        <2>1. \A j \in Items : RowInv(j)'
            BY <1>2, RowKeeps DEF IntakeInv, StoreInv, RowsInv
        <2>2. QED
            BY <2>1 DEF RowsInv
    <1>6. StoreInv'
        BY <1>2, <1>3, <1>4, <1>5
        DEF IntakeInv, StoreInv, StoreTypeOK, LedgerUnique, AddedOnce, MintedIsReserved,
            PromotionsAreRows, LooksInv
    <1>7. CallsInv'
        BY <1>2, <1>4, EndKeeps DEF IntakeInv
    <1>8. CASE UNCHANGED answers
        BY <1>4, <1>6, <1>7, <1>8, KeepAnswers DEF IntakeInv
    <1>9. CASE links'[q] = e /\ answers' = answers \cup {a}
        <2>1. AnswerOK(a, ledger', links')
            BY <1>1, <1>2, <1>9 DEF AnswerOK
        <2>2. QED
            BY <1>4, <1>6, <1>7, <1>9, <2>1, AddAnswer DEF IntakeInv
    <1>10. QED
        BY <1>2, <1>8, <1>9

LEMMA AttestationKeeps ==
    ASSUME IntakeInv, NEW c \in Callers, AttestScoutDecisions(c)
    PROVE  IntakeInv'
    <1> DEFINE cmd == call[c].cmd
    <1>1. /\ cmd \in Commands /\ call' = [call EXCEPT ![c] = None]
          /\ UNCHANGED <<item, reserved, intents, task, links, evidence, workload, answers>>
        BY DEF AttestScoutDecisions, At, End, IntakeInv, CallsInv, Calls
    <1>2. CASE UNCHANGED <<ledger, inventory>>
        BY <1>1, <1>2, StoreUnchanged, StandingStill, EndKeeps, KeepAnswers DEF rows, IntakeInv
    <1>3. CASE /\ MutationReplay(<<cmd.op>>, "AttestScoutDecisions", Subject(cmd)) = "new"
               /\ inventory' = cmd.contract
               /\ InsertOperation(<<cmd.op>>, "AttestScoutDecisions", Subject(cmd))
        <2> DEFINE r == [op |-> <<cmd.op>>, command |-> "AttestScoutDecisions",
                         subject |-> Subject(cmd), version |-> 1 + Cardinality(Looks)]
        <2>1. /\ ledger \subseteq ledger' /\ ledger' \subseteq LedgerRows /\ IsFiniteSet(ledger')
              /\ LedgerUnique'
              /\ \A s \in ledger : s.op # <<cmd.op>>
            BY <1>1, <1>3, OwnEntry DEF IntakeInv, StoreInv, LedgerCommands
        <2>2. /\ r.command = "AttestScoutDecisions" /\ r.version = 1 + Cardinality(Looks)
              /\ r.subject[2] = cmd.contract /\ r.op = <<cmd.op>>
            BY DEF Subject
        <2>3. ledger' = ledger \cup {r}
            BY <1>3 DEF InsertOperation, NextStateVersion, Looks
        <2> HIDE DEF r
        <2>4. \A s \in ledger' : s.command = "PromoteBacklog" => s \in ledger
            BY <2>2, <2>3
        <2>5. Looks' = Looks \cup {r} /\ r \notin Looks
            BY <2>1, <2>2, <2>3 DEF Looks
        <2>6. IsFiniteSet(Looks) /\ Cardinality(Looks) \in Nat
            <3>1. IsFiniteSet(Looks)
                BY FS_Subset DEF Looks, IntakeInv, StoreInv, StoreTypeOK
            <3>2. QED
                BY <3>1, FS_CardinalityType
        <2>7. Cardinality(Looks') = r.version
            <3>1. Cardinality(Looks \cup {r}) = Cardinality(Looks) + 1
                BY <2>5, <2>6, FS_AddElement
            <3>2. QED
                BY <2>2, <2>5, <2>6, <3>1
        <2>8. ASSUME NEW s \in Looks PROVE s.version <= Cardinality(Looks)
            <3>1. PICK top \in Looks : /\ top.version = Cardinality(Looks)
                                       /\ \A u \in Looks : u # top => u.version < top.version
                BY DEF IntakeInv, StoreInv, LooksInv
            <3>2. s.version \in Nat
                BY DEF Looks, LedgerRows, IntakeInv, StoreInv, StoreTypeOK
            <3>3. QED
                BY <2>6, <3>1, <3>2
        <2>9. LooksInv'
            <3>1. \A s \in Looks : s.version \in Nat
                BY DEF Looks, LedgerRows, IntakeInv, StoreInv, StoreTypeOK
            <3>2. \A s \in Looks : s.version < r.version
                BY <2>2, <2>6, <2>8, <3>1
            <3>3. inventory' = r.subject[2] /\ r.version = Cardinality(Looks')
                BY <1>3, <2>2, <2>7
            <3>4. QED
                BY <2>5, <3>2, <3>3 DEF LooksInv
        <2>10. RowsInv'
            <3>1. \A j \in Items : RowInv(j)'
                BY <1>1, <2>1, RowKeeps DEF IntakeInv, StoreInv, RowsInv
            <3>2. QED
                BY <3>1 DEF RowsInv
        <2>11. StoreInv'
            BY <1>1, <2>1, <2>4, <2>9, <2>10
            DEF IntakeInv, StoreInv, StoreTypeOK, AddedOnce, MintedIsReserved, PromotionsAreRows
        <2>12. Forward
            BY <1>1, <2>1 DEF Forward
        <2>13. QED
            BY <1>1, <2>11, <2>12, EndKeeps, KeepAnswers DEF IntakeInv
    <1>4. QED
        BY <1>2, <1>3 DEF AttestScoutDecisions

LEMMA SealKeeps ==
    ASSUME IntakeInv, SealScoutEvidence
    PROVE  IntakeInv'
    <1>1. /\ UNCHANGED <<ledger, item, reserved, task, links, inventory, workload, call, answers>>
          /\ evidence' \in 0..MaxEvidence
        BY IntakeShape DEF SealScoutEvidence, IntakeInv, StoreInv, StoreTypeOK
    <1>2. Forward /\ Looks' = Looks
        BY <1>1 DEF Forward, Looks
    <1>3. RowsInv'
        BY <1>1 DEF RowsInv, RowInv, Recorded, IntakeInv, StoreInv
    <1>4. StoreInv'
        BY <1>1, <1>2, <1>3
        DEF IntakeInv, StoreInv, StoreTypeOK, LedgerUnique, AddedOnce, MintedIsReserved,
            PromotionsAreRows, LooksInv
    <1>5. QED
        BY <1>1, <1>2, <1>4, KeepCalls, KeepAnswers DEF IntakeInv

-----------------------------------------------------------------------------
(* The invariant holds.                                                    *)

LEMMA IntakeStarts ==
    ASSUME Init
    PROVE  IntakeInv
    <1>1. StoreTypeOK
        BY IntakeShape, FS_EmptySet DEF Init, StoreTypeOK
    <1>2. LedgerUnique /\ AddedOnce /\ PromotionsAreRows
        BY IntakeShape DEF Init, LedgerUnique, AddedOnce, PromotionsAreRows
    <1>3. RowsInv
        BY DEF Init, RowsInv, RowInv
    <1>4. MintedIsReserved
        BY PromotionTaskShape DEF Init, MintedIsReserved
    <1>5. LooksInv
        BY DEF Init, LooksInv, Looks
    <1>6. CallsInv /\ AnswersInv
        BY DEF Init, CallsInv, AnswersInv
    <1>7. QED
        BY <1>1, <1>2, <1>3, <1>4, <1>5, <1>6 DEF IntakeInv, StoreInv

LEMMA IntakeStep ==
    ASSUME IntakeInv, [Next]_vars
    PROVE  IntakeInv'
    <1>1. CASE UNCHANGED vars
        BY <1>1, StoreUnchanged, StandingStill, KeepCalls, KeepAnswers DEF vars, durable, rows, IntakeInv
    <1>2. ASSUME NEW c \in Callers, Step(c) PROVE IntakeInv'
        <2>1. CASE \/ ReplayBacklogAddition(c) \/ ReplayBacklogPromotion(c)
                   \/ ReadScoutPromotionSource(c) \/ ProveScoutReviewCleared(c)
            <3>1. UNCHANGED <<rows, workload>>
                BY <2>1 DEF ReplayBacklogAddition, ReplayBacklogPromotion,
                            ReadScoutPromotionSource, ProveScoutReviewCleared, durable, rows
            <3>2. QED
                BY <2>1, <3>1, ReadersKeep
        <2>2. CASE CommitBacklogAddition(c)
            BY <2>2, AdditionKeeps
        <2>3. CASE ReserveBacklogPromotion(c)
            BY <2>3, ReservationKeeps
        <2>4. CASE CommitBacklogPromotion(c)
            BY <2>4, PromotionKeeps
        <2>5. CASE RecordTaskPreparationIntent(c)
            BY <2>5, IntentKeeps
        <2>6. CASE CommitPreparedTask(c)
            BY <2>6, PreparationKeeps
        <2>7. CASE CommitScoutPromotionLink(c)
            BY <2>7, LinkKeeps
        <2>8. CASE AttestScoutDecisions(c)
            BY <2>8, AttestationKeeps
        <2>9. CASE PrepareWorkspace(c) \/ WorktreeAdded(c) \/ PrepareAttachment(c)
            BY <2>9, PlacesKeep
        <2>10. QED
            BY <1>2, <2>1, <2>2, <2>3, <2>4, <2>5, <2>6, <2>7, <2>8, <2>9 DEF Step
    <1>3. ASSUME NEW c \in Callers, CallCutOff(c) \/ \E cmd \in Commands : Begin(c, cmd)
          PROVE  IntakeInv'
        <2>1. UNCHANGED <<rows, workload>>
            BY <1>3 DEF CallCutOff, Begin, durable, rows
        <2>2. QED
            BY <1>3, <2>1, ReadersKeep
    <1>4. CASE Crash
        BY <1>4, CrashKeeps
    <1>5. CASE SealScoutEvidence
        BY <1>5, SealKeeps
    <1>6. ASSUME NEW t \in Tasks, TaskMovesOn(t) PROVE IntakeInv'
        BY <1>6, TaskMovesOnKeeps
    <1>7. QED
        BY <1>1, <1>2, <1>3, <1>4, <1>5, <1>6 DEF Next

\* Whatever copies, rivals, crashes and deadlines meet a command between its
\* transactions, the ledger records an operation once, a row keeps the promotion
\* that wrote it, and a call's later stages may rely on what its earlier ones
\* found (requireMutationReplay, ReserveBacklogPromotion, CommitPreparedTask).
THEOREM IntakeInductive == Spec => []IntakeInv
    <1>1. Init => IntakeInv
        BY IntakeStarts
    <1>2. IntakeInv /\ [Next]_vars => IntakeInv'
        BY IntakeStep
    <1>3. QED
        BY <1>1, <1>2, PTL DEF Spec

-----------------------------------------------------------------------------
(* What it gives.                                                          *)

\* A request becomes work once and in order: of all promotions of a request,
\* however they interleave, only the one that reserved it ever prepares its
\* task, after what the request depends on (ReserveBacklogPromotion and
\* CommitBacklogPromotion).
THEOREM RequestsBecomeWorkOnce == Spec => []RequestBecomesWorkOnce
    <1>1. IntakeInv => RequestBecomesWorkOnce
        <2>1. SUFFICES ASSUME IntakeInv, NEW i \in Items
              PROVE  LET minted == {t \in PromotionTasks : t[2] = i /\ task[t] # "absent"} IN
                     /\ Cardinality(minted) <= 1
                     /\ minted # {} => \A d \in DependsOn[i] : item[d] = "promoted"
                     /\ \A t \in minted : reserved[i] # None /\ reserved[i].op = t[1]
                     /\ item[i] = "promoted" =>
                          /\ minted = {reserved[i].task}
                          /\ MutationReplay(<<reserved[i].op>>, "PromoteBacklog", reserved[i].subject) = "found"
            BY DEF RequestBecomesWorkOnce
        <2> DEFINE minted == {t \in PromotionTasks : t[2] = i /\ task[t] # "absent"}
                   only == <<reserved[i].op, i>>
        <2>2. RowInv(i)
            BY <2>1 DEF IntakeInv, StoreInv, RowsInv
        <2>3. \A t \in minted : reserved[i] # None /\ reserved[i].op = t[1] /\ t = only
            BY <2>1, PromotionTaskShape DEF IntakeInv, StoreInv, MintedIsReserved
        <2>4. Cardinality(minted) <= 1
            <3>1. minted = {} \/ minted = {only}
                BY <2>3
            <3> HIDE DEF minted, only
            <3>2. Cardinality(minted) = 0 \/ Cardinality(minted) = 1
                BY <3>1, FS_EmptySet, FS_Singleton
            <3>3. QED
                BY <3>2
        <2>5. minted # {} => \A d \in DependsOn[i] : item[d] = "promoted"
            BY <2>2, <2>3 DEF RowInv
        <2>6. ASSUME item[i] = "promoted"
              PROVE  /\ minted = {reserved[i].task}
                     /\ MutationReplay(<<reserved[i].op>>, "PromoteBacklog", reserved[i].subject) = "found"
            <3>1. /\ reserved[i].task \in PromotionTasks /\ task[reserved[i].task] # "absent"
                  /\ reserved[i].task = only
                  /\ Recorded(ledger, <<reserved[i].op>>, "PromoteBacklog", reserved[i].subject)
                BY <2>2, <2>6 DEF RowInv
            <3>2. only \in minted
                BY <3>1
            <3>3. minted = {only}
                BY <2>3, <3>2
            <3>4. MutationReplay(<<reserved[i].op>>, "PromoteBacklog", reserved[i].subject) = "found"
                BY <3>1 DEF MutationReplay, Recorded
            <3>5. QED
                BY <3>1, <3>3, <3>4
        <2>7. QED
            BY <2>3, <2>4, <2>5, <2>6
    <1>2. QED
        BY <1>1, IntakeInductive, PTL

\* Everyone told that an operation completed is told the same: a repetition is
\* answered from the ledger, from the row and from the link, and none of them
\* is ever written a second time (ReadBacklogPromotionResult,
\* CommitScoutPromotionLink).
THEOREM EveryAnswerAgrees == Spec => []AnswersAgree
    <1>1. IntakeInv => AnswersAgree
        <2>1. SUFFICES ASSUME IntakeInv PROVE AnswersAgree
            OBVIOUS
        <2>2. ASSUME NEW a \in answers, NEW b \in answers, a.op = b.op PROVE a = b
            <3>1. AnswerOK(a, ledger, links) /\ AnswerOK(b, ledger, links)
                BY <2>1 DEF IntakeInv, AnswersInv
            <3>2. PICK r \in ledger : /\ r.op = <<a.op>> /\ r.subject = a.subject
                                      /\ \/ r.command = "PromoteBacklog" /\ a.kind = "promote"
                                         \/ r.command = "PrepareTask" /\ a.kind = "ship"
                BY <3>1 DEF AnswerOK, Recorded
            <3>3. PICK s \in ledger : /\ s.op = <<b.op>> /\ s.subject = b.subject
                                      /\ \/ s.command = "PromoteBacklog" /\ b.kind = "promote"
                                         \/ s.command = "PrepareTask" /\ b.kind = "ship"
                BY <3>1 DEF AnswerOK, Recorded
            <3>4. r = s
                BY <2>1, <2>2, <3>2, <3>3 DEF IntakeInv, StoreInv, LedgerUnique
            <3>5. a.subject = b.subject /\ a.kind = b.kind
                BY <3>2, <3>3, <3>4
            <3>6. QED
                BY <2>2, <3>1, <3>5 DEF AnswerOK
        <2>3. ASSUME NEW a \in answers, a.kind = "ship" PROVE a.ref[2] = links[a.op]
            <3>1. AnswerOK(a, ledger, links)
                BY <2>1 DEF IntakeInv, AnswersInv
            <3>2. a.ref = <<<<a.op>>, links[a.op]>>
                BY <2>3, <3>1 DEF AnswerOK
            <3>3. QED
                BY <3>2
        <2>4. QED
            BY <2>2, <2>3 DEF AnswersAgree
    <1>2. QED
        BY <1>1, IntakeInductive, PTL

\* The inventory that gates cleanup and promotion is that of the attestation
\* recorded last; a late copy of an earlier one is a replay and writes nothing
\* (AttestScoutDecisions).
THEOREM TheLatestLookStands == Spec => []LatestLookStands
    <1>1. IntakeInv => LatestLookStands
        <2>1. SUFFICES ASSUME IntakeInv, Looks # {}
              PROVE  inventory = (CHOOSE r \in Looks : \A s \in Looks : s.version <= r.version).subject[2]
            BY DEF LatestLookStands, Looks, IntakeInv, StoreInv, LooksInv
        <2> DEFINE last == CHOOSE r \in Looks : \A s \in Looks : s.version <= r.version
        <2>2. \A s \in Looks : s.version \in Nat
            BY <2>1 DEF Looks, LedgerRows, IntakeInv, StoreInv, StoreTypeOK
        <2>3. PICK top \in Looks : /\ inventory = top.subject[2]
                                   /\ \A s \in Looks : s # top => s.version < top.version
            BY <2>1 DEF IntakeInv, StoreInv, LooksInv
        <2>4. \A s \in Looks : s.version <= top.version
            BY <2>2, <2>3
        <2>5. last \in Looks /\ top.version <= last.version
            BY <2>4
        <2>6. last = top
            BY <2>2, <2>3, <2>5
        <2>7. QED
            BY <2>3, <2>6
    <1>2. QED
        BY <1>1, IntakeInductive, PTL

=============================================================================
