-------------------------- MODULE IntegrationProofs --------------------------
(***************************************************************************)
(* The two modules of an integration: the application of a candidate, for  *)
(* any number of calls in flight and of crashes, cancellations and refused *)
(* checks, and the worktree step inside it, for any number of changed      *)
(* paths, saves and deaths of the process.                                 *)
(*                                                                         *)
(* Both properties speak of what is durable, rows and receipts or files.   *)
(* What makes them inductive is what the phase of a running call says      *)
(* about it: ApplicationInv and, in the second part, MaterializationInv.   *)
(***************************************************************************)
EXTENDS IntegrationApplication, WorktreeMaterialization, TLAPS

-----------------------------------------------------------------------------
\* The phases of a call that is inside the adapter.
Inside == Phases \ {"idle", "wait", "settle"}
Before == {"plan", "target", "proof", "publish"}
After == {"promote", "retire", "receipt"}

Explained(o) == unpreflighted \/ doubled \/ (Rebase /\ evid[o] \in expired)

\* What the repository says of itself, and of the operation that moved it.
RepositoryOK ==
  /\ MoveIsRecorded
  /\ git.target => Rebase
  /\ movedBy # "none" <=> git.branch = "result"

\* What a call inside the adapter has established by the phase it is in.
PhaseOK(k, g) ==
  /\ k.mode = "finalize" => Rebase
  /\ k.pc \in Before => Pristine(g)
  /\ k.pc \in {"target", "proof"} => Rebase /\ g.plan
  /\ k.pc = "proof" => g.target
  /\ k.pc = "publish" => g.plan /\ (Rebase => g.target /\ g.proof)
  /\ k.pc = "advance" =>
       g.plan /\ g.transition /\ (Rebase => g.target /\ (g.branch = "expected" => g.proof))
  /\ k.pc = "index" => g.branch = "result"
  /\ k.pc \in {"worktree", "link", "write"} => g.branch = "result" /\ g.index = "result"
  /\ k.pc \in After => Materialized(g)
  /\ k.pc = "retire" => k.op \in g.rebased

\* What a call is about to write into its row.
ResultOK(k, g) ==
  /\ k.result \in Results \ {"none"}
  /\ k.result = "applied" => Materialized(g)
  /\ k.result \in {"notStarted", "invalidated"} /\ movedBy = k.op => Explained(k.op)

CallOK(c) ==
  /\ lock = c <=> call[c].pc \in Inside
  /\ call[c].pc # "idle" => row[call[c].op] # "none"
  /\ call[c].pc \in Inside => PhaseOK(call[c], git)
  /\ call[c].pc \in {"idle","wait"} => call[c].mode = "fresh"
  /\ call[c].pc = "settle" => ResultOK(call[c], git)

\* Unless two calls of one operation have overlapped.
Single ==
  ~doubled =>
    /\ \A c \in Calls : call[c].pc # "idle" => row[call[c].op] \in {"reserved", "applied"}
    /\ \A c, d \in Calls :
         c # d /\ call[c].pc # "idle" /\ call[d].pc # "idle" => call[c].op # call[d].op

ApplicationInv ==
  /\ ReceiptsAreTrue
  /\ RepositoryOK
  /\ row["rec"] # "none" => row["orig"] # "none"
  /\ \A c \in Calls : CallOK(c)
  /\ Single

-----------------------------------------------------------------------------
(* The two ways a step of a call inside the adapter ends: it goes on to its *)
(* next phase, or it leaves the adapter with a result or an error.          *)

CallRecords == [op : Ops, pc : Phases, receiptOnly : BOOLEAN, mode : Modes, result : Results]
Repositories ==
  [branch : Head, index : Head, worktree : Head \cup {"staged", "partial"},
   plan : BOOLEAN, transition : BOOLEAN, target : BOOLEAN, proof : BOOLEAN,
   rebased : SUBSET Ops, applied : SUBSET Ops]

\* What every adapter step leaves alone.
AdapterFrame ==
  /\ UNCHANGED <<strategy, row, evid, latest, expired, unpreflighted, doubled>>
  /\ faults' \in 0..MaxFaults

\* What an adapter step of call c may do to the repository.
RepositoryStep(c) ==
  /\ git' \in Repositories
  /\ RepositoryOK'
  /\ Materialized(git) => Materialized(git')
  /\ git'.applied # {} => Materialized(git')
  /\ movedBy' \in {movedBy, call[c].op}

LEMMA CallFields ==
  ASSUME TypeOK, NEW c \in Calls
  PROVE  /\ call[c] \in CallRecords /\ NoCall \in CallRecords
         /\ call[c].op \in Ops /\ call[c].pc \in Phases /\ call[c].mode \in Modes
         /\ c # Idle
  BY IntegrationConstants DEF TypeOK, CallRecords, NoCall, Ops, Phases, Modes, Results, Calls, Idle

\* The stored part of the invariant needs only that the moved operation has
\* no settled row, which is what an overlapping call could have written.
LEMMA LedgerKept ==
  ASSUME ApplicationInv, NEW c \in Calls, lock = c, AdapterFrame, RepositoryStep(c)
  PROVE  /\ AppliedIsMaterialized' /\ MoveIsRecorded'
         /\ AbortAfterMoveIsExplained' /\ RecoverySettlesOriginal'
  <1>1. call[c].op \in Ops /\ call[c].pc # "idle"
    BY CallFields DEF ApplicationInv, ReceiptsAreTrue, CallOK, Inside
  <1>2. AppliedIsMaterialized' /\ MoveIsRecorded' /\ RecoverySettlesOriginal'
    BY DEF ApplicationInv, ReceiptsAreTrue, AppliedIsMaterialized, RecoverySettlesOriginal,
           AdapterFrame, RepositoryStep, RepositoryOK
  <1>3. AbortAfterMoveIsExplained'
    <2> SUFFICES ASSUME NEW o \in Ops, row[o] \in {"aborted", "invalidated"}, movedBy' = o
                 PROVE  (unpreflighted \/ doubled \/ (Rebase /\ evid[o] \in expired))
      BY DEF AbortAfterMoveIsExplained, AdapterFrame, Rebase
    <2>1. CASE movedBy = o
      BY <2>1 DEF ApplicationInv, ReceiptsAreTrue, AbortAfterMoveIsExplained
    <2>2. CASE o = call[c].op
      BY <1>1, <2>2 DEF ApplicationInv, Single
    <2>3. QED
      BY <2>1, <2>2 DEF RepositoryStep
  <1>4. QED
    BY <1>2, <1>3

\* The other calls are outside the adapter, and what they are about to report
\* stays true.
LEMMA OthersKept ==
  ASSUME ApplicationInv, NEW c \in Calls, lock = c, AdapterFrame, RepositoryStep(c),
         NEW k \in CallRecords, call' = [call EXCEPT ![c] = k], lock' \in {lock, Idle},
         NEW d \in Calls, d # c
  PROVE  CallOK(d)'
  <1>1. call'[d] = call[d] /\ call[d] \in CallRecords /\ d # Idle
    BY CallFields DEF ApplicationInv, ReceiptsAreTrue, TypeOK
  <1>2. lock # d /\ lock' # d
    BY <1>1
  <1>3. CallOK(d)
    BY DEF ApplicationInv
  <1>4. call[d].pc \notin Inside
    BY <1>2, <1>3 DEF CallOK
  <1>5. ASSUME call[d].pc = "settle"
        PROVE  ResultOK(call[d], git)'
    <2>1. ResultOK(call[d], git)
      BY <1>3, <1>5 DEF CallOK
    <2>2. ASSUME movedBy' = call[d].op, movedBy # call[d].op
          PROVE  doubled
      <3>1. call[c].op = call[d].op /\ call[c].pc # "idle"
        BY <2>2 DEF RepositoryStep, ApplicationInv, CallOK, Inside
      <3>2. QED
        BY <3>1, <1>5 DEF ApplicationInv, Single
    <2>3. QED
      BY <1>1, <2>1, <2>2 DEF ResultOK, Explained, AdapterFrame, RepositoryStep, Rebase
  <1>6. QED
    BY <1>1, <1>2, <1>3, <1>4, <1>5 DEF CallOK, AdapterFrame

LEMMA AdapterStep ==
  ASSUME ApplicationInv, NEW c \in Calls, lock = c, AdapterFrame, RepositoryStep(c),
         NEW k \in CallRecords, call' = [call EXCEPT ![c] = k], lock' \in {lock, Idle},
         lock' = lock <=> k.pc \in Inside,
         k.pc # "idle" => k.op = call[c].op,
         k.pc \in Inside => PhaseOK(k, git'),
         k.pc \in {"idle", "wait"} => k.mode = "fresh",
         k.pc = "settle" => ResultOK(k, git)'
  PROVE  ApplicationInv'
  <1>1. call'[c] = k /\ c # Idle
    BY CallFields DEF ApplicationInv, ReceiptsAreTrue, TypeOK
  <1>2. TypeOK'
    <2>1. call' \in [Calls -> CallRecords]
      BY DEF ApplicationInv, ReceiptsAreTrue, TypeOK, CallRecords
    <2>2. movedBy' \in Ops \cup {"none"}
      BY CallFields DEF ApplicationInv, ReceiptsAreTrue, TypeOK, RepositoryStep
    <2>3. QED
      BY <2>1, <2>2 DEF ApplicationInv, ReceiptsAreTrue, TypeOK, AdapterFrame, RepositoryStep,
                        CallRecords, Repositories
  <1>3. call[c].pc # "idle" /\ row[call[c].op] # "none"
    BY DEF ApplicationInv, CallOK, Inside
  <1>4. CallOK(c)'
    BY <1>1, <1>3 DEF CallOK, AdapterFrame, PhaseOK, Rebase
  <1>5. \A d \in Calls : CallOK(d)'
    BY <1>4, OthersKept
  <1>6. Single'
    BY <1>1, <1>3 DEF ApplicationInv, ReceiptsAreTrue, TypeOK, Single, AdapterFrame
  <1>7. QED
    BY <1>2, <1>5, <1>6, LedgerKept
    DEF ApplicationInv, ReceiptsAreTrue, AdapterFrame, RepositoryStep

\* A step that writes nothing to the repository.
LEMMA RepositoryUnchanged ==
  ASSUME ApplicationInv, NEW c \in Calls, UNCHANGED <<strategy, git, movedBy>>
  PROVE  RepositoryStep(c)
  <1>1. git' \in Repositories /\ movedBy' \in {movedBy, call[c].op}
    BY DEF ApplicationInv, ReceiptsAreTrue, TypeOK, Repositories
  <1>2. RepositoryOK'
    BY DEF ApplicationInv, RepositoryOK, MoveIsRecorded, Rebase
  <1>3. git'.applied # {} => Materialized(git')
    BY DEF ApplicationInv, ReceiptsAreTrue, TypeOK, AppliedIsMaterialized, Materialized
  <1>4. QED
    BY <1>1, <1>2, <1>3 DEF RepositoryStep

LEMMA ReturnStep ==
  ASSUME ApplicationInv, NEW c \in Calls, lock = c, AdapterFrame, RepositoryStep(c),
         NEW r \in {"error", "notStarted", "applied", "invalidated"}, Return(c, r),
         r = "applied" => Materialized(git'),
         r \in {"notStarted", "invalidated"} /\ movedBy' = call[c].op => Explained(call[c].op)
  PROVE  ApplicationInv'
  <1> DEFINE k == IF r = "error" THEN NoCall
                  ELSE [call[c] EXCEPT !.pc = "settle", !.result = r]
  <1>1. call[c] \in CallRecords /\ NoCall \in CallRecords
    BY CallFields DEF ApplicationInv, ReceiptsAreTrue
  <1>2. k \in CallRecords
    <2>1. ASSUME r # "error"
          PROVE  [call[c] EXCEPT !.pc = "settle", !.result = r] \in CallRecords
      BY <1>1, <2>1 DEF CallRecords, Phases, Results
    <2>2. QED
      BY <1>1, <2>1
  <1>3. call' = [call EXCEPT ![c] = k] /\ lock' = Idle /\ lock' # lock
    BY CallFields DEF Return, ApplicationInv, ReceiptsAreTrue
  <1>4. CASE r = "error"
    <2>1. k.pc = "idle" /\ k.mode = "fresh"
      BY <1>4 DEF NoCall
    <2>2. QED
      BY <1>2, <1>3, <2>1, AdapterStep DEF Inside
  <1>5. CASE r # "error"
    <2>1. k.pc = "settle" /\ k.op = call[c].op /\ k.result = r
      BY <1>1, <1>5 DEF CallRecords
    <2>2. (movedBy' = call[c].op /\ r \in {"notStarted", "invalidated"}) => Explained(call[c].op)
      OBVIOUS
    <2>3. ASSUME NEW h, h = k
          PROVE  ResultOK(h, git)'
      BY <1>5, <2>1, <2>2, <2>3 DEF ResultOK, Results, Explained, AdapterFrame, Rebase
    <2>4. QED
      <3>1. PICK h \in CallRecords : h = k
        BY <1>2
      <3>2. ResultOK(h, git)'
        BY <3>1, <2>3
      <3> HIDE DEF k
      <3>3. call' = [call EXCEPT ![c] = h] /\ h.pc = "settle" /\ h.op = call[c].op
        BY <1>3, <2>1, <3>1
      <3>4. QED
        BY <1>3, <3>2, <3>3, AdapterStep DEF Inside
  <1>6. QED
    BY <1>4, <1>5

LEMMA GotoStep ==
  ASSUME ApplicationInv, NEW c \in Calls, lock = c, AdapterFrame, RepositoryStep(c),
         NEW p \in Inside, NEW m \in Modes,
         \/ Goto(c, p) /\ m = call[c].mode
         \/ call' = [call EXCEPT ![c].pc = p, ![c].mode = m] /\ lock' = lock,
         PhaseOK([call[c] EXCEPT !.pc = p, !.mode = m], git')
  PROVE  ApplicationInv'
  <1>1. call[c] \in CallRecords
    BY CallFields DEF ApplicationInv, ReceiptsAreTrue
  <1>2. [call[c] EXCEPT !.pc = p, !.mode = m] \in CallRecords
    BY <1>1 DEF CallRecords, Inside
  <1>3. call' = [call EXCEPT ![c] = [call[c] EXCEPT !.pc = p, !.mode = m]] /\ lock' = lock
    <2>1. call \in [Calls -> CallRecords]
      BY DEF ApplicationInv, ReceiptsAreTrue, TypeOK, CallRecords
    <2>2. CASE Goto(c, p) /\ m = call[c].mode
      <3>1. [call[c] EXCEPT !.pc = p, !.mode = m] = [call[c] EXCEPT !.pc = p]
        BY <1>1, <2>2 DEF CallRecords
      <3>2. QED
        BY <2>2, <3>1 DEF Goto
    <2>3. CASE call' = [call EXCEPT ![c].pc = p, ![c].mode = m] /\ lock' = lock
      BY <2>1, <2>3 DEF CallRecords
    <2>4. QED
      BY <2>2, <2>3
  <1>4. PICK k \in CallRecords : k = [call[c] EXCEPT !.pc = p, !.mode = m]
    BY <1>2
  <1>5. k.pc = p /\ k.op = call[c].op
    BY <1>1, <1>4 DEF CallRecords
  <1>6. QED
    BY <1>3, <1>4, <1>5, AdapterStep DEF Inside

LEMMA FrameKept ==
  ASSUME ApplicationInv,
         UNCHANGED <<strategy, row, evid, latest, expired, unpreflighted, doubled>>,
         faults' = faults \/ (faults < MaxFaults /\ faults' = faults + 1)
  PROVE  AdapterFrame
  BY IntegrationConstants DEF ApplicationInv, ReceiptsAreTrue, TypeOK, AdapterFrame

\* The call that holds the lock knows the repository by its phase.
LEMMA HolderKnows ==
  ASSUME ApplicationInv, NEW c \in Calls, lock = c
  PROVE  /\ call[c] \in CallRecords /\ call[c].op \in Ops /\ call[c].mode \in Modes
         /\ call[c].pc \in Inside /\ PhaseOK(call[c], git)
         /\ git \in Repositories /\ RepositoryOK
         /\ git.branch = "expected" => movedBy # call[c].op
         /\ \A p \in Phases, m \in Modes :
              /\ [call[c] EXCEPT !.pc = p, !.mode = m].pc = p
              /\ [call[c] EXCEPT !.pc = p, !.mode = m].mode = m
              /\ [call[c] EXCEPT !.pc = p, !.mode = m].op = call[c].op
  <1>1. call[c] \in CallRecords /\ call[c].op \in Ops /\ call[c].mode \in Modes
    BY CallFields DEF ApplicationInv, ReceiptsAreTrue
  <1>2. call[c].pc \in Inside /\ PhaseOK(call[c], git)
    BY DEF ApplicationInv, CallOK
  <1>3. git \in Repositories /\ RepositoryOK
    BY DEF ApplicationInv, ReceiptsAreTrue, TypeOK, Repositories
  <1>4. git.branch = "expected" => movedBy # call[c].op
    BY <1>1, <1>3 DEF RepositoryOK, Ops
  <1>5. QED
    BY <1>1, <1>2, <1>3, <1>4 DEF CallRecords

-----------------------------------------------------------------------------
(* The adapter, one action at a time. *)

\* A refusal that leaves the repository alone is true of a branch that has not
\* moved; the refusals after a move are those of a rebase whose evidence ran out.
LEMMA RefuseStep ==
  ASSUME ApplicationInv, NEW c \in Calls, lock = c, AdapterFrame, UNCHANGED <<git, movedBy>>,
         NEW r \in {"error", "notStarted", "applied", "invalidated"}, Return(c, r),
         r = "applied" => Materialized(git),
         r \in {"notStarted", "invalidated"} => git.branch = "expected" \/ (Rebase /\ Expired(c))
  PROVE  ApplicationInv'
  <1>1. RepositoryStep(c)
    BY RepositoryUnchanged DEF AdapterFrame
  <1>2. r = "applied" => Materialized(git')
    OBVIOUS
  <1>3. r \in {"notStarted", "invalidated"} /\ movedBy' = call[c].op => Explained(call[c].op)
    BY HolderKnows DEF Explained, Expired
  <1>4. QED
    BY <1>1, <1>2, <1>3, ReturnStep

LEMMA PassStep ==
  ASSUME ApplicationInv, NEW c \in Calls, lock = c, AdapterFrame, UNCHANGED <<git, movedBy>>,
         NEW p \in Inside, NEW m \in Modes,
         \/ Goto(c, p) /\ m = call[c].mode
         \/ call' = [call EXCEPT ![c].pc = p, ![c].mode = m] /\ lock' = lock,
         PhaseOK([call[c] EXCEPT !.pc = p, !.mode = m], git)
  PROVE  ApplicationInv'
  <1>1. RepositoryStep(c)
    BY RepositoryUnchanged DEF AdapterFrame
  <1>2. QED
    BY <1>1, GotoStep

LEMMA ReplayAppliedInv ==
  ASSUME ApplicationInv, NEW c \in Calls, ReplayApplied(c)
  PROVE  ApplicationInv'
  <1>1. lock = c /\ AdapterFrame /\ UNCHANGED <<git, movedBy>>
    BY FrameKept DEF ReplayApplied, In, store, world, ghost
  <1>2. PICK r \in {"error", "applied"} : Return(c, r) /\ (r = "applied" => Materialized(git))
    BY DEF ReplayApplied
  <1>3. QED
    BY <1>1, <1>2, RefuseStep

LEMMA ReconcilePlanInv ==
  ASSUME ApplicationInv, NEW c \in Calls, ReconcilePlan(c)
  PROVE  ApplicationInv'
  <1>1. lock = c /\ AdapterFrame /\ UNCHANGED <<git, movedBy>>
    BY FrameKept DEF ReconcilePlan, In, store, world, ghost
  <1>2. ASSUME git.transition, call' = [call EXCEPT ![c].pc = "advance", ![c].mode = "resume"],
               lock' = lock
        PROVE  ApplicationInv'
    <2>1. "advance" \in Inside /\ "advance" \in Phases /\ "resume" \in Modes
      BY DEF Inside, Phases, Modes
    <2>2. PhaseOK([call[c] EXCEPT !.pc = "advance", !.mode = "resume"], git)
      BY <1>1, <1>2, <2>1, HolderKnows DEF ReconcilePlan, PhaseOK, Before, After
    <2>3. QED
      BY <1>1, <1>2, <2>1, <2>2, PassStep
  <1>3. ASSUME NEW r \in {"error", "applied"}, Return(c, r), r = "applied" => Materialized(git)
        PROVE  ApplicationInv'
    BY <1>1, <1>3, RefuseStep
  <1>4. ASSUME NEW r \in {"error", "notStarted"}, Return(c, r), r = "notStarted" => ProvedPristine
        PROVE  ApplicationInv'
    BY <1>1, <1>4, RefuseStep DEF ProvedPristine, Pristine
  <1>5. ASSUME Goto(c, "inputs")
        PROVE  ApplicationInv'
    <2>1. "inputs" \in Inside /\ "inputs" \in Phases
      BY DEF Inside, Phases
    <2>2. PhaseOK([call[c] EXCEPT !.pc = "inputs", !.mode = call[c].mode], git)
      BY <1>1, <2>1, HolderKnows DEF PhaseOK, Before, After
    <2>3. QED
      BY <1>1, <1>5, <2>1, <2>2, HolderKnows, PassStep
  <1>6. QED
    BY <1>2, <1>3, <1>4, <1>5 DEF ReconcilePlan

LEMMA ResumePendingInv ==
  ASSUME ApplicationInv, NEW c \in Calls, ResumePending(c)
  PROVE  ApplicationInv'
  <1>1. lock = c /\ AdapterFrame /\ UNCHANGED <<git, movedBy>>
    BY FrameKept DEF ResumePending, In, store, world, ghost
  <1>2. ASSUME git.plan, git.transition, PendingReceipts, lock' = lock,
               call' = [call EXCEPT ![c].pc = "advance", ![c].mode = "pending"]
        PROVE  ApplicationInv'
    <2>1. "advance" \in Inside /\ "advance" \in Phases /\ "pending" \in Modes
      BY DEF Inside, Phases, Modes
    <2>2. PhaseOK([call[c] EXCEPT !.pc = "advance", !.mode = "pending"], git)
      BY <1>1, <1>2, <2>1, HolderKnows DEF PhaseOK, Before, After, PendingReceipts
    <2>3. QED
      BY <1>1, <1>2, <2>1, <2>2, PassStep
  <1>3. ASSUME NEW r \in {"error", "notStarted"}, Return(c, r), r = "notStarted" => ProvedPristine
        PROVE  ApplicationInv'
    BY <1>1, <1>3, RefuseStep DEF ProvedPristine, Pristine
  <1>4. QED
    BY <1>2, <1>3 DEF ResumePending

LEMMA ReconcileReceiptOnlyInv ==
  ASSUME ApplicationInv, NEW c \in Calls, ReconcileReceiptOnly(c)
  PROVE  ApplicationInv'
  <1>1. lock = c /\ AdapterFrame /\ UNCHANGED <<git, movedBy>>
    BY FrameKept DEF ReconcileReceiptOnly, In, store, world, ghost
  <1>2. PICK r \in {"error", "notStarted", "applied"} :
          /\ Return(c, r) /\ (r = "applied" => Materialized(git))
          /\ (r = "notStarted" => ProvedPristine)
    BY DEF ReconcileReceiptOnly
  <1>3. QED
    BY <1>1, <1>2, RefuseStep DEF ProvedPristine, Pristine

\* A moved branch has its plan, so a call that reads the rebase receipts is of
\* a rebase.
LEMMA ReconcileRebaseInv ==
  ASSUME ApplicationInv, NEW c \in Calls, ReconcileRebase(c)
  PROVE  ApplicationInv'
  <1>1. lock = c /\ AdapterFrame /\ UNCHANGED <<git, movedBy>>
    BY FrameKept DEF ReconcileRebase, In, store, world, ghost
  <1>2. ASSUME Goto(c, "inputs")
        PROVE  ApplicationInv'
    <2>1. "inputs" \in Inside /\ "inputs" \in Phases
      BY DEF Inside, Phases
    <2>2. PhaseOK([call[c] EXCEPT !.pc = "inputs", !.mode = call[c].mode], git)
      BY <1>1, <2>1, HolderKnows DEF PhaseOK, Before, After
    <2>3. QED
      BY <1>1, <1>2, <2>1, <2>2, HolderKnows, PassStep
  <1>3. ASSUME Return(c, "error")
        PROVE  ApplicationInv'
    BY <1>1, <1>3, RefuseStep
  <1>4. ASSUME git.target, git.branch = "result", Expired(c), Return(c, "notStarted")
        PROVE  ApplicationInv'
    <2>1. Rebase
      BY <1>4 DEF ApplicationInv, RepositoryOK
    <2>2. QED
      BY <1>1, <1>4, <2>1, RefuseStep
  <1>5. ASSUME git.target, git.branch = "result", lock' = lock,
               call' = [call EXCEPT ![c].pc = "advance", ![c].mode = "finalize"]
        PROVE  ApplicationInv'
    <2>1. "advance" \in Inside /\ "advance" \in Phases /\ "finalize" \in Modes
      BY DEF Inside, Phases, Modes
    <2>2. PhaseOK([call[c] EXCEPT !.pc = "advance", !.mode = "finalize"], git)
      BY <1>1, <1>5, <2>1, HolderKnows DEF PhaseOK, Before, After, RepositoryOK, MoveIsRecorded
    <2>3. QED
      BY <1>1, <1>5, <2>1, <2>2, PassStep
  <1>6. QED
    BY <1>2, <1>3, <1>4, <1>5 DEF ReconcileRebase

LEMMA InspectInputsInv ==
  ASSUME ApplicationInv, NEW c \in Calls, InspectInputs(c) \/ InspectChangedCandidate(c)
  PROVE  ApplicationInv'
  <1>1. lock = c /\ AdapterFrame /\ UNCHANGED <<git, movedBy>>
    BY FrameKept DEF InspectInputs, InspectChangedCandidate, In, store, world, ghost
  <1>2. ASSUME NEW r \in {"error", "notStarted", "invalidated"}, Return(c, r),
               r # "error" => Pristine(git)
        PROVE  ApplicationInv'
    BY <1>1, <1>2, RefuseStep DEF Pristine
  <1>3. ASSUME Pristine(git), Goto(c, "plan")
        PROVE  ApplicationInv'
    <2>1. "plan" \in Inside /\ "plan" \in Phases
      BY DEF Inside, Phases
    <2>2. PhaseOK([call[c] EXCEPT !.pc = "plan", !.mode = call[c].mode], git)
      BY <1>1, <1>3, <2>1, HolderKnows DEF PhaseOK, Before, After
    <2>3. QED
      BY <1>1, <1>3, <2>1, <2>2, HolderKnows, PassStep
  <1>4. QED
    BY <1>2, <1>3 DEF InspectInputs, InspectChangedCandidate

LEMMA RefuseIsolatedInv ==
  ASSUME ApplicationInv, NEW c \in Calls, RefuseIsolated(c)
  PROVE  ApplicationInv'
  <1>1. lock = c /\ AdapterFrame /\ UNCHANGED <<git, movedBy>> /\ call[c].pc = "plan"
    BY FrameKept DEF RefuseIsolated, In, store, world, ghost
  <1>2. git.branch = "expected"
    BY <1>1, HolderKnows DEF PhaseOK, Before, Pristine
  <1>3. QED
    BY <1>1, <1>2, RefuseStep DEF RefuseIsolated

\* A receipt or proof file is written before the branch moves.
LEMMA RecordStep ==
  ASSUME ApplicationInv, NEW c \in Calls, lock = c, AdapterFrame, movedBy' = movedBy,
         Pristine(git),
         \/ git' = [git EXCEPT !.plan = TRUE]
         \/ Rebase /\ git' = [git EXCEPT !.target = TRUE]
         \/ git' = [git EXCEPT !.proof = TRUE]
         \/ git' = [git EXCEPT !.transition = TRUE]
  PROVE  /\ RepositoryStep(c) /\ Pristine(git') /\ git' \in Repositories
         /\ git.plan => git'.plan
         /\ git.target => git'.target
         /\ git.proof => git'.proof
  <1>1. git \in Repositories /\ RepositoryOK
    BY HolderKnows
  <1>2. /\ git' \in Repositories /\ git'.branch = git.branch /\ git'.index = git.index
        /\ git'.worktree = git.worktree /\ git'.applied = git.applied
        /\ git.plan => git'.plan
        /\ git.target => git'.target
        /\ git.proof => git'.proof
        /\ git'.target => git.target \/ Rebase
    BY <1>1 DEF Repositories
  <1>3. RepositoryOK'
    BY <1>1, <1>2 DEF RepositoryOK, MoveIsRecorded, Pristine, AdapterFrame, Rebase
  <1>4. ~Materialized(git) /\ git.applied = {}
    BY <1>1 DEF Pristine, Materialized, ApplicationInv, ReceiptsAreTrue, AppliedIsMaterialized,
                Repositories
  <1>5. QED
    BY <1>2, <1>3, <1>4 DEF RepositoryStep, Pristine

LEMMA PlanInv ==
  ASSUME ApplicationInv, NEW c \in Calls, RunIsolated(c) \/ PrepareRebaseProof(c)
  PROVE  ApplicationInv'
  <1>1. /\ lock = c /\ AdapterFrame /\ movedBy' = movedBy /\ call[c].pc = "plan"
        /\ git' = [git EXCEPT !.plan = TRUE]
    BY FrameKept DEF RunIsolated, PrepareRebaseProof, In, store, world, ghost
  <1>2. Pristine(git)
    BY <1>1, HolderKnows DEF PhaseOK, Before
  <1>3. RepositoryStep(c) /\ Pristine(git') /\ git'.plan
    BY <1>1, <1>2, RecordStep, HolderKnows DEF Repositories
  <1>4. CASE RunIsolated(c)
    <2>1. "publish" \in Inside /\ "publish" \in Phases
      BY DEF Inside, Phases
    <2>2. PhaseOK([call[c] EXCEPT !.pc = "publish", !.mode = call[c].mode], git')
      BY <1>1, <1>3, <1>4, <2>1, HolderKnows DEF PhaseOK, Before, After, RunIsolated
    <2>3. QED
      BY <1>1, <1>3, <1>4, <2>1, <2>2, HolderKnows, GotoStep DEF RunIsolated
  <1>5. CASE PrepareRebaseProof(c)
    <2>1. "target" \in Inside /\ "target" \in Phases
      BY DEF Inside, Phases
    <2>2. PhaseOK([call[c] EXCEPT !.pc = "target", !.mode = call[c].mode], git')
      BY <1>1, <1>3, <1>5, <2>1, HolderKnows DEF PhaseOK, Before, After, PrepareRebaseProof
    <2>3. QED
      BY <1>1, <1>3, <1>5, <2>1, <2>2, HolderKnows, GotoStep DEF PrepareRebaseProof
  <1>6. QED
    BY <1>4, <1>5

LEMMA RecordTargetInv ==
  ASSUME ApplicationInv, NEW c \in Calls, RecordTarget(c)
  PROVE  ApplicationInv'
  <1>1. lock = c /\ AdapterFrame /\ movedBy' = movedBy /\ call[c].pc = "target"
    BY FrameKept DEF RecordTarget, In, store, world, ghost
  <1>2. Pristine(git) /\ Rebase /\ git.plan
    BY <1>1, HolderKnows DEF PhaseOK, Before
  <1>3. ASSUME Expired(c), Return(c, "notStarted"), UNCHANGED git
        PROVE  ApplicationInv'
    BY <1>1, <1>2, <1>3, RefuseStep
  <1>4. ASSUME git' = [git EXCEPT !.target = TRUE], Goto(c, "proof")
        PROVE  ApplicationInv'
    <2>1. "proof" \in Inside /\ "proof" \in Phases
      BY DEF Inside, Phases
    <2>2. RepositoryStep(c) /\ Pristine(git') /\ git'.plan /\ git'.target
      BY <1>1, <1>2, <1>4, RecordStep, HolderKnows DEF Repositories
    <2>3. PhaseOK([call[c] EXCEPT !.pc = "proof", !.mode = call[c].mode], git')
      BY <1>1, <1>2, <2>1, <2>2, HolderKnows DEF PhaseOK, Before, After
    <2>4. QED
      BY <1>1, <1>4, <2>1, <2>2, <2>3, HolderKnows, GotoStep
  <1>5. QED
    BY <1>3, <1>4 DEF RecordTarget

LEMMA RecordProofInv ==
  ASSUME ApplicationInv, NEW c \in Calls, RecordProof(c)
  PROVE  ApplicationInv'
  <1>1. lock = c /\ AdapterFrame /\ movedBy' = movedBy /\ call[c].pc = "proof"
    BY FrameKept DEF RecordProof, In, store, world, ghost
  <1>2. Pristine(git) /\ Rebase /\ git.plan /\ git.target
    BY <1>1, HolderKnows DEF PhaseOK, Before
  <1>3. ASSUME Return(c, "error"), UNCHANGED git
        PROVE  ApplicationInv'
    BY <1>1, <1>3, RefuseStep
  <1>4. ASSUME git' = [git EXCEPT !.proof = TRUE], Goto(c, "publish")
        PROVE  ApplicationInv'
    <2>1. "publish" \in Inside /\ "publish" \in Phases
      BY DEF Inside, Phases
    <2>2. RepositoryStep(c) /\ Pristine(git') /\ git'.plan /\ git'.target /\ git'.proof
      BY <1>1, <1>2, <1>4, RecordStep, HolderKnows DEF Repositories
    <2>3. PhaseOK([call[c] EXCEPT !.pc = "publish", !.mode = call[c].mode], git')
      BY <1>1, <1>2, <2>1, <2>2, HolderKnows DEF PhaseOK, Before, After
    <2>4. QED
      BY <1>1, <1>4, <2>1, <2>2, <2>3, HolderKnows, GotoStep
  <1>5. QED
    BY <1>3, <1>4 DEF RecordProof

LEMMA PublishTransitionInv ==
  ASSUME ApplicationInv, NEW c \in Calls, PublishTransition(c)
  PROVE  ApplicationInv'
  <1>1. lock = c /\ AdapterFrame /\ movedBy' = movedBy /\ call[c].pc = "publish"
    BY FrameKept DEF PublishTransition, In, store, world, ghost
  <1>2. Pristine(git) /\ git.plan /\ (Rebase => git.target /\ git.proof)
    BY <1>1, HolderKnows DEF PhaseOK, Before
  <1>3. ASSUME NEW r \in {"error", "notStarted"}, Return(c, r), UNCHANGED git
        PROVE  ApplicationInv'
    BY <1>1, <1>2, <1>3, RefuseStep DEF Pristine
  <1>4. ASSUME git' = [git EXCEPT !.transition = TRUE], Goto(c, "advance")
        PROVE  ApplicationInv'
    <2>1. "advance" \in Inside /\ "advance" \in Phases
      BY DEF Inside, Phases
    <2>2. /\ RepositoryStep(c) /\ Pristine(git') /\ git'.plan /\ git'.transition
          /\ Rebase => git'.target /\ git'.proof
      BY <1>1, <1>2, <1>4, RecordStep, HolderKnows DEF Repositories
    <2>3. PhaseOK([call[c] EXCEPT !.pc = "advance", !.mode = call[c].mode], git')
      BY <1>1, <2>1, <2>2, HolderKnows DEF PhaseOK, Before, After
    <2>4. QED
      BY <1>1, <1>4, <2>1, <2>2, <2>3, HolderKnows, GotoStep
  <1>5. QED
    BY <1>3, <1>4 DEF PublishTransition

\* What follows a complete materialization: the resumed merge reports it, a
\* recovered rebase out of time is refused, the others go to their receipts.
LEMMA FinishStep ==
  ASSUME ApplicationInv, NEW c \in Calls, lock = c, AdapterFrame, RepositoryStep(c),
         movedBy' = movedBy, Materialized(git'), Finish(c)
  PROVE  ApplicationInv'
  <1>1. ASSUME NEW r \in {"error", "applied"}, Return(c, r)
        PROVE  ApplicationInv'
    BY <1>1, ReturnStep
  <1>2. ASSUME call[c].mode = "finalize", Expired(c), Return(c, "notStarted")
        PROVE  ApplicationInv'
    <2>1. Explained(call[c].op)
      BY <1>2, HolderKnows DEF PhaseOK, Explained, Expired
    <2>2. QED
      BY <1>2, <2>1, ReturnStep
  <1>3. ASSUME NEW p \in {"promote", "receipt"}, Goto(c, p)
        PROVE  ApplicationInv'
    <2>1. p \in Inside /\ p \in Phases
      BY DEF Inside, Phases
    <2>2. PhaseOK([call[c] EXCEPT !.pc = p, !.mode = call[c].mode], git')
      BY <2>1, HolderKnows DEF PhaseOK, Before, After
    <2>3. QED
      BY <1>3, <2>1, <2>2, HolderKnows, GotoStep
  <1>4. QED
    BY <1>1, <1>2, <1>3 DEF Finish, AfterMaterialization

\* The compare-and-swap: plan, transition and a rebase's receipts are there.
LEMMA MoveStep ==
  ASSUME ApplicationInv, NEW c \in Calls, lock = c, AdapterFrame, call[c].pc = "advance",
         Pristine(git), git' = [git EXCEPT !.branch = "result"], movedBy' = call[c].op,
         Goto(c, "index")
  PROVE  ApplicationInv'
  <1>1. git \in Repositories /\ call[c].op \in Ops /\ PhaseOK(call[c], git) /\ RepositoryOK
    BY HolderKnows
  <1>2. /\ git' \in Repositories /\ git'.branch = "result" /\ git'.index = "expected"
        /\ git'.worktree = "expected" /\ git'.applied = git.applied
        /\ git'.plan /\ git'.transition /\ (Rebase => git'.target /\ git'.proof)
        /\ git'.target => git.target
    BY <1>1 DEF Repositories, Head, Pristine, PhaseOK
  <1>3. RepositoryOK'
    BY <1>1, <1>2 DEF RepositoryOK, MoveIsRecorded, AdapterFrame, Rebase, Ops
  <1>4. ~Materialized(git) /\ git.applied = {}
    BY <1>1 DEF Pristine, Materialized, ApplicationInv, ReceiptsAreTrue, AppliedIsMaterialized,
                Repositories
  <1>5. RepositoryStep(c)
    BY <1>2, <1>3, <1>4 DEF RepositoryStep
  <1>6. "index" \in Inside /\ "index" \in Phases
    BY DEF Inside, Phases
  <1>7. PhaseOK([call[c] EXCEPT !.pc = "index", !.mode = call[c].mode], git')
    BY <1>1, <1>2, <1>6, HolderKnows DEF PhaseOK, Before, After
  <1>8. QED
    BY <1>5, <1>6, <1>7, HolderKnows, GotoStep

LEMMA AdvanceBranchInv ==
  ASSUME ApplicationInv, NEW c \in Calls, AdvanceBranch(c)
  PROVE  ApplicationInv'
  <1>1. lock = c /\ AdapterFrame /\ call[c].pc = "advance"
    BY FrameKept DEF AdvanceBranch, In, store, world, ghost
  <1>2. ASSUME git.branch = "expected", NEW r \in {"error", "notStarted"}, Return(c, r),
               UNCHANGED <<git, movedBy>>
        PROVE  ApplicationInv'
    BY <1>1, <1>2, RefuseStep
  <1>3. ASSUME Pristine(git), git' = [git EXCEPT !.branch = "result"], movedBy' = call[c].op,
               Goto(c, "index")
        PROVE  ApplicationInv'
    BY <1>1, <1>3, MoveStep
  <1>4. ASSUME git.branch = "result", UNCHANGED <<git, movedBy>>, Materialized(git), Finish(c)
        PROVE  ApplicationInv'
    <2>1. RepositoryStep(c) /\ Materialized(git')
      BY <1>1, <1>4, RepositoryUnchanged DEF AdapterFrame
    <2>2. QED
      BY <1>1, <1>4, <2>1, FinishStep
  <1>5. ASSUME git.branch = "result", UNCHANGED <<git, movedBy>>, Goto(c, "index")
        PROVE  ApplicationInv'
    <2>1. "index" \in Inside /\ "index" \in Phases
      BY DEF Inside, Phases
    <2>2. PhaseOK([call[c] EXCEPT !.pc = "index", !.mode = call[c].mode], git)
      BY <1>1, <1>5, <2>1, HolderKnows DEF PhaseOK, Before, After
    <2>3. QED
      BY <1>1, <1>5, <2>1, <2>2, HolderKnows, PassStep
  <1>6. QED
    BY <1>2, <1>3, <1>4, <1>5 DEF AdvanceBranch, Unstarted

\* Once the branch has moved, index, worktree and receipts only come closer to
\* the result.
LEMMA MaterializeStep ==
  ASSUME ApplicationInv, NEW c \in Calls, lock = c, AdapterFrame, movedBy' = movedBy,
         git.branch = "result",
         \/ git' = [git EXCEPT !.index = "result"]
         \/ /\ git.index = "result"
            /\ git' = [git EXCEPT !.worktree = IF @ = "expected" THEN "staged" ELSE @]
         \/ /\ git.index = "result" /\ git.worktree = "staged"
            /\ git' = [git EXCEPT !.worktree = "partial"]
         \/ git.index = "result" /\ git' = [git EXCEPT !.worktree = "result"]
         \/ Materialized(git) /\ git' = [git EXCEPT !.rebased = @ \cup {call[c].op}]
         \/ Materialized(git) /\ git.rebased # {} /\ git' = [git EXCEPT !.proof = FALSE]
         \/ Materialized(git) /\ git' = [git EXCEPT !.applied = @ \cup {call[c].op}]
  PROVE  /\ RepositoryStep(c) /\ git' \in Repositories /\ git'.branch = "result"
         /\ git.index = "result" => git'.index = "result"
  <1>1. git \in Repositories /\ call[c].op \in Ops /\ RepositoryOK
    BY HolderKnows
  <1>2. git' \in Repositories
    <2>1. ASSUME NEW w \in Head \cup {"staged", "partial"}
          PROVE  [git EXCEPT !.worktree = w] \in Repositories
      BY <1>1, <2>1 DEF Repositories
    <2>2. (IF git.worktree = "expected" THEN "staged" ELSE git.worktree) \in Head \cup {"staged", "partial"}
      BY <1>1 DEF Head, Repositories
    <2>3. /\ [git EXCEPT !.worktree = IF @ = "expected" THEN "staged" ELSE @] \in Repositories
          /\ [git EXCEPT !.worktree = "partial"] \in Repositories
          /\ [git EXCEPT !.worktree = "result"] \in Repositories
      BY <2>1, <2>2 DEF Head
    <2>4. /\ [git EXCEPT !.index = "result"] \in Repositories
          /\ [git EXCEPT !.proof = FALSE] \in Repositories
      BY <1>1 DEF Repositories, Head
    <2>5. ASSUME NEW s \in SUBSET Ops
          PROVE  /\ [git EXCEPT !.rebased = s] \in Repositories
                 /\ [git EXCEPT !.applied = s] \in Repositories
      BY <1>1 DEF Repositories
    <2>6. /\ git.rebased \cup {call[c].op} \in SUBSET Ops
          /\ git.applied \cup {call[c].op} \in SUBSET Ops
      BY <1>1 DEF Repositories
    <2>7. /\ [git EXCEPT !.rebased = @ \cup {call[c].op}] \in Repositories
          /\ [git EXCEPT !.applied = @ \cup {call[c].op}] \in Repositories
      BY <2>5, <2>6
    <2>8. QED
      BY <2>3, <2>4, <2>7
  <1>3. /\ git'.branch = "result" /\ git'.plan = git.plan /\ git'.transition = git.transition
        /\ git'.target = git.target
        /\ git.index = "result" => git'.index = "result"
        /\ git'.worktree # git.worktree => git.index = "result"
        /\ git.worktree = "result" => git'.worktree = "result"
        /\ git'.proof \/ git'.rebased # {} \/ ~(git.proof \/ git.rebased # {})
        /\ git'.applied = git.applied \/ Materialized(git)
    BY <1>1 DEF Repositories, Materialized
  <1>4. RepositoryOK'
    BY <1>1, <1>3 DEF RepositoryOK, MoveIsRecorded, AdapterFrame, Rebase
  <1>5. Materialized(git) => Materialized(git')
    BY <1>3 DEF Materialized
  <1>6. git'.applied # {} => Materialized(git')
    BY <1>1, <1>3, <1>5 DEF ApplicationInv, ReceiptsAreTrue, AppliedIsMaterialized, Repositories
  <1>7. QED
    BY <1>2, <1>3, <1>4, <1>5, <1>6 DEF RepositoryStep

LEMMA ReadTreeInv ==
  ASSUME ApplicationInv, NEW c \in Calls, ReadTree(c)
  PROVE  ApplicationInv'
  <1>1. lock = c /\ AdapterFrame /\ movedBy' = movedBy /\ call[c].pc = "index"
    BY FrameKept DEF ReadTree, In, store, world, ghost
  <1>2. ASSUME Return(c, "error"), UNCHANGED git
        PROVE  ApplicationInv'
    BY <1>1, <1>2, RefuseStep
  <1>3. ASSUME git' = [git EXCEPT !.index = "result"], Goto(c, "worktree")
        PROVE  ApplicationInv'
    <2>1. "worktree" \in Inside /\ "worktree" \in Phases
      BY DEF Inside, Phases
    <2>2. git.branch = "result"
      BY <1>1, HolderKnows DEF PhaseOK
    <2>3. RepositoryStep(c) /\ git'.branch = "result" /\ git'.index = "result"
      BY <1>1, <1>3, <2>2, MaterializeStep, HolderKnows DEF Repositories
    <2>4. PhaseOK([call[c] EXCEPT !.pc = "worktree", !.mode = call[c].mode], git')
      BY <1>1, <2>1, <2>3, HolderKnows DEF PhaseOK, Before, After
    <2>5. QED
      BY <1>1, <1>3, <2>1, <2>3, <2>4, HolderKnows, GotoStep
  <1>4. QED
    BY <1>2, <1>3 DEF ReadTree

LEMMA StartWorktreeInv ==
  ASSUME ApplicationInv, NEW c \in Calls, StartWorktree(c)
  PROVE  ApplicationInv'
  <1>1. lock = c /\ AdapterFrame /\ movedBy' = movedBy /\ call[c].pc = "worktree"
    BY FrameKept DEF StartWorktree, In, store, world, ghost
  <1>2. ASSUME Return(c, "error"), UNCHANGED git
        PROVE  ApplicationInv'
    BY <1>1, <1>2, RefuseStep
  <1>3. ASSUME git' = [git EXCEPT !.worktree = IF @ = "expected" THEN "staged" ELSE @],
               Goto(c, "link")
        PROVE  ApplicationInv'
    <2>1. "link" \in Inside /\ "link" \in Phases
      BY DEF Inside, Phases
    <2>2. git.branch = "result" /\ git.index = "result"
      BY <1>1, HolderKnows DEF PhaseOK
    <2>3. RepositoryStep(c) /\ git'.branch = "result" /\ git'.index = "result"
      BY <1>1, <1>3, <2>2, MaterializeStep
    <2>4. PhaseOK([call[c] EXCEPT !.pc = "link", !.mode = call[c].mode], git')
      BY <1>1, <2>1, <2>3, HolderKnows DEF PhaseOK, Before, After
    <2>5. QED
      BY <1>1, <1>3, <2>1, <2>3, <2>4, HolderKnows, GotoStep
  <1>4. QED
    BY <1>2, <1>3 DEF StartWorktree

LEMMA LinkAdditionsInv ==
  ASSUME ApplicationInv, NEW c \in Calls, LinkAdditions(c)
  PROVE  ApplicationInv'
  <1>1. lock = c /\ AdapterFrame /\ movedBy' = movedBy /\ call[c].pc = "link"
    BY FrameKept DEF LinkAdditions, In, store, world, ghost
  <1>2. ASSUME Return(c, "error"), UNCHANGED git
        PROVE  ApplicationInv'
    BY <1>1, <1>2, RefuseStep
  <1>3. ASSUME git.worktree = "staged", git' = [git EXCEPT !.worktree = "partial"],
               Goto(c, "write")
        PROVE  ApplicationInv'
    <2>1. "write" \in Inside /\ "write" \in Phases
      BY DEF Inside, Phases
    <2>2. git.branch = "result" /\ git.index = "result"
      BY <1>1, HolderKnows DEF PhaseOK
    <2>3. RepositoryStep(c) /\ git'.branch = "result" /\ git'.index = "result"
      BY <1>1, <1>3, <2>2, MaterializeStep
    <2>4. PhaseOK([call[c] EXCEPT !.pc = "write", !.mode = call[c].mode], git')
      BY <1>1, <2>1, <2>3, HolderKnows DEF PhaseOK, Before, After
    <2>5. QED
      BY <1>1, <1>3, <2>1, <2>3, <2>4, HolderKnows, GotoStep
  <1>4. QED
    BY <1>2, <1>3 DEF LinkAdditions

LEMMA FinishWorktreeInv ==
  ASSUME ApplicationInv, NEW c \in Calls, FinishWorktree(c)
  PROVE  ApplicationInv'
  <1>1. lock = c /\ AdapterFrame /\ movedBy' = movedBy /\ call[c].pc = "write"
    BY FrameKept DEF FinishWorktree, In, store, world, ghost
  <1>2. git.branch = "result" /\ git.index = "result"
    BY <1>1, HolderKnows DEF PhaseOK
  <1>3. RepositoryStep(c) /\ Materialized(git')
    BY <1>1, <1>2, MaterializeStep, HolderKnows DEF FinishWorktree, Repositories, Materialized
  <1>4. QED
    BY <1>1, <1>3, FinishStep DEF FinishWorktree

LEMMA PromoteProofInv ==
  ASSUME ApplicationInv, NEW c \in Calls, PromoteProof(c)
  PROVE  ApplicationInv'
  <1>1. lock = c /\ AdapterFrame /\ movedBy' = movedBy /\ call[c].pc = "promote"
    BY FrameKept DEF PromoteProof, In, store, world, ghost
  <1>2. ASSUME Return(c, "error"), UNCHANGED git
        PROVE  ApplicationInv'
    BY <1>1, <1>2, RefuseStep
  <1>3. ASSUME git' = [git EXCEPT !.rebased = @ \cup {call[c].op}], Goto(c, "retire")
        PROVE  ApplicationInv'
    <2>1. "retire" \in Inside /\ "retire" \in Phases
      BY DEF Inside, Phases
    <2>2. Materialized(git) /\ git.branch = "result"
      BY <1>1, HolderKnows DEF PhaseOK, After, Materialized
    <2>3. RepositoryStep(c) /\ Materialized(git') /\ call[c].op \in git'.rebased
      BY <1>1, <1>3, <2>2, MaterializeStep, HolderKnows DEF Repositories, RepositoryStep
    <2>4. PhaseOK([call[c] EXCEPT !.pc = "retire", !.mode = call[c].mode], git')
      BY <1>1, <2>1, <2>3, HolderKnows DEF PhaseOK, Before, After
    <2>5. QED
      BY <1>1, <1>3, <2>1, <2>3, <2>4, HolderKnows, GotoStep
  <1>4. QED
    BY <1>2, <1>3 DEF PromoteProof

LEMMA RetireProofInv ==
  ASSUME ApplicationInv, NEW c \in Calls, RetireProof(c)
  PROVE  ApplicationInv'
  <1>1. lock = c /\ AdapterFrame /\ movedBy' = movedBy /\ call[c].pc = "retire"
    BY FrameKept DEF RetireProof, In, store, world, ghost
  <1>2. ASSUME call[c].mode = "finalize", Expired(c), Return(c, "notStarted"), UNCHANGED git
        PROVE  ApplicationInv'
    <2>1. Rebase
      BY <1>1, <1>2, HolderKnows DEF PhaseOK
    <2>2. QED
      BY <1>1, <1>2, <2>1, RefuseStep
  <1>3. ASSUME git' = [git EXCEPT !.proof = FALSE], Goto(c, "receipt")
        PROVE  ApplicationInv'
    <2>1. "receipt" \in Inside /\ "receipt" \in Phases
      BY DEF Inside, Phases
    <2>2. Materialized(git) /\ git.branch = "result" /\ git.rebased # {}
      BY <1>1, HolderKnows DEF PhaseOK, After, Materialized
    <2>3. RepositoryStep(c) /\ Materialized(git')
      BY <1>1, <1>3, <2>2, MaterializeStep DEF RepositoryStep
    <2>4. PhaseOK([call[c] EXCEPT !.pc = "receipt", !.mode = call[c].mode], git')
      BY <1>1, <2>1, <2>3, HolderKnows DEF PhaseOK, Before, After
    <2>5. QED
      BY <1>1, <1>3, <2>1, <2>3, <2>4, HolderKnows, GotoStep
  <1>4. QED
    BY <1>2, <1>3 DEF RetireProof

LEMMA CreateAppliedReceiptInv ==
  ASSUME ApplicationInv, NEW c \in Calls, CreateAppliedReceipt(c)
  PROVE  ApplicationInv'
  <1>1. lock = c /\ AdapterFrame /\ movedBy' = movedBy /\ call[c].pc = "receipt"
    BY FrameKept DEF CreateAppliedReceipt, In, store, world, ghost
  <1>2. ASSUME Rebase, Expired(c), Return(c, "notStarted"), UNCHANGED git
        PROVE  ApplicationInv'
    BY <1>1, <1>2, RefuseStep
  <1>3. ASSUME Return(c, "error"), UNCHANGED git
        PROVE  ApplicationInv'
    BY <1>1, <1>3, RefuseStep
  <1>4. ASSUME git' = [git EXCEPT !.applied = @ \cup {call[c].op}],
               NEW r \in {"error", "applied"}, Return(c, r)
        PROVE  ApplicationInv'
    <2>1. Materialized(git) /\ git.branch = "result"
      BY <1>1, HolderKnows DEF PhaseOK, After, Materialized
    <2>2. RepositoryStep(c) /\ Materialized(git')
      BY <1>1, <1>4, <2>1, MaterializeStep DEF RepositoryStep
    <2>3. QED
      BY <1>1, <1>4, <2>2, ReturnStep
  <1>5. QED
    BY <1>2, <1>3, <1>4 DEF CreateAppliedReceipt

\* A refused configuration says not started only where nothing has moved.
LEMMA RefuseConfigurationInv ==
  ASSUME ApplicationInv, NEW c \in Calls, RefuseConfiguration(c)
  PROVE  ApplicationInv'
  <1>1. lock = c /\ AdapterFrame /\ UNCHANGED <<git, movedBy>>
    BY FrameKept DEF RefuseConfiguration, store, world
  <1>2. PolicyRefusal(c) \in {"error", "notStarted"}
    BY DEF PolicyRefusal, Unstarted
  <1>3. PolicyRefusal(c) = "notStarted" => git.branch = "expected"
    BY <1>1, HolderKnows
    DEF PolicyRefusal, EvidenceAbsent, Pristine, PhaseOK, Before, RepositoryOK, MoveIsRecorded,
        Repositories, Head
  <1>4. PICK r \in {"error", "notStarted"} : r = PolicyRefusal(c)
    BY <1>2
  <1>5. Return(c, r)
    BY <1>4 DEF RefuseConfiguration
  <1>6. QED
    BY <1>1, <1>3, <1>4, <1>5, RefuseStep

LEMMA CancelInv ==
  ASSUME ApplicationInv, NEW c \in Calls, Cancel(c)
  PROVE  ApplicationInv'
  <1>1. lock = c /\ AdapterFrame /\ UNCHANGED <<git, movedBy>>
    BY FrameKept DEF Cancel, store, world
  <1>2. QED
    BY <1>1, RefuseStep DEF Cancel

LEMMA AdapterInv ==
  ASSUME ApplicationInv, NEW c \in Calls, Adapter(c)
  PROVE  ApplicationInv'
  BY ReplayAppliedInv, ReconcilePlanInv, ResumePendingInv, ReconcileReceiptOnlyInv,
     ReconcileRebaseInv, InspectInputsInv, PlanInv, RefuseIsolatedInv, RecordTargetInv,
     RecordProofInv, PublishTransitionInv, AdvanceBranchInv, ReadTreeInv, StartWorktreeInv,
     LinkAdditionsInv, FinishWorktreeInv, PromoteProofInv, RetireProofInv, CreateAppliedReceiptInv
  DEF Adapter

-----------------------------------------------------------------------------
(* The coordinator and the environment. *)

\* A step that leaves the repository alone keeps what is said of it.
LEMMA RepositoryIdle ==
  ASSUME ApplicationInv, UNCHANGED <<strategy, git, movedBy>>
  PROVE  /\ RepositoryOK' /\ MoveIsRecorded'
         /\ \A k : PhaseOK(k, git) => PhaseOK(k, git')
         /\ Materialized(git') <=> Materialized(git)
  BY DEF ApplicationInv, RepositoryOK, MoveIsRecorded, PhaseOK, Rebase, Pristine, Materialized

\* A free call becomes a waiting one of an operation that has a row.
LEMMA ReserveStep ==
  ASSUME ApplicationInv, NEW c \in Calls, Free(c), NEW o \in Ops, NEW b \in BOOLEAN,
         call' = [call EXCEPT ![c] = [NoCall EXCEPT !.op = o, !.pc = "wait", !.receiptOnly = b]],
         doubled' = (doubled \/ Doubles(c, o)),
         UNCHANGED <<strategy, latest, expired, git, lock, movedBy, unpreflighted>>,
         faults' \in 0..MaxFaults,
         \/ row[o] = "reserved" /\ UNCHANGED <<row, evid>>
         \/ /\ row[o] = "none" /\ row' = [row EXCEPT ![o] = "reserved"]
            /\ evid' = [evid EXCEPT ![o] = latest]
            /\ o = "rec" => row["orig"] = "reserved"
  PROVE  ApplicationInv'
  <1> DEFINE k == [NoCall EXCEPT !.op = o, !.pc = "wait", !.receiptOnly = b]
  <1>1. k \in CallRecords /\ k.pc = "wait" /\ k.op = o /\ k.mode = "fresh"
    BY DEF CallRecords, NoCall, Ops, Phases, Modes, Results
  <1>2. PICK h \in CallRecords : h = k
    BY <1>1
  <1> HIDE DEF k
  <1>3. call' = [call EXCEPT ![c] = h] /\ h.pc = "wait" /\ h.op = o /\ h.mode = "fresh"
    BY <1>1, <1>2 DEF k
  <1>4. /\ call \in [Calls -> CallRecords] /\ call' \in [Calls -> CallRecords]
        /\ call'[c] = h /\ \A d \in Calls : d # c => call'[d] = call[d]
    <2>1. call \in [Calls -> CallRecords]
      BY DEF ApplicationInv, ReceiptsAreTrue, TypeOK, CallRecords
    <2>2. QED
      BY <1>3, <2>1
  <1>5. /\ row \in [Ops -> Rows] /\ row' \in [Ops -> Rows]
        /\ evid' \in [Ops -> Evidence]
        /\ row'[o] = "reserved"
        /\ \A p \in Ops : p # o => row'[p] = row[p] /\ evid'[p] = evid[p]
        /\ \A p \in Ops : row[p] # "none" => row'[p] = row[p] /\ evid'[p] = evid[p]
    BY DEF ApplicationInv, ReceiptsAreTrue, TypeOK, Rows, Outcomes
  <1>6. TypeOK'
    BY <1>4, <1>5 DEF ApplicationInv, ReceiptsAreTrue, TypeOK, CallRecords, Doubles
  <1>7. AppliedIsMaterialized' /\ RecoverySettlesOriginal' /\ AbortAfterMoveIsExplained'
    <2>1. AppliedIsMaterialized' /\ RecoverySettlesOriginal'
      BY <1>5, RepositoryIdle
      DEF ApplicationInv, ReceiptsAreTrue, AppliedIsMaterialized, RecoverySettlesOriginal, Ops, Outcomes
    <2>2. AbortAfterMoveIsExplained'
      BY <1>5 DEF ApplicationInv, ReceiptsAreTrue, AbortAfterMoveIsExplained, Rebase
    <2>3. QED
      BY <2>1, <2>2
  <1>8. (row["rec"] # "none" => row["orig"] # "none")'
    BY <1>5 DEF ApplicationInv, Ops
  <1>9. ASSUME NEW d \in Calls
        PROVE  CallOK(d)'
    <2>1. CallOK(c) /\ CallOK(d)
      BY DEF ApplicationInv
    <2>2. CASE d = c
      BY <1>3, <1>4, <1>5, <2>1, <2>2 DEF CallOK, Inside, Free
    <2>3. CASE d # c
      <3>1. call'[d] = call[d] /\ call[d].op \in Ops
        BY <1>4, <2>3 DEF CallRecords
      <3>2. call[d].pc # "idle" =>
              row'[call[d].op] # "none" /\ evid'[call[d].op] = evid[call[d].op]
        BY <1>5, <2>1, <3>1 DEF CallOK
      <3>3. Explained(call[d].op) /\ evid'[call[d].op] = evid[call[d].op] => Explained(call[d].op)'
        <4>1. /\ doubled => doubled'
              /\ unpreflighted => unpreflighted'
          OBVIOUS
        <4>2. /\ Rebase => Rebase'
              /\ call'[d].op = call[d].op /\ expired' = expired
          BY <3>1 DEF Rebase
        <4>3. QED
          BY <4>1, <4>2 DEF Explained
      <3>4. ASSUME call[d].pc = "settle"
            PROVE  ResultOK(call[d], git)'
        <4>1. ResultOK(call[d], git)
          BY <2>1, <3>4 DEF CallOK
        <4>2. QED
          BY <3>1, <3>2, <3>3, <3>4, <4>1, RepositoryIdle DEF ResultOK
      <3>5. ASSUME call[d].pc \in Inside
            PROVE  PhaseOK(call'[d], git')
        BY <2>1, <3>1, <3>5, RepositoryIdle DEF CallOK
      <3>6. PhaseOK(call'[d], git') => PhaseOK(call[d], git)'
        BY <3>1 DEF PhaseOK, Rebase
      <3>7. QED
        BY <2>1, <3>1, <3>2, <3>4, <3>5, <3>6 DEF CallOK
    <2>4. QED
      BY <2>2, <2>3
  <1>10. Single'
    <2>0. ~doubled' => ~doubled /\ ~Doubles(c, o)
      OBVIOUS
    <2>1. ASSUME ~doubled', NEW d \in Calls, call'[d].pc # "idle"
          PROVE  row'[call'[d].op] \in {"reserved", "applied"}
      <3>1. CASE d = c
        BY <1>3, <1>4, <1>5, <3>1
      <3>2. CASE d # c
        <4>1. call'[d] = call[d] /\ call[d].op \in Ops
          BY <1>4, <3>2 DEF CallRecords
        <4>2. row[call[d].op] \in {"reserved", "applied"}
          BY <2>0, <2>1, <4>1 DEF ApplicationInv, Single
        <4>3. QED
          BY <1>5, <4>1, <4>2
      <3>3. QED
        BY <3>1, <3>2
    <2>2. ASSUME ~doubled', NEW d \in Calls, NEW e \in Calls, d # e,
                 call'[d].pc # "idle", call'[e].pc # "idle"
          PROVE  call'[d].op # call'[e].op
      <3>1. ~doubled /\ \A other \in Calls : other # c /\ call[other].pc # "idle" => call[other].op # o
        BY <2>0, <2>2 DEF Doubles
      <3>2. CASE d = c
        BY <1>3, <1>4, <2>2, <3>1, <3>2
      <3>3. CASE e = c
        BY <1>3, <1>4, <2>2, <3>1, <3>3
      <3>4. CASE d # c /\ e # c
        BY <1>4, <2>2, <3>1, <3>4 DEF ApplicationInv, Single
      <3>5. QED
        BY <3>2, <3>3, <3>4
    <2>3. QED
      BY <2>1, <2>2 DEF Single
  <1>11. QED
    BY <1>6, <1>7, <1>8, <1>9, <1>10, RepositoryIdle DEF ApplicationInv, ReceiptsAreTrue

LEMMA ReserveInv ==
  ASSUME ApplicationInv, NEW c \in Calls, NEW o \in Ops, Reserve(c, o) \/ ReserveUnauthorized(c, o)
  PROVE  ApplicationInv'
  <1>1. faults' \in 0..MaxFaults
    BY FrameKept, IntegrationConstants
    DEF Reserve, ReserveUnauthorized, ApplicationInv, ReceiptsAreTrue, TypeOK
  <1>2. /\ Free(c) /\ doubled' = (doubled \/ Doubles(c, o))
        /\ UNCHANGED <<strategy, latest, expired, git, lock, movedBy, unpreflighted>>
    BY DEF Reserve, ReserveUnauthorized, world
  <1> DEFINE Waiting(b) == [NoCall EXCEPT !.op = o, !.pc = "wait", !.receiptOnly = b]
             Stored == \/ row[o] = "reserved" /\ UNCHANGED <<row, evid>>
                       \/ /\ row[o] = "none" /\ row' = [row EXCEPT ![o] = "reserved"]
                          /\ evid' = [evid EXCEPT ![o] = latest]
                          /\ o = "rec" => row["orig"] = "reserved"
  <1>3. \E b \in BOOLEAN : call' = [call EXCEPT ![c] = Waiting(b)] /\ Stored
    <2>1. CASE ReserveUnauthorized(c, o)
      BY <2>1 DEF ReserveUnauthorized
    <2>2. ASSUME row[o] = "none", CanReserve(o), row' = [row EXCEPT ![o] = "reserved"],
                 evid' = [evid EXCEPT ![o] = latest],
                 call' = [call EXCEPT ![c] = [NoCall EXCEPT !.op = o, !.pc = "wait"]]
          PROVE  call' = [call EXCEPT ![c] = Waiting(FALSE)] /\ Stored
      <3>1. [NoCall EXCEPT !.op = o, !.pc = "wait"] = Waiting(FALSE)
        <4>1. NoCall \in CallRecords /\ NoCall.receiptOnly = FALSE
          BY DEF NoCall, CallRecords, Ops, Phases, Modes, Results
        <4>2. QED
          BY <4>1 DEF CallRecords
      <3>2. QED
        BY <2>2, <3>1 DEF CanReserve
    <2>3. ASSUME row[o] = "reserved", UNCHANGED <<row, evid>>,
                 call' = [call EXCEPT ![c] = Waiting(~(CanReserve(o) /\ evid[o] = latest))]
          PROVE  \E b \in BOOLEAN : call' = [call EXCEPT ![c] = Waiting(b)] /\ Stored
      <3> HIDE DEF Waiting
      <3> DEFINE stands == CanReserve(o) /\ evid[o] = latest
      <3>1. CASE stands
        <4>1. (~stands) = FALSE
          BY <3>1
        <4>2. Waiting(~stands) = Waiting(FALSE)
          BY <4>1
        <4>3. QED
          BY <2>3, <4>2
      <3>2. CASE ~stands
        <4>1. (~stands) = TRUE
          BY <3>2
        <4>2. Waiting(~stands) = Waiting(TRUE)
          BY <4>1
        <4>3. QED
          BY <2>3, <4>2
      <3>3. QED
        BY <3>1, <3>2
    <2>4. QED
      BY <2>1, <2>2, <2>3 DEF Reserve
  <1>4. QED
    BY <1>1, <1>2, <1>3, ReserveStep

\* The lock is free, so no other call is inside.
LEMMA EnterInv ==
  ASSUME ApplicationInv, NEW c \in Calls, Enter(c)
  PROVE  ApplicationInv'
  <1>1. AdapterFrame /\ UNCHANGED <<git, movedBy>> /\ lock = Idle /\ lock' = c
    BY FrameKept DEF Enter, store, world, ghost
  <1>2. call \in [Calls -> CallRecords] /\ call[c].pc = "wait" /\ c # Idle
    BY CallFields DEF Enter, ApplicationInv, ReceiptsAreTrue, TypeOK, CallRecords
  <1>3. [call[c] EXCEPT !.pc = "decide"] \in CallRecords
    BY <1>2 DEF CallRecords, Phases
  <1>4. /\ call' \in [Calls -> CallRecords]
        /\ call'[c].pc = "decide" /\ call'[c].op = call[c].op /\ call'[c].mode = call[c].mode
        /\ \A d \in Calls : d # c => call'[d] = call[d]
    <2>1. call' = [call EXCEPT ![c] = [call[c] EXCEPT !.pc = "decide"]]
      BY <1>2 DEF Enter
    <2>2. QED
      BY <1>2, <1>3, <2>1 DEF CallRecords
  <1>5. TypeOK'
    BY <1>1, <1>4 DEF ApplicationInv, ReceiptsAreTrue, TypeOK, AdapterFrame, CallRecords
  <1>6. AppliedIsMaterialized' /\ RecoverySettlesOriginal' /\ AbortAfterMoveIsExplained'
    BY <1>1, RepositoryIdle
    DEF ApplicationInv, ReceiptsAreTrue, AppliedIsMaterialized, RecoverySettlesOriginal,
        AbortAfterMoveIsExplained, AdapterFrame, Rebase
  <1>7. ASSUME NEW d \in Calls
        PROVE  CallOK(d)'
    <2>1. CallOK(d) /\ CallOK(c) /\ d # Idle
      BY CallFields DEF ApplicationInv, ReceiptsAreTrue
    <2>2. CASE d = c
      <3>1. call'[c].mode = "fresh" /\ call'[c].pc = "decide"
        BY <1>2, <1>4, <2>1 DEF CallOK
      <3>2. PhaseOK(call[c], git)'
        BY <3>1 DEF PhaseOK, Before, After
      <3>3. call'[c].pc \in Inside
        BY <3>1 DEF Inside, Phases
      <3>4. row'[call'[c].op] # "none"
        BY <1>1, <1>2, <1>4, <2>1 DEF CallOK, AdapterFrame
      <3>5. QED
        BY <1>1, <2>2, <3>1, <3>2, <3>3, <3>4 DEF CallOK
    <2>3. CASE d # c
      <3>1. call'[d] = call[d] /\ lock' # d /\ call[d].pc \notin Inside
        BY <1>1, <1>4, <2>1, <2>3 DEF CallOK
      <3>2. call[d].pc = "settle" => ResultOK(call[d], git)'
        BY <1>1, <2>1, <3>1 DEF CallOK, AdapterFrame, ResultOK, Explained, Rebase
      <3>3. QED
        BY <1>1, <2>1, <3>1, <3>2 DEF CallOK, AdapterFrame
    <2>4. QED
      BY <2>2, <2>3
  <1>8. Single'
    BY <1>1, <1>2, <1>4 DEF ApplicationInv, Single, AdapterFrame
  <1>9. QED
    BY <1>1, <1>5, <1>6, <1>7, <1>8, RepositoryIdle
    DEF ApplicationInv, ReceiptsAreTrue, AdapterFrame

\* From here on the refused check explains whatever is settled wrongly.
LEMMA EnterUnidentifiedInv ==
  ASSUME ApplicationInv, NEW c \in Calls, EnterUnidentified(c)
  PROVE  ApplicationInv'
  <1>1. /\ UNCHANGED <<strategy, row, evid, latest, expired, git, lock, movedBy, doubled>>
        /\ unpreflighted' = TRUE /\ faults' \in 0..MaxFaults /\ lock = Idle
    BY IntegrationConstants
    DEF EnterUnidentified, store, world, ApplicationInv, ReceiptsAreTrue, TypeOK
  <1>2. call \in [Calls -> CallRecords] /\ call[c].pc = "wait" /\ c # Idle
    BY CallFields DEF EnterUnidentified, ApplicationInv, ReceiptsAreTrue, TypeOK, CallRecords
  <1>3. [call[c] EXCEPT !.pc = "settle", !.result = "notStarted"] \in CallRecords
    BY <1>2 DEF CallRecords, Phases, Results
  <1>4. /\ call' \in [Calls -> CallRecords]
        /\ call'[c].pc = "settle" /\ call'[c].op = call[c].op /\ call'[c].result = "notStarted"
        /\ \A d \in Calls : d # c => call'[d] = call[d]
    <2>1. call' = [call EXCEPT ![c] = [call[c] EXCEPT !.pc = "settle", !.result = "notStarted"]]
      BY <1>2 DEF EnterUnidentified
    <2>2. QED
      BY <1>2, <1>3, <2>1 DEF CallRecords
  <1>5. TypeOK'
    BY <1>1, <1>4 DEF ApplicationInv, ReceiptsAreTrue, TypeOK, CallRecords
  <1>6. AppliedIsMaterialized' /\ RecoverySettlesOriginal' /\ AbortAfterMoveIsExplained'
    BY <1>1, RepositoryIdle
    DEF ApplicationInv, ReceiptsAreTrue, AppliedIsMaterialized, RecoverySettlesOriginal,
        AbortAfterMoveIsExplained
  <1>7. ASSUME NEW d \in Calls
        PROVE  CallOK(d)'
    <2>1. CallOK(d) /\ d # Idle /\ \A o : Explained(o)'
      BY <1>1, CallFields DEF ApplicationInv, ReceiptsAreTrue, Explained
    <2>2. CASE d = c
      BY <1>1, <1>2, <1>4, <2>1, <2>2 DEF CallOK, Inside, ResultOK, Results
    <2>3. CASE d # c
      BY <1>1, <1>4, <2>1, <2>3 DEF CallOK, ResultOK, PhaseOK, Rebase
    <2>4. QED
      BY <2>2, <2>3
  <1>8. Single'
    BY <1>1, <1>2, <1>4 DEF ApplicationInv, Single
  <1>9. QED
    BY <1>1, <1>5, <1>6, <1>7, <1>8, RepositoryIdle DEF ApplicationInv, ReceiptsAreTrue

LEMMA CrashInv ==
  ASSUME ApplicationInv, Crash
  PROVE  ApplicationInv'
  <1>1. /\ UNCHANGED <<strategy, row, evid, latest, expired, git, movedBy, unpreflighted, doubled>>
        /\ faults' \in 0..MaxFaults /\ lock' = Idle
        /\ call' \in [Calls -> CallRecords]
        /\ \A c \in Calls : call'[c].pc = "idle" /\ call'[c].mode = "fresh"
    BY IntegrationConstants
    DEF Crash, store, world, ApplicationInv, ReceiptsAreTrue, TypeOK,
        NoCall, CallRecords, Ops, Phases, Modes, Results
  <1>2. TypeOK'
    BY <1>1 DEF ApplicationInv, ReceiptsAreTrue, TypeOK, CallRecords
  <1>3. AppliedIsMaterialized' /\ RecoverySettlesOriginal' /\ AbortAfterMoveIsExplained'
    BY <1>1, RepositoryIdle
    DEF ApplicationInv, ReceiptsAreTrue, AppliedIsMaterialized, RecoverySettlesOriginal,
        AbortAfterMoveIsExplained, Rebase
  <1>4. ASSUME NEW c \in Calls
        PROVE  CallOK(c)'
    BY <1>1, CallFields DEF CallOK, Inside, ApplicationInv, ReceiptsAreTrue
  <1>5. Single'
    BY <1>1 DEF Single
  <1>6. QED
    BY <1>1, <1>2, <1>3, <1>4, <1>5, RepositoryIdle DEF ApplicationInv, ReceiptsAreTrue

\* Time only explains more.
LEMMA TimeInv ==
  ASSUME ApplicationInv, Renew \/ \E e \in Evidence : Expire(e)
  PROVE  ApplicationInv'
  <1>1. /\ UNCHANGED <<strategy, row, evid, git, call, lock, movedBy, faults, unpreflighted, doubled>>
        /\ expired \subseteq expired' /\ expired' \subseteq Evidence /\ latest' \in Evidence
    BY DEF Renew, Expire, store, ghost, ApplicationInv, ReceiptsAreTrue, TypeOK, Evidence
  <1>2. TypeOK'
    BY <1>1 DEF ApplicationInv, ReceiptsAreTrue, TypeOK
  <1>3. AppliedIsMaterialized' /\ RecoverySettlesOriginal' /\ AbortAfterMoveIsExplained'
    BY <1>1, RepositoryIdle
    DEF ApplicationInv, ReceiptsAreTrue, AppliedIsMaterialized, RecoverySettlesOriginal,
        AbortAfterMoveIsExplained, Rebase
  <1>4. ASSUME NEW c \in Calls
        PROVE  CallOK(c)'
    BY <1>1 DEF CallOK, ApplicationInv, ResultOK, Explained, PhaseOK, Rebase
  <1>5. Single'
    BY <1>1 DEF ApplicationInv, Single
  <1>6. QED
    BY <1>1, <1>2, <1>3, <1>4, <1>5, RepositoryIdle DEF ApplicationInv, ReceiptsAreTrue

\* What Complete does to the rows: none but its own, and with an applied
\* recovery the original it was reserved for.
LEMMA CompleteRows ==
  ASSUME ApplicationInv, NEW c \in Calls, Complete(c)
  PROVE  /\ row' \in [Ops -> Rows]
         /\ \A o \in Ops : row'[o] # row[o] =>
              /\ row[o] = "reserved" /\ row[call[c].op] = "reserved"
              /\ \/ o = call[c].op /\ row'[o] = Settlement(call[c].result)
                 \/ /\ o = "orig" /\ call[c].op = "rec" /\ row'[o] = "applied"
                    /\ call[c].result = "applied"
         /\ row'["rec"] = "applied" /\ row["rec"] # "applied" => row'["orig"] # "reserved"
  <1> DEFINE o == call[c].op
             s == Settlement(call[c].result)
  <1>1. o \in Ops /\ call[c].result \in Results \ {"none"} /\ row \in [Ops -> Rows]
    BY CallFields DEF ApplicationInv, ReceiptsAreTrue, TypeOK, CallOK, ResultOK, Complete
  <1>2. s \in Outcomes /\ (s = "applied" <=> call[c].result = "applied")
    BY <1>1 DEF Settlement, Results, Outcomes
  <1>3. CASE row[o] # "reserved"
    <2>1. row' = row
      BY <1>3 DEF Complete
    <2>2. QED
      BY <1>1, <2>1
  <1>4. CASE row[o] = "reserved"
    <2>1. row' = SettledRows(o, s)
      BY <1>4 DEF Complete
    <2> HIDE DEF s
    <2>2. CASE o = "orig"
      <3>1. /\ row' \in [Ops -> Rows] /\ row'["orig"] = s
            /\ \A p \in Ops : p # "orig" => row'[p] = row[p]
        BY <1>1, <1>2, <2>1, <2>2 DEF SettledRows, Ops, Rows
      <3>2. QED
        BY <1>1, <1>4, <2>2, <3>1 DEF s, Ops
    <2>3. CASE o = "rec"
      <3>1. /\ row' \in [Ops -> Rows] /\ row'["rec"] = s
            /\ row'["orig"] = IF s = "applied" /\ row["orig"] = "reserved" THEN "applied" ELSE row["orig"]
        BY <1>1, <1>2, <2>1, <2>3 DEF SettledRows, Ops, Rows, Outcomes
      <3>2. QED
        BY <1>1, <1>2, <1>4, <2>3, <3>1 DEF s, Ops
    <2>4. QED
      BY <1>1, <2>2, <2>3 DEF Ops
  <1>5. QED
    BY <1>3, <1>4

LEMMA CompleteInv ==
  ASSUME ApplicationInv, NEW c \in Calls, Complete(c)
  PROVE  ApplicationInv'
  <1>1. UNCHANGED <<strategy, evid, latest, expired, git, lock, movedBy, faults, unpreflighted, doubled>>
    BY DEF Complete, world, ghost
  <1>2. call \in [Calls -> CallRecords] /\ call[c].pc = "settle" /\ c # Idle
    BY CallFields DEF Complete, ApplicationInv, ReceiptsAreTrue, TypeOK, CallRecords
  <1>3. /\ call' \in [Calls -> CallRecords]
        /\ call'[c].pc = "idle" /\ call'[c].mode = "fresh"
        /\ \A d \in Calls : d # c => call'[d] = call[d]
    <2>1. NoCall \in CallRecords /\ NoCall.pc = "idle" /\ NoCall.mode = "fresh"
      BY DEF NoCall, CallRecords, Ops, Phases, Modes, Results
    <2>2. QED
      BY <1>2, <2>1 DEF Complete
  <1>4. ResultOK(call[c], git) /\ call[c].op \in Ops /\ call[c].result \in Results
    BY <1>2, CallFields DEF ApplicationInv, ReceiptsAreTrue, CallOK, ResultOK
  <1>5. TypeOK'
    BY <1>1, <1>3, CompleteRows DEF ApplicationInv, ReceiptsAreTrue, TypeOK, CallRecords
  <1>6. AppliedIsMaterialized'
    <2>1. ASSUME NEW o \in Ops, row'[o] = "applied"
          PROVE  Materialized(git)
      <3>1. CASE row[o] = "applied"
        BY <3>1 DEF ApplicationInv, ReceiptsAreTrue, AppliedIsMaterialized
      <3>2. CASE row[o] # "applied"
        BY <1>4, <2>1, <3>2, CompleteRows DEF ResultOK, Settlement
      <3>3. QED
        BY <3>1, <3>2
    <2>2. QED
      BY <1>1, <2>1 DEF ApplicationInv, ReceiptsAreTrue, AppliedIsMaterialized, Materialized
  <1>7. AbortAfterMoveIsExplained'
    <2> SUFFICES ASSUME NEW o \in Ops, row'[o] \in {"aborted", "invalidated"}, movedBy = o
                 PROVE  Explained(o)
      BY <1>1 DEF AbortAfterMoveIsExplained, Explained, Rebase
    <2>1. CASE row'[o] = row[o]
      BY <2>1 DEF ApplicationInv, ReceiptsAreTrue, AbortAfterMoveIsExplained, Explained
    <2>2. CASE row'[o] # row[o]
      BY <1>4, <2>2, CompleteRows DEF ResultOK, Settlement, Results
    <2>3. QED
      BY <2>1, <2>2
  <1>8. RecoverySettlesOriginal' /\ (row["rec"] # "none" => row["orig"] # "none")'
    <2>1. "rec" \in Ops /\ "orig" \in Ops /\ row' \in [Ops -> Rows]
      BY CompleteRows DEF Ops
    <2>2. (row["rec"] # "none" => row["orig"] # "none")'
      BY <1>4, <2>1, CompleteRows DEF ApplicationInv, Settlement, ResultOK, Results
    <2>3. RecoverySettlesOriginal'
      <3>1. CASE row["rec"] = "applied"
        BY <2>1, <3>1, CompleteRows
        DEF ApplicationInv, ReceiptsAreTrue, RecoverySettlesOriginal, Outcomes
      <3>2. CASE row["rec"] # "applied"
        BY <2>1, <2>2, <3>2, CompleteRows DEF RecoverySettlesOriginal, Rows, Outcomes
      <3>3. QED
        BY <3>1, <3>2
    <2>4. QED
      BY <2>2, <2>3
  <1>9. ASSUME NEW o \in Ops, row[o] # "none"
        PROVE  row'[o] # "none"
    BY <1>4, <1>9, CompleteRows DEF Settlement, ResultOK, Results
  <1>10. ASSUME NEW d \in Calls
         PROVE  CallOK(d)'
    <2>1. CallOK(d) /\ d # Idle
      BY CallFields DEF ApplicationInv, ReceiptsAreTrue
    <2>2. CASE d = c
      BY <1>1, <1>2, <1>3, <2>1, <2>2 DEF CallOK, Inside
    <2>3. CASE d # c
      <3>1. call'[d] = call[d] /\ call[d].op \in Ops
        BY <1>3, <2>3 DEF CallRecords
      <3>2. QED
        BY <1>1, <1>9, <2>1, <3>1 DEF CallOK, ResultOK, Explained, PhaseOK, Rebase
    <2>4. QED
      BY <2>2, <2>3
  <1>11. Single'
    <2>1. ASSUME ~doubled, NEW d \in Calls, call'[d].pc # "idle"
          PROVE  row'[call'[d].op] \in {"reserved", "applied"}
      <3>1. d # c /\ call'[d] = call[d] /\ call[d].op \in Ops
        BY <1>3, <2>1 DEF CallRecords
      <3>2. call[d].op # call[c].op /\ row[call[d].op] \in {"reserved", "applied"}
        BY <1>2, <2>1, <3>1 DEF ApplicationInv, Single
      <3>3. QED
        BY <3>1, <3>2, CompleteRows
    <2>2. QED
      BY <1>1, <1>3, <2>1 DEF ApplicationInv, Single
  <1>12. QED
    BY <1>1, <1>5, <1>6, <1>7, <1>8, <1>10, <1>11, RepositoryIdle
    DEF ApplicationInv, ReceiptsAreTrue

-----------------------------------------------------------------------------
(* The theorems. *)

LEMMA ApplicationInitInv == Init => ApplicationInv
  <1> SUFFICES ASSUME Init PROVE ApplicationInv
    OBVIOUS
  <1>1. TypeOK
    <2>1. git \in Repositories
      BY DEF Init, Repositories, Head
    <2>2. NoCall \in CallRecords
      BY DEF NoCall, CallRecords, Ops, Phases, Modes, Results
    <2>3. call \in [Calls -> CallRecords]
      BY <2>2 DEF Init
    <2>4. row \in [Ops -> Rows] /\ evid \in [Ops -> Evidence]
      BY DEF Init, Rows, Evidence
    <2>5. faults \in 0..MaxFaults
      BY IntegrationConstants DEF Init
    <2>6. QED
      BY <2>1, <2>3, <2>4, <2>5 DEF Init, TypeOK, Repositories, CallRecords, Evidence
  <1>2. \A c \in Calls : CallOK(c)
    BY IntegrationConstants DEF Init, CallOK, NoCall, Inside, Calls, Idle
  <1>3. QED
    BY <1>1, <1>2
    DEF Init, ApplicationInv, ReceiptsAreTrue, AppliedIsMaterialized, MoveIsRecorded,
        AbortAfterMoveIsExplained, RecoverySettlesOriginal, RepositoryOK, Single, NoCall, Ops

LEMMA ApplicationNextInv == ApplicationInv /\ [Next]_vars => ApplicationInv'
  <1> SUFFICES ASSUME ApplicationInv, [Next]_vars
               PROVE  ApplicationInv'
    OBVIOUS
  <1>1. ASSUME NEW c \in Calls, NEW o \in Ops, Reserve(c, o) \/ ReserveUnauthorized(c, o)
        PROVE  ApplicationInv'
    BY <1>1, ReserveInv
  <1>2. ASSUME NEW c \in Calls, Enter(c) \/ EnterUnidentified(c) \/ RefuseConfiguration(c)
        PROVE  ApplicationInv'
    BY <1>2, EnterInv, EnterUnidentifiedInv, RefuseConfigurationInv
  <1>3. ASSUME NEW c \in Calls, Adapter(c) \/ Complete(c)
        PROVE  ApplicationInv'
    BY <1>3, AdapterInv, CompleteInv
  <1>4. ASSUME Environment
        PROVE  ApplicationInv'
    BY <1>4, TimeInv, CancelInv, CrashInv DEF Environment
  <1>5. ASSUME UNCHANGED vars
        PROVE  ApplicationInv'
    BY <1>5
    DEF vars, ApplicationInv, ReceiptsAreTrue, TypeOK, AppliedIsMaterialized, Materialized,
        MoveIsRecorded, AbortAfterMoveIsExplained, RecoverySettlesOriginal, RepositoryOK, Rebase,
        CallOK, PhaseOK, Pristine, ResultOK, Explained, Single
  <1>6. QED
    BY <1>1, <1>2, <1>3, <1>4, <1>5 DEF Next

\* Whatever the number of calls in flight and of crashes, cancellations and
\* refused checks, the ledger and the repository tell the same story about an
\* application: ApplyIntegrationCandidate, its adapter and
\* CompleteIntegrationApplication.
THEOREM LedgerAndRepositoryAgree == Spec => []ReceiptsAreTrue
  <1>1. ApplicationInv => ReceiptsAreTrue
    BY DEF ApplicationInv
  <1>2. QED
    BY <1>1, ApplicationInitInv, ApplicationNextInv, PTL DEF Spec

\* No step of any call, recovery or late completion writes a settled row
\* again: the reserved check of CompleteIntegrationApplication.
THEOREM SettledRowsAreFinal == Spec => SettledRowIsFinal
  <1> DEFINE Final == \A o \in Ops : row[o] \in Outcomes => row'[o] = row[o]
  <1>1. ASSUME ApplicationInv, [Next]_vars
        PROVE  [Final]_vars
    <2>1. ASSUME NEW c \in Calls, NEW o \in Ops, Reserve(c, o)
          PROVE  Final
      BY <1>1, <2>1 DEF Reserve, ApplicationInv, ReceiptsAreTrue, TypeOK, Outcomes
    <2>2. ASSUME NEW c \in Calls, Complete(c)
          PROVE  Final
      BY <1>1, <2>2, CompleteRows DEF Outcomes
    <2>3. ASSUME row' = row
          PROVE  Final
      BY <2>3
    <2>4. CASE \E c \in Calls : \E o \in Ops : ReserveUnauthorized(c, o)
      BY <2>3, <2>4 DEF ReserveUnauthorized
    <2>5. CASE \E c \in Calls : Enter(c) \/ EnterUnidentified(c) \/ RefuseConfiguration(c)
      BY <2>3, <2>5 DEF Enter, EnterUnidentified, RefuseConfiguration, store
    <2>6. CASE \E c \in Calls : Adapter(c)
      BY <2>3, <2>6
      DEF Adapter, store, ReplayApplied, ReconcilePlan, ResumePending, ReconcileReceiptOnly,
          ReconcileRebase, InspectInputs, InspectChangedCandidate, RunIsolated, PrepareRebaseProof,
          RefuseIsolated, RecordTarget, RecordProof, PublishTransition, AdvanceBranch, ReadTree,
          StartWorktree, LinkAdditions, FinishWorktree, PromoteProof, RetireProof, CreateAppliedReceipt
    <2>7. CASE Environment
      BY <2>3, <2>7 DEF Environment, Expire, Renew, Cancel, Crash, store
    <2>8. QED
      BY <1>1, <2>1, <2>2, <2>4, <2>5, <2>6, <2>7 DEF Next
  <1>2. QED
    BY <1>1, ApplicationInitInv, ApplicationNextInv, PTL DEF Spec, SettledRowIsFinal

-----------------------------------------------------------------------------
(* The worktree step.  The property speaks of files only.  From the last   *)
(* comparison to the write any developer content at the path of the call   *)
(* is a raced save, and the captured bytes are in the recovery directory   *)
(* before the file is touched.                                             *)

Rewriting == {"mark", "capture", "recheck", "truncate", "rewrite"}

\* A call is at a path, and in the phases of the kind of change made there.
PhaseInv ==
  /\ pc # "retire" => at \in Path
  /\ pc \in Rewriting => Change[at] = "rewritten"
  /\ pc \in {"recheckRemoval", "remove"} => Change[at] = "removed"
  /\ pc \in {"link", "unlink"} => Change[at] = "added"
  /\ completed => pc = "idle"

\* After its last comparison a file is as compared, or was saved meanwhile.
ComparedInv ==
  /\ pc \in {"truncate", "rewrite", "remove"} => target[at] # "edit" \/ at \in raced
  /\ pc = "remove" => target[at] \in {"previous", "edit"}

\* The previous bytes are captured before a file is rewritten, and only a raced
\* save was ever taken away by a rename.
CaptureInv ==
  /\ pc \in {"recheck", "truncate", "rewrite"} => evidence[at].capture = "previous"
  /\ \A p \in Path : evidence[p].capture = "edit" => p \in raced

\* The evidence goes only after the comparison with the whole result.
ProvenInv ==
  pc \in {"retire", "return"} => proven /\ \A p \in Path : target[p] \in {Resulting(p), "edit"}

MaterializationInv ==
  /\ WorktreePreserved
  /\ PhaseInv /\ ComparedInv /\ CaptureInv /\ ProvenInv

-----------------------------------------------------------------------------
(* What the steps do to the recovery directory and to the place of a call. *)

LEMMA EvidenceFields ==
  ASSUME WorktreeTypeOK, NEW p \in Path
  PROVE  /\ evidence[p] \in RecoveryEvidence
         /\ [evidence[p] EXCEPT !.stage = "result"] \in RecoveryEvidence
         /\ [evidence[p] EXCEPT !.stage = "result"].capture = evidence[p].capture
         /\ [evidence[p] EXCEPT !.inplace = "previous"] \in RecoveryEvidence
         /\ [evidence[p] EXCEPT !.inplace = "previous"].capture = evidence[p].capture
         /\ \A s \in {"absent", "result"} :
              /\ [evidence[p] EXCEPT !.publication = s] \in RecoveryEvidence
              /\ [evidence[p] EXCEPT !.publication = s].capture = evidence[p].capture
         /\ \A b \in {"absent", "previous", "edit"} :
              /\ [evidence[p] EXCEPT !.capture = b] \in RecoveryEvidence
              /\ [evidence[p] EXCEPT !.capture = b].capture = b
         /\ NextRetired(evidence[p]) \in RecoveryEvidence
         /\ NextRetired(evidence[p]).capture \in {evidence[p].capture, "absent"}
  <1>1. evidence[p] \in RecoveryEvidence
    BY DEF WorktreeTypeOK
  <1>2. QED
    BY <1>1 DEF RecoveryEvidence, NextRetired

\* The evidence of the path a call is at becomes e.
LEMMA EvidenceChanges ==
  ASSUME WorktreeTypeOK, NEW p \in Path, NEW e \in RecoveryEvidence, evidence' = [evidence EXCEPT ![p] = e]
  PROVE  /\ evidence' \in [Path -> RecoveryEvidence] /\ evidence'[p] = e
         /\ \A q \in Path : q # p => evidence'[q] = evidence[q]
  BY DEF WorktreeTypeOK

\* A file of the worktree becomes s.
LEMMA TargetChanges ==
  ASSUME WorktreeTypeOK, NEW p \in Path, NEW s \in Content, target' = [target EXCEPT ![p] = s]
  PROVE  /\ target' \in [Path -> Content] /\ target'[p] = s
         /\ \A q \in Path : q # p => target'[q] = target[q]
  BY DEF WorktreeTypeOK

LEMMA NextEntryGoes ==
  ASSUME at \in Path, NextEntry
  PROVE  pc' \in {"verify", "publish"} /\ at' \in Path /\ at' \in 1..(N + 1)
  BY MaterializationConstants DEF NextEntry, Path

\* Everything of the invariant that is not about one file.
Bounds ==
  /\ recovery' \in BOOLEAN /\ completed' \in BOOLEAN /\ proven' \in BOOLEAN /\ stuck' \in BOOLEAN
  /\ pc' \in WorktreePhases /\ at' \in 1..(N + 1)
  /\ edits' \in 0..MaxEdits /\ crashes' \in 0..MaxCrashes

\* A call that ends or goes to the next path, and may have changed the capture
\* of the path it was at, is free of everything the phases claim.
Neutral == {"idle", "stage", "publish", "verify"}

LEMMA NeutralStep ==
  ASSUME MaterializationInv, Bounds, pc' \in Neutral, at' \in Path,
         completed' = completed, completed => pc' = "idle",
         target' \in [Path -> Content], evidence' \in [Path -> RecoveryEvidence],
         raced' = raced, lost' \subseteq raced,
         completed => target' = target,
         \A p \in Path : evidence'[p].capture = "edit" => p \in raced,
         PreviousPreserved'
  PROVE  MaterializationInv'
  <1>1. WorktreeTypeOK' /\ EditsSurvive'
    BY DEF MaterializationInv, WorktreePreserved, WorktreeTypeOK, EditsSurvive, Bounds
  <1>2. CompletedIsTheResult'
    BY DEF MaterializationInv, WorktreePreserved, CompletedIsTheResult, Resulting
  <1>3. PhaseInv' /\ ComparedInv' /\ CaptureInv' /\ ProvenInv'
    BY DEF Neutral, Rewriting, PhaseInv, ComparedInv, CaptureInv, ProvenInv
  <1>4. QED
    BY <1>1, <1>2, <1>3 DEF MaterializationInv, WorktreePreserved

-----------------------------------------------------------------------------
(* The steps of a call.                                                    *)

\* Steps that change no file: they compare, open, or end.
LEMMA ComparisonKeeps ==
  ASSUME MaterializationInv,
         \/ Begin \/ FindCompleted \/ CheckRewritten \/ RecheckTarget \/ RecheckRemoval
         \/ VerifyResult \/ RemoveRecovery \/ ReturnSuccess \/ ProcessDies
  PROVE  MaterializationInv'
  <1> USE MaterializationConstants
      DEF MaterializationInv, WorktreePreserved, WorktreeTypeOK, EditsSurvive, PreviousPreserved,
          CompletedIsTheResult, PhaseInv, ComparedInv, CaptureInv, ProvenInv, Rewriting, Path,
          WorktreePhases, Refuse
  <1>1. CASE Begin           BY <1>1 DEF Begin
  <1>2. CASE FindCompleted
    <2>1. \A p \in Path : target[p] = Resulting(p)
      BY <1>2 DEF FindCompleted, WorktreeMatches
    <2>2. QED
      BY <1>2, <2>1 DEF FindCompleted
  <1>3. CASE CheckRewritten  BY <1>3 DEF CheckRewritten, NextEntry
  <1>4. CASE RecheckTarget   BY <1>4 DEF RecheckTarget
  <1>5. CASE RecheckRemoval  BY <1>5 DEF RecheckRemoval
  <1>6. CASE VerifyResult
    <2>1. WorktreeMatches([p \in Path |-> Resulting(p)]) => \A p \in Path : target[p] = Resulting(p)
      BY DEF WorktreeMatches
    <2>2. CASE pc' = "retire"
      <3>1. /\ at' = 1 /\ proven' = TRUE /\ completed = FALSE
            /\ UNCHANGED <<target, evidence, recovery, completed, edits, crashes, raced, lost, stuck>>
            /\ \A p \in Path : target[p] = Resulting(p)
        BY <1>6, <2>1, <2>2 DEF VerifyResult
      <3>2. QED
        BY <2>2, <3>1
    <2>3. CASE pc' # "retire"
      BY <1>6, <2>3 DEF VerifyResult
    <2>4. QED
      BY <2>2, <2>3
  <1>7. CASE RemoveRecovery
    <2>1. /\ at' = 1 /\ pc' = "return" /\ pc = "retire" /\ recovery' = FALSE
          /\ UNCHANGED <<target, evidence, completed, proven, edits, crashes, raced, lost, stuck>>
      BY <1>7 DEF RemoveRecovery
    <2>2. completed = FALSE /\ 1 \in Path /\ 1 \in 1..(N + 1)
      BY <2>1
    <2>3. QED
      BY <2>1, <2>2
  <1>8. CASE ReturnSuccess   BY <1>8 DEF ReturnSuccess
  <1>9. CASE ProcessDies
    <2>1. stuck' \in BOOLEAN
      BY <1>9 DEF ProcessDies
    <2>2. QED
      BY <1>9, <2>1 DEF ProcessDies
  <1>10. QED
    BY <1>1, <1>2, <1>3, <1>4, <1>5, <1>6, <1>7, <1>8, <1>9

\* A step that writes evidence of the path it is at and leaves its capture.
LEMMA EvidenceKeeps ==
  ASSUME MaterializationInv, StageEntry \/ MarkInPlace \/ CheckAdded \/ RetirePublication
  PROVE  MaterializationInv'
  <1>1. WorktreeTypeOK /\ at \in Path /\ completed = FALSE /\ N \in Nat \ {0}
    BY MaterializationConstants
    DEF MaterializationInv, WorktreePreserved, WorktreeTypeOK, PhaseInv, StageEntry, MarkInPlace,
        CheckAdded, RetirePublication
  <1>2. /\ UNCHANGED <<target, recovery, completed, proven, edits, crashes, raced, lost, stuck>>
        /\ evidence' \in [Path -> RecoveryEvidence]
        /\ \A p \in Path : evidence'[p].capture = evidence[p].capture
    <2>1. \/ evidence' = evidence
          \/ \E e \in RecoveryEvidence : e.capture = evidence[at].capture /\ evidence' = [evidence EXCEPT ![at] = e]
      BY <1>1, EvidenceFields DEF StageEntry, MarkInPlace, CheckAdded, RetirePublication
    <2>2. /\ evidence' \in [Path -> RecoveryEvidence]
          /\ \A p \in Path : evidence'[p].capture = evidence[p].capture
      BY <1>1, <2>1, EvidenceChanges DEF WorktreeTypeOK
    <2>3. QED
      BY <2>2 DEF StageEntry, MarkInPlace, CheckAdded, RetirePublication
  <1>3. PreviousPreserved'
    BY <1>2 DEF MaterializationInv, WorktreePreserved, PreviousPreserved
  <1>4. /\ lost' \subseteq raced
        /\ \A p \in Path : evidence'[p].capture = "edit" => p \in raced
        /\ target' \in [Path -> Content]
    BY <1>2 DEF MaterializationInv, WorktreePreserved, EditsSurvive, CaptureInv, WorktreeTypeOK
  <1>5. CASE pc' \in Neutral /\ at' \in Path
    <2>1. Bounds
      BY <1>1, <1>2, <1>5 DEF Bounds, WorktreeTypeOK, Neutral, WorktreePhases, Path
    <2>2. QED
      BY <1>1, <1>2, <1>3, <1>4, <1>5, <2>1, NeutralStep
  <1>6. CASE pc' \in {"capture", "link"} /\ at' = at /\ pc \in {"mark", "publish"}
             /\ (pc' = "capture" => Change[at] = "rewritten") /\ (pc' = "link" => Change[at] = "added")
    <2>1. WorktreeTypeOK'
      BY <1>1, <1>2, <1>6 DEF WorktreeTypeOK, WorktreePhases
    <2>2. EditsSurvive' /\ CompletedIsTheResult'
      BY <1>1, <1>2, <1>4 DEF EditsSurvive, CompletedIsTheResult
    <2>3. PhaseInv' /\ ComparedInv' /\ CaptureInv' /\ ProvenInv'
      BY <1>1, <1>2, <1>4, <1>6
      DEF PhaseInv, ComparedInv, CaptureInv, ProvenInv, Rewriting
    <2>4. QED
      BY <1>3, <2>1, <2>2, <2>3 DEF MaterializationInv, WorktreePreserved
  <1>7. QED
    <2>1. CASE StageEntry
      BY <1>1, <1>5, <2>1 DEF StageEntry, Neutral, Path
    <2>2. CASE MarkInPlace
      BY <1>1, <1>5, <1>6, <2>2
      DEF MarkInPlace, Neutral, Refuse, MaterializationInv, PhaseInv, Rewriting
    <2>3. CASE CheckAdded
      BY <1>1, <1>5, <1>6, <2>3, NextEntryGoes DEF CheckAdded, Neutral, Refuse
    <2>4. CASE RetirePublication
      BY <1>1, <1>5, <2>4, NextEntryGoes DEF RetirePublication, Neutral
    <2>5. QED
      BY <2>1, <2>2, <2>3, <2>4

\* The previous bytes are captured, and then the file is emptied.
LEMMA RewriteBegins ==
  ASSUME MaterializationInv, CapturePrevious \/ TruncateTarget
  PROVE  MaterializationInv'
  <1>1. WorktreeTypeOK /\ at \in Path /\ completed = FALSE
    BY DEF MaterializationInv, WorktreePreserved, WorktreeTypeOK, PhaseInv, CapturePrevious, TruncateTarget
  <1>2. CASE CapturePrevious
    <2>1. \E e \in RecoveryEvidence : e.capture = "previous" /\ evidence' = [evidence EXCEPT ![at] = e]
      BY <1>1, <1>2, EvidenceFields DEF CapturePrevious
    <2>2. /\ evidence' \in [Path -> RecoveryEvidence] /\ evidence'[at].capture = "previous"
          /\ \A p \in Path : p # at => evidence'[p] = evidence[p]
      BY <1>1, <2>1, EvidenceChanges
    <2>3. WorktreeTypeOK'
      BY <1>1, <1>2, <2>2 DEF WorktreeTypeOK, CapturePrevious, WorktreePhases
    <2>4. EditsSurvive' /\ PreviousPreserved' /\ CompletedIsTheResult'
      BY <1>1, <1>2, <2>2
      DEF CapturePrevious, MaterializationInv, WorktreePreserved, EditsSurvive, PreviousPreserved,
          CompletedIsTheResult
    <2>5. PhaseInv' /\ ComparedInv' /\ CaptureInv' /\ ProvenInv'
      BY <1>1, <1>2, <2>2
      DEF CapturePrevious, MaterializationInv, PhaseInv, ComparedInv, CaptureInv, ProvenInv, Rewriting
    <2>6. QED
      BY <2>3, <2>4, <2>5 DEF MaterializationInv, WorktreePreserved
  <1>3. CASE TruncateTarget
    <2>1. /\ target' \in [Path -> Content] /\ target'[at] = "partial"
          /\ \A p \in Path : p # at => target'[p] = target[p]
      BY <1>1, <1>3, TargetChanges DEF TruncateTarget, Content
    <2>2. lost' \subseteq raced
      BY <1>3 DEF TruncateTarget, Destroyed, MaterializationInv, WorktreePreserved, EditsSurvive, ComparedInv
    <2>3. WorktreeTypeOK'
      BY <1>1, <1>3, <2>1, <2>2 DEF WorktreeTypeOK, TruncateTarget, WorktreePhases
    <2>4. EditsSurvive' /\ PreviousPreserved' /\ CompletedIsTheResult'
      BY <1>1, <1>3, <2>1, <2>2
      DEF TruncateTarget, MaterializationInv, WorktreePreserved, EditsSurvive, PreviousPreserved,
          CompletedIsTheResult, CaptureInv
    <2>5. PhaseInv' /\ ComparedInv' /\ CaptureInv' /\ ProvenInv'
      BY <1>1, <1>3, <2>1, <2>2
      DEF TruncateTarget, MaterializationInv, PhaseInv, ComparedInv, CaptureInv, ProvenInv, Rewriting
    <2>6. QED
      BY <2>3, <2>4, <2>5 DEF MaterializationInv, WorktreePreserved
  <1>4. QED
    BY <1>2, <1>3

\* The bytes are written, or a file in their way is found: the capture is there.
LEMMA RewriteEnds ==
  ASSUME MaterializationInv, RewriteTarget
  PROVE  MaterializationInv'
  <1>1. /\ WorktreeTypeOK /\ at \in Path /\ completed = FALSE /\ evidence[at].capture = "previous"
        /\ UNCHANGED <<evidence, recovery, completed, proven, edits, crashes, raced, stuck>>
    BY DEF MaterializationInv, WorktreePreserved, WorktreeTypeOK, PhaseInv, CaptureInv, RewriteTarget
  <1>2. pc' \in Neutral /\ at' \in Path /\ at' \in 1..(N + 1)
    BY <1>1, NextEntryGoes DEF RewriteTarget, Refuse, Neutral, WorktreeTypeOK
  <1>3. /\ target' \in [Path -> Content]
        /\ \A p \in Path : p # at => target'[p] = target[p]
    <2>1. target' = target \/ \E s \in Content : target' = [target EXCEPT ![at] = s]
      BY DEF RewriteTarget, Content
    <2>2. QED
      BY <1>1, <2>1, TargetChanges DEF WorktreeTypeOK
  <1>4. lost' \subseteq raced
    BY DEF RewriteTarget, Destroyed, MaterializationInv, WorktreePreserved, EditsSurvive, ComparedInv
  <1>5. PreviousPreserved'
    BY <1>1, <1>3 DEF MaterializationInv, WorktreePreserved, PreviousPreserved
  <1>6. Bounds
    BY <1>1, <1>2 DEF Bounds, WorktreeTypeOK, Neutral, WorktreePhases
  <1>7. \A p \in Path : evidence'[p].capture = "edit" => p \in raced
    BY <1>1 DEF MaterializationInv, CaptureInv
  <1>8. evidence' \in [Path -> RecoveryEvidence]
    BY <1>1 DEF WorktreeTypeOK
  <1>9. QED
    BY <1>1, <1>2, <1>3, <1>4, <1>5, <1>6, <1>7, <1>8, NeutralStep

\* A removed file goes to the recovery directory as it is, and a save found
\* there comes back when its name is free.
LEMMA RemovalKeeps ==
  ASSUME MaterializationInv, CheckRemoved \/ CaptureByRename
  PROVE  MaterializationInv'
  <1>1. /\ WorktreeTypeOK /\ at \in Path /\ completed = FALSE
        /\ UNCHANGED <<recovery, completed, proven, edits, crashes, raced, lost, stuck>>
    BY DEF MaterializationInv, WorktreePreserved, WorktreeTypeOK, PhaseInv, CheckRemoved, CaptureByRename
  <1>2. lost' \subseteq raced
    BY <1>1 DEF MaterializationInv, WorktreePreserved, EditsSurvive
  <1>3. CASE CheckRemoved
    <2>1. /\ evidence' = evidence /\ evidence \in [Path -> RecoveryEvidence]
          /\ \A p \in Path : evidence'[p].capture = "edit" => p \in raced
      BY <1>1, <1>3 DEF CheckRemoved, MaterializationInv, CaptureInv, WorktreeTypeOK
    <2>2. /\ target' \in [Path -> Content]
          /\ \A p \in Path : target'[p] = target[p] \/ target'[p] = "edit"
      <3>1. target' = target \/ target' = [target EXCEPT ![at] = "edit"]
        BY <1>3 DEF CheckRemoved
      <3>2. QED
        BY <1>1, <3>1, TargetChanges DEF WorktreeTypeOK, Content
    <2>3. PreviousPreserved'
      BY <1>1, <2>1, <2>2 DEF MaterializationInv, WorktreePreserved, PreviousPreserved
    <2>4. CASE pc' = "recheckRemoval" /\ at' = at
      <3>1. target' = target
        BY <1>3, <2>4 DEF CheckRemoved, Refuse, NextEntry
      <3>2. WorktreeTypeOK'
        BY <1>1, <1>2, <2>1, <2>2, <2>4 DEF WorktreeTypeOK, WorktreePhases
      <3>3. EditsSurvive' /\ CompletedIsTheResult'
        BY <1>1, <1>2 DEF EditsSurvive, CompletedIsTheResult
      <3>4. PhaseInv' /\ ComparedInv' /\ CaptureInv' /\ ProvenInv'
        BY <1>1, <1>3, <2>1, <2>4
        DEF CheckRemoved, PhaseInv, ComparedInv, CaptureInv, ProvenInv, Rewriting
      <3>5. QED
        BY <2>3, <3>2, <3>3, <3>4 DEF MaterializationInv, WorktreePreserved
    <2>5. CASE pc' \in Neutral /\ at' \in Path
      <3>1. Bounds
        BY <1>1, <2>5, MaterializationConstants DEF Bounds, WorktreeTypeOK, Neutral, WorktreePhases, Path
      <3>2. QED
        BY <1>1, <1>2, <2>1, <2>2, <2>3, <2>5, <3>1, NeutralStep
    <2>6. QED
      BY <1>1, <1>3, <2>4, <2>5, NextEntryGoes DEF CheckRemoved, Refuse, Neutral
  <1>4. CASE CaptureByRename
    <2>1. /\ target[at] \in {"previous", "edit"} /\ (target[at] = "edit" => at \in raced)
      BY <1>4 DEF CaptureByRename, MaterializationInv, ComparedInv
    <2>2. \E e \in RecoveryEvidence : e.capture = target[at] /\ evidence' = [evidence EXCEPT ![at] = e]
      BY <1>1, <1>4, <2>1, EvidenceFields DEF CaptureByRename
    <2>3. /\ evidence' \in [Path -> RecoveryEvidence] /\ evidence'[at].capture = target[at]
          /\ \A p \in Path : p # at => evidence'[p] = evidence[p]
      BY <1>1, <2>2, EvidenceChanges
    <2>4. /\ target' \in [Path -> Content]
          /\ \A p \in Path : p # at => target'[p] = target[p]
      BY <1>1, <1>4, TargetChanges DEF CaptureByRename, Content
    <2>5. PreviousPreserved'
      BY <1>1, <2>1, <2>3, <2>4 DEF MaterializationInv, WorktreePreserved, PreviousPreserved
    <2>6. \A p \in Path : evidence'[p].capture = "edit" => p \in raced
      BY <2>1, <2>3 DEF MaterializationInv, CaptureInv
    <2>7. pc' \in Neutral /\ at' \in Path /\ at' \in 1..(N + 1)
      BY <1>1, <1>4, NextEntryGoes DEF CaptureByRename, Neutral
    <2>8. Bounds
      BY <1>1, <2>7 DEF Bounds, WorktreeTypeOK, Neutral, WorktreePhases
    <2>9. QED
      BY <1>1, <1>2, <2>3, <2>4, <2>5, <2>6, <2>7, <2>8, NeutralStep
  <1>5. QED
    BY <1>3, <1>4

LEMMA LinkKeeps ==
  ASSUME MaterializationInv, LinkAddition
  PROVE  MaterializationInv'
  <1>1. /\ WorktreeTypeOK /\ at \in Path /\ completed = FALSE /\ Change[at] = "added"
    BY DEF MaterializationInv, WorktreePreserved, WorktreeTypeOK, PhaseInv, LinkAddition
  <1>2. /\ target' \in [Path -> Content]
        /\ \A p \in Path : p # at => target'[p] = target[p]
    BY <1>1, TargetChanges DEF LinkAddition, Content, WorktreeTypeOK
  <1>3. WorktreeTypeOK'
    BY <1>1, <1>2 DEF WorktreeTypeOK, LinkAddition, WorktreePhases, Refuse
  <1>4. EditsSurvive' /\ PreviousPreserved' /\ CompletedIsTheResult'
    BY <1>1, <1>2
    DEF LinkAddition, MaterializationInv, WorktreePreserved, EditsSurvive, PreviousPreserved,
        CompletedIsTheResult
  <1>5. PhaseInv' /\ ComparedInv' /\ CaptureInv' /\ ProvenInv'
    BY <1>1, <1>2
    DEF LinkAddition, MaterializationInv, PhaseInv, ComparedInv, CaptureInv, ProvenInv, Rewriting,
        Refuse
  <1>6. QED
    BY <1>3, <1>4, <1>5 DEF MaterializationInv, WorktreePreserved

\* The evidence goes: all that is in it now is the result or a raced save.
LEMMA RetireKeeps ==
  ASSUME MaterializationInv, RetireEvidence
  PROVE  MaterializationInv'
  <1>1. /\ WorktreeTypeOK /\ at \in Path /\ completed = FALSE /\ proven
    BY MaterializationConstants
    DEF MaterializationInv, WorktreePreserved, WorktreeTypeOK, PhaseInv, ProvenInv, RetireEvidence, Path
  <1>2. /\ evidence' \in [Path -> RecoveryEvidence]
        /\ evidence'[at].capture \in {evidence[at].capture, "absent"}
        /\ \A p \in Path : p # at => evidence'[p] = evidence[p]
    BY <1>1, EvidenceFields, EvidenceChanges DEF RetireEvidence
  <1>3. lost' \subseteq raced
    BY <1>1 DEF RetireEvidence, MaterializationInv, WorktreePreserved, EditsSurvive, CaptureInv
  <1>4. at' \in 1..(N + 1)
    BY <1>1, MaterializationConstants DEF RetireEvidence, Path
  <1>5. WorktreeTypeOK'
    BY <1>1, <1>2, <1>3, <1>4 DEF WorktreeTypeOK, RetireEvidence
  <1>6. EditsSurvive' /\ PreviousPreserved' /\ CompletedIsTheResult'
    BY <1>1, <1>3 DEF RetireEvidence, EditsSurvive, PreviousPreserved, CompletedIsTheResult
  <1>7. PhaseInv' /\ ComparedInv' /\ CaptureInv' /\ ProvenInv'
    BY <1>1, <1>2
    DEF RetireEvidence, MaterializationInv, PhaseInv, ComparedInv, CaptureInv, ProvenInv, Rewriting
  <1>8. QED
    BY <1>5, <1>6, <1>7 DEF MaterializationInv, WorktreePreserved

\* A save after the last comparison is raced; any other is compared once more.
LEMMA SaveKeeps ==
  ASSUME MaterializationInv, NEW p \in Path, DeveloperSaves(p)
  PROVE  MaterializationInv'
  <1>1. WorktreeTypeOK /\ completed = FALSE /\ completed' = FALSE
    BY DEF MaterializationInv, WorktreePreserved, WorktreeTypeOK, DeveloperSaves
  <1>2. /\ target' \in [Path -> Content] /\ target'[p] = "edit"
        /\ \A q \in Path : q # p => target'[q] = target[q]
    BY <1>1, TargetChanges DEF DeveloperSaves, Content
  <1>3. raced \subseteq raced' /\ raced' \subseteq Path /\ (UncheckedWrite(p) => p \in raced')
    BY <1>1 DEF DeveloperSaves, WorktreeTypeOK
  <1>4. WorktreeTypeOK'
    BY <1>1, <1>2, <1>3, MaterializationConstants DEF WorktreeTypeOK, DeveloperSaves
  <1>5. EditsSurvive' /\ PreviousPreserved' /\ CompletedIsTheResult'
    BY <1>1, <1>2, <1>3
    DEF DeveloperSaves, MaterializationInv, WorktreePreserved, EditsSurvive, PreviousPreserved,
        CompletedIsTheResult
  <1>6. PhaseInv' /\ CaptureInv'
    BY <1>1, <1>3 DEF DeveloperSaves, MaterializationInv, PhaseInv, CaptureInv
  <1>7. ComparedInv' /\ ProvenInv'
    BY <1>2, <1>3
    DEF DeveloperSaves, UncheckedWrite, MaterializationInv, PhaseInv, ComparedInv, ProvenInv,
        Resulting
  <1>8. QED
    BY <1>4, <1>5, <1>6, <1>7 DEF MaterializationInv, WorktreePreserved

-----------------------------------------------------------------------------
(* The theorems.                                                           *)

LEMMA MaterializationBegins ==
  ASSUME WorktreeInit
  PROVE  MaterializationInv
  <1>1. /\ target \in [Path -> Content] /\ evidence \in [Path -> RecoveryEvidence]
        /\ \A p \in Path : evidence[p].capture = "absent"
        /\ \A p \in Path : Change[p] = "added" \/ target[p] = "previous"
    BY DEF WorktreeInit, Expected, Content, RecoveryEvidence, NoEvidence
  <1>2. WorktreeTypeOK
    <2>1. 1 \in 1..(N + 1) /\ 0 \in 0..MaxEdits /\ 0 \in 0..MaxCrashes
      BY MaterializationConstants
    <2>2. QED
      BY <1>1, <2>1 DEF WorktreeInit, WorktreeTypeOK, WorktreePhases
  <1>3. EditsSurvive /\ PreviousPreserved /\ CompletedIsTheResult
    BY <1>1 DEF WorktreeInit, EditsSurvive, PreviousPreserved, CompletedIsTheResult
  <1>4. PhaseInv /\ ComparedInv /\ CaptureInv /\ ProvenInv
    BY <1>1, MaterializationConstants
    DEF WorktreeInit, PhaseInv, ComparedInv, CaptureInv, ProvenInv, Rewriting, Path
  <1>5. QED
    BY <1>2, <1>3, <1>4 DEF MaterializationInv, WorktreePreserved

LEMMA MaterializationStep ==
  ASSUME MaterializationInv, [WorktreeNext]_worktree
  PROVE  MaterializationInv'
  <1>1. CASE UNCHANGED worktree
    BY <1>1
    DEF worktree, MaterializationInv, WorktreePreserved, WorktreeTypeOK, EditsSurvive, PreviousPreserved,
        CompletedIsTheResult, PhaseInv, ComparedInv, CaptureInv, ProvenInv
  <1>2. CASE Service
    <2>1. CASE \/ Begin \/ FindCompleted \/ CheckRewritten \/ RecheckTarget \/ RecheckRemoval
               \/ VerifyResult \/ RemoveRecovery \/ ReturnSuccess
      BY <2>1, ComparisonKeeps
    <2>2. CASE StageEntry \/ MarkInPlace \/ CheckAdded \/ RetirePublication
      BY <2>2, EvidenceKeeps
    <2>3. CASE CapturePrevious \/ TruncateTarget \/ RewriteTarget
      BY <2>3, RewriteBegins, RewriteEnds
    <2>4. CASE CheckRemoved \/ CaptureByRename \/ LinkAddition \/ RetireEvidence
      BY <2>4, RemovalKeeps, LinkKeeps, RetireKeeps
    <2>5. QED
      BY <1>2, <2>1, <2>2, <2>3, <2>4 DEF Service, Publish
  <1>3. CASE (\E p \in Path : DeveloperSaves(p)) \/ ProcessDies
    BY <1>3, SaveKeeps, ComparisonKeeps
  <1>4. QED
    BY <1>1, <1>2, <1>3 DEF WorktreeNext

(* MaterializationInductive: whenever the process dies and whatever a          *)
(* developer saves, the phase of a call tells what is true of the file it is *)
(* at: compared and unchanged or saved since, captured before it is touched, *)
(* and no evidence retired before the whole result was compared              *)
(* (materializeIntegrationWorktree and its steps).                           *)
THEOREM MaterializationInductive == WorktreeSpec => []MaterializationInv
  <1>1. WorktreeInit => MaterializationInv
    BY MaterializationBegins
  <1>2. MaterializationInv /\ [WorktreeNext]_worktree => MaterializationInv'
    BY MaterializationStep
  <1>3. QED
    BY <1>1, <1>2, PTL DEF WorktreeSpec

(* NothingIsLost: for any number of files, saves and deaths, a developer's     *)
(* bytes are destroyed only when the save fell between the last comparison   *)
(* and the write, the previous bytes can be restored until the result is     *)
(* proved, and success is reported over no less than the result.             *)
THEOREM NothingIsLost == WorktreeSpec => []WorktreePreserved
  <1>1. MaterializationInv => WorktreePreserved
    BY DEF MaterializationInv
  <1>2. QED
    BY <1>1, MaterializationInductive, PTL
=============================================================================
