-------------------------- MODULE InitiativeFleet --------------------------
(***************************************************************************)
(* Initiatives: groups of tasks that are prepared, bound to the host and   *)
(* abandoned together, whose members wait for each other, and whose starts *)
(* compete for host, repository and worker-profile capacity.               *)
(*                                                                         *)
(* Every action is one SQLite transaction.  A member's own life is that of *)
(* TaskMachine, which TaskLifecycle implements; here each of its moves     *)
(* also re-derives the initiative and rewrites the launch facts, as        *)
(* updateTaskState does.  Two things are kept beside the tasks and can     *)
(* disagree with them: the aggregate state of the initiative, and the      *)
(* table of launch facts from which the fleet-wide order of starts is read *)
(* (the resource heads are a projection of it, rewritten with it).         *)
(*                                                                         *)
(* Initiatives and tasks are numbers: the order of numbers is the order of *)
(* creation and of handles.  Contract artifacts are exact when a group is  *)
(* prepared and never change afterwards, so an edge that consumes one      *)
(* never holds a start and is left out.                                    *)
(***************************************************************************)
EXTENDS Naturals, FiniteSets, SequencesExt, TaskStates

CONSTANTS
  Initiatives,    \* initiatives, in creation order
  Tasks,          \* tasks, in handle order
  InitiativeOf,   \* the initiative of a task, 0 for a standalone task
  Edges,          \* dependencies [from, to, kind] between members
  OwnerOf,        \* the integration owner of an initiative, 0 for none
  Repository,     \* the repository of a task
  Profiles,       \* reviewed worker profiles
  MaxConcurrentTasks, MaxConcurrentTasksPerRepository, WorkerProfileLimits,
  MemberMoves     \* bound: states a task may be moved to in this instance

EdgeKind == {"blocks_start", "integrates_after", "blocks_validation"}

ASSUME FleetAssumption ==
  /\ Initiatives \subseteq Nat \ {0} /\ Tasks \subseteq Nat \ {0} /\ IsFiniteSet(Tasks)
  /\ InitiativeOf \in [Tasks -> Initiatives \cup {0}]
  /\ Edges \subseteq [from: Tasks, to: Tasks, kind: EdgeKind]
  /\ \A e \in Edges : InitiativeOf[e.from] = InitiativeOf[e.to] /\ InitiativeOf[e.to] # 0
  /\ OwnerOf \in [Initiatives -> Tasks \cup {0}]
  /\ MaxConcurrentTasks \in Nat /\ MaxConcurrentTasksPerRepository \in Nat
  /\ WorkerProfileLimits \in [Profiles -> Nat]

VARIABLES
  tstate,      \* state of each task
  tprofile,    \* worker profile of each task
  ini,         \* the initiatives rows and their preparations
  facts,       \* the initiative_launch_facts table
  activating   \* volatile: group activations committed or replayed, not yet published

vars == <<tstate, tprofile, ini, facts, activating>>

InitiativeState ==
  {"preparing", "active", "blocked", "integrating", "validating", "candidate_complete",
   "delivered", "failed", "cancelled", "unknown"}

Closed == {"delivered", "failed", "cancelled"}

InitiativeRow ==
  [state: InitiativeState \cup {"absent"},
   group: BOOLEAN,      \* managed_run_group_id is set
   joined: BOOLEAN,     \* every member carries its managed run and lease
   abandoned: BOOLEAN]  \* the member preparations are closed

Members(i) == {t \in Tasks : InitiativeOf[t] = i}

-----------------------------------------------------------------------------
(* Dependencies and the aggregate                                          *)

SatisfiesInitiativeDependency(s) ==
  s \in {"candidate_complete", "delivering", "delivered", "cleanup_held", "cleaned"}

\* launchDependencyReason finds no predecessor that holds the start of t.
LaunchDependenciesMet(t, ts) ==
  \A e \in Edges : e.to = t /\ e.kind # "blocks_validation"
                     => SatisfiesInitiativeDependency(ts[e.from])

\* requireInitiativeValidationDependencies.
ValidationDependenciesMet(t, ts) ==
  \A e \in Edges : e.to = t /\ e.kind = "blocks_validation"
                     => SatisfiesInitiativeDependency(ts[e.from])

\* scheduleOneInitiative considers ready members of an active initiative only.
Considered(i, s, ts) == {t \in Members(i) : s = "active" /\ ts[t] = "ready"}
Candidates(i, s, ts) == {t \in Considered(i, s, ts) : LaunchDependenciesMet(t, ts)}

\* Faulty variant: members that agree on a state give it to the initiative.
MutCommonStateIsAggregate(i, s, ts) ==
  IF s \in Closed \cup {"preparing", "unknown"} THEN s
  ELSE IF \A t, u \in Members(i) : ts[t] = ts[u] THEN ts[CHOOSE t \in Members(i) : TRUE]
  ELSE s

\* deriveInitiativeState without capacity, as DeriveInitiativeState calls it.
DeriveInitiativeState(i, s, ts) ==
  LET some(S) == \E t \in Members(i) : ts[t] \in S
      all(S) == \A t \in Members(i) : ts[t] \in S
      owner(S) == OwnerOf[i] # 0 /\ ts[OwnerOf[i]] \in S
  IN  IF s \in Closed \cup {"preparing", "unknown"} THEN s
      ELSE IF some({"unknown", "reconciling"}) THEN "unknown"
      ELSE IF all({"delivered", "cleaned"}) THEN "delivered"
      ELSE IF all({"cancelled", "cleaned"}) THEN "cancelled"
      ELSE IF owner({"validating"}) THEN "validating"
      ELSE IF owner({"launching", "working", "awaiting_decision", "paused"}) THEN "integrating"
      ELSE IF some({"validating"}) THEN "validating"
      ELSE IF all({"candidate_complete", "delivering", "delivered", "cleanup_held", "cleaned"})
        THEN "candidate_complete"
      ELSE IF \/ Candidates(i, s, ts) # {}
              \/ some({"launching", "working", "awaiting_decision", "paused", "delivering"})
        THEN "active"
      ELSE IF some({"failed"}) THEN "failed"
      ELSE IF Candidates(i, s, ts) # Considered(i, s, ts) \/ some({"blocked"}) THEN "blocked"
      ELSE "active"

-----------------------------------------------------------------------------
(* Launch facts and the fleet-wide order of starts                         *)

\* Faulty variant: every transaction begins at round zero.
MutRoundsStartOver(i, ts) == 0

\* Members past prepared and ready have used up turns of their initiative.
TurnsTaken(i, ts) == Cardinality({t \in Members(i) : ts[t] \notin {"prepared", "ready"}})

\* The facts replaceInitiativeLaunchFacts writes for one initiative.
LaunchFacts(i, s, ts, tp) ==
  {[task |-> t, profile |-> tp[t],
    round |-> TurnsTaken(i, ts) + Cardinality({u \in Candidates(i, s, ts) : u < t})] :
     t \in Candidates(i, s, ts)}

FactsOf(i, fs) == {f \in fs : InitiativeOf[f.task] = i}

RefreshInitiativeLaunchFacts(i, s, ts, tp) ==
  (facts \ FactsOf(i, facts)) \cup LaunchFacts(i, s, ts, tp)

\* taskConsumesWorker: the states that count against capacity.
ConsumesWorker ==
  {"launching", "working", "awaiting_decision", "blocked", "paused", "reconciling", "unknown"}
Workers(ts) == {t \in Tasks : ts[t] \in ConsumesWorker}

\* schedulingCapacityAvailable for one more task beside those in `busy`.
CapacityAvailable(t, p, busy, tp) ==
  /\ Cardinality(busy) < MaxConcurrentTasks
  /\ Cardinality({u \in busy : Repository[u] = Repository[t]}) < MaxConcurrentTasksPerRepository
  /\ Cardinality({u \in busy : tp[u] = p}) < WorkerProfileLimits[p]

\* Order of the facts: by round, then by age of the initiative, then by handle.
Before(f, g) ==
  \/ f.round < g.round
  \/ /\ f.round = g.round
     /\ \/ InitiativeOf[f.task] < InitiativeOf[g.task]
        \/ InitiativeOf[f.task] = InitiativeOf[g.task] /\ f.task < g.task

\* initiativeSchedulingFrontier: slots are given out in that order, and a fact
\* whose repository or profile is full is passed over.
Selected(fs, ts, tp) ==
  LET give(busy, f) == IF CapacityAvailable(f.task, f.profile, busy, tp)
                         THEN busy \cup {f.task} ELSE busy
  IN  FoldLeft(give, Workers(ts), SetToSortSeq(fs, Before)) \ Workers(ts)

-----------------------------------------------------------------------------
TypeOK ==
  /\ tstate \in [Tasks -> TaskState \cup {"absent"}]
  /\ tprofile \in [Tasks -> Profiles \cup {"none"}]
  /\ ini \in [Initiatives -> InitiativeRow]
  /\ facts \subseteq [task: Tasks, profile: Profiles \cup {"none"}, round: Nat]
  /\ activating \subseteq Initiatives

Init ==
  /\ tstate = [t \in Tasks |-> "absent"]
  /\ tprofile = [t \in Tasks |-> "none"]
  /\ ini = [i \in Initiatives |->
             [state |-> "absent", group |-> FALSE, joined |-> FALSE, abandoned |-> FALSE]]
  /\ facts = {}
  /\ activating = {}

\* updateInitiativeRecord: the row and its launch facts.
UpdateInitiativeRecord(i, row, ts, tp) ==
  /\ ini' = [ini EXCEPT ![i] = row]
  /\ facts' = RefreshInitiativeLaunchFacts(i, row.state, ts, tp)

\* updateTaskState and updateReportedTask of one task: the new state, and in
\* the same transaction the aggregate and the facts of its initiative.
UpdateTaskState(t, s, tp) ==
  LET i == InitiativeOf[t]
      ts == [tstate EXCEPT ![t] = s]
  IN  /\ tstate' = ts
      /\ IF i = 0
           THEN UNCHANGED <<ini, facts>>
           ELSE UpdateInitiativeRecord(
                  i, [ini[i] EXCEPT !.state = DeriveInitiativeState(i, ini[i].state, ts)], ts, tp)

-----------------------------------------------------------------------------
(* Preparation, activation and abandonment of a group                      *)

\* The initiative and all its members appear at one state version.
CommitPreparedInitiative(i, profile) ==
  /\ ini[i].state = "absent"
  /\ \A j \in Initiatives : j < i => ini[j].state # "absent"
  /\ tstate' = [t \in Tasks |-> IF t \in Members(i) THEN "prepared" ELSE tstate[t]]
  /\ tprofile' = [t \in Tasks |-> IF t \in Members(i) THEN profile[t] ELSE tprofile[t]]
  /\ ini' = [ini EXCEPT ![i].state = "preparing"]
  /\ UNCHANGED <<facts, activating>>

\* Faulty variant: the members are bound whatever became of them since they
\* were prepared.
MutActivationIgnoresMembers(i) ==
  /\ ini[i].state \in {"preparing", "unknown"} /\ ~ini[i].group
  /\ LET ts == [t \in Tasks |-> IF t \in Members(i) THEN "ready" ELSE tstate[t]]
     IN  /\ tstate' = ts
         /\ UpdateInitiativeRecord(
              i, [ini[i] EXCEPT !.state = "unknown", !.group = TRUE, !.joined = TRUE], ts, tprofile)
  /\ activating' = activating \cup {i}
  /\ UNCHANGED <<tprofile>>

\* All members are bound or none; until the attachments are bound as well the
\* initiative stays unknown.
CommitInitiativeActivation(i) ==
  /\ ini[i].state \in {"preparing", "unknown"} /\ ~ini[i].group
  /\ \A t \in Members(i) : tstate[t] = "prepared"
  /\ LET ts == [t \in Tasks |-> IF t \in Members(i) THEN "ready" ELSE tstate[t]]
     IN  /\ tstate' = ts
         /\ UpdateInitiativeRecord(
              i, [ini[i] EXCEPT !.state = "unknown", !.group = TRUE, !.joined = TRUE], ts, tprofile)
  /\ activating' = activating \cup {i}
  /\ UNCHANGED <<tprofile>>

\* The host repeats an activation whose answer it never saw.
ReplayInitiativeActivation(i) ==
  /\ ini[i].joined /\ ini[i].state # "active"
  /\ activating' = activating \cup {i}
  /\ UNCHANGED <<tstate, tprofile, ini, facts>>

\* Faulty variant: a complete binding publishes the group from any state.
MutPublishFromAnyState(i, partial) ==
  /\ i \in activating
  /\ activating' = activating \ {i}
  /\ IF ~partial
       THEN UpdateInitiativeRecord(i, [ini[i] EXCEPT !.state = "active"], tstate, tprofile)
       ELSE UNCHANGED <<ini, facts>>
  /\ UNCHANGED <<tstate, tprofile>>

\* ActivateManagedRunGroup after binding the attachments: only a complete
\* binding publishes the group, and only from unknown.
SetInitiativeActivationState(i, partial) ==
  /\ i \in activating
  /\ activating' = activating \ {i}
  /\ IF ~partial /\ ini[i].state = "unknown"
       THEN UpdateInitiativeRecord(i, [ini[i] EXCEPT !.state = "active"], tstate, tprofile)
       ELSE UNCHANGED <<ini, facts>>
  /\ UNCHANGED <<tstate, tprofile>>

\* abandonInitiativeMember.
AbandonedMember(s, reapSafe) ==
  CASE s = "prepared" -> IF reapSafe THEN "cancelled" ELSE "prepared"
    [] s = "ready" -> "cancelled"
    [] s = "unknown" -> "unknown"

CommitInitiativeAbandonment(i, reapSafe) ==
  /\ ini[i].state \in {"preparing", "unknown"} /\ ~ini[i].abandoned
  /\ \A t \in Members(i) : tstate[t] \in {"prepared", "ready", "unknown"}
  /\ LET ts == [t \in Tasks |-> IF t \in Members(i) THEN AbandonedMember(tstate[t], reapSafe)
                                                    ELSE tstate[t]]
         partial == \E t \in Members(i) : tstate[t] = "unknown"
     IN  /\ tstate' = ts
         /\ UpdateInitiativeRecord(
              i, [ini[i] EXCEPT !.state = IF partial \/ ~reapSafe THEN "unknown" ELSE "cancelled",
                                !.group = TRUE, !.abandoned = TRUE], ts, tprofile)
  /\ UNCHANGED <<tprofile, activating>>

\* Faulty variant: the group is recovered whether or not it was ever joined.
MutRecoverUnjoined(i) ==
  LET recovered == DeriveInitiativeState(i, "active", tstate)
  IN  /\ ini[i].state = "unknown"
      /\ recovered # "unknown"
      /\ UpdateInitiativeRecord(i, [ini[i] EXCEPT !.state = recovered], tstate, tprofile)
      /\ UNCHANGED <<tstate, tprofile, activating>>

\* The host still holds the complete group: its members, as they are stored,
\* decide what the initiative is.
CommitInitiativeHostRecovery(i) ==
  LET recovered == DeriveInitiativeState(i, "active", tstate)
  IN  /\ ini[i].state = "unknown" /\ ini[i].joined
      /\ recovered # "unknown"
      /\ UpdateInitiativeRecord(i, [ini[i] EXCEPT !.state = recovered], tstate, tprofile)
      /\ UNCHANGED <<tstate, tprofile, activating>>

-----------------------------------------------------------------------------
(* Member tasks                                                            *)

\* authorizeInitiativeTaskStart recomputes the schedule in the transaction
\* that launches; a standalone task asks nobody.
AuthorizeInitiativeTaskStart(t) ==
  LET i == InitiativeOf[t]
  IN  \/ i = 0
      \/ /\ ini[i].state = "active"
         /\ t \in Selected(RefreshInitiativeLaunchFacts(i, "active", tstate, tprofile),
                           tstate, tprofile)

CommitTaskStart(t) ==
  /\ tstate[t] = "ready"
  /\ AuthorizeInitiativeTaskStart(t)
  /\ UpdateTaskState(t, "launching", tprofile)
  /\ UNCHANGED <<tprofile, activating>>

\* Faulty variant: the profile is rewritten after the facts.
MutReplaceAfterFacts(t, p) ==
  /\ tstate[t] = "paused"
  /\ tprofile' = [tprofile EXCEPT ![t] = p]
  /\ UpdateTaskState(t, "ready", tprofile)
  /\ UNCHANGED activating

\* Replacement readies a paused task under another profile; the facts that
\* carry the profile are rewritten after it.
CommitTaskReplace(t, p) ==
  /\ tstate[t] = "paused"
  /\ tprofile' = [tprofile EXCEPT ![t] = p]
  /\ UpdateTaskState(t, "ready", [tprofile EXCEPT ![t] = p])
  /\ UNCHANGED activating

\* Any other transaction of the task lifecycle or of cleanup.
MoveTask(t, s) ==
  /\ tstate[t] # "absent" /\ s \in Follows[tstate[t]]
  /\ InitiativeOf[t] # 0 => ~(tstate[t] = "prepared" /\ s = "ready")
  /\ ~(tstate[t] = "ready" /\ s = "launching")
  /\ s = "validating" => ValidationDependenciesMet(t, tstate)
  /\ UpdateTaskState(t, s, tprofile)
  /\ UNCHANGED <<tprofile, activating>>

\* A progress report leaves the state alone and still re-derives the aggregate.
ReportProgress(t) ==
  /\ tstate[t] = "working"
  /\ UpdateTaskState(t, "working", tprofile)
  /\ UNCHANGED <<tprofile, activating>>

\* The profile of a standalone task is chosen when it is prepared.
CommitPreparedTask(t, p) ==
  /\ InitiativeOf[t] = 0 /\ tstate[t] = "absent"
  /\ tstate' = [tstate EXCEPT ![t] = "prepared"]
  /\ tprofile' = [tprofile EXCEPT ![t] = p]
  /\ UNCHANGED <<ini, facts, activating>>

\* A restart distrusts every open initiative first, writing only its state,
\* and then every task it cannot vouch for; resumable candidates stay.
ReconcileStartup(resumable) ==
  LET ts == [t \in Tasks |->
               IF tstate[t] \in RuntimeSensitiveState
                  /\ ~(tstate[t] = "candidate_complete" /\ t \in resumable)
                 THEN "unknown" ELSE tstate[t]]
      moved == {InitiativeOf[t] : t \in {u \in Tasks : ts[u] # tstate[u]}}
  IN  /\ tstate' = ts
      /\ ini' = [i \in Initiatives |->
                  IF ini[i].state \in Closed \cup {"absent"} THEN ini[i]
                  ELSE [ini[i] EXCEPT !.state = "unknown"]]
      /\ facts' = {f \in facts : InitiativeOf[f.task] \notin moved}
      /\ activating' = {}
      /\ UNCHANGED <<tprofile>>

GroupStep(i) ==
  \/ \E profile \in [Members(i) -> Profiles] : CommitPreparedInitiative(i, profile)
  \/ CommitInitiativeActivation(i)
  \/ ReplayInitiativeActivation(i)
  \/ \E partial \in BOOLEAN : SetInitiativeActivationState(i, partial)
  \/ \E reapSafe \in BOOLEAN : CommitInitiativeAbandonment(i, reapSafe)
  \/ CommitInitiativeHostRecovery(i)

TaskStep(t) ==
  \/ CommitTaskStart(t)
  \/ ReportProgress(t)
  \/ \E p \in Profiles : CommitTaskReplace(t, p) \/ CommitPreparedTask(t, p)
  \/ \E s \in MemberMoves : MoveTask(t, s)

Next ==
  \/ \E i \in Initiatives : GroupStep(i)
  \/ \E t \in Tasks : TaskStep(t)
  \/ \E resumable \in SUBSET Tasks : ReconcileStartup(resumable)

Spec == Init /\ [][Next]_vars

-----------------------------------------------------------------------------
(* Properties                                                              *)

\* The incrementally rewritten table is what a full recomputation over the
\* members would give, for every active initiative, whichever of the many
\* writers of tasks and initiatives ran last.
LaunchFactsCurrent ==
  \A i \in Initiatives :
    ini[i].state = "active" => FactsOf(i, facts) = LaunchFacts(i, "active", tstate, tprofile)

\* A group is joined as a whole: while it is not, its members are at most
\* prepared or given up and the initiative has no launchable or later state.
GroupJoinsAsAWhole ==
  \A i \in Initiatives :
    ~ini[i].joined =>
      /\ ini[i].state \in {"absent", "preparing", "unknown", "cancelled"}
      /\ \A t \in Members(i) :
           tstate[t] \in {"absent", "prepared", "cancelled", "cleanup_held", "cleaned"}

\* A closed initiative is what its members came to: none of them is being
\* worked on, all were given up where it is cancelled, and all ended in
\* delivery or cleanup where it is delivered.
ClosedInitiativeIsQuiet ==
  \A i \in Initiatives :
    LET all(S) == \A t \in Members(i) : tstate[t] \in S
    IN  /\ ini[i].state \in Closed => ~\E t \in Members(i) :
              tstate[t] \in {"launching", "working", "awaiting_decision", "delivering"}
        /\ ini[i].state = "cancelled" => all({"cancelled", "cleanup_held", "cleaned"})
        /\ ini[i].state = "delivered" => all({"delivered", "cleanup_held", "cleaned"})

\* An activation that publishes late, a recovery or a restart never reopens a
\* closed initiative.
ClosedInitiativeStaysClosed ==
  [][\A i \in Initiatives : ini[i].state \in Closed => ini'[i].state = ini[i].state]_vars

\* Closing is final and truthful: the aggregate closes only over members that
\* came to rest, and no later write of a member or of the group undoes either.
ClosingIsFinal == []ClosedInitiativeIsQuiet /\ ClosedInitiativeStaysClosed

\* The candidates that would fit beside the workers there are, and those of
\* them whose initiative is next in turn: fewer of its members have started
\* than of any other with a fitting candidate, or as many and it is older.
Fitting == {f \in facts : CapacityAvailable(f.task, f.profile, Workers(tstate), tprofile)}
Started(i) == Cardinality({t \in Members(i) : tstate[t] \notin {"prepared", "ready"}})
NextInTurn ==
  {f \in Fitting : \A g \in facts :
     LET i == InitiativeOf[f.task]
         j == InitiativeOf[g.task]
     IN  IF i = j THEN f.task <= g.task
         ELSE g \in Fitting => Started(i) < Started(j) \/ (Started(i) = Started(j) /\ i < j)}

\* No initiative is overtaken: when a member of another initiative starts, the
\* candidate that was next in turn is still selected afterwards, so the slot
\* it was offered has not been given away.
NextInTurnKeepsItsSlot ==
  [][\A t \in Tasks, f \in NextInTurn :
       /\ InitiativeOf[t] # 0 /\ tstate[t] = "ready" /\ tstate'[t] = "launching"
       /\ InitiativeOf[f.task] # InitiativeOf[t]
       => f.task \in Selected(facts', tstate', tprofile')]_vars

\* Members keep the life every other component expects of a task, whatever
\* the group does to several of them at once.
Machine == INSTANCE TaskMachine WITH state <- tstate
ImplementsTaskMachine == Machine!Spec
=============================================================================
