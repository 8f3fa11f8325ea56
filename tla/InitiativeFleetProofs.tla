----------------------- MODULE InitiativeFleetProofs -----------------------
(***************************************************************************)
(* InitiativeFleet for any number of initiatives, members, edges, workers  *)
(* and limits: types, the group that joins as a whole, the launch facts,   *)
(* the finality of closing, and the refinement of TaskMachine.             *)
(*                                                                         *)
(* Every writer of a task or an initiative ends in the same refresh.  The  *)
(* argument therefore asks two things of each transaction: that the facts  *)
(* it rewrites are those of the one initiative it touched, and that the    *)
(* state it stores is the one its members lead to.                         *)
(***************************************************************************)
EXTENDS InitiativeFleet, FiniteSetTheorems, TLAPS

-----------------------------------------------------------------------------
(* The inductive invariant.                                                *)

\* An initiative that is not prepared yet has no members yet.
AppearTogether ==
  \A i \in Initiatives : ini[i].state = "absent" => \A t \in Members(i) : tstate[t] = "absent"

\* Only an activation that bound every member is ever published.
ActivatingIsJoined == \A i \in activating : ini[i].joined

FleetInv ==
  /\ TypeOK
  /\ AppearTogether
  /\ ActivatingIsJoined
  /\ GroupJoinsAsAWhole
  /\ LaunchFactsCurrent
  /\ ClosedInitiativeIsQuiet

-----------------------------------------------------------------------------
(* What the operators promise.                                             *)

Working == {"launching", "working", "awaiting_decision", "delivering"}

\* The aggregate never moves a closed, a preparing or a distrusted initiative,
\* and closes another only over members that came to rest.
LEMMA DeriveLeadsTo ==
  ASSUME NEW i, NEW s, NEW ts
  PROVE  LET d == DeriveInitiativeState(i, s, ts) IN
         /\ d \in InitiativeState
         /\ s \in Closed \cup {"preparing", "unknown"} => d = s
         /\ s \notin Closed /\ d \in Closed =>
              \A t \in Members(i) : ts[t] \notin Working
         /\ s \notin Closed /\ d = "delivered" =>
              \A t \in Members(i) : ts[t] \in {"delivered", "cleaned"}
         /\ s \notin Closed /\ d = "cancelled" =>
              \A t \in Members(i) : ts[t] \in {"cancelled", "cleaned"}
  BY DEF DeriveInitiativeState, InitiativeState, Closed, Working

LEMMA MembersAre ==
  ASSUME NEW i \in Initiatives, NEW t \in Members(i)
  PROVE  t \in Tasks /\ InitiativeOf[t] = i /\ i # 0
  BY FleetAssumption DEF Members

LEMMA LaunchFactsType ==
  ASSUME NEW i, NEW s, NEW ts, NEW tp \in [Tasks -> Profiles \cup {"none"}]
  PROVE  LaunchFacts(i, s, ts, tp) \subseteq
           [task: Members(i), profile: Profiles \cup {"none"}, round: Nat]
  <1>1. \A S : S \subseteq Tasks => Cardinality(S) \in Nat
    BY FleetAssumption, FS_Subset, FS_CardinalityType
  <1>2. TurnsTaken(i, ts) \in Nat
    BY <1>1 DEF TurnsTaken, Members
  <1>3. Candidates(i, s, ts) \subseteq Members(i) /\ Members(i) \subseteq Tasks
    BY DEF Candidates, Considered, Members
  <1>4. \A t \in Candidates(i, s, ts) : Cardinality({u \in Candidates(i, s, ts) : u < t}) \in Nat
    BY <1>1, <1>3
  <1>5. SUFFICES ASSUME NEW t \in Candidates(i, s, ts)
                 PROVE  [task |-> t, profile |-> tp[t],
                         round |-> TurnsTaken(i, ts) + Cardinality({u \in Candidates(i, s, ts) : u < t})]
                          \in [task: Members(i), profile: Profiles \cup {"none"}, round: Nat]
    BY DEF LaunchFacts
  <1>6. tp[t] \in Profiles \cup {"none"} /\ t \in Members(i)
    BY <1>3
  <1>7. TurnsTaken(i, ts) + Cardinality({u \in Candidates(i, s, ts) : u < t}) \in Nat
    BY <1>2, <1>4
  <1>8. QED
    BY <1>6, <1>7

\* The launch facts of an initiative depend on its own members only: edges
\* stay inside a group.
LEMMA LaunchFactsLocal ==
  ASSUME NEW i \in Initiatives, NEW s, NEW ts, NEW tp, NEW ts2, NEW tp2,
         \A t \in Members(i) : ts[t] = ts2[t] /\ tp[t] = tp2[t]
  PROVE  LaunchFacts(i, s, ts, tp) = LaunchFacts(i, s, ts2, tp2)
  <1>1. \A t \in Members(i) : LaunchDependenciesMet(t, ts) <=> LaunchDependenciesMet(t, ts2)
    <2>1. \A e \in Edges : e.to \in Members(i) => e.from \in Members(i)
      BY FleetAssumption DEF Members
    <2>2. QED
      BY <2>1 DEF LaunchDependenciesMet
  <1>2. Candidates(i, s, ts) = Candidates(i, s, ts2)
    BY <1>1 DEF Candidates, Considered
  <1>3. TurnsTaken(i, ts) = TurnsTaken(i, ts2)
    <2>1. {t \in Members(i) : ts[t] \notin {"prepared", "ready"}}
            = {t \in Members(i) : ts2[t] \notin {"prepared", "ready"}}
      OBVIOUS
    <2>2. QED
      BY <2>1 DEF TurnsTaken
  <1>4. \A t \in Candidates(i, s, ts) : tp[t] = tp2[t]
    BY DEF Candidates, Considered
  <1>5. QED
    BY <1>2, <1>3, <1>4 DEF LaunchFacts

\* A refresh replaces the facts of its initiative and no others.
LEMMA RefreshReplaces ==
  ASSUME NEW i \in Initiatives, NEW s, NEW ts, NEW tp \in [Tasks -> Profiles \cup {"none"}],
         NEW j \in Initiatives
  PROVE  FactsOf(j, RefreshInitiativeLaunchFacts(i, s, ts, tp))
           = IF i = j THEN LaunchFacts(i, s, ts, tp) ELSE FactsOf(j, facts)
  <1>1. \A f \in LaunchFacts(i, s, ts, tp) : InitiativeOf[f.task] = i
    BY LaunchFactsType DEF Members
  <1>2. QED
    BY <1>1 DEF RefreshInitiativeLaunchFacts, FactsOf

-----------------------------------------------------------------------------
(* The shape of a transaction.                                             *)

\* Nothing of other initiatives is touched.
OnlyTouches(i) ==
  /\ \A t \in Tasks : InitiativeOf[t] # i => tstate'[t] = tstate[t] /\ tprofile'[t] = tprofile[t]
  /\ \A j \in Initiatives : j # i => ini'[j] = ini[j]

\* The row and the facts are written for the members as they are afterwards.
LEMMA UpdateKeepsFacts ==
  ASSUME TypeOK, TypeOK', LaunchFactsCurrent, NEW i \in Initiatives, NEW row \in InitiativeRow,
         OnlyTouches(i), UpdateInitiativeRecord(i, row, tstate', tprofile')
  PROVE  LaunchFactsCurrent'
  <1> SUFFICES ASSUME NEW j \in Initiatives, ini'[j].state = "active"
               PROVE  FactsOf(j, facts') = LaunchFacts(j, "active", tstate', tprofile')
    BY DEF LaunchFactsCurrent
  <1>1. facts' = RefreshInitiativeLaunchFacts(i, row.state, tstate', tprofile')
    BY DEF UpdateInitiativeRecord
  <1>2. tprofile' \in [Tasks -> Profiles \cup {"none"}]
    BY DEF TypeOK
  <1>3. CASE j = i
    <2>1. row.state = "active"
      BY <1>3 DEF UpdateInitiativeRecord, TypeOK
    <2>2. QED
      BY <1>1, <1>2, <1>3, <2>1, RefreshReplaces
  <1>4. CASE j # i
    <2>1. FactsOf(j, facts') = FactsOf(j, facts)
      BY <1>1, <1>2, <1>4, RefreshReplaces
    <2>2. \A t \in Members(j) : tstate[t] = tstate'[t] /\ tprofile[t] = tprofile'[t]
      BY <1>4, MembersAre DEF OnlyTouches
    <2>3. LaunchFacts(j, "active", tstate, tprofile) = LaunchFacts(j, "active", tstate', tprofile')
      BY <2>2, LaunchFactsLocal
    <2>4. QED
      BY <1>4, <2>1, <2>3 DEF LaunchFactsCurrent, OnlyTouches
  <1>5. QED
    BY <1>3, <1>4

\* A transaction that leaves the facts alone leaves every active initiative
\* alone.
LEMMA UntouchedKeepsFacts ==
  ASSUME LaunchFactsCurrent, UNCHANGED facts,
         \A j \in Initiatives : ini'[j].state = "active" =>
           /\ ini[j].state = "active"
           /\ \A t \in Members(j) : tstate'[t] = tstate[t] /\ tprofile'[t] = tprofile[t]
  PROVE  LaunchFactsCurrent'
  <1> SUFFICES ASSUME NEW j \in Initiatives, ini'[j].state = "active"
               PROVE  FactsOf(j, facts') = LaunchFacts(j, "active", tstate', tprofile')
    BY DEF LaunchFactsCurrent
  <1>1. LaunchFacts(j, "active", tstate, tprofile) = LaunchFacts(j, "active", tstate', tprofile')
    BY LaunchFactsLocal
  <1>2. QED
    BY <1>1 DEF LaunchFactsCurrent

LEMMA UpdateTypes ==
  ASSUME TypeOK, NEW i \in Initiatives, NEW row \in InitiativeRow, NEW ts,
         NEW tp \in [Tasks -> Profiles \cup {"none"}],
         UpdateInitiativeRecord(i, row, ts, tp)
  PROVE  /\ ini' \in [Initiatives -> InitiativeRow]
         /\ ini' = [ini EXCEPT ![i] = row]
         /\ facts' \subseteq [task: Tasks, profile: Profiles \cup {"none"}, round: Nat]
  <1>1. LaunchFacts(i, row.state, ts, tp) \subseteq
          [task: Tasks, profile: Profiles \cup {"none"}, round: Nat]
    BY LaunchFactsType DEF Members
  <1>2. QED
    BY <1>1 DEF UpdateInitiativeRecord, RefreshInitiativeLaunchFacts, TypeOK

\* The parts of the invariant that speak of one initiative, of its row r and
\* the states ts of the tasks.
AppearOK(i, r, ts) == r.state = "absent" => \A t \in Members(i) : ts[t] = "absent"
JoinOK(i, r, ts) ==
  ~r.joined =>
    /\ r.state \in {"absent", "preparing", "unknown", "cancelled"}
    /\ \A t \in Members(i) :
         ts[t] \in {"absent", "prepared", "cancelled", "cleanup_held", "cleaned"}
QuietOK(i, r, ts) ==
  /\ r.state \in Closed => \A t \in Members(i) : ts[t] \notin Working
  /\ r.state = "cancelled" => \A t \in Members(i) : ts[t] \in {"cancelled", "cleanup_held", "cleaned"}
  /\ r.state = "delivered" => \A t \in Members(i) : ts[t] \in {"delivered", "cleanup_held", "cleaned"}
RowOK(i, r, ts) == AppearOK(i, r, ts) /\ JoinOK(i, r, ts) /\ QuietOK(i, r, ts)

LEMMA RowsOK ==
  (AppearTogether /\ GroupJoinsAsAWhole /\ ClosedInitiativeIsQuiet)
    <=> \A i \in Initiatives : RowOK(i, ini[i], tstate)
  BY DEF AppearTogether, GroupJoinsAsAWhole, ClosedInitiativeIsQuiet, RowOK, AppearOK, JoinOK,
         QuietOK, Working

LEMMA RowsOKNext ==
  (AppearTogether' /\ GroupJoinsAsAWhole' /\ ClosedInitiativeIsQuiet')
    <=> \A i \in Initiatives : RowOK(i, ini'[i], tstate')
  BY DEF AppearTogether, GroupJoinsAsAWhole, ClosedInitiativeIsQuiet, RowOK, AppearOK, JoinOK,
         QuietOK, Working

LEMMA RowOKLocal ==
  ASSUME NEW i \in Initiatives, NEW r, NEW ts, NEW ts2, RowOK(i, r, ts),
         \A t \in Members(i) : ts[t] = ts2[t]
  PROVE  RowOK(i, r, ts2)
  BY DEF RowOK, AppearOK, JoinOK, QuietOK

\* What a transaction on the group or a member of initiative i has to show.
LEMMA GroupUpdateKeeps ==
  ASSUME FleetInv, NEW i \in Initiatives, NEW row \in InitiativeRow,
         tstate' \in [Tasks -> TaskState \cup {"absent"}],
         tprofile' \in [Tasks -> Profiles \cup {"none"}],
         \A t \in Tasks : InitiativeOf[t] # i => tstate'[t] = tstate[t] /\ tprofile'[t] = tprofile[t],
         UpdateInitiativeRecord(i, row, tstate', tprofile'),
         activating' \subseteq activating \cup {i},
         i \in activating' => row.joined,
         RowOK(i, row, tstate')
  PROVE  FleetInv'
  <1>1. /\ ini' \in [Initiatives -> InitiativeRow]
        /\ ini' = [ini EXCEPT ![i] = row]
        /\ facts' \subseteq [task: Tasks, profile: Profiles \cup {"none"}, round: Nat]
    BY UpdateTypes DEF FleetInv
  <1>2. ini'[i] = row /\ \A j \in Initiatives : j # i => ini'[j] = ini[j]
    BY <1>1 DEF FleetInv, TypeOK
  <1>3. TypeOK'
    BY <1>1 DEF TypeOK, FleetInv
  <1>4. LaunchFactsCurrent'
    BY <1>2, <1>3, UpdateKeepsFacts DEF FleetInv, OnlyTouches
  <1>5. ActivatingIsJoined'
    BY <1>2 DEF ActivatingIsJoined, FleetInv, TypeOK
  <1>6. \A j \in Initiatives : RowOK(j, ini'[j], tstate')
    <2>1. SUFFICES ASSUME NEW j \in Initiatives, j # i PROVE RowOK(j, ini'[j], tstate')
      BY <1>2
    <2>2. \A t \in Members(j) : tstate[t] = tstate'[t]
      BY <2>1, MembersAre
    <2>3. RowOK(j, ini[j], tstate)
      BY RowsOK DEF FleetInv
    <2>4. QED
      BY <1>2, <2>1, <2>2, <2>3, RowOKLocal
  <1>7. QED
    BY <1>3, <1>4, <1>5, <1>6, RowsOKNext DEF FleetInv

-----------------------------------------------------------------------------
(* Members.                                                                *)

\* The shape of every transaction of one existing task.
MemberMove(t, s) ==
  LET i == InitiativeOf[t] IN
  /\ UpdateTaskState(t, s, tprofile')
  /\ tprofile' \in [Tasks -> Profiles \cup {"none"}]
  /\ \A u \in Tasks : u # t => tprofile'[u] = tprofile[u]
  /\ tstate[t] # "absent" /\ s \in TaskState
  /\ s = tstate[t] \/ s \in Follows[tstate[t]]
  /\ i # 0 => /\ ~(tstate[t] = "prepared" /\ s = "ready")
              /\ tstate[t] = "ready" /\ s = "launching" => ini[i].state = "active"
  /\ UNCHANGED activating

LEMMA FollowsTypes ==
  /\ \A s \in TaskState \cup {"absent"} : Follows[s] \subseteq TaskState
  /\ \A s \in RuntimeSensitiveState : "unknown" \in Follows[s]
  BY DEF Follows, TaskState, RuntimeSensitiveState

LEMMA MemberStepsMove ==
  ASSUME TypeOK, NEW t \in Tasks,
         \/ CommitTaskStart(t) \/ ReportProgress(t)
         \/ \E p \in Profiles : CommitTaskReplace(t, p)
         \/ \E s \in MemberMoves : MoveTask(t, s)
  PROVE  \E s \in TaskState : MemberMove(t, s)
  <1>1. CASE CommitTaskStart(t)
    <2>1. MemberMove(t, "launching")
      BY <1>1 DEF CommitTaskStart, AuthorizeInitiativeTaskStart, MemberMove, TaskState, Follows, TypeOK
    <2>2. QED
      BY <2>1 DEF TaskState
  <1>2. CASE ReportProgress(t)
    <2>1. MemberMove(t, "working")
      BY <1>2 DEF ReportProgress, MemberMove, TaskState, TypeOK
    <2>2. QED
      BY <2>1 DEF TaskState
  <1>3. ASSUME NEW p \in Profiles, CommitTaskReplace(t, p)
        PROVE  \E s \in TaskState : MemberMove(t, s)
    <2>1. tstate[t] = "paused" /\ tprofile' = [tprofile EXCEPT ![t] = p] /\ UNCHANGED activating
      BY <1>3 DEF CommitTaskReplace
    <2>2. UpdateTaskState(t, "ready", tprofile')
      BY <1>3 DEF CommitTaskReplace
    <2>3. "ready" \in Follows["paused"] /\ "ready" \in TaskState
      BY DEF Follows, TaskState
    <2>4. MemberMove(t, "ready")
      BY <2>1, <2>2, <2>3 DEF MemberMove, TypeOK
    <2>5. QED
      BY <2>3, <2>4
  <1>4. ASSUME NEW s \in MemberMoves, MoveTask(t, s)
        PROVE  \E r \in TaskState : MemberMove(t, r)
    <2>1. s \in TaskState
      BY <1>4, FollowsTypes DEF MoveTask, TypeOK
    <2>2. MemberMove(t, s)
      BY <1>4, <2>1 DEF MoveTask, MemberMove, TypeOK
    <2>3. QED
      BY <2>1, <2>2
  <1>5. QED
    BY <1>1, <1>2, <1>3, <1>4

\* Where a member may go while its group is not joined, or when it is closed.
LEMMA RestingMoves ==
  /\ Follows["prepared"] = {"ready", "cancelled"}
  /\ Follows["cancelled"] = {"cleanup_held"}
  /\ Follows["delivered"] = {"cleanup_held"}
  /\ Follows["cleanup_held"] = {"cleaned"}
  /\ Follows["cleaned"] = {}
  /\ \A s \in TaskState : "launching" \in Follows[s] => s = "ready"
  /\ \A s \in TaskState : Follows[s] \cap {"working", "awaiting_decision"} # {} => s \in Working
  /\ \A s \in TaskState : "delivering" \notin Follows[s]
  BY DEF Follows, TaskState, Working

LEMMA MemberMoveKeeps ==
  ASSUME FleetInv, NEW t \in Tasks, NEW s \in TaskState, MemberMove(t, s)
  PROVE  FleetInv'
  <1>1. /\ tstate' = [tstate EXCEPT ![t] = s]
        /\ tstate' \in [Tasks -> TaskState \cup {"absent"}]
        /\ tstate[t] \in TaskState
        /\ tprofile' \in [Tasks -> Profiles \cup {"none"}]
        /\ \A u \in Tasks : u # t => tprofile'[u] = tprofile[u] /\ tstate'[u] = tstate[u]
        /\ UNCHANGED activating
    BY DEF MemberMove, UpdateTaskState, FleetInv, TypeOK
  <1>2. CASE InitiativeOf[t] = 0
    <2>1. UNCHANGED <<ini, facts>>
      BY <1>2 DEF MemberMove, UpdateTaskState
    <2>2. \A j \in Initiatives : \A u \in Members(j) : tstate'[u] = tstate[u] /\ tprofile'[u] = tprofile[u]
      BY <1>1, <1>2, MembersAre
    <2>3. LaunchFactsCurrent'
      BY <2>1, <2>2, UntouchedKeepsFacts DEF FleetInv
    <2>4. \A j \in Initiatives : RowOK(j, ini'[j], tstate')
      BY <2>1, <2>2, RowsOK, RowOKLocal DEF FleetInv
    <2>5. TypeOK' /\ ActivatingIsJoined'
      BY <1>1, <2>1 DEF FleetInv, TypeOK, ActivatingIsJoined
    <2>6. QED
      BY <2>3, <2>4, <2>5, RowsOKNext DEF FleetInv
  <1>3. CASE InitiativeOf[t] # 0
    <2> DEFINE i == InitiativeOf[t]
               d == DeriveInitiativeState(i, ini[i].state, tstate')
               row == [ini[i] EXCEPT !.state = d]
    <2>1. i \in Initiatives /\ t \in Members(i)
      BY <1>3, FleetAssumption DEF Members
    <2>2. ini[i] \in InitiativeRow /\ RowOK(i, ini[i], tstate)
      BY <2>1, RowsOK DEF FleetInv, TypeOK
    <2>3. /\ row \in InitiativeRow /\ row.state = d /\ row.joined = ini[i].joined
          /\ d \in InitiativeState
      BY <2>2, DeriveLeadsTo DEF InitiativeRow
    <2>4. UpdateInitiativeRecord(i, row, tstate', tprofile')
      BY <1>1, <1>3 DEF MemberMove, UpdateTaskState
    <2>5. ini[i].state # "absent"
      BY <2>1, <2>2 DEF RowOK, AppearOK, MemberMove
    <2>6. JoinOK(i, row, tstate')
      <3>1. SUFFICES ASSUME ~ini[i].joined
                     PROVE  /\ d \in {"absent", "preparing", "unknown", "cancelled"}
                            /\ \A u \in Members(i) :
                                 tstate'[u] \in {"absent", "prepared", "cancelled", "cleanup_held", "cleaned"}
        BY <2>3 DEF JoinOK
      <3>2. /\ ini[i].state \in {"preparing", "unknown", "cancelled"}
            /\ \A u \in Members(i) :
                 tstate[u] \in {"absent", "prepared", "cancelled", "cleanup_held", "cleaned"}
        BY <2>2, <2>5, <3>1 DEF RowOK, JoinOK
      <3>3. d = ini[i].state
        BY <3>2, DeriveLeadsTo DEF Closed
      <3>4. s \in {"cancelled", "cleanup_held", "cleaned", "prepared"}
        BY <1>3, <2>1, <3>2, RestingMoves DEF MemberMove
      <3>5. \A u \in Members(i) :
               tstate'[u] \in {"absent", "prepared", "cancelled", "cleanup_held", "cleaned"}
        BY <1>1, <2>1, <3>2, <3>4, MembersAre
      <3>6. QED
        BY <3>2, <3>3, <3>5
    <2>7. QuietOK(i, row, tstate')
      <3>1. CASE ini[i].state \in Closed
        <4>1. d = ini[i].state
          BY <3>1, DeriveLeadsTo
        <4>2. QuietOK(i, ini[i], tstate)
          BY <2>2 DEF RowOK
        <4>3. tstate[t] \notin Working
          BY <2>1, <3>1, <4>2 DEF QuietOK
        <4>4. s \notin Working
          BY <1>1, <1>3, <3>1, <4>3, RestingMoves DEF MemberMove, Working, Closed
        <4>5. ini[i].state = "cancelled" => s \in {"cancelled", "cleanup_held", "cleaned"}
          BY <2>1, <4>2, RestingMoves DEF QuietOK, MemberMove
        <4>6. ini[i].state = "delivered" => s \in {"delivered", "cleanup_held", "cleaned"}
          BY <2>1, <4>2, RestingMoves DEF QuietOK, MemberMove
        <4>7. QED
          BY <1>1, <2>3, <4>1, <4>2, <4>4, <4>5, <4>6, MembersAre, <2>1 DEF QuietOK
      <3>2. CASE ini[i].state \notin Closed
        BY <2>3, <3>2, DeriveLeadsTo DEF QuietOK
      <3>3. QED
        BY <3>1, <3>2
    <2>8. AppearOK(i, row, tstate')
      BY <2>3 DEF AppearOK, InitiativeState
    <2>9. activating' \subseteq activating \cup {i} /\ (i \in activating' => row.joined)
      BY <1>1, <2>3 DEF FleetInv, ActivatingIsJoined
    <2>10. \A u \in Tasks : InitiativeOf[u] # i => tstate'[u] = tstate[u] /\ tprofile'[u] = tprofile[u]
      BY <1>1
    <2> HIDE DEF row, d
    <2>11. QED
      BY <1>1, <2>1, <2>3, <2>4, <2>6, <2>7, <2>8, <2>9, <2>10, GroupUpdateKeeps DEF RowOK
  <1>4. QED
    BY <1>2, <1>3

-----------------------------------------------------------------------------
(* Groups.                                                                 *)

LEMMA PreparationKeeps ==
  ASSUME FleetInv, NEW i \in Initiatives, NEW profile \in [Members(i) -> Profiles],
         CommitPreparedInitiative(i, profile)
  PROVE  FleetInv'
  <1>1. /\ ini[i].state = "absent" /\ ini' = [ini EXCEPT ![i].state = "preparing"]
        /\ tstate' = [t \in Tasks |-> IF t \in Members(i) THEN "prepared" ELSE tstate[t]]
        /\ tprofile' = [t \in Tasks |-> IF t \in Members(i) THEN profile[t] ELSE tprofile[t]]
        /\ UNCHANGED <<facts, activating>>
    BY DEF CommitPreparedInitiative
  <1>2. ini[i] \in InitiativeRow /\ ini \in [Initiatives -> InitiativeRow]
    BY DEF FleetInv, TypeOK
  <1>3. /\ ini'[i] \in InitiativeRow /\ ini'[i].state = "preparing" /\ ini'[i].joined = ini[i].joined
        /\ \A j \in Initiatives : j # i => ini'[j] = ini[j]
    BY <1>1, <1>2 DEF InitiativeRow, InitiativeState
  <1>4. \A j \in Initiatives : j # i =>
          \A t \in Members(j) : tstate'[t] = tstate[t] /\ tprofile'[t] = tprofile[t]
    BY <1>1 DEF Members
  <1>5. TypeOK'
    <2>1. tstate' \in [Tasks -> TaskState \cup {"absent"}]
      BY <1>1 DEF FleetInv, TypeOK, TaskState
    <2>2. tprofile' \in [Tasks -> Profiles \cup {"none"}]
      BY <1>1 DEF FleetInv, TypeOK
    <2>3. ini' \in [Initiatives -> InitiativeRow]
      BY <1>1, <1>2, <1>3
    <2>4. QED
      BY <1>1, <2>1, <2>2, <2>3 DEF FleetInv, TypeOK
  <1>6. ActivatingIsJoined'
    BY <1>1, <1>3 DEF FleetInv, ActivatingIsJoined, TypeOK
  <1>7. LaunchFactsCurrent'
    BY <1>1, <1>3, <1>4, UntouchedKeepsFacts DEF FleetInv
  <1>8. \A t \in Members(i) : tstate'[t] = "prepared"
    BY <1>1 DEF Members
  <1>9. RowOK(i, ini'[i], tstate')
    BY <1>3, <1>8 DEF RowOK, AppearOK, JoinOK, QuietOK, Closed
  <1>10. \A j \in Initiatives : RowOK(j, ini'[j], tstate')
    <2>1. ASSUME NEW j \in Initiatives, j # i PROVE RowOK(j, ini'[j], tstate')
      <3>1. RowOK(j, ini[j], tstate)
        BY RowsOK DEF FleetInv
      <3>2. \A t \in Members(j) : tstate[t] = tstate'[t]
        BY <1>4, <2>1
      <3>3. QED
        BY <1>3, <2>1, <3>1, <3>2, RowOKLocal
    <2>2. QED
      BY <1>9, <2>1
  <1>11. QED
    BY <1>5, <1>6, <1>7, <1>10, RowsOKNext DEF FleetInv

\* The row an activation, a publication, an abandonment or a recovery writes.
LEMMA RowWritten ==
  ASSUME FleetInv, NEW i \in Initiatives, NEW state \in InitiativeState
  PROVE  LET row == [ini[i] EXCEPT !.state = state]
             bound == [ini[i] EXCEPT !.state = state, !.group = TRUE, !.joined = TRUE]
             given == [ini[i] EXCEPT !.state = state, !.group = TRUE, !.abandoned = TRUE]
         IN  /\ row \in InitiativeRow /\ row.state = state /\ row.joined = ini[i].joined
             /\ bound \in InitiativeRow /\ bound.state = state /\ bound.joined
             /\ given \in InitiativeRow /\ given.state = state /\ given.joined = ini[i].joined
  <1>1. ini[i] \in InitiativeRow
    BY DEF FleetInv, TypeOK
  <1>2. QED
    BY <1>1 DEF InitiativeRow

LEMMA ActivationKeeps ==
  ASSUME FleetInv, NEW i \in Initiatives, CommitInitiativeActivation(i)
  PROVE  FleetInv'
  <1> DEFINE row == [ini[i] EXCEPT !.state = "unknown", !.group = TRUE, !.joined = TRUE]
  <1>1. /\ tstate' = [t \in Tasks |-> IF t \in Members(i) THEN "ready" ELSE tstate[t]]
        /\ UpdateInitiativeRecord(i, row, tstate', tprofile')
        /\ activating' = activating \cup {i} /\ UNCHANGED tprofile
    BY DEF CommitInitiativeActivation
  <1>2. row \in InitiativeRow /\ row.state = "unknown" /\ row.joined
    BY RowWritten DEF InitiativeState
  <1>3. tstate' \in [Tasks -> TaskState \cup {"absent"}] /\ tprofile' \in [Tasks -> Profiles \cup {"none"}]
    BY <1>1 DEF FleetInv, TypeOK, TaskState
  <1>4. RowOK(i, row, tstate')
    BY <1>2 DEF RowOK, AppearOK, JoinOK, QuietOK, Closed
  <1> HIDE DEF row
  <1>5. QED
    BY <1>1, <1>2, <1>3, <1>4, GroupUpdateKeeps DEF Members

LEMMA PublicationKeeps ==
  ASSUME FleetInv, NEW i \in Initiatives, NEW partial \in BOOLEAN,
         SetInitiativeActivationState(i, partial)
  PROVE  FleetInv'
  <1>1. /\ i \in activating /\ activating' = activating \ {i} /\ UNCHANGED <<tstate, tprofile>>
        /\ ini[i].joined /\ RowOK(i, ini[i], tstate)
    BY RowsOK DEF SetInitiativeActivationState, FleetInv, ActivatingIsJoined
  <1>2. CASE UNCHANGED <<ini, facts>>
    BY <1>1, <1>2 DEF FleetInv, TypeOK, AppearTogether, ActivatingIsJoined, GroupJoinsAsAWhole,
                      LaunchFactsCurrent, ClosedInitiativeIsQuiet
  <1>3. CASE UpdateInitiativeRecord(i, [ini[i] EXCEPT !.state = "active"], tstate, tprofile)
    <2> DEFINE row == [ini[i] EXCEPT !.state = "active"]
    <2>1. row \in InitiativeRow /\ row.state = "active" /\ row.joined = ini[i].joined
      BY RowWritten DEF InitiativeState
    <2>2. RowOK(i, row, tstate')
      BY <1>1, <2>1 DEF RowOK, AppearOK, JoinOK, QuietOK, Closed
    <2>3. UpdateInitiativeRecord(i, row, tstate', tprofile')
      BY <1>1, <1>3
    <2> HIDE DEF row
    <2>4. QED
      BY <1>1, <2>1, <2>2, <2>3, GroupUpdateKeeps DEF FleetInv, TypeOK
  <1>4. QED
    BY <1>2, <1>3 DEF SetInitiativeActivationState

LEMMA AbandonmentKeeps ==
  ASSUME FleetInv, NEW i \in Initiatives, NEW reapSafe \in BOOLEAN,
         CommitInitiativeAbandonment(i, reapSafe)
  PROVE  FleetInv'
  <1> DEFINE partial == \E t \in Members(i) : tstate[t] = "unknown"
             state == IF partial \/ ~reapSafe THEN "unknown" ELSE "cancelled"
             row == [ini[i] EXCEPT !.state = state, !.group = TRUE, !.abandoned = TRUE]
  <1>1. /\ \A t \in Members(i) : tstate[t] \in {"prepared", "ready", "unknown"}
        /\ tstate' = [t \in Tasks |-> IF t \in Members(i) THEN AbandonedMember(tstate[t], reapSafe)
                                                          ELSE tstate[t]]
        /\ UpdateInitiativeRecord(i, row, tstate', tprofile')
        /\ UNCHANGED <<tprofile, activating>>
    BY DEF CommitInitiativeAbandonment
  <1>2. state \in {"unknown", "cancelled"}
    OBVIOUS
  <1> HIDE DEF state
  <1>3. row \in InitiativeRow /\ row.state = state /\ row.joined = ini[i].joined
    <2>1. state \in InitiativeState
      BY <1>2 DEF InitiativeState
    <2>2. QED
      BY <2>1, RowWritten
  <1>4. \A t \in Members(i) :
          /\ tstate'[t] \in {"prepared", "cancelled", "unknown"}
          /\ tstate[t] \in {"prepared", "ready"} /\ reapSafe => tstate'[t] = "cancelled"
          /\ tstate[t] = "prepared" => tstate'[t] \in {"prepared", "cancelled"}
    BY <1>1 DEF AbandonedMember, Members
  <1>5. tstate' \in [Tasks -> TaskState \cup {"absent"}] /\ tprofile' \in [Tasks -> Profiles \cup {"none"}]
    <2>1. \A t \in Tasks : tstate'[t] \in TaskState \cup {"absent"}
      BY <1>1, <1>4 DEF FleetInv, TypeOK, TaskState
    <2>2. QED
      BY <1>1, <2>1 DEF FleetInv, TypeOK
  <1>6. RowOK(i, ini[i], tstate)
    BY RowsOK DEF FleetInv
  <1>7. AppearOK(i, row, tstate')
    BY <1>2, <1>3 DEF AppearOK
  <1>8. JoinOK(i, row, tstate')
    BY <1>1, <1>2, <1>3, <1>4, <1>6 DEF RowOK, JoinOK
  <1>9. QuietOK(i, row, tstate')
    <2>1. state = "cancelled" => \A t \in Members(i) : tstate'[t] = "cancelled"
      BY <1>1, <1>4 DEF state
    <2>2. QED
      BY <1>2, <1>3, <2>1 DEF QuietOK, Closed, Working
  <1>10. activating' \subseteq activating \cup {i} /\ (i \in activating' => row.joined)
    BY <1>1, <1>3 DEF FleetInv, ActivatingIsJoined
  <1> HIDE DEF row
  <1>11. QED
    BY <1>1, <1>3, <1>5, <1>7, <1>8, <1>9, <1>10, GroupUpdateKeeps DEF RowOK, Members

LEMMA RecoveryKeeps ==
  ASSUME FleetInv, NEW i \in Initiatives, CommitInitiativeHostRecovery(i)
  PROVE  FleetInv'
  <1> DEFINE recovered == DeriveInitiativeState(i, "active", tstate)
             row == [ini[i] EXCEPT !.state = recovered]
  <1>1. /\ ini[i].joined
        /\ UpdateInitiativeRecord(i, row, tstate', tprofile')
        /\ UNCHANGED <<tstate, tprofile, activating>>
    BY DEF CommitInitiativeHostRecovery
  <1>2. recovered \in InitiativeState
    BY DeriveLeadsTo
  <1>3. row \in InitiativeRow /\ row.state = recovered /\ row.joined = ini[i].joined
    BY <1>2, RowWritten
  <1>4. QuietOK(i, row, tstate')
    BY <1>1, <1>3, DeriveLeadsTo DEF QuietOK, Closed
  <1>5. AppearOK(i, row, tstate') /\ JoinOK(i, row, tstate')
    BY <1>1, <1>2, <1>3 DEF AppearOK, JoinOK, InitiativeState
  <1> HIDE DEF row
  <1>6. QED
    BY <1>1, <1>3, <1>4, <1>5, GroupUpdateKeeps DEF RowOK, FleetInv, TypeOK

LEMMA StandaloneKeeps ==
  ASSUME FleetInv, NEW t \in Tasks, NEW p \in Profiles, CommitPreparedTask(t, p)
  PROVE  FleetInv'
  <1>1. /\ InitiativeOf[t] = 0
        /\ tstate' = [tstate EXCEPT ![t] = "prepared"] /\ tprofile' = [tprofile EXCEPT ![t] = p]
        /\ UNCHANGED <<ini, facts, activating>>
    BY DEF CommitPreparedTask
  <1>2. \A j \in Initiatives : \A u \in Members(j) : tstate'[u] = tstate[u] /\ tprofile'[u] = tprofile[u]
    BY <1>1, MembersAre DEF FleetInv, TypeOK
  <1>3. TypeOK' /\ ActivatingIsJoined'
    <2>1. tstate' \in [Tasks -> TaskState \cup {"absent"}]
      BY <1>1 DEF FleetInv, TypeOK, TaskState
    <2>2. tprofile' \in [Tasks -> Profiles \cup {"none"}]
      BY <1>1 DEF FleetInv, TypeOK
    <2>3. QED
      BY <1>1, <2>1, <2>2 DEF FleetInv, TypeOK, ActivatingIsJoined
  <1>4. LaunchFactsCurrent'
    BY <1>1, <1>2, UntouchedKeepsFacts DEF FleetInv
  <1>5. \A j \in Initiatives : RowOK(j, ini'[j], tstate')
    BY <1>1, <1>2, RowsOK, RowOKLocal DEF FleetInv
  <1>6. QED
    BY <1>3, <1>4, <1>5, RowsOKNext DEF FleetInv

\* After a restart no initiative is active, so no facts are owed to anybody.
LEMMA ReconciliationKeeps ==
  ASSUME FleetInv, NEW resumable \in SUBSET Tasks, ReconcileStartup(resumable)
  PROVE  FleetInv'
  <1>1. \A t \in Tasks :
          tstate'[t] = tstate[t] \/ (tstate'[t] = "unknown" /\ tstate[t] \in RuntimeSensitiveState)
    BY DEF ReconcileStartup
  <1>2. \A i \in Initiatives :
          ini'[i] = IF ini[i].state \in Closed \cup {"absent"} THEN ini[i]
                    ELSE [ini[i] EXCEPT !.state = "unknown"]
    BY DEF ReconcileStartup
  <1>3. facts' \subseteq facts /\ activating' = {} /\ UNCHANGED tprofile
    BY DEF ReconcileStartup
  <1>4. \A i \in Initiatives :
          /\ ini'[i] \in InitiativeRow /\ ini'[i].joined = ini[i].joined
          /\ ini[i].state \in Closed \cup {"absent"} => ini'[i].state = ini[i].state
          /\ ini[i].state \notin Closed \cup {"absent"} => ini'[i].state = "unknown"
    <2>1. \A i \in Initiatives : ini[i] \in InitiativeRow
      BY DEF FleetInv, TypeOK
    <2>2. ASSUME NEW i \in Initiatives
          PROVE  LET row == [ini[i] EXCEPT !.state = "unknown"]
                 IN  row \in InitiativeRow /\ row.joined = ini[i].joined /\ row.state = "unknown"
      BY <2>1 DEF InitiativeRow, InitiativeState
    <2>3. QED
      BY <1>2, <2>1, <2>2
  <1>5. TypeOK'
    <2>1. tstate' \in [Tasks -> TaskState \cup {"absent"}]
      BY <1>1 DEF ReconcileStartup, FleetInv, TypeOK, TaskState
    <2>2. ini' \in [Initiatives -> InitiativeRow]
      BY <1>4 DEF ReconcileStartup
    <2>3. QED
      BY <1>3, <2>1, <2>2 DEF FleetInv, TypeOK
  <1>6. LaunchFactsCurrent' /\ ActivatingIsJoined'
    BY <1>3, <1>4 DEF LaunchFactsCurrent, ActivatingIsJoined, Closed
  <1>7. ASSUME NEW i \in Initiatives PROVE RowOK(i, ini'[i], tstate')
    <2>1. RowOK(i, ini[i], tstate)
      BY RowsOK DEF FleetInv
    <2>2. \A t \in Members(i) :
            tstate'[t] = tstate[t] \/ (tstate'[t] = "unknown" /\ tstate[t] \in RuntimeSensitiveState)
      BY <1>1, MembersAre
    <2>3. QED
      BY <1>4, <2>1, <2>2
      DEF RowOK, AppearOK, JoinOK, QuietOK, Closed, Working, RuntimeSensitiveState
  <1>8. QED
    BY <1>5, <1>6, <1>7, RowsOKNext DEF FleetInv

-----------------------------------------------------------------------------
(* The theorems.                                                           *)

LEMMA InitFleet == Init => FleetInv
  <1> SUFFICES ASSUME Init PROVE FleetInv
    OBVIOUS
  <1>1. TypeOK
    BY DEF Init, TypeOK, InitiativeRow
  <1>2. \A i \in Initiatives : RowOK(i, ini[i], tstate)
    BY DEF Init, RowOK, AppearOK, JoinOK, QuietOK, Closed, Members
  <1>3. LaunchFactsCurrent /\ ActivatingIsJoined
    BY DEF Init, LaunchFactsCurrent, ActivatingIsJoined
  <1>4. QED
    BY <1>1, <1>2, <1>3, RowsOK DEF FleetInv

LEMMA NextFleet ==
  ASSUME FleetInv, [Next]_vars
  PROVE  FleetInv'
  <1>1. ASSUME NEW i \in Initiatives, GroupStep(i) PROVE FleetInv'
    <2>1. CASE ReplayInitiativeActivation(i)
      BY <2>1 DEF ReplayInitiativeActivation, FleetInv, TypeOK, AppearTogether, ActivatingIsJoined,
                  GroupJoinsAsAWhole, LaunchFactsCurrent, ClosedInitiativeIsQuiet
    <2>2. QED
      BY <1>1, <2>1, PreparationKeeps, ActivationKeeps, PublicationKeeps, AbandonmentKeeps,
         RecoveryKeeps DEF GroupStep
  <1>2. ASSUME NEW t \in Tasks, TaskStep(t) PROVE FleetInv'
    <2>1. CASE \E p \in Profiles : CommitPreparedTask(t, p)
      BY <2>1, StandaloneKeeps
    <2>2. CASE \/ CommitTaskStart(t) \/ ReportProgress(t)
               \/ \E p \in Profiles : CommitTaskReplace(t, p)
               \/ \E s \in MemberMoves : MoveTask(t, s)
      <3>1. TypeOK
        BY DEF FleetInv
      <3>2. PICK s \in TaskState : MemberMove(t, s)
        BY <2>2, <3>1, MemberStepsMove
      <3>3. QED
        BY <3>2, MemberMoveKeeps
    <2>3. QED
      BY <1>2, <2>1, <2>2 DEF TaskStep
  <1>3. ASSUME NEW resumable \in SUBSET Tasks, ReconcileStartup(resumable) PROVE FleetInv'
    BY <1>3, ReconciliationKeeps
  <1>4. CASE UNCHANGED vars
    BY <1>4 DEF vars, FleetInv, TypeOK, AppearTogether, ActivatingIsJoined, GroupJoinsAsAWhole,
                LaunchFactsCurrent, ClosedInitiativeIsQuiet
  <1>5. QED
    BY <1>1, <1>2, <1>3, <1>4 DEF Next

\* The inductive invariant of the initiatives: types, the appearance of a group
\* at one version, publication only of bound groups, and the three properties
\* below, which are inductive together (initiative_activation.go, updateTaskState).
THEOREM FleetInductive == Spec => []FleetInv
  <1>1. QED
    BY InitFleet, NextFleet, PTL DEF Spec

\* The tables keep their types (initiatives, tasks and launch facts).
THEOREM FleetTypes == Spec => []TypeOK
  <1>1. FleetInv => TypeOK
    BY DEF FleetInv
  <1>2. QED
    BY <1>1, FleetInductive, PTL

\* While a group is not joined none of its members is more than prepared
\* (commitInitiativeActivation and every other writer of a member).
THEOREM GroupsJoinAsAWhole == Spec => []GroupJoinsAsAWhole
  <1>1. FleetInv => GroupJoinsAsAWhole
    BY DEF FleetInv
  <1>2. QED
    BY <1>1, FleetInductive, PTL

\* The incrementally rewritten launch facts are those a recomputation gives
\* (replaceInitiativeLaunchFacts behind every writer).
THEOREM LaunchFactsStayCurrent == Spec => []LaunchFactsCurrent
  <1>1. FleetInv => LaunchFactsCurrent
    BY DEF FleetInv
  <1>2. QED
    BY <1>1, FleetInductive, PTL

\* An initiative closes only over resting members, and no later write of the
\* group or of a member reopens it (deriveInitiativeState, reconciliation).
THEOREM ClosingIsFinalTheorem == Spec => ClosingIsFinal
  <1> DEFINE Stays == \A i \in Initiatives : ini[i].state \in Closed => ini'[i].state = ini[i].state
  <1>1. FleetInv => ClosedInitiativeIsQuiet
    BY DEF FleetInv
  <1>2. ASSUME FleetInv, [Next]_vars PROVE [Stays]_vars
    <2>1. ASSUME NEW i \in Initiatives, ini[i].state \in Closed, Next
          PROVE  ini'[i].state = ini[i].state
      <3>1. \A j \in Initiatives : ini[j] \in InitiativeRow
        BY <1>2 DEF FleetInv, TypeOK
      <3>2. ASSUME NEW j \in Initiatives, GroupStep(j) PROVE ini'[i].state = ini[i].state
        <4>1. CASE UNCHANGED ini
          BY <4>1
        <4>2. CASE ini[j].state \notin Closed /\ \E row : ini' = [ini EXCEPT ![j] = row]
          BY <2>1, <4>2
        <4>3. QED
          BY <3>2, <4>1, <4>2
          DEF GroupStep, CommitPreparedInitiative, CommitInitiativeActivation, Closed,
              ReplayInitiativeActivation, SetInitiativeActivationState,
              CommitInitiativeAbandonment, CommitInitiativeHostRecovery, UpdateInitiativeRecord
      <3>3. ASSUME NEW t \in Tasks, TaskStep(t) PROVE ini'[i].state = ini[i].state
        <4>1. CASE \E p \in Profiles : CommitPreparedTask(t, p)
          BY <4>1 DEF CommitPreparedTask
        <4>2. ASSUME NEW s \in TaskState, MemberMove(t, s) PROVE ini'[i].state = ini[i].state
          <5> DEFINE g == InitiativeOf[t]
                     d == DeriveInitiativeState(g, ini[g].state, [tstate EXCEPT ![t] = s])
          <5>1. CASE UNCHANGED ini
            BY <5>1
          <5>2. CASE g = i /\ ini' = [ini EXCEPT ![g] = [ini[g] EXCEPT !.state = d]]
            <6>1. d = ini[i].state
              BY <2>1, <5>2, DeriveLeadsTo
            <6>2. QED
              BY <3>1, <5>2, <6>1 DEF InitiativeRow
          <5>3. CASE g # i /\ ini' = [ini EXCEPT ![g] = [ini[g] EXCEPT !.state = d]]
            BY <5>3
          <5>4. QED
            BY <4>2, <5>1, <5>2, <5>3 DEF MemberMove, UpdateTaskState, UpdateInitiativeRecord
        <4>3. TypeOK
          BY <1>2 DEF FleetInv
        <4>4. QED
          BY <3>3, <4>1, <4>2, <4>3, MemberStepsMove DEF TaskStep
      <3>4. ASSUME NEW resumable \in SUBSET Tasks, ReconcileStartup(resumable)
            PROVE  ini'[i].state = ini[i].state
        BY <2>1, <3>4 DEF ReconcileStartup
      <3>5. QED
        BY <2>1, <3>2, <3>3, <3>4 DEF Next
    <2>2. QED
      BY <1>2, <2>1
  <1>3. QED
    BY <1>1, <1>2, FleetInductive, PTL
    DEF Spec, ClosingIsFinal, ClosedInitiativeStaysClosed

-----------------------------------------------------------------------------
(* The refinement of TaskMachine.                                          *)

Moved(t) == tstate'[t] = tstate[t] \/ tstate'[t] \in Follows[tstate[t]]

LEMMA FleetFollows ==
  ASSUME FleetInv, Next
  PROVE  \A t \in Tasks : Moved(t)
  <1> SUFFICES ASSUME NEW t \in Tasks PROVE Moved(t)
    OBVIOUS
  <1>1. ASSUME NEW i \in Initiatives, GroupStep(i) PROVE Moved(t)
    <2>1. CASE \E profile \in [Members(i) -> Profiles] : CommitPreparedInitiative(i, profile)
      <3>1. t \in Members(i) => tstate[t] = "absent"
        BY <2>1 DEF CommitPreparedInitiative, FleetInv, AppearTogether
      <3>2. QED
        BY <2>1, <3>1 DEF CommitPreparedInitiative, Moved, Follows
    <2>2. CASE CommitInitiativeActivation(i)
      BY <2>2 DEF CommitInitiativeActivation, Moved, Follows
    <2>3. CASE \E reapSafe \in BOOLEAN : CommitInitiativeAbandonment(i, reapSafe)
      BY <2>3 DEF CommitInitiativeAbandonment, AbandonedMember, Moved, Follows
    <2>4. CASE UNCHANGED tstate
      BY <2>4 DEF Moved
    <2>5. QED
      BY <1>1, <2>1, <2>2, <2>3, <2>4 DEF GroupStep, ReplayInitiativeActivation,
         SetInitiativeActivationState, CommitInitiativeHostRecovery
  <1>2. ASSUME NEW u \in Tasks, TaskStep(u) PROVE Moved(t)
    <2>1. CASE \E p \in Profiles : CommitPreparedTask(u, p)
      BY <2>1 DEF CommitPreparedTask, Moved, Follows, FleetInv, TypeOK
    <2>2. ASSUME NEW s \in TaskState, MemberMove(u, s) PROVE Moved(t)
      BY <2>2 DEF MemberMove, UpdateTaskState, Moved, FleetInv, TypeOK
    <2>3. TypeOK
      BY DEF FleetInv
    <2>4. QED
      BY <1>2, <2>1, <2>2, <2>3, MemberStepsMove DEF TaskStep
  <1>3. ASSUME NEW resumable \in SUBSET Tasks, ReconcileStartup(resumable) PROVE Moved(t)
    BY <1>3, FollowsTypes DEF ReconcileStartup, Moved
  <1>4. QED
    BY <1>1, <1>2, <1>3 DEF Next

\* Whatever the group does to several members at once, each of them lives the
\* life of TaskMachine (preparation, activation, abandonment and restart).
THEOREM FleetImplementsTaskMachine == Spec => ImplementsTaskMachine
  <1>1. Init => Machine!Init
    BY DEF Init, Machine!Init
  <1>2. ASSUME FleetInv, FleetInv', [Next]_vars PROVE [Machine!Next]_tstate
    <2>1. CASE Next
      <3>1. tstate' \in [Tasks -> TaskState \cup {"absent"}]
        BY <1>2 DEF FleetInv, TypeOK
      <3>2. QED
        BY <1>2, <2>1, <3>1, FleetFollows
        DEF Machine!Next, Moved, Machine!TaskState, Machine!Follows, TaskState, Follows
    <2>2. CASE UNCHANGED vars
      BY <2>2 DEF vars
    <2>3. QED
      BY <1>2, <2>1, <2>2
  <1>3. QED
    BY <1>1, <1>2, FleetInductive, PTL DEF Spec, ImplementsTaskMachine, Machine!Spec
=============================================================================
