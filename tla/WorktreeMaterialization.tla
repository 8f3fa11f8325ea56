---------------------- MODULE WorktreeMaterialization ----------------------
(***************************************************************************)
(* Publishing a proved integration result into a live worktree, one file   *)
(* at a time (internal/git/integration_worktree_materialize.go and         *)
(* integration_worktree_inplace.go).  The service process may be killed    *)
(* between any two file operations and is asked again later; a developer   *)
(* may save a file of the same worktree at any moment.                     *)
(*                                                                         *)
(* Changed paths are numbered in the order the code publishes them.        *)
(* Contents are told apart only as far as the code compares them with the  *)
(* expected and the resulting tree.                                        *)
(***************************************************************************)
EXTENDS Naturals

CONSTANTS N,           \* number of changed paths
          Change,      \* what the result does to each: see ChangeKinds
          MaxEdits,    \* bound on developer saves
          MaxCrashes   \* bound on process deaths

ChangeKinds == {"added", "rewritten", "removed"}

ASSUME MaterializationConstants ==
  /\ N \in Nat \ {0}
  /\ Change \in [1..N -> ChangeKinds]
  /\ MaxEdits \in Nat
  /\ MaxCrashes \in Nat

VARIABLES
  target,     \* the content of each path in the worktree
  evidence,   \* the files kept for each path in the recovery directory
  recovery,   \* does the recovery directory exist
  pc,         \* where the process is; "idle" when no call is running
  at,         \* the path the running call is at
  completed,  \* has a call returned success
  proven,     \* has a call compared the whole worktree with the result
  edits, crashes,
  raced,      \* paths a developer saved between a last check and the write
  lost,       \* paths whose developer content exists nowhere any more
  stuck       \* a process died where no later call goes on: inside a rewrite,
              \*   having dropped the evidence of one, or with an addition linked

worktree == <<target, evidence, recovery, pc, at, completed, proven,
          edits, crashes, raced, lost, stuck>>

Path == 1..N
Content == {"absent", "previous", "result", "partial", "edit"}
WorktreePhases == {"idle", "stage", "publish", "mark", "capture", "recheck", "truncate",
           "rewrite", "recheckRemoval", "remove", "link", "unlink", "verify", "retire", "return"}
NoEvidence == [stage |-> "absent", capture |-> "absent",
               publication |-> "absent", inplace |-> "absent"]
RecoveryEvidence == [stage : {"absent", "result"}, capture : {"absent", "previous", "edit"},
             publication : {"absent", "result"}, inplace : {"absent", "previous"}]

Expected(p) == IF Change[p] = "added" THEN "absent" ELSE "previous"
Resulting(p) == IF Change[p] = "removed" THEN "absent" ELSE "result"

WorktreeMatches(snapshot) == \A p \in Path : target[p] = snapshot[p]

----------------------------------------------------------------------------
(* The end of a call: with an error, or on to the next path. *)

Refuse == pc' = "idle" /\ UNCHANGED at

NextEntry ==
  IF at = N THEN pc' = "verify" /\ at' = 1
            ELSE pc' = "publish" /\ at' = at + 1

Destroyed(p) == IF target[p] = "edit" THEN {p} ELSE {}

----------------------------------------------------------------------------
WorktreeInit ==
  /\ target = [p \in Path |-> Expected(p)]
  /\ evidence = [p \in Path |-> NoEvidence]
  /\ recovery = FALSE
  /\ pc = "idle" /\ at = 1
  /\ completed = FALSE /\ proven = FALSE /\ stuck = FALSE
  /\ edits = 0 /\ crashes = 0
  /\ raced = {} /\ lost = {}

\* Faulty variant: a call never resumes an existing recovery directory
BeginAnew ==
  /\ pc = "idle" /\ ~completed
  /\ ~recovery /\ WorktreeMatches([p \in Path |-> Expected(p)])
  /\ recovery' = TRUE
  /\ pc' = "stage" /\ at' = 1
  /\ UNCHANGED <<target, evidence, completed, proven, edits, crashes, raced, lost, stuck>>

\* A call opens the recovery directory, or creates it over a worktree that
\* still is the expected tree.
Begin ==
  /\ pc = "idle" /\ ~completed
  /\ recovery \/ WorktreeMatches([p \in Path |-> Expected(p)])
  /\ recovery' = TRUE
  /\ pc' = "stage" /\ at' = 1
  /\ UNCHANGED <<target, evidence, completed, proven, edits, crashes, raced, lost, stuck>>

\* The caller finds the finished result and no recovery directory.
FindCompleted ==
  /\ pc = "idle" /\ ~completed
  /\ ~recovery /\ WorktreeMatches([p \in Path |-> Resulting(p)])
  /\ completed' = TRUE
  /\ UNCHANGED <<target, evidence, recovery, pc, at, proven, edits, crashes, raced, lost, stuck>>

StageEntry ==
  /\ pc = "stage"
  /\ evidence' = IF Resulting(at) = "absent" THEN evidence
                 ELSE [evidence EXCEPT ![at].stage = "result"]
  /\ IF at = N THEN pc' = "publish" /\ at' = 1
               ELSE pc' = "stage" /\ at' = at + 1
  /\ UNCHANGED <<target, recovery, completed, proven, edits, crashes, raced, lost, stuck>>

----------------------------------------------------------------------------
(* An entry both trees have: rewritten through its existing file. *)

InPlaceEvidenceUsable(e) ==
  /\ e.capture \in {"absent", "previous"}
  /\ e.capture = "absent" \/ e.inplace # "absent"

CheckRewritten ==
  /\ pc = "publish" /\ Change[at] = "rewritten"
  /\ LET e == evidence[at]
     IN \/ /\ ~InPlaceEvidenceUsable(e) \/ target[at] \notin {"previous", "result"}
           /\ Refuse
        \/ /\ InPlaceEvidenceUsable(e) /\ target[at] = "result"
           /\ IF e.capture = "absent" \/ e.inplace = "absent" THEN Refuse ELSE NextEntry
        \/ /\ InPlaceEvidenceUsable(e) /\ target[at] = "previous"
           /\ pc' = "mark" /\ UNCHANGED at
  /\ UNCHANGED <<target, evidence, recovery, completed, proven, edits, crashes, raced, lost, stuck>>

MarkInPlace ==
  /\ pc = "mark"
  /\ IF target[at] = "previous"
       THEN /\ evidence' = [evidence EXCEPT ![at].inplace = "previous"]
            /\ pc' = "capture" /\ UNCHANGED at
       ELSE Refuse /\ UNCHANGED evidence
  /\ UNCHANGED <<target, recovery, completed, proven, edits, crashes, raced, lost, stuck>>

CapturePrevious ==
  /\ pc = "capture"
  /\ evidence' = [evidence EXCEPT ![at].capture = "previous"]
  /\ pc' = "recheck"
  /\ UNCHANGED <<target, recovery, at, completed, proven, edits, crashes, raced, lost, stuck>>

\* Faulty variant: the target is not compared again before it is truncated
RecheckSkipped ==
  /\ pc = "recheck" /\ pc' = "truncate"
  /\ UNCHANGED <<target, evidence, recovery, at, completed, proven, edits, crashes, raced, lost, stuck>>

RecheckTarget ==
  /\ pc = "recheck"
  /\ IF target[at] = "previous" THEN pc' = "truncate" /\ UNCHANGED at ELSE Refuse
  /\ UNCHANGED <<target, evidence, recovery, completed, proven, edits, crashes, raced, lost, stuck>>

TruncateTarget ==
  /\ pc = "truncate"
  /\ target' = [target EXCEPT ![at] = "partial"]
  /\ lost' = lost \cup Destroyed(at)
  /\ pc' = "rewrite"
  /\ UNCHANGED <<evidence, recovery, at, completed, proven, edits, crashes, raced, stuck>>

\* The bytes go to the open file.  A developer who saved into that same file
\* is overwritten, one who replaced it is not; both are then seen as a
\* mismatch.
RewriteTarget ==
  /\ pc = "rewrite"
  /\ \/ /\ target[at] = "partial"
        /\ target' = [target EXCEPT ![at] = "result"]
        /\ NextEntry
        /\ UNCHANGED lost
     \/ /\ target[at] # "partial"
        /\ \/ target' = [target EXCEPT ![at] = "partial"] /\ lost' = lost \cup Destroyed(at)
           \/ UNCHANGED <<target, lost>>
        /\ Refuse
  /\ UNCHANGED <<evidence, recovery, completed, proven, edits, crashes, raced, stuck>>

----------------------------------------------------------------------------
(* An entry the result removes: renamed into the recovery directory. *)

CheckRemoved ==
  /\ pc = "publish" /\ Change[at] = "removed"
  /\ LET captured == evidence[at].capture
     IN \/ /\ captured = "edit"
           /\ target' = IF target[at] = "absent" THEN [target EXCEPT ![at] = captured] ELSE target
           /\ Refuse
        \/ /\ captured = "previous" /\ NextEntry /\ UNCHANGED target
        \/ /\ captured = "absent" /\ UNCHANGED target
           /\ \/ target[at] = "absent" /\ NextEntry
              \/ target[at] = "previous" /\ pc' = "recheckRemoval" /\ UNCHANGED at
              \/ target[at] \notin {"absent", "previous"} /\ Refuse
  /\ UNCHANGED <<evidence, recovery, completed, proven, edits, crashes, raced, lost, stuck>>

RecheckRemoval ==
  /\ pc = "recheckRemoval"
  /\ IF target[at] = "previous" THEN pc' = "remove" /\ UNCHANGED at ELSE Refuse
  /\ UNCHANGED <<target, evidence, recovery, completed, proven, edits, crashes, raced, lost, stuck>>

CaptureByRename ==
  /\ pc = "remove"
  /\ evidence' = [evidence EXCEPT ![at].capture = target[at]]
  /\ target' = [target EXCEPT ![at] = "absent"]
  /\ NextEntry
  /\ UNCHANGED <<recovery, completed, proven, edits, crashes, raced, lost, stuck>>

----------------------------------------------------------------------------
(* An entry the result adds: linked, so that an occupied name refuses.  The *)
(* check asks for an earlier entry that an addition has not, so a name that *)
(* exists refuses whatever it holds, the result itself included.            *)

CheckAdded ==
  /\ pc = "publish" /\ Change[at] = "added"
  /\ \/ target[at] # "absent" /\ Refuse /\ UNCHANGED evidence
     \/ /\ target[at] = "absent"
        /\ evidence' = [evidence EXCEPT ![at].publication = "result"]
        /\ pc' = "link" /\ UNCHANGED at
  /\ UNCHANGED <<target, recovery, completed, proven, edits, crashes, raced, lost, stuck>>

LinkAddition ==
  /\ pc = "link"
  /\ IF target[at] = "absent"
       THEN /\ target' = [target EXCEPT ![at] = "result"]
            /\ pc' = "unlink" /\ UNCHANGED at
       ELSE Refuse /\ UNCHANGED target
  /\ UNCHANGED <<evidence, recovery, completed, proven, edits, crashes, raced, lost, stuck>>

RetirePublication ==
  /\ pc = "unlink"
  /\ evidence' = [evidence EXCEPT ![at].publication = "absent"]
  /\ NextEntry
  /\ UNCHANGED <<target, recovery, completed, proven, edits, crashes, raced, lost, stuck>>

----------------------------------------------------------------------------
(* The whole worktree is compared with the result, then the evidence goes. *)

VerifyResult ==
  /\ pc = "verify"
  /\ IF WorktreeMatches([p \in Path |-> Resulting(p)])
       THEN pc' = "retire" /\ at' = 1 /\ proven' = TRUE
       ELSE Refuse /\ UNCHANGED proven
  /\ UNCHANGED <<target, evidence, recovery, completed, edits, crashes, raced, lost, stuck>>

\* What is kept for a path without the file that is removed next.
NextRetired(e) ==
  IF e.stage # "absent" THEN [e EXCEPT !.stage = "absent"]
  ELSE IF e.capture # "absent" THEN [e EXCEPT !.capture = "absent"]
  ELSE IF e.publication # "absent" THEN [e EXCEPT !.publication = "absent"]
  ELSE [e EXCEPT !.inplace = "absent"]

RetireEvidence ==
  /\ pc = "retire" /\ at <= N
  /\ evidence' = [evidence EXCEPT ![at] = NextRetired(@)]
  /\ lost' = IF evidence[at].capture = "edit" /\ evidence'[at].capture = "absent" /\ target[at] # "edit"
             THEN lost \cup {at} ELSE lost
  /\ at' = IF evidence'[at] = NoEvidence THEN at + 1 ELSE at
  /\ UNCHANGED <<target, recovery, pc, completed, proven, edits, crashes, raced, stuck>>

RemoveRecovery ==
  /\ pc = "retire" /\ at > N
  /\ recovery' = FALSE
  /\ pc' = "return" /\ at' = 1
  /\ UNCHANGED <<target, evidence, completed, proven, edits, crashes, raced, lost, stuck>>

ReturnSuccess ==
  /\ pc = "return"
  /\ completed' = TRUE /\ pc' = "idle"
  /\ UNCHANGED <<target, evidence, recovery, at, proven, edits, crashes, raced, lost, stuck>>

----------------------------------------------------------------------------
(* The environment: a developer's editor and the end of the process. *)

UncheckedWrite(p) == at = p /\ pc \in {"truncate", "rewrite", "remove"}

DeveloperSaves(p) ==
  /\ edits < MaxEdits /\ ~completed
  /\ target' = [target EXCEPT ![p] = "edit"]
  /\ edits' = edits + 1
  /\ raced' = IF UncheckedWrite(p) THEN raced \cup {p} ELSE raced
  /\ UNCHANGED <<evidence, recovery, pc, at, completed, proven, crashes, lost, stuck>>

\* Every resume meets the rewritten path without its evidence, or the added one
\* in place, until the recovery directory is gone.
CannotResume ==
  \/ pc = "rewrite"
  \/ recovery /\ \E p \in Path :
       \/ Change[p] = "added" /\ target[p] = "result"
       \/ Change[p] = "rewritten" /\ pc = "retire" /\ evidence[p].capture = "absent"

ProcessDies ==
  /\ pc # "idle" /\ crashes < MaxCrashes
  /\ crashes' = crashes + 1
  /\ stuck' = (stuck \/ CannotResume)
  /\ pc' = "idle" /\ at' = 1
  /\ UNCHANGED <<target, evidence, recovery, completed, proven, edits, raced, lost>>

Publish ==
  \/ CheckRewritten \/ MarkInPlace \/ CapturePrevious \/ RecheckTarget
  \/ TruncateTarget \/ RewriteTarget
  \/ CheckRemoved \/ RecheckRemoval \/ CaptureByRename
  \/ CheckAdded \/ LinkAddition \/ RetirePublication

Service == Begin \/ FindCompleted \/ StageEntry \/ Publish
           \/ VerifyResult \/ RetireEvidence \/ RemoveRecovery \/ ReturnSuccess

WorktreeNext == Service \/ (\E p \in Path : DeveloperSaves(p)) \/ ProcessDies

\* A started call runs on, and the host asks again for an operation that is
\* still reserved.
WorktreeSpec == WorktreeInit /\ [][WorktreeNext]_worktree /\ WF_worktree(Service)

----------------------------------------------------------------------------
(* Properties. *)

WorktreeTypeOK ==
  /\ target \in [Path -> Content]
  /\ evidence \in [Path -> RecoveryEvidence]
  /\ recovery \in BOOLEAN /\ completed \in BOOLEAN /\ proven \in BOOLEAN /\ stuck \in BOOLEAN
  /\ pc \in WorktreePhases /\ at \in 1..(N + 1)
  /\ edits \in 0..MaxEdits /\ crashes \in 0..MaxCrashes
  /\ raced \subseteq Path /\ lost \subseteq Path

\* What a developer saved is destroyed only when the save fell between the
\* last comparison of that file and the write that follows it; every earlier
\* or later save is still in the worktree or in the recovery directory.
EditsSurvive == lost \subseteq raced

\* Until the whole result has been compared with the worktree, the previous
\* bytes of every entry the result changes can be restored from the worktree
\* or from the recovery directory, whatever step the process died in.
PreviousPreserved ==
  proven \/ \A p \in Path :
    \/ Change[p] = "added"
    \/ target[p] \in {"previous", "edit"}
    \/ evidence[p].capture \in {"previous", "edit"}

\* A call reports success only over the resulting tree: no half-written or
\* displaced entry is left, at most what a developer saved after the check.
CompletedIsTheResult ==
  completed => \A p \in Path : target[p] \in {Resulting(p), "edit"}

\* Neither a developer's bytes nor the bytes before the application are lost
\* to a killed or repeated materialization, and success is never claimed over
\* less than the result.
WorktreePreserved == WorktreeTypeOK /\ EditsSurvive /\ PreviousPreserved /\ CompletedIsTheResult

\* A killed materialization is finished by later calls, unless a developer
\* changed the worktree or the process died where no call resumes: inside a
\* rewrite, while it was dropping the evidence of one, or from the link of the
\* first addition until the recovery directory was removed.
InterruptedMaterializationCompletes == <>(completed \/ stuck \/ edits > 0)
============================================================================
