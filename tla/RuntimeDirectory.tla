-------------------------- MODULE RuntimeDirectory --------------------------
(***************************************************************************)
(* The runtime directory of one task: the filesystem half of a reporter    *)
(* attachment.  A directory is built under a creation name, published      *)
(* under the task handle, and retired through a release name.  An identity *)
(* record beside it says how far that went; every removal is authorised by *)
(* comparing the record with the inodes that are really there.             *)
(*                                                                         *)
(* The sequences below run one system call at a time, for several actors   *)
(* (the coordinator's own goroutine, and the calls that prepare or release *)
(* an attachment), so a crash or another actor may come between any two.   *)
(* Birth times are available, as runtimeAttachmentTransitionDirectoryMatches *)
(* requires: an inode is recognised after a rename.                        *)
(***************************************************************************)
EXTENDS Naturals, FiniteSets

CONSTANTS Callers,     \* the calls that may be in flight at once
          Run,         \* the coordinator's own goroutine
          MaxFaults    \* bound on crashes, I/O errors and interference

ASSUME RunAssumption == Run \notin Callers
ASSUME MaxFaultsAssumption == MaxFaults \in Nat

VARIABLES
    record,    \* stage of the identity record on disk
    loc,       \* where the recorded directory is
    link,      \* its generation link
    anchor,    \* the recorded generation is still there
    sock,      \* its socket
    touched,   \* its change time has moved since record.Task was written
    foreign,   \* places taken by an object the record does not name
    litter,    \* an isolation directory no record names any more
    act,       \* what each actor is doing
    faults,    \* faults so far
    cause      \* which kinds of fault have happened that may excuse a refusal

disk == <<record, loc, link, anchor, sock, touched, foreign, litter>>

Actors == Callers \cup {Run}

(* runtimeAttachmentIdentityStage; "listening" is creating with a recorded  *)
(* socket identity, "damaged" a record that cannot be read back.           *)
Stages == {"none", "intent", "bound", "creating", "listening", "active",
           "releaseIntent", "releasing", "damaged"}
Names == {"creation", "canonical", "release"}

(* held: what the actor has inspected and pinned and is about to rename.   *)
Idle == [job |-> "idle", pc |-> "idle", pin |-> "none", stage |-> "none",
         fresh |-> TRUE, held |-> "none"]

(* A name is taken by the recorded directory or by something foreign. *)
Occupied(n) == loc = n \/ n \in foreign

-----------------------------------------------------------------------------
(* Moving one actor along. *)

At(a, pc) == act[a].pc = pc
Goto(a, pc) == act' = [act EXCEPT ![a] = [@ EXCEPT !.pc = pc, !.held = "none"]]

(* An object is pinned by a descriptor before it is renamed, and compared   *)
(* with the descriptor after it: in between, the name may come to stand for *)
(* something else.                                                         *)
Inspecting(a, pc) == At(a, pc) /\ act[a].held = "none"
Renaming(a, pc) == At(a, pc) /\ act[a].held # "none"
Hold(a, whose) == act' = [act EXCEPT ![a].held = whose] /\ UNCHANGED disk

(* errRuntimeAttachmentOwnershipUnproven, and a plain error. *)
Refuse(a) == Goto(a, "refuse") /\ UNCHANGED disk
Fail(a) == Goto(a, "failed") /\ UNCHANGED disk

(* readRuntimeAttachmentIdentityRecord: a record of another shape, mode or  *)
(* link count is unproven ownership, not an absent record.                 *)
RecordReadable == record # "damaged"

(* publishRuntimeAttachmentIdentity: the record is replaced only while it   *)
(* is still the one the actor last read or wrote.  restamp: Task becomes    *)
(* the directory's current identity.                                       *)
Publishable(a) == act[a].fresh /\ RecordReadable

\* Whoever has read a record that is then changed holds an old one.
Overwrite(a, stage, pc, changed) ==
    /\ record' = stage
    /\ act' = [b \in Actors |->
                 IF b = a
                 THEN [act[b] EXCEPT !.pc = pc, !.stage = stage]
                 ELSE [act[b] EXCEPT !.fresh = @ /\ ~(changed /\ act[b].pin # "none")]]

Publish(a, stage, restamp, pc) ==
    IF Publishable(a)
    THEN /\ Overwrite(a, stage, pc, stage # record \/ (restamp /\ touched))
         /\ touched' = (touched /\ ~restamp)
         /\ UNCHANGED <<anchor, loc, link, sock, foreign, litter>>
    ELSE Refuse(a)

-----------------------------------------------------------------------------
(* Opening what the record names. *)

(* openRecordedTaskRuntimeDirectory: the names each stage may be found at. *)
NamesOf(stage) ==
    {"canonical"}
    \cup (IF stage \in {"bound", "creating", "listening"} THEN {"creation"} ELSE {})
    \cup (IF stage \in {"releaseIntent", "releasing"} THEN {"release"} ELSE {})

(* runtimeAttachmentDirectoryEmpty: an isolation directory counts, with or  *)
(* without what was to go into it.                                         *)
DirectoryEmpty == link = "none" /\ sock = "none"

(* runtimeAttachmentGenerationAvailable, and with the directory's link to it *)
(* runtimeAttachmentGenerationMatches.                                     *)
GenerationAvailable == anchor
GenerationMatches == link = "linked" /\ GenerationAvailable

SocketRequired(stage, n) ==
    \/ n = "canonical" /\ stage \in {"active", "releaseIntent"}
    \/ n = "release" /\ stage = "releaseIntent"

(* Faulty variant: an emptied directory under the release name is not recognised. *)
AcceptableUnlessEmpty(stage, n) ==
    /\ n \notin foreign
    /\ GenerationMatches
    /\ SocketRequired(stage, n) => sock = "held"

Acceptable(stage, n) ==
    /\ n \notin foreign
    /\ \/ GenerationMatches
       \/ DirectoryEmpty /\ stage = "bound"
       \/ DirectoryEmpty /\ stage \in {"creating", "releasing"} /\ GenerationAvailable
    /\ SocketRequired(stage, n) => sock = "held"

(* The first step of removePinnedTaskRuntimeDirectory for each stage. *)
AfterSocket == IF link = "linked" THEN "linkIsolate" ELSE "dirIsolate"
FirstRemovalStep(stage) ==
    CASE stage = "bound" -> AfterSocket
      [] stage = "creating" /\ sock = "unsafe" -> "refuse"
      [] stage = "creating" /\ sock \in {"held", "foreign"} -> "sockIsolate"
      [] stage = "creating" /\ sock \in {"none", "isolated", "seized"} -> AfterSocket
      [] stage = "listening" -> "sockIsolate"
      [] stage = "active" -> "releaseIntent"
      [] stage \in {"releaseIntent", "releasing"} -> "move"

(* reconcileIsolatedRuntimePath: an isolation is found again by the name its *)
(* recorded identity gives it.  One that holds somebody else's directory    *)
(* may be the recorded one's or an older one's.                            *)
IsolationFound == loc = "isolated"
IsolationSeized == "isolation" \in foreign

(* A job that holds a live server pins the directory in order to close it  *)
(* (pinRuntimeAttachmentRelease); the others only remove it.               *)
Closing(a) == act[a].job \in {"release", "shutdown", "unregister"}

Pinned(a, n) ==
    /\ act' = [act EXCEPT ![a] = [@ EXCEPT !.pin = n, !.stage = record, !.fresh = TRUE,
                                           !.pc = FirstRemovalStep(record)]]
    /\ UNCHANGED disk

(* removeTaskRuntimeDirectory up to the removal itself. *)
Open(a) ==
    /\ At(a, "open")
    /\ LET found == {n \in NamesOf(record) : Occupied(n)} IN
       IF ~RecordReadable
       THEN Refuse(a)
       ELSE IF record \in {"none", "intent"}
       THEN IF Closing(a) \/ Occupied("canonical") \/ Occupied("creation")
            THEN Refuse(a)
            ELSE Goto(a, "done") /\ UNCHANGED disk
       ELSE IF Closing(a) /\ record \notin {"active", "releaseIntent", "releasing"}
            THEN Refuse(a)
       ELSE IF found = {}
            THEN \/ (Closing(a) \/ IsolationSeized) /\ Refuse(a)
                 \/ /\ ~Closing(a)
                    /\ Goto(a, IF IsolationFound THEN "dirRetire" ELSE "done")
                    /\ UNCHANGED disk
       ELSE IF \E n \in found : found = {n} /\ Acceptable(record, n)
            THEN \E n \in found : Pinned(a, n)
            ELSE Refuse(a)
    /\ UNCHANGED <<faults, cause>>

-----------------------------------------------------------------------------
(* Removing it. *)

PublishReleaseIntent(a) ==
    /\ At(a, "releaseIntent")
    /\ Publish(a, "releaseIntent", FALSE, "move")
    /\ UNCHANGED <<faults, cause>>

(* isolatePinnedRuntimeAttachmentRelease: the rename, then the record. *)
Isolated(a) == IF Closing(a) THEN "relocate" ELSE "sockIsolate"

InspectMove(a) ==
    /\ Inspecting(a, "move")
    /\ \/ /\ act[a].pin = "release"
          /\ IF act[a].stage = "releasing"
             THEN Goto(a, Isolated(a)) /\ UNCHANGED disk
             ELSE IF loc = "release" /\ sock = "held"
             THEN Goto(a, "stageMoved") /\ UNCHANGED disk
             ELSE Refuse(a)
       \/ /\ act[a].pin = "canonical"
          /\ IF loc = "canonical" THEN Hold(a, "own") ELSE Refuse(a)
    /\ UNCHANGED <<faults, cause>>

(* The rename takes what stands under the name, and is never undone: a      *)
(* stranger's directory stays where it was moved, and ownership is unproven. *)
Move(a) ==
    /\ Renaming(a, "move")
    /\ IF Occupied("release") \/ ~Occupied("canonical")
       THEN Refuse(a)
       ELSE IF loc = "canonical"
       THEN /\ loc' = "release" /\ touched' = TRUE
            /\ act' = [act EXCEPT ![a] = [@ EXCEPT !.pc = "stageMoved", !.pin = "release",
                                                   !.held = "none"]]
            /\ UNCHANGED <<anchor, record, link, sock, foreign, litter>>
       ELSE /\ foreign' = (foreign \ {"canonical"}) \cup {"release"}
            /\ Goto(a, "refuse")
            /\ UNCHANGED <<anchor, record, loc, link, sock, touched, litter>>
    /\ UNCHANGED <<faults, cause>>

StageMoved(a) ==
    /\ At(a, "stageMoved")
    /\ Publish(a, "releasing", TRUE, Isolated(a))
    /\ UNCHANGED <<faults, cause>>

(* QuarantineRuntimePath of the socket: pin, isolate, retire.  A replay     *)
(* finds the isolation again, because its name holds the recorded identity; *)
(* the socket of a stage that has not recorded one is whatever is there.    *)
InspectSocket(a) ==
    /\ Inspecting(a, "sockIsolate")
    /\ \/ sock = "held" /\ Hold(a, "own")
       \/ sock = "foreign" /\ act[a].stage = "creating" /\ Hold(a, "foreign")
       \/ sock = "isolated" /\ Goto(a, "sockRetire") /\ UNCHANGED disk
       \/ /\ sock = "none" \/ (sock = "seized" /\ act[a].stage = "creating")
          /\ Goto(a, "linkIsolate") /\ UNCHANGED disk
       \/ sock = "unsafe" /\ Refuse(a)
       \/ sock \in {"foreign", "seized"} /\ act[a].stage # "creating" /\ Refuse(a)
    /\ UNCHANGED <<faults, cause>>

(* A socket that is gone by then leaves its empty isolation behind; only    *)
(* one whose identity is recorded may be missing.                          *)
HeldSocket(a) == IF act[a].held = "own" THEN "held" ELSE "foreign"
SockIsolate(a) ==
    /\ Renaming(a, "sockIsolate")
    /\ \/ /\ sock = HeldSocket(a)
          /\ sock' = "isolated" /\ Goto(a, "sockRetire")
       \/ /\ sock \in {"unsafe", "held", "foreign"} \ {HeldSocket(a)}
          /\ sock' = "seized" /\ Goto(a, "refuse")
       \/ /\ sock \in {"none", "isolated", "seized"}
          /\ sock' = IF sock = "none" THEN "isolated" ELSE sock
          /\ Goto(a, IF act[a].stage = "creating" THEN "refuse" ELSE "linkIsolate")
    /\ touched' = TRUE
    /\ UNCHANGED <<anchor, record, loc, link, foreign, litter, faults, cause>>

SockRetire(a) ==
    /\ At(a, "sockRetire")
    /\ sock' = IF sock = "isolated" THEN "none" ELSE sock
    /\ touched' = TRUE
    /\ Goto(a, "linkIsolate")
    /\ UNCHANGED <<anchor, record, loc, link, foreign, litter, faults, cause>>

(* retirePinnedRuntimeAttachmentGenerationLink *)
LinkGone(stage) == IF stage \in {"bound", "creating"} THEN "dirIsolate" ELSE "stageDir"

InspectLink(a) ==
    /\ Inspecting(a, "linkIsolate")
    /\ IF link \in {"linked", "foreign"} /\ ~GenerationAvailable
       THEN Fail(a)
       ELSE IF link = "linked"
       THEN Hold(a, "own")
       ELSE IF link = "foreign"
       THEN Refuse(a)
       ELSE Goto(a, LinkGone(act[a].stage)) /\ UNCHANGED disk
    /\ UNCHANGED <<faults, cause>>

LinkIsolate(a) ==
    /\ Renaming(a, "linkIsolate")
    /\ link' = IF link = "foreign" THEN "seized"
               ELSE IF link \in {"linked", "none"} THEN "isolated" ELSE link
    /\ Goto(a, IF link = "linked" THEN "linkRetire" ELSE "refuse")
    /\ touched' = TRUE
    /\ UNCHANGED <<anchor, record, loc, sock, foreign, litter, faults, cause>>

LinkRetire(a) ==
    /\ At(a, "linkRetire")
    /\ link' = IF link = "isolated" THEN "none" ELSE link
    /\ touched' = TRUE
    /\ Goto(a, LinkGone(act[a].stage))
    /\ UNCHANGED <<anchor, record, loc, sock, foreign, litter, faults, cause>>

(* stagePinnedRuntimeAttachmentDirectory.  A shutdown stops here. *)
StageDir(a) ==
    /\ At(a, "stageDir")
    /\ Publish(a, act[a].stage, TRUE,
               IF act[a].job = "shutdown" THEN "done" ELSE "dirIsolate")
    /\ UNCHANGED <<faults, cause>>

(* QuarantineRuntimePath of the directory.  An isolation another call left  *)
(* is taken up if it carries the same identity's name.                     *)
InspectDirectory(a) ==
    /\ Inspecting(a, "dirIsolate")
    /\ \/ loc = act[a].pin /\ Hold(a, "own")
       \/ loc # act[a].pin /\ Refuse(a)
       \/ loc # act[a].pin /\ IsolationFound /\ Goto(a, "dirRetire") /\ UNCHANGED disk
    /\ UNCHANGED <<faults, cause>>

(* Faulty variant: what was moved is retired without being compared. *)
DirIsolateAnything(a) ==
    /\ Renaming(a, "dirIsolate")
    /\ loc' = IF loc = act[a].pin THEN "isolated" ELSE loc
    /\ foreign' = foreign \ {act[a].pin}
    /\ Goto(a, "dirRetire")
    /\ UNCHANGED <<record, link, anchor, sock, touched, litter, faults, cause>>

(* The isolation can be found again only when the identity it is named      *)
(* after is the recorded one.                                              *)
DirIsolate(a) ==
    /\ Renaming(a, "dirIsolate")
    /\ IF loc = act[a].pin
       THEN /\ loc' = IF touched THEN "orphaned" ELSE "isolated"
            /\ Goto(a, "dirRetire")
            /\ UNCHANGED <<foreign, litter>>
       ELSE /\ IF act[a].pin \in foreign
               THEN foreign' = (foreign \ {act[a].pin}) \cup {"isolation"} /\ UNCHANGED litter
               ELSE litter' = TRUE /\ UNCHANGED foreign
            /\ Goto(a, "refuse") /\ UNCHANGED loc
    /\ UNCHANGED <<anchor, record, link, sock, touched, faults, cause>>

DirRetire(a) ==
    /\ At(a, "dirRetire")
    /\ IF loc \in {"isolated", "orphaned"} /\ ~DirectoryEmpty
       THEN Refuse(a)
       ELSE /\ loc' = IF loc \in {"isolated", "orphaned"} THEN "none" ELSE loc
            /\ Goto(a, "done")
            /\ UNCHANGED <<anchor, record, link, sock, touched, foreign, litter>>
    /\ UNCHANGED <<faults, cause>>

Removal(a) ==
    \/ Open(a) \/ PublishReleaseIntent(a) \/ InspectMove(a) \/ Move(a) \/ StageMoved(a)
    \/ InspectSocket(a) \/ SockIsolate(a) \/ SockRetire(a)
    \/ InspectLink(a) \/ LinkIsolate(a) \/ LinkRetire(a)
    \/ StageDir(a) \/ InspectDirectory(a) \/ DirIsolate(a) \/ DirRetire(a)

-----------------------------------------------------------------------------
(* Building it: prepareRuntimeAttachmentDirectory and listenRuntimeAttachment. *)

(* A staged directory left by an earlier attempt is taken up again only     *)
(* while the record binds it and no socket.                                *)
Begin(a) ==
    /\ At(a, "create")
    /\ IF ~RecordReadable \/ Occupied("canonical") \/ (record # "none" /\ ~GenerationAvailable)
       THEN Fail(a)
       ELSE IF ~Occupied("creation")
       THEN /\ act' = [act EXCEPT ![a] = [@ EXCEPT !.stage = record, !.fresh = TRUE,
                                                  !.pin = "creation", !.pc = "intent"]]
            /\ UNCHANGED disk
       ELSE IF "creation" \notin foreign
               /\ (record = "bound" \/ (record = "creating" /\ GenerationMatches))
       THEN /\ act' = [act EXCEPT ![a] = [@ EXCEPT !.stage = record, !.fresh = TRUE,
                                                  !.pin = "creation",
                                                  !.pc = IF record = "bound" THEN "linkIn"
                                                         ELSE "listen"]]
            /\ UNCHANGED disk
       ELSE Fail(a)
    /\ UNCHANGED <<faults, cause>>

PublishIntent(a) ==
    /\ At(a, "intent") /\ Publish(a, "intent", FALSE, "mkdir")
    /\ UNCHANGED <<faults, cause>>

(* The intent replaced whatever the record said before: a directory that    *)
(* still stands under another name is no longer anybody's.                 *)
MakeDirectory(a) ==
    /\ At(a, "mkdir")
    /\ IF Occupied("creation")
       THEN Fail(a)
       ELSE /\ loc' = "creation" /\ link' = "none" /\ sock' = "none" /\ touched' = FALSE
            /\ litter' = (litter \/ loc \in {"isolated", "orphaned"})
            /\ foreign' = foreign \cup ({loc} \cap Names)
            /\ Goto(a, "bind")
            /\ UNCHANGED <<record, anchor>>
    /\ cause' = IF loc \in Names THEN cause \cup {"forgotten"} ELSE cause
    /\ UNCHANGED faults

BindDirectory(a) ==
    /\ At(a, "bind") /\ Publish(a, "bound", TRUE, "linkIn")
    /\ UNCHANGED <<faults, cause>>

(* linkRuntimeAttachmentGeneration: an existing link to the anchor will do. *)
LinkGeneration(a) ==
    /\ At(a, "linkIn")
    /\ IF link \in {"none", "linked"} /\ GenerationAvailable
       THEN /\ link' = "linked" /\ touched' = TRUE
            /\ Goto(a, "bindLink")
            /\ UNCHANGED <<anchor, record, loc, sock, foreign, litter>>
       ELSE Fail(a)
    /\ UNCHANGED <<faults, cause>>

PublishCreating(a) ==
    /\ At(a, "bindLink") /\ Publish(a, "creating", TRUE, "listen")
    /\ UNCHANGED <<faults, cause>>

(* reporter.ListenRuntime: the socket exists before its mode is secured. *)
Listen(a) ==
    /\ At(a, "listen")
    /\ IF sock = "none" /\ loc = "creation"
       THEN /\ sock' = "unsafe" /\ touched' = TRUE
            /\ Goto(a, "secure")
            /\ UNCHANGED <<anchor, record, loc, link, foreign, litter>>
       ELSE Fail(a)
    /\ UNCHANGED <<faults, cause>>

SecureSocket(a) ==
    /\ At(a, "secure")
    /\ IF sock = "unsafe"
       THEN /\ sock' = "held" /\ Goto(a, "bindSocket")
            /\ UNCHANGED <<anchor, record, loc, link, touched, foreign, litter>>
       ELSE Fail(a)
    /\ UNCHANGED <<faults, cause>>

(* A failure once the server exists closes it, and that removes its socket. *)
FailListening(a) ==
    /\ Goto(a, "failed")
    /\ sock' = IF sock = "held" THEN "none" ELSE sock
    /\ touched' = TRUE
    /\ UNCHANGED <<anchor, record, loc, link, foreign, litter>>

PublishListening(a) ==
    /\ At(a, "bindSocket")
    /\ IF loc = "creation" /\ sock = "held" /\ GenerationMatches /\ Publishable(a)
       THEN Publish(a, "listening", TRUE, "publishDir")
       ELSE FailListening(a)
    /\ UNCHANGED <<faults, cause>>

InspectStaged(a) ==
    /\ Inspecting(a, "publishDir")
    /\ IF loc = "creation" THEN Hold(a, "own") ELSE FailListening(a)
    /\ UNCHANGED <<faults, cause>>

PublishDirectory(a) ==
    /\ Renaming(a, "publishDir")
    /\ IF Occupied("canonical") \/ ~Occupied("creation")
       THEN FailListening(a)
       ELSE IF loc = "creation"
       THEN /\ loc' = "canonical" /\ touched' = TRUE
            /\ Goto(a, "activate")
            /\ UNCHANGED <<anchor, record, link, sock, foreign, litter>>
       ELSE /\ foreign' = (foreign \ {"creation"}) \cup {"canonical"}
            /\ Goto(a, "failed")
            /\ UNCHANGED <<anchor, record, loc, link, sock, touched, litter>>
    /\ UNCHANGED <<faults, cause>>

PublishActive(a) ==
    /\ At(a, "activate")
    /\ IF loc = "canonical" /\ sock = "held" /\ GenerationMatches /\ Publishable(a)
       THEN Publish(a, "active", TRUE, "done")
       ELSE FailListening(a)
    /\ UNCHANGED <<faults, cause>>

Creation(a) ==
    \/ Begin(a) \/ PublishIntent(a) \/ MakeDirectory(a) \/ BindDirectory(a)
    \/ LinkGeneration(a) \/ PublishCreating(a) \/ Listen(a) \/ SecureSocket(a)
    \/ PublishListening(a) \/ InspectStaged(a) \/ PublishDirectory(a)
    \/ PublishActive(a)

-----------------------------------------------------------------------------
(* Faults. *)

(* A system call fails before it has changed anything under the attachment's *)
(* names: a plain error, for another attempt.                              *)
IOError(a) ==
    /\ faults < MaxFaults
    /\ \/ /\ \/ act[a].pc \in {"intent", "mkdir", "bind", "linkIn", "bindLink", "listen", "secure",
                               "sockIsolate", "linkIsolate", "stageDir", "dirIsolate"}
             \/ act[a].pc \in {"open", "releaseIntent", "move", "stageMoved"} /\ ~Closing(a)
          /\ Fail(a)
       \/ /\ act[a].pc \in {"bindSocket", "publishDir", "activate"}
          /\ FailListening(a)
    /\ faults' = faults + 1
    /\ cause' = cause \cup {"error"}

(* A call fails that leaves ownership unproven.  After a rename that could  *)
(* not be synchronized, or an isolated object that could not be unlinked,   *)
(* the code cannot say what the disk holds and answers with the error of a  *)
(* differing identity (preserveIsolatedRuntimePathFailure,                 *)
(* preserveMovedRuntimePathFailure, preserveRuntimePathExchangeFailure); a  *)
(* job that holds a live server takes any error of its pinning so; and a    *)
(* record that says active outlives the attachment whose publication failed. *)
Unsynchronized(a) ==
    \/ act[a].pc \in {"move", "stageMoved"}
    \/ act[a].pc \in {"sockIsolate", "dirIsolate"} /\ act[a].stage = "releasing"
    \/ act[a].pc \in {"sockRetire", "linkRetire", "dirRetire"}

FailActive(a) ==
    /\ At(a, "activate")
    /\ loc = "canonical" /\ sock = "held" /\ GenerationMatches /\ Publishable(a)
    /\ Overwrite(a, "active", "failed", TRUE)
    /\ sock' = "none" /\ touched' = TRUE
    /\ UNCHANGED <<anchor, loc, link, foreign, litter>>

UnprovenError(a) ==
    /\ faults < MaxFaults
    /\ \/ Unsynchronized(a) /\ Refuse(a)
       \/ Closing(a) /\ act[a].pc \in {"open", "releaseIntent", "relocate"} /\ Refuse(a)
       \/ FailActive(a)
    /\ faults' = faults + 1
    /\ cause' = cause \cup {"unproven"}

(* Somebody else with the service's user identity makes or replaces a path. *)
Plant(n) ==
    /\ faults < MaxFaults
    /\ ~Occupied(n)
    /\ foreign' = foreign \cup {n}
    /\ faults' = faults + 1
    /\ cause' = cause \cup {"interference"}
    /\ UNCHANGED <<anchor, record, loc, link, sock, touched, litter, act>>

ReplaceDirectory ==
    /\ faults < MaxFaults
    /\ loc \in Names
    /\ foreign' = foreign \cup {loc}
    /\ loc' = "none" /\ link' = "none" /\ sock' = "none"
    /\ faults' = faults + 1
    /\ cause' = cause \cup {"interference"}
    /\ UNCHANGED <<anchor, record, touched, litter, act>>

ReplaceSocket ==
    /\ faults < MaxFaults
    /\ sock = "held" /\ loc \in Names
    /\ sock' = "foreign" /\ touched' = TRUE
    /\ faults' = faults + 1
    /\ cause' = cause \cup {"interference"}
    /\ UNCHANGED <<anchor, record, loc, link, foreign, litter, act>>

ReplaceLink ==
    /\ faults < MaxFaults
    /\ link = "linked" /\ loc \in Names
    /\ link' = "foreign" /\ touched' = TRUE
    /\ faults' = faults + 1
    /\ cause' = cause \cup {"interference"}
    /\ UNCHANGED <<anchor, record, loc, sock, foreign, litter, act>>

(* The record is overwritten, or the generation it names is removed. *)
DamageRecord ==
    /\ faults < MaxFaults
    /\ record # "none"
    /\ record' = "damaged"
    /\ faults' = faults + 1
    /\ cause' = cause \cup {"interference"}
    /\ UNCHANGED <<loc, link, anchor, sock, touched, foreign, litter, act>>

LoseGeneration ==
    /\ faults < MaxFaults
    /\ record # "none" /\ anchor
    /\ anchor' = FALSE
    /\ faults' = faults + 1
    /\ cause' = cause \cup {"interference"}
    /\ UNCHANGED <<record, loc, link, sock, touched, foreign, litter, act>>

(* The states of the disk in which a stop leaves a directory that recovery  *)
(* will not recognise as the service's own.                                *)
Unrecoverable ==
    \/ record = "intent" /\ loc = "creation"
    \/ sock = "unsafe"
    \/ link = "isolated"
    \/ record = "listening" /\ link = "none" /\ loc \in Names
    \/ record = "creating" /\ sock = "isolated"
=============================================================================
