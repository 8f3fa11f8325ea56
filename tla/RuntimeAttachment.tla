-------------------------- MODULE RuntimeAttachment -------------------------
(***************************************************************************)
(* The runtime attachment coordinator: it keeps one live reporter socket   *)
(* per task, from preparation to cleanup and across restarts.  Its own     *)
(* goroutine recovers the attachments, then serves registrations, releases *)
(* and shutdown; preparation and release calls arrive concurrently.  The   *)
(* directory work is RuntimeDirectory's; this module adds the mutex, the   *)
(* entry, the server and the durable facts that decide what recovery does. *)
(***************************************************************************)
EXTENDS RuntimeDirectory

ASSUME FreeAssumption == "free" \notin Actors

VARIABLES
    phase,     \* durable: how far the task and its cleanup record are
    legacy,    \* durable: a relay-identity upgrade is pending
    refused,   \* durable: the task's filesystem ownership is unproven
    run,       \* the coordinator goroutine
    mu,        \* holder of coordinator.mu, or "free"
    entry,     \* coordinator.entries[task]
    server,    \* its RuntimeServer, as the goroutine's active/releasing sets see it
    releaseErr \* entry.releaseErr, for the calls that joined the release

memory == <<run, mu, entry, server, releaseErr>>
durable == <<phase, legacy, refused>>
vars == <<disk, act, faults, cause, memory, durable>>

(* "none" | "intent" (task preparation intent) | "task" (committed) |       *)
(* "absent" (discard of a task with no managed run) | "released" (host      *)
(* released) | "removal" (removal authorised) | "cleaned".                 *)
Phases == {"none", "intent", "task", "absent", "released", "removal", "cleaned"}
Releasable == {"absent", "released"}

TypeOK ==
    /\ record \in Stages
    /\ loc \in Names \cup {"none", "isolated", "orphaned"}
    /\ link \in {"none", "linked", "isolated", "foreign", "seized"}
    /\ sock \in {"none", "unsafe", "held", "isolated", "foreign", "seized"}
    /\ foreign \subseteq Names \cup {"isolation"} /\ faults \in 0..MaxFaults
    /\ phase \in Phases
    /\ run \in {"down", "recovering", "running", "stopping", "stopped", "failed"}
    /\ mu \in Actors \cup {"free"}
    /\ entry \in {"none", "pending", "ready", "recovered", "releasing"}
    /\ server \in {"none", "listening", "active", "releasing", "closed"}

(* A new task, or a committed one from before relay identities, whose old   *)
(* directory may still stand under the task handle.                        *)
LegacyInit ==
    /\ legacy \in BOOLEAN
    /\ phase = IF legacy THEN "task" ELSE "none"
    /\ foreign \in IF legacy THEN {{}, {"canonical"}} ELSE {{}}
    /\ cause = IF foreign = {} THEN {} ELSE {"legacy"}

Init ==
    /\ LegacyInit
    /\ record = "none" /\ loc = "none" /\ link = "none" /\ sock = "none"
    /\ anchor = TRUE /\ touched = FALSE /\ litter = FALSE /\ faults = 0
    /\ act = [a \in Actors |-> Idle]
    /\ refused = FALSE
    /\ run = "down" /\ mu = "free" /\ entry = "none" /\ server = "none"
    /\ releaseErr = FALSE

Start(a, job, pc) == act' = [act EXCEPT ![a] = [Idle EXCEPT !.job = job, !.pc = pc]]
Return(a) == act' = [act EXCEPT ![a] = Idle]
Doing(a, job, pc) == act[a].job = job /\ act[a].pc = pc

-----------------------------------------------------------------------------
(* Recovery, under the mutex, before anything else is served. *)

(* upgradeBaseRuntimeAttachmentIdentity writes an intent for a task without  *)
(* a record, if nothing stands where its directory belongs.                *)
RelayUpgradeUnproven ==
    ~RecordReadable \/ (record = "none" /\ (Occupied("creation") \/ Occupied("canonical")))

CompleteRelayUpgrade ==
    /\ ~RelayUpgradeUnproven
    /\ record' = IF record = "none" THEN "intent" ELSE record
    /\ UNCHANGED refused

RefuseRelayUpgrade ==
    /\ RelayUpgradeUnproven
    /\ refused' = TRUE /\ UNCHANGED record

UpgradeRelayIdentity ==
    /\ run = "recovering" /\ legacy
    /\ legacy' = FALSE
    /\ CompleteRelayUpgrade \/ RefuseRelayUpgrade
    /\ UNCHANGED <<loc, link, anchor, sock, touched, foreign, litter, act, faults, cause, memory, phase>>

Boot ==
    /\ run = "down"
    /\ run' = "recovering" /\ mu' = Run
    /\ UNCHANGED <<disk, act, faults, cause, entry, server, releaseErr, durable>>

(* recoverTaskPreparationIntents and recoverRuntimeAttachments: a refused   *)
(* task is skipped, and every other known task loses what a former process  *)
(* left.                                                                   *)
BeginRecovery ==
    /\ run = "recovering" /\ ~legacy /\ act[Run] = Idle
    /\ IF refused \/ phase = "none"
       THEN run' = "running" /\ mu' = "free" /\ UNCHANGED act
       ELSE Start(Run, "recover", "open") /\ UNCHANGED <<run, mu>>
    /\ UNCHANGED <<disk, faults, cause, entry, server, releaseErr, durable>>

(* Faulty variant: a task whose host released it listens again. *)
RestorableUntilCleaned == phase \in {"task", "absent", "released", "removal"}

(* A task whose cleanup has not passed host release listens again. *)
Restorable == phase \in {"task", "absent"}

RecoveryRemoved ==
    /\ Doing(Run, "recover", "done")
    /\ IF Restorable
       THEN Start(Run, "restore", "create") /\ UNCHANGED <<run, mu>>
       ELSE Return(Run) /\ run' = "running" /\ mu' = "free"
    /\ UNCHANGED <<disk, faults, cause, entry, server, releaseErr, durable>>

RecoveryRestored ==
    /\ Doing(Run, "restore", "done")
    /\ entry' = "recovered" /\ server' = "active"
    /\ run' = "running" /\ mu' = "free" /\ Return(Run)
    /\ UNCHANGED <<disk, faults, cause, releaseErr, durable>>

(* persistRuntimeAttachmentTaskRefusal, or RefuseRuntimeAttachmentRecovery  *)
(* for an intent: the refusal is durable and closes only this task.        *)
RecoveryRefused ==
    /\ Doing(Run, "recover", "refuse")
    /\ refused' = TRUE
    /\ run' = "running" /\ mu' = "free" /\ Return(Run)
    /\ UNCHANGED <<disk, faults, cause, entry, server, releaseErr, phase, legacy>>

(* Any other error fails recovery, and the service with it. *)
RecoveryFailed ==
    /\ \/ Doing(Run, "recover", "failed")
       \/ act[Run].job = "restore" /\ act[Run].pc \in {"failed", "refuse"}
    /\ run' = "failed" /\ mu' = "free" /\ Return(Run)
    /\ UNCHANGED <<disk, faults, cause, entry, server, releaseErr, durable>>

Recovery ==
    \/ Boot \/ UpgradeRelayIdentity \/ BeginRecovery \/ RecoveryRemoved
    \/ RecoveryRestored \/ RecoveryRefused \/ RecoveryFailed

-----------------------------------------------------------------------------
(* PrepareRuntimeAttachment, called by PrepareTask after its intent is      *)
(* durable and before the task is committed.                               *)

PrepareCall(c) ==
    /\ act[c] = Idle /\ run = "running" /\ phase \in {"none", "intent"}
    /\ phase' = "intent"
    /\ Start(c, "prepare", "lock")
    /\ UNCHANGED <<disk, faults, cause, memory, legacy, refused>>

PrepareLock(c) ==
    /\ Doing(c, "prepare", "lock") /\ mu = "free"
    /\ IF refused \/ phase # "intent"
       THEN Return(c) /\ UNCHANGED mu
       ELSE IF entry = "none"
       THEN Goto(c, "create") /\ mu' = c
       ELSE /\ Goto(c, IF entry = "ready" THEN "commit"
                       ELSE IF entry = "pending" THEN "join" ELSE "failed")
            /\ UNCHANGED mu
    /\ UNCHANGED <<disk, faults, cause, run, entry, server, releaseErr, durable>>

(* The socket is up: the entry is pending until the goroutine serves it. *)
PrepareListening(c) ==
    /\ Doing(c, "prepare", "done")
    /\ entry' = "pending" /\ server' = "listening" /\ mu' = "free"
    /\ Goto(c, "register")
    /\ UNCHANGED <<disk, faults, cause, run, releaseErr, durable>>

(* registerRuntimeAttachment, first select: the goroutine takes the server, *)
(* the caller gives up, or the goroutine has returned.                     *)
Register(c) ==
    /\ Doing(c, "prepare", "register")
    /\ \/ run = "running" /\ server' = "active" /\ Goto(c, "registered")
       \/ Start(c, "unregister", "open") /\ UNCHANGED server
    /\ UNCHANGED <<disk, faults, cause, run, mu, entry, releaseErr, durable>>

(* Second select: ready is always there, and runDone may be as well. *)
Registered(c) ==
    /\ Doing(c, "prepare", "registered")
    /\ \/ entry' = "ready" /\ Goto(c, "commit")
       \/ run = "stopped" /\ Start(c, "unregister", "open") /\ UNCHANGED entry
    /\ UNCHANGED <<disk, faults, cause, run, mu, server, releaseErr, durable>>

(* waitRuntimeAttachmentReplay on the registration. *)
PrepareJoin(c) ==
    /\ Doing(c, "prepare", "join")
    /\ \/ entry # "pending" /\ (IF entry = "ready" THEN Goto(c, "commit") ELSE Return(c))
       \/ run = "stopped" /\ Return(c)
    /\ UNCHANGED <<disk, faults, cause, memory, durable>>

(* CommitPreparedTask consumes the intent. *)
CommitPreparedTask(c) ==
    /\ Doing(c, "prepare", "commit")
    /\ phase' = IF phase = "intent" THEN "task" ELSE phase
    /\ Return(c)
    /\ UNCHANGED <<disk, faults, cause, memory, legacy, refused>>

PrepareFailed(c) ==
    /\ act[c].job = "prepare" /\ act[c].pc \in {"failed", "refuse"}
    /\ mu' = IF mu = c THEN "free" ELSE mu
    /\ Return(c)
    /\ UNCHANGED <<disk, faults, cause, run, entry, server, releaseErr, durable>>

-----------------------------------------------------------------------------
(* Closing a server: preparePinnedRuntimeAttachmentClose relocates its      *)
(* socket to the isolated name, and Close removes exactly that socket.      *)

(* Close keeps a socket that is not its own. *)
CloseSocket == sock' = IF sock = "held" THEN "none" ELSE sock
ServerStops == server' = IF server \in {"active", "releasing"} THEN "closed" ELSE "none"

Relocate(a) ==
    /\ At(a, "relocate")
    /\ Goto(a, IF loc = "release" /\ sock = "held" THEN "isolated" ELSE "refuse")
    /\ cause' = IF sock = "none" THEN cause \cup {"closed"} ELSE cause
    /\ UNCHANGED <<disk, faults, memory, durable>>

(* releaseFailedRuntimeAttachmentRegistration, which takes no lock. *)
UnregisterClose(c) ==
    /\ Doing(c, "unregister", "isolated")
    /\ ServerStops
    /\ Goto(c, "sockIsolate")
    /\ UNCHANGED <<disk, faults, cause, run, mu, entry, releaseErr, durable>>

(* completeRuntimeAttachmentRegistration with an error. *)
UnregisterEnd(c) ==
    /\ act[c].job = "unregister" /\ act[c].pc \in {"done", "refuse", "failed"}
    /\ IF act[c].pc = "done" THEN UNCHANGED <<sock, touched, server>>
       ELSE CloseSocket /\ touched' = TRUE /\ ServerStops
    /\ entry' = "none" /\ Return(c)
    /\ UNCHANGED <<anchor, record, loc, link, foreign, litter, faults, cause, run, mu, releaseErr, durable>>

-----------------------------------------------------------------------------
(* ReleaseRuntimeAttachment, called by cleanup once the host has released   *)
(* the run (or there was none).  It never meets a pending entry: a task is  *)
(* committed, and so releasable, only once its registration is ready.      *)

ReleaseCall(c) ==
    /\ act[c] = Idle /\ run = "running" /\ phase \in Releasable
    /\ Start(c, "release", "lock")
    /\ UNCHANGED <<disk, faults, cause, memory, durable>>

ReleaseLock(c) ==
    /\ Doing(c, "release", "lock") /\ mu = "free"
    /\ IF refused
       THEN Return(c) /\ UNCHANGED mu
       ELSE IF entry = "none"
       THEN Start(c, "sweep", "open") /\ UNCHANGED mu
       ELSE IF entry = "releasing"
       THEN Goto(c, "join") /\ UNCHANGED mu
       ELSE Goto(c, "open") /\ mu' = c
    /\ cause' = IF entry = "none" /\ \E d \in Callers : act[d].job = "sweep"
                THEN cause \cup {"race"} ELSE cause
    /\ UNCHANGED <<disk, faults, run, entry, server, releaseErr, durable>>

(* Waiting for another release, whose result this call returns. *)
ReleaseJoin(c) ==
    /\ Doing(c, "release", "join")
    /\ \/ entry # "releasing" /\ (IF releaseErr THEN Return(c) ELSE Goto(c, "authorize"))
       \/ run = "stopped" /\ Return(c)
    /\ UNCHANGED <<disk, faults, cause, memory, durable>>

(* Pinned, staged and isolated under the mutex: or not provable. *)
ReleasePinned(c) ==
    /\ act[c].job = "release" /\ mu = c /\ act[c].pc \in {"isolated", "refuse", "failed"}
    /\ entry' = "releasing" /\ mu' = "free"
    /\ Goto(c, IF act[c].pc = "isolated" THEN "send" ELSE "unproven")
    /\ UNCHANGED <<disk, faults, cause, run, server, releaseErr, durable>>

(* releaseRuntimeServer: handed to the goroutine, or it has returned. *)
ReleaseSend(c) ==
    /\ Doing(c, "release", "send")
    /\ \/ /\ run = "running" /\ server' = "releasing" /\ Goto(c, "close")
          /\ UNCHANGED <<sock, touched, entry, releaseErr>>
       \/ /\ run = "stopped"
          /\ CloseSocket /\ touched' = TRUE /\ ServerStops
          /\ entry' = "none" /\ releaseErr' = TRUE /\ Return(c)
    /\ UNCHANGED <<anchor, record, loc, link, foreign, litter, faults, cause, run, mu, durable>>

ReleaseClose(c) ==
    /\ Doing(c, "release", "close")
    /\ ServerStops
    /\ Goto(c, "sockIsolate")
    /\ UNCHANGED <<disk, faults, cause, run, mu, entry, releaseErr, durable>>

(* releaseUnprovenRuntimeAttachment: stop serving, and refuse the task. *)
ReleaseUnproven(c) ==
    /\ Doing(c, "release", "unproven")
    /\ run \in {"running", "stopped"}
    /\ CloseSocket /\ touched' = TRUE /\ ServerStops
    /\ refused' = TRUE /\ entry' = "none" /\ releaseErr' = TRUE /\ Return(c)
    /\ UNCHANGED <<anchor, record, loc, link, foreign, litter, faults, cause, run, mu, phase, legacy>>

(* completeRuntimeAttachmentRelease; a failed removal is not a refusal. *)
ReleaseEnd(c) ==
    /\ act[c].job = "release" /\ mu # c /\ act[c].pc \in {"done", "refuse", "failed"}
    /\ entry' = "none" /\ releaseErr' = (act[c].pc # "done")
    /\ IF act[c].pc = "done" THEN Goto(c, "authorize") ELSE Return(c)
    /\ UNCHANGED <<disk, faults, cause, run, mu, server, durable>>

(* Without an entry the directory is removed outside the mutex, and         *)
(* unproven ownership is a durable refusal.                                *)
SweepEnd(c) ==
    /\ act[c].job = "sweep" /\ act[c].pc \in {"done", "refuse", "failed"}
    /\ refused' = (refused \/ act[c].pc = "refuse")
    /\ IF act[c].pc = "done" THEN Start(c, "release", "authorize") ELSE Return(c)
    /\ UNCHANGED <<disk, faults, cause, memory, phase, legacy>>

(* AuthorizeTaskCleanupRemoval: the task is still held for cleanup. *)
AuthorizeRemoval(c) ==
    /\ Doing(c, "release", "authorize")
    /\ phase' = IF phase \in Releasable /\ ~refused THEN "removal" ELSE phase
    /\ Return(c)
    /\ UNCHANGED <<disk, faults, cause, memory, legacy, refused>>

(* The rest of the cleanup: DeliveredWork models it. *)
CleanupAdvances ==
    /\ run = "running" /\ ~refused
    /\ \/ phase = "task" /\ phase' \in {"absent", "released"}
       \/ phase = "removal" /\ phase' = "cleaned"
    /\ UNCHANGED <<disk, act, faults, cause, memory, legacy, refused>>

-----------------------------------------------------------------------------
(* The goroutine: results of servers that stopped, and shutdown. *)

ServerResult ==
    /\ server = "closed" /\ run \in {"running", "stopping"}
    /\ server' = "none"
    /\ UNCHANGED <<disk, act, faults, cause, run, mu, entry, releaseErr, durable>>

Stop ==
    /\ run = "running"
    /\ run' = "stopping"
    /\ IF server = "active" THEN Start(Run, "shutdown", "lock") ELSE UNCHANGED act
    /\ UNCHANGED <<disk, faults, cause, mu, entry, server, releaseErr, durable>>

(* Faulty variant: shutdown polls until a release, which waits for it, has ended. *)
ShutdownAwaitsRelease ==
    /\ Doing(Run, "shutdown", "lock") /\ mu = "free"
    /\ IF entry = "releasing" THEN UNCHANGED <<act, mu>>
       ELSE IF entry = "none" THEN Goto(Run, "refuse") /\ UNCHANGED mu
       ELSE Goto(Run, "open") /\ mu' = Run
    /\ UNCHANGED <<disk, faults, cause, run, entry, server, releaseErr, durable>>

(* closeRuntimeServerForShutdown *)
ShutdownLock ==
    /\ Doing(Run, "shutdown", "lock") /\ mu = "free"
    /\ IF entry \in {"none", "releasing"}
       THEN Goto(Run, "refuse") /\ UNCHANGED mu
       ELSE Goto(Run, "open") /\ mu' = Run
    /\ UNCHANGED <<disk, faults, cause, run, entry, server, releaseErr, durable>>

ShutdownPinned ==
    /\ Doing(Run, "shutdown", "isolated")
    /\ mu' = "free" /\ ServerStops
    /\ CloseSocket /\ touched' = TRUE
    /\ Goto(Run, "stageDir")
    /\ UNCHANGED <<anchor, record, loc, link, foreign, litter, faults, cause, run, entry, releaseErr, durable>>

ShutdownUnproven ==
    /\ act[Run].job = "shutdown" /\ act[Run].pc \in {"refuse", "failed"}
    /\ mu' = IF mu = Run THEN "free" ELSE mu
    /\ CloseSocket /\ touched' = TRUE
    /\ server' = IF server \in {"active", "releasing"} THEN "closed" ELSE server
    /\ Return(Run)
    /\ UNCHANGED <<anchor, record, loc, link, foreign, litter, faults, cause, run, entry, releaseErr, durable>>

ShutdownStaged ==
    /\ Doing(Run, "shutdown", "done")
    /\ Return(Run)
    /\ UNCHANGED <<disk, faults, cause, memory, durable>>

(* Every result is in: runDone is closed. *)
Stopped ==
    /\ run = "stopping" /\ act[Run] = Idle /\ server \in {"none", "listening"}
    /\ run' = "stopped"
    /\ UNCHANGED <<disk, act, faults, cause, mu, entry, server, releaseErr, durable>>

Shutdown ==
    \/ ShutdownLock \/ ShutdownPinned \/ ShutdownUnproven \/ ShutdownStaged \/ Stopped

-----------------------------------------------------------------------------
(* The process ends: memory is lost, and calls in flight are cut short. *)

ProcessEnds ==
    /\ run' = "down" /\ mu' = "free" /\ entry' = "none" /\ server' = "none"
    /\ releaseErr' = FALSE
    /\ act' = [a \in Actors |-> Idle]
    /\ cause' = cause \cup (IF Unrecoverable THEN {"window"} ELSE {})
    /\ UNCHANGED <<disk, durable>>

Exit == run \in {"stopped", "failed"} /\ ProcessEnds /\ UNCHANGED faults

Crash ==
    /\ run # "down" /\ faults < MaxFaults
    /\ ProcessEnds
    /\ faults' = faults + 1

-----------------------------------------------------------------------------
DirectoryStep(a) == (Removal(a) \/ Creation(a)) /\ UNCHANGED <<memory, durable>>

Interference ==
    /\ ReplaceDirectory \/ ReplaceSocket \/ ReplaceLink \/ DamageRecord \/ LoseGeneration
       \/ \E n \in Names : Plant(n)
    /\ UNCHANGED <<memory, durable>>

(* What one call, and the goroutine, do by themselves once started. *)
CallerStep(c) ==
    \/ DirectoryStep(c) \/ Relocate(c)
    \/ PrepareLock(c) \/ PrepareListening(c) \/ Register(c) \/ Registered(c)
    \/ PrepareJoin(c) \/ CommitPreparedTask(c) \/ PrepareFailed(c)
    \/ UnregisterClose(c) \/ UnregisterEnd(c)
    \/ ReleaseLock(c) \/ ReleaseJoin(c) \/ ReleasePinned(c)
    \/ ReleaseSend(c) \/ ReleaseClose(c) \/ ReleaseUnproven(c) \/ ReleaseEnd(c)
    \/ SweepEnd(c) \/ AuthorizeRemoval(c)

RunStep ==
    \/ DirectoryStep(Run) \/ Relocate(Run) \/ Recovery \/ Shutdown \/ ServerResult

Next ==
    \/ RunStep \/ Stop \/ Exit \/ Crash \/ CleanupAdvances \/ Interference
    \/ \E c \in Callers : CallerStep(c) \/ PrepareCall(c) \/ ReleaseCall(c)
    \/ \E a \in Actors : (IOError(a) \/ UnprovenError(a)) /\ UNCHANGED <<memory, durable>>

(* Every goroutine and every call that can take a step takes one. *)
Spec ==
    /\ Init /\ [][Next]_vars
    /\ WF_vars(RunStep)
    /\ \A c \in Callers : WF_vars(CallerStep(c))

-----------------------------------------------------------------------------
(* A task is refused only for a reason: somebody else's object stood where  *)
(* the attachment belongs, it predates relay identities, a process ended in *)
(* one of the windows Unrecoverable lists, a new preparation forgot an      *)
(* older directory, two sweeps met, a release overlapped the shutdown that  *)
(* closed its socket, or a call failed that leaves ownership unproven       *)
(* (UnprovenError).  Any other I/O error leaves the task to a later attempt. *)
RefusalIsExplained == refused => cause \ {"error"} # {}

(* While the goroutine serves an attachment and nobody holds the mutex, the *)
(* record, the directory, the link and the socket all say so.              *)
ReadyAttachmentIsWhole ==
    (/\ run = "running" /\ mu = "free" /\ server = "active"
     /\ entry \in {"ready", "recovered"} /\ "interference" \notin cause)
    => record = "active" /\ loc = "canonical" /\ link = "linked" /\ sock = "held"

(* Removal of the workspace is authorised only once no attachment is left,  *)
(* and no restart brings one back.                                         *)
NothingServesAfterRemoval ==
    (phase \in {"removal", "cleaned"} /\ ~refused)
    => entry = "none" /\ loc \notin Names

(* An attachment is served whole or not at all, from its publication to the *)
(* removal of its workspace.                                               *)
AttachmentIsWholeOrGone == TypeOK /\ ReadyAttachmentIsWhole /\ NothingServesAfterRemoval

(* What somebody else made is never removed, and is renamed only in the     *)
(* window between the inspection of a name and its rename.  Then it stays   *)
(* where the rename put it, and the actor that moved it gives up.  The one  *)
(* exception is a socket in a directory that was pinned before the socket's *)
(* identity was recorded: there the service takes whatever socket it finds. *)
Route(a) ==
    CASE At(a, "move") -> <<"canonical", "release">>
      [] At(a, "dirIsolate") -> <<act[a].pin, "isolation">>
      [] At(a, "publishDir") -> <<"creation", "canonical">>
      [] OTHER -> <<"none", "none">>

GivesUp(a) == act[a].held # "none" /\ act'[a].pc \in {"refuse", "failed"}

DirectoriesPreserved ==
    \A n \in foreign \ foreign' : \E a \in Actors :
        GivesUp(a) /\ Route(a)[1] = n /\ Route(a)[2] \in foreign'

SocketPreserved ==
    /\ sock = "foreign" =>
          \/ sock' = "foreign" \/ loc' # loc
          \/ \E a \in Actors : At(a, "sockIsolate") /\ act[a].stage = "creating"
          \/ sock' = "seized" /\ \E a \in Actors : At(a, "sockIsolate") /\ GivesUp(a)
    /\ sock = "seized" => sock' = "seized" \/ loc' # loc

LinkPreserved ==
    /\ link = "foreign" =>
          \/ link' = "foreign" \/ loc' # loc
          \/ link' = "seized" /\ \E a \in Actors : At(a, "linkIsolate") /\ GivesUp(a)
    /\ link = "seized" => link' = "seized" \/ loc' # loc

ForeignPathsPreserved ==
    [][DirectoriesPreserved /\ SocketPreserved /\ LinkPreserved]_vars

(* A stopping coordinator returns, whatever calls are in flight. *)
ShutdownCompletes == run = "stopping" ~> run \in {"stopped", "down"}
=============================================================================
