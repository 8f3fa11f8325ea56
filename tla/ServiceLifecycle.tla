-------------------------- MODULE ServiceLifecycle --------------------------
(***************************************************************************)
(* Processes of the service started on one data directory, and the clients *)
(* of its local endpoints.  A process takes the directory's writer lock,   *)
(* opens and repairs the store, claims its sockets, runs its components    *)
(* until one of them ends or it is told to stop, joins them and lets go of *)
(* everything in the reverse order.  The lock dies with its process; the   *)
(* socket files do not.                                                    *)
(*                                                                         *)
(* Readiness is decided by a goroutine of its own, which nobody joins: it  *)
(* waits for the runtime recovery, compares an unknown initiative with the *)
(* host's rollup and commits what it found.  Closing the store does not    *)
(* wait for that transaction, so its commit may land after the directory   *)
(* was given up.  The store's file admits one transaction that has written *)
(* at a time, whatever the process.                                        *)
(***************************************************************************)
EXTENDS Naturals, Sequences, FiniteSets

CONSTANTS
    Instances,       \* processes of the service
    None,
    Clients,         \* each with one operation, repeated until it is answered
    MaxConnections,  \* connections an endpoint serves at one time
    MaxStarts,       \* processes started in all
    MaxMishaps        \* crashes, failures, stops and lost answers

ASSUME LifecycleBounds == None \notin Instances /\ MaxConnections \in Nat \ {0}

Endpoints == <<"operator", "mcp">>
Components == {"endpoints", "control", "attachments", "candidate"}

(* Opening the store migrates it; the next three repair it.                *)
Startup == <<"open", "relay", "reconcile", "validation">>
StartupStages == {Startup[n] : n \in 1..Len(Startup)}

VARIABLES
    lock,         \* the process holding the writer lock, or None
    socket,       \* each endpoint's file: None, "stale" or its live owner
    pc,           \* what the main goroutine of each process does
    probed,       \* the endpoint whose stale file it is about to remove
    running,      \* the components it started that have not ended
    restored,     \* its runtime attachments are recovered
    connected,    \* its control connection is up
    readiness,    \* its readiness goroutine
    wrote,        \* the processes that have committed something since they started
    announced,    \* it called ready
    connections,  \* requests being served
    ledger,       \* durable: operations committed
    answered,     \* clients that have their outcome
    starts, mishaps

process == <<pc, probed, running, restored, connected, readiness, announced>>
serviceVars == <<lock, socket, process, wrote, connections, ledger, answered, starts, mishaps>>

ServiceInit ==
    /\ lock = None /\ socket = [e \in {"operator", "mcp"} |-> None]
    /\ pc = [i \in Instances |-> "off"] /\ probed = [i \in Instances |-> None]
    /\ running = [i \in Instances |-> {}]
    /\ restored = [i \in Instances |-> FALSE] /\ connected = [i \in Instances |-> FALSE]
    /\ readiness = [i \in Instances |-> "none"] /\ announced = [i \in Instances |-> FALSE]
    /\ wrote = {} /\ connections = {} /\ ledger = {} /\ answered = {} /\ starts = 0 /\ mishaps = 0

Mishap == mishaps < MaxMishaps /\ mishaps' = mishaps + 1
Go(i, stage) == pc' = [pc EXCEPT ![i] = stage]
ServedBy(i) == {k \in connections : k.instance = i}

\* No transaction that has written is still to be committed.
StoreFree == \A i \in Instances : readiness[i] # "committing"

-----------------------------------------------------------------------------
(* Starting.                                                               *)

\* A directory another process owns refuses the start, which changes nothing.
AcquireWriterAuthority(i) ==
    /\ pc[i] = "off" /\ starts < MaxStarts
    /\ lock = None
    /\ lock' = i /\ starts' = starts + 1
    /\ Go(i, Startup[1])
    /\ UNCHANGED <<socket, probed, running, restored, connected, readiness, announced,
                   connections, ledger, answered, mishaps, wrote>>

\* A repair that finds nothing to repair writes nothing.
StartupStep(i) ==
    /\ \E n \in 1..Len(Startup) :
          pc[i] = Startup[n] /\ Go(i, IF n < Len(Startup) THEN Startup[n + 1] ELSE Endpoints[1])
    /\ \/ StoreFree /\ wrote' = wrote \cup {i}
       \/ UNCHANGED wrote
    /\ UNCHANGED <<lock, socket, probed, running, restored, connected, readiness, announced,
                   connections, ledger, answered, starts, mishaps>>

Listening(i) == \E n \in 1..Len(Endpoints) : pc[i] = Endpoints[n]

\* Faulty variant: any socket file in the way is taken for a live endpoint.
MutStaleIsLive(i) ==
    /\ Listening(i) /\ probed[i] = None /\ socket[pc[i]] # None
    /\ Go(i, "closing")
    /\ UNCHANGED <<lock, socket, probed, running, restored, connected, readiness, announced,
                   connections, ledger, answered, starts, mishaps, wrote>>

\* A file that refuses a connection is stale; one that answers refuses the start.
PrepareSocketPath(i) ==
    /\ Listening(i) /\ probed[i] = None /\ socket[pc[i]] # None
    /\ IF socket[pc[i]] = "stale"
       THEN probed' = [probed EXCEPT ![i] = pc[i]] /\ UNCHANGED pc
       ELSE Go(i, "closing") /\ UNCHANGED probed
    /\ UNCHANGED <<lock, socket, running, restored, connected, readiness, announced,
                   connections, ledger, answered, starts, mishaps, wrote>>

\* Whatever is at the path by then is removed.
RemoveStaleSocket(i) ==
    /\ Listening(i) /\ probed[i] = pc[i]
    /\ socket' = [socket EXCEPT ![pc[i]] = None]
    /\ probed' = [probed EXCEPT ![i] = None]
    /\ UNCHANGED <<lock, pc, running, restored, connected, readiness, announced, connections,
                   ledger, answered, starts, mishaps, wrote>>

ListenEndpoint(i) ==
    /\ Listening(i) /\ probed[i] = None /\ socket[pc[i]] = None
    /\ socket' = [socket EXCEPT ![pc[i]] = i]
    /\ Go(i, IF pc[i] = Endpoints[1] THEN Endpoints[2] ELSE "composed")
    /\ UNCHANGED <<lock, probed, running, restored, connected, readiness, announced,
                   connections, ledger, answered, starts, mishaps, wrote>>

StartComponents(i) ==
    /\ pc[i] = "composed"
    /\ Go(i, "serving")
    /\ running' = [running EXCEPT ![i] = Components]
    /\ readiness' = [readiness EXCEPT ![i] = "waiting"]
    /\ UNCHANGED <<lock, socket, probed, restored, connected, announced, connections, ledger,
                   answered, starts, mishaps, wrote>>

-----------------------------------------------------------------------------
(* Running.  The control connection and readiness wait for the runtime      *)
(* recovery, readiness then for the host.                                   *)

Alive(i, component) == pc[i] = "serving" /\ component \in running[i]

RecoverRuntimeAttachments(i) ==
    /\ Alive(i, "attachments") /\ ~restored[i]
    /\ restored' = [restored EXCEPT ![i] = TRUE]
    /\ UNCHANGED <<lock, socket, pc, probed, running, connected, readiness, announced,
                   connections, ledger, answered, starts, mishaps, wrote>>

RunAfterRuntimeAttachmentRecovery(i) ==
    /\ Alive(i, "control") /\ restored[i] /\ ~connected[i]
    /\ connected' = [connected EXCEPT ![i] = TRUE]
    /\ UNCHANGED <<lock, socket, pc, probed, running, restored, readiness, announced,
                   connections, ledger, answered, starts, mishaps, wrote>>

\* Faulty variant: readiness does not wait for the runtime recovery.
MutReadyUnrecovered(i) ==
    /\ pc[i] = "serving" /\ readiness[i] = "waiting"
    /\ readiness' = [readiness EXCEPT ![i] = "reconciling"]
    /\ UNCHANGED <<lock, socket, pc, probed, running, restored, connected, announced,
                   connections, ledger, answered, starts, mishaps, wrote>>

\* waitForRecovery, and then the host's rollup or the end of the attempt's time.
ReadInitiativeHostRollup(i) ==
    /\ pc[i] = "serving" /\ readiness[i] = "waiting"
    /\ restored[i]
    /\ readiness' = [readiness EXCEPT ![i] = "reconciling"]
    /\ UNCHANGED <<lock, socket, pc, probed, running, restored, connected, announced,
                   connections, ledger, answered, starts, mishaps, wrote>>

\* Faulty variant: the transaction runs under a context nobody cancels.
MutUncancelled(i) ==
    /\ readiness[i] = "reconciling"
    /\ StoreFree
    /\ readiness' = [readiness EXCEPT ![i] = "committing"]
    /\ UNCHANGED <<lock, socket, pc, probed, running, restored, connected, announced,
                   connections, ledger, answered, starts, mishaps, wrote>>

(* The transaction has written, and its commit finds the context alive: what *)
(* cancels the context afterwards no longer stops it.                       *)
CommitInitiativeHostRecovery(i) ==
    /\ pc[i] = "serving" /\ readiness[i] = "reconciling"
    /\ StoreFree
    /\ readiness' = [readiness EXCEPT ![i] = "committing"]
    /\ UNCHANGED <<lock, socket, pc, probed, running, restored, connected, announced,
                   connections, ledger, answered, starts, mishaps, wrote>>

\* The commit lands, be its process serving, stopping or already without the lock.
CommitLands(i) ==
    /\ readiness[i] = "committing"
    /\ readiness' = [readiness EXCEPT ![i] = IF pc[i] = "serving" THEN "done" ELSE "none"]
    /\ wrote' = wrote \cup {i}
    /\ UNCHANGED <<lock, socket, pc, probed, running, restored, connected, announced,
                   connections, ledger, answered, starts, mishaps>>

\* The host does not confirm the initiative, which stays unknown.
InitiativeStaysUnknown(i) ==
    /\ pc[i] = "serving" /\ readiness[i] = "reconciling"
    /\ readiness' = [readiness EXCEPT ![i] = "done"]
    /\ UNCHANGED <<lock, socket, pc, probed, running, restored, connected, announced,
                   connections, ledger, answered, starts, mishaps, wrote>>

\* A cancelled wait or transaction ends; so does a result that nobody reads.
ReadinessEnds(i) ==
    /\ pc[i] # "serving" /\ readiness[i] \in {"waiting", "reconciling", "done"}
    /\ readiness' = [readiness EXCEPT ![i] = "none"]
    /\ UNCHANGED <<lock, socket, pc, probed, running, restored, connected, announced,
                   connections, ledger, answered, starts, mishaps, wrote>>

Ready(i) ==
    /\ pc[i] = "serving" /\ readiness[i] = "done" /\ ~announced[i]
    /\ announced' = [announced EXCEPT ![i] = TRUE]
    /\ UNCHANGED <<lock, socket, pc, probed, running, restored, connected, readiness,
                   connections, ledger, answered, starts, mishaps, wrote>>

-----------------------------------------------------------------------------
(* One request per connection.  What it commits is committed although the   *)
(* answer may be lost; the client repeats the same operation.               *)

Exchange(c) ==
    /\ c \notin answered /\ \A k \in connections : k.client # c
    /\ LET i == socket["operator"] IN
          /\ i \in Instances /\ Alive(i, "endpoints")
          /\ Cardinality(ServedBy(i)) < MaxConnections
          /\ connections' = connections \cup {[client |-> c, instance |-> i, stage |-> "handling"]}
    /\ UNCHANGED <<lock, socket, process, ledger, answered, starts, mishaps, wrote>>

Dispatch(k) ==
    /\ k.stage = "handling" /\ StoreFree
    /\ wrote' = wrote \cup {k.instance}
    /\ ledger' = ledger \cup {k.client}
    /\ connections' = (connections \ {k}) \cup {[k EXCEPT !.stage = "committed"]}
    /\ UNCHANGED <<lock, socket, process, answered, starts, mishaps>>

WriteOutcome(k) ==
    /\ k.stage = "committed"
    /\ connections' = connections \ {k}
    /\ answered' = answered \cup {k.client}
    /\ UNCHANGED <<lock, socket, process, ledger, starts, mishaps, wrote>>

\* The connection's deadline passes, or the handler is refused by a cancelled context.
OutcomeLost(k) ==
    /\ IF pc[k.instance] = "serving" THEN Mishap ELSE UNCHANGED mishaps
    /\ connections' = connections \ {k}
    /\ UNCHANGED <<lock, socket, process, ledger, answered, starts, wrote>>

-----------------------------------------------------------------------------
(* Stopping.                                                               *)

Unlinked(i) == [e \in DOMAIN socket |-> IF socket[e] = i THEN None ELSE socket[e]]

\* A step of the start fails, or the process is told to stop during it.
StartupFails(i) ==
    /\ Mishap
    /\ pc[i] \in StartupStages \cup {"operator", "mcp", "composed"}
    /\ Go(i, "closing")
    /\ socket' = Unlinked(i)
    /\ probed' = [probed EXCEPT ![i] = None]
    /\ UNCHANGED <<lock, running, restored, connected, readiness, announced, connections,
                   ledger, answered, starts, wrote>>

(* The first component to end, or the signal, cancels all of them and closes *)
(* the servers, which removes their sockets.                                 *)
StopService(i) ==
    /\ Mishap
    /\ pc[i] = "serving"
    /\ Go(i, "stopping")
    /\ socket' = Unlinked(i)
    /\ UNCHANGED <<lock, probed, running, restored, connected, readiness, announced,
                   connections, ledger, answered, starts, wrote>>

\* The endpoints' component joins the connections it serves.
ComponentEnds(i, component) ==
    /\ pc[i] = "stopping" /\ component \in running[i]
    /\ component = "endpoints" => ServedBy(i) = {}
    /\ running' = [running EXCEPT ![i] = @ \ {component}]
    /\ UNCHANGED <<lock, socket, pc, probed, restored, connected, readiness, announced,
                   connections, ledger, answered, starts, mishaps, wrote>>

ComponentsJoined(i) ==
    /\ pc[i] = "stopping" /\ running[i] = {}
    /\ Go(i, "closing")
    /\ UNCHANGED <<lock, socket, probed, running, restored, connected, readiness, announced,
                   connections, ledger, answered, starts, mishaps, wrote>>

\* It closes the connection nobody uses; a transaction keeps the one it has.
CloseStore(i) ==
    /\ pc[i] = "closing"
    /\ Go(i, "closed")
    /\ UNCHANGED <<lock, socket, probed, running, restored, connected, readiness, announced,
                   connections, ledger, answered, starts, mishaps, wrote>>

Forget(i) ==
    /\ Go(i, "off")
    /\ running' = [running EXCEPT ![i] = {}]
    /\ restored' = [restored EXCEPT ![i] = FALSE]
    /\ connected' = [connected EXCEPT ![i] = FALSE]
    /\ readiness' = [readiness EXCEPT ![i] = "none"]
    /\ announced' = [announced EXCEPT ![i] = FALSE]
    /\ wrote' = wrote \ {i}

\* The lock goes last.
ReleaseWriterLock(i) ==
    /\ pc[i] = "closed"
    /\ lock' = None
    /\ Go(i, "released")
    /\ UNCHANGED <<socket, probed, running, restored, connected, readiness, announced,
                   connections, ledger, answered, starts, mishaps, wrote>>

\* RunCommand returns, and what is still running ends with the process.
ProcessExits(i) ==
    /\ pc[i] = "released"
    /\ Forget(i)
    /\ connections' = connections \ ServedBy(i)
    /\ UNCHANGED <<lock, socket, probed, ledger, answered, starts, mishaps>>

\* The kernel drops the lock of a killed process; its socket files stay.
ProcessKilled(i) ==
    /\ Mishap
    /\ pc[i] # "off"
    /\ Forget(i)
    /\ lock' = IF lock = i THEN None ELSE lock
    /\ socket' = [e \in DOMAIN socket |-> IF socket[e] = i THEN "stale" ELSE socket[e]]
    /\ probed' = [probed EXCEPT ![i] = None]
    /\ connections' = connections \ ServedBy(i)
    /\ UNCHANGED <<ledger, answered, starts>>

-----------------------------------------------------------------------------
Step(i) ==
    \/ StartupStep(i) \/ PrepareSocketPath(i) \/ RemoveStaleSocket(i) \/ ListenEndpoint(i)
    \/ StartComponents(i) \/ RecoverRuntimeAttachments(i)
    \/ RunAfterRuntimeAttachmentRecovery(i) \/ Ready(i)
    \/ ComponentsJoined(i) \/ CloseStore(i) \/ ReleaseWriterLock(i) \/ ProcessExits(i)

ReadinessStep(i) ==
    \/ ReadInitiativeHostRollup(i) \/ CommitInitiativeHostRecovery(i) \/ CommitLands(i)
    \/ InitiativeStaysUnknown(i) \/ ReadinessEnds(i)

ServeStep(k) == Dispatch(k) \/ WriteOutcome(k) \/ OutcomeLost(k)

ServiceNext ==
    \/ \E i \in Instances :
          \/ AcquireWriterAuthority(i) \/ Step(i) \/ ReadinessStep(i)
          \/ StartupFails(i) \/ StopService(i) \/ ProcessKilled(i)
          \/ \E component \in Components : ComponentEnds(i, component)
    \/ \E c \in Clients : Exchange(c)
    \/ \E k \in connections : ServeStep(k)

(* The goroutines of a live process run, and clients repeat what has not     *)
(* been answered; nothing makes anybody start another process.              *)
Fairness ==
    /\ \A i \in Instances :
          /\ WF_serviceVars(Step(i)) /\ WF_serviceVars(ReadinessStep(i))
          /\ \A component \in Components : WF_serviceVars(ComponentEnds(i, component))
    /\ \A c \in Clients : WF_serviceVars(Exchange(c))
    /\ WF_serviceVars(\E k \in connections : ServeStep(k))

ServiceSpec == ServiceInit /\ [][ServiceNext]_serviceVars /\ Fairness

-----------------------------------------------------------------------------
\* What may still commit: a transaction of the readiness goroutine is one only
\* while its context lives, or once its commit has seen it alive.
MayWrite(i) ==
    \/ pc[i] \in StartupStages
    \/ running[i] # {}
    \/ \E k \in ServedBy(i) : k.stage = "handling"
    \/ readiness[i] = "reconciling" /\ pc[i] = "serving"
    \/ readiness[i] = "committing"

\* A commit begun before the stop that outlives the lock.
LateCommit(i) == readiness[i] = "committing" /\ pc[i] = "released"

(* OneWriter: no two processes are ever in a position to write the store, be *)
(* it by a repair of the start, a component or a request, except for the one *)
(* commit of the readiness goroutine that nobody joins; and as long as that  *)
(* commit is out, the process that has taken the directory over has written  *)
(* nothing it could undo (acquireWriterAuthority, the joins before           *)
(* lock.Release, the run's context given to CommitInitiativeHostRecovery).   *)
OneWriter ==
    \A i, j \in Instances : MayWrite(i) /\ MayWrite(j) /\ i # j =>
        \/ LateCommit(i) /\ j \notin wrote
        \/ LateCommit(j) /\ i \notin wrote

(* ReadyIsReachable: while a process that announced itself serves, every      *)
(* endpoint leads to it, it holds the directory, and its runtime recovery is *)
(* over (prepareSocketPath, removeOwnedSocket, runReadinessSteps).           *)
ReadyIsReachable ==
    \A i \in Instances : announced[i] /\ pc[i] = "serving" =>
        /\ lock = i /\ restored[i]
        /\ \A e \in DOMAIN socket : socket[e] = i

(* StartsAndStops: when nothing fails any more, a process that holds the      *)
(* directory becomes ready whatever its predecessor left behind, connects,   *)
(* answers every client, and one that is stopping ends (the stale-socket     *)
(* repair, the order in which recovery, control and readiness wait).         *)
StartsAndStops ==
    \A i \in Instances :
        /\ (pc[i] \in StartupStages /\ mishaps = MaxMishaps)
              ~> (announced[i] /\ connected[i] /\ Clients \subseteq answered)
        /\ pc[i] = "stopping" ~> pc[i] = "off"
=============================================================================
