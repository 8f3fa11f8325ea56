---------------------------- MODULE ControlSession --------------------------
(***************************************************************************)
(* The service's side of the Comis control protocol: one connection that   *)
(* is re-established for ever, the four loops that send over it (reports,  *)
(* evidence, attention for open decisions, heartbeats) and the goroutines  *)
(* that answer what the host asks over the same connection.                *)
(*                                                                         *)
(* Every loop has one call in flight at most and waits for its answer in   *)
(* the session's pending table.  A call that gives up leaves its request   *)
(* with the host, whose late answer then finds no waiter and ends the      *)
(* session for everybody.  The host is external: it applies an operation   *)
(* identity once and answers every request, in any order and at any time.  *)
(***************************************************************************)
EXTENDS Naturals, Sequences, FiniteSets

CONSTANTS
    MaxReports,      \* worker reports queued for the host
    Decision,        \* the one that asks for a decision, of a task that waits for it
    Candidate,       \* the one that completes another task's candidate
    Evidence,        \* the candidate's evidence publications, numbered
    MaxSurfacings,   \* times the open decision is surfaced
    MaxBeats,        \* heartbeats sent
    HostOperations,  \* operations the host asks of the service
    MaxInFlight,     \* inbound requests handled at one time
    MaxFaults        \* lost sessions, timeouts, refusals and crashes

ASSUME ControlBounds ==
    /\ MaxReports \in Nat /\ Decision \in 1..MaxReports
    /\ Candidate \in 1..MaxReports \ {Decision}
    /\ Evidence \subseteq Nat /\ IsFiniteSet(Evidence)
    /\ MaxInFlight \in Nat \ {0}

Callers == {"reports", "evidence", "attention", "beats"}

VARIABLES
    queued,     \* durable: reports in the outbox, oldest first
    validated,  \* durable: the candidate is accepted, its evidence queued
    delivered,  \* durable: operations with a recorded acknowledgement
    surfaced,   \* durable: recorded surfacings of the open decision
    link,       \* "down" | "up" | "failed" (published until it is unpublished)
    pending,    \* operations with a waiter on the present session
    call,       \* what each sending loop is doing
    handlers,   \* inbound requests being handled, and whether their session lives
    asked,      \* operations the host has asked on the present session
    beats,      \* heartbeats sent
    requests,   \* frames written and not processed, on a live session or a past one
    replies,    \* answers on their way back on the present session
    accepted,   \* the reports and evidence the host accepted, in order
    raised,     \* the surfacings the host accepted
    answered,   \* host operations the host has the answer to
    faults

durable == <<queued, validated, delivered, surfaced>>
wire == <<requests, replies>>
host == <<accepted, raised, answered, asked>>
vars == <<durable, link, pending, call, handlers, beats, wire, host, faults>>

NoOperation == <<"none", 0>>
Idle == [op |-> NoOperation, stage |-> "idle"]

Init ==
    /\ queued = 0 /\ validated = FALSE /\ delivered = {} /\ surfaced = 0
    /\ link = "down" /\ pending = {}
    /\ call = [c \in Callers |-> Idle]
    /\ handlers = {} /\ asked = {} /\ beats = 0
    /\ requests = {} /\ replies = {} /\ accepted = <<>> /\ raised = {} /\ answered = {} /\ faults = 0

Fault == faults < MaxFaults /\ faults' = faults + 1
Accepted == {accepted[i] : i \in DOMAIN accepted} \cup raised

-----------------------------------------------------------------------------
(* What the workers and the validator leave in the outboxes.               *)

\* insertComisReport, in the transaction that accepts the worker's report.
EnqueueReport ==
    /\ queued < MaxReports
    /\ queued' = queued + 1
    /\ UNCHANGED <<validated, delivered, surfaced, link, pending, call,
                   handlers, beats, wire, host, faults>>

\* The transaction that accepts a validated candidate queues its evidence.
AcceptCandidate ==
    /\ queued >= Candidate /\ ~validated
    /\ validated' = TRUE
    /\ UNCHANGED <<queued, delivered, surfaced, link, pending, call,
                   handlers, beats, wire, host, faults>>

-----------------------------------------------------------------------------
(* The connection.                                                         *)

Connect ==
    /\ link = "down"
    /\ link' = "up"
    /\ UNCHANGED <<durable, pending, call, handlers, beats, wire, host, faults>>

(* fail: the table is emptied and every waiter in it is given the error,     *)
(* which leaves its row for the loop's next turn; a call whose answer was   *)
(* routed before keeps it.  The connection's answers are gone; what the     *)
(* host has not processed of it, it still may (processing again what it     *)
(* holds changes nothing).                                                 *)
FailWaiters ==
    call' = [c \in Callers |-> IF call[c].op \in pending THEN Idle ELSE call[c]]

ConnectionEnds ==
    /\ pending' = {} /\ replies' = {}
    /\ requests' = {[r EXCEPT !.live = FALSE, !.try = 0] :
                       r \in {m \in requests : m.op \notin Accepted /\ m.op[1] # "beats"}}

Fail ==
    /\ link' = "failed"
    /\ FailWaiters /\ ConnectionEnds
    /\ handlers' = {[h EXCEPT !.live = FALSE] : h \in handlers}

LoseConnection ==
    /\ Fault /\ link = "up"
    /\ Fail
    /\ UNCHANGED <<durable, beats, host>>

\* Faulty variant: serve returns without joining its workers.
MutServeWithoutWait ==
    /\ link = "failed"
    /\ link' = "down" /\ asked' = {}
    /\ UNCHANGED <<durable, pending, call, handlers, beats, wire, accepted,
                   raised, answered, faults>>

\* serve joins the session's workers; then Run unpublishes it and reconnects.
Unpublish ==
    /\ link = "failed"
    /\ handlers = {}
    /\ link' = "down" /\ asked' = {}
    /\ UNCHANGED <<durable, pending, call, handlers, beats, wire, accepted,
                   raised, answered, faults>>

-----------------------------------------------------------------------------
(* What each loop would send next, as a set of at most one operation.      *)

PendingEvidence ==
    {<<"evidence", e>> : e \in IF validated THEN Evidence ELSE {}} \ delivered

\* Faulty variant: the candidate report does not wait for its evidence.
MutUngated(i) == <<"reports", i>> \notin delivered /\ (i = Candidate => validated)

ReportIsDue(i) ==
    /\ <<"reports", i>> \notin delivered
    /\ i = Candidate => validated /\ PendingEvidence = {}

Oldest(S) == {m \in S : \A n \in S : m[2] <= n[2]}

NextComisReport == Oldest({<<"reports", i>> : i \in {n \in 1..queued : ReportIsDue(n)}})

NextComisEvidence == Oldest(PendingEvidence)

(* The report itself was the first time the question was asked, so it is    *)
(* due again only once that is delivered.  Each surfacing has an identity   *)
(* of its own; a repeat of an unrecorded one has not.                       *)
DecisionRaise ==
    IF <<"reports", Decision>> \in delivered /\ surfaced < MaxSurfacings
    THEN {<<"attention", surfaced + 1>>} ELSE {}

\* A delivered run is not worth beating for.
LivenessBeat ==
    IF <<"reports", Candidate>> \in delivered \/ beats = MaxBeats
    THEN {} ELSE {<<"beats", beats>>}

NextOperation(c) ==
    CASE c = "reports" -> NextComisReport
      [] c = "evidence" -> NextComisEvidence
      [] c = "attention" -> DecisionRaise
      [] c = "beats" -> LivenessBeat

-----------------------------------------------------------------------------
(* A call: registered, written, and then one of answered, failed with its   *)
(* session, or given up.  A send on a failed session fails at once, which   *)
(* changes nothing, and so does one under an identity still in flight.      *)

Send(c) ==
    /\ link = "up" /\ call[c].stage = "idle"
    /\ \E op \in NextOperation(c) :
          /\ op \notin pending
          /\ pending' = pending \cup {op}
          /\ call' = [call EXCEPT ![c] = [op |-> op, stage |-> "waiting"]]
          /\ requests' = requests \cup {[op |-> op, live |-> TRUE, try |-> faults]}
    /\ beats' = IF c = "beats" THEN beats + 1 ELSE beats
    /\ UNCHANGED <<durable, link, handlers, replies, host, faults>>

Answer(r, ok) == IF r.live THEN {[op |-> r.op, try |-> r.try, ok |-> ok]} ELSE {}

\* The host applies each identity once and acknowledges every request.
HostAccepts(r) ==
    /\ requests' = requests \ {r}
    /\ accepted' = IF r.op \in Accepted \/ r.op[1] \notin {"reports", "evidence"}
                   THEN accepted ELSE Append(accepted, r.op)
    /\ raised' = IF r.op[1] = "attention" THEN raised \cup {r.op} ELSE raised
    /\ replies' = replies \cup Answer(r, TRUE)
    /\ UNCHANGED <<durable, link, pending, call, handlers, beats, asked, answered, faults>>

\* An error answer, or none at all: the sender cannot tell what became of it.
HostRefuses(r) ==
    /\ Fault
    /\ requests' = requests \ {r}
    /\ replies' \in {replies, replies \cup Answer(r, FALSE)}
    /\ UNCHANGED <<durable, link, pending, call, handlers, beats, host>>

\* resolveResponse: an answer without a waiter ends the session for all calls.
ResolveResponse(r) ==
    /\ IF r.op \in pending
       THEN /\ pending' = pending \ {r.op} /\ replies' = replies \ {r}
            /\ call' = [c \in Callers |->
                           IF call[c].op # r.op THEN call[c]
                           ELSE IF r.ok THEN [call[c] EXCEPT !.stage = "answered"] ELSE Idle]
            /\ UNCHANGED <<link, handlers, requests>>
       ELSE Fail
    /\ UNCHANGED <<durable, beats, host, faults>>

\* The deadline passes while an answer may still come, or, as it must, when none will.
DeadlinePasses(op) ==
    IF \E m \in requests : m.op = op /\ m.live THEN Fault
    ELSE IF \E m \in replies : m.op = op THEN Fault ELSE UNCHANGED faults

GiveUp(c) == call[c].stage = "waiting" /\ call' = [call EXCEPT ![c] = Idle]

\* Faulty variant: a call that gives up leaves its waiter in the table.
MutWaiterKept(c) ==
    /\ GiveUp(c)
    /\ DeadlinePasses(call[c].op)
    /\ UNCHANGED <<durable, link, pending, handlers, beats, wire, host>>

\* The outcome is uncertain: the row stays for the next turn under the same identity.
CallTimesOut(c) ==
    /\ GiveUp(c)
    /\ DeadlinePasses(call[c].op)
    /\ pending' = pending \ {call[c].op}
    /\ UNCHANGED <<durable, link, handlers, beats, wire, host>>

(* The reader has taken the waiter out of the table and not yet handed it   *)
(* the answer when the deadline passes: the answer is lost, the session     *)
(* lives on.                                                               *)
AnswerLostToDeadline(c) ==
    /\ Fault
    /\ GiveUp(c)
    /\ \E r \in replies : r.op = call[c].op /\ replies' = replies \ {r}
    /\ pending' = pending \ {call[c].op}
    /\ UNCHANGED <<durable, link, handlers, beats, requests, host>>

-----------------------------------------------------------------------------
(* The loops' ends, once the exact acknowledgement is there.                *)

MarkComisDelivered(c) ==
    /\ c \in {"reports", "evidence"}
    /\ delivered' = delivered \cup {call[c].op}
    /\ UNCHANGED surfaced

RecordDecisionSurfaced(c) ==
    /\ c = "attention"
    /\ surfaced' = surfaced + 1
    /\ UNCHANGED delivered

HeartbeatAnswered(c) == c = "beats" /\ UNCHANGED <<delivered, surfaced>>

CallAnswered(c) ==
    /\ call[c].stage = "answered"
    /\ MarkComisDelivered(c) \/ RecordDecisionSurfaced(c) \/ HeartbeatAnswered(c)
    /\ call' = [call EXCEPT ![c] = Idle]
    /\ UNCHANGED <<queued, validated, link, pending, handlers, beats, wire, host, faults>>

-----------------------------------------------------------------------------
(* Inbound requests.  The host repeats an unanswered operation on a later   *)
(* session, never twice on one, and keeps to the limit unless it errs.      *)

\* The semaphore belongs to the session, and a worker gives its place back when it ends.
InFlight == Cardinality({h \in handlers : h.live})

Dispatch(o) ==
    /\ link = "up" /\ o \notin answered \cup asked
    /\ asked' = asked \cup {o}
    /\ InFlight < MaxInFlight
    /\ handlers' = handlers \cup {[op |-> o, live |-> TRUE]}
    /\ UNCHANGED <<durable, link, pending, call, beats, wire, accepted, raised, answered,
                   faults>>

\* One request more than the session takes ends it.
RequestLimitExceeded ==
    /\ Fault
    /\ link = "up" /\ InFlight >= MaxInFlight
    /\ Fail
    /\ UNCHANGED <<durable, beats, host>>

(* The durable mutation is a replay under an identity that was completed;   *)
(* the answer goes to the connection the request came from, if it lives.    *)
HandleOperation(h) ==
    /\ handlers' = handlers \ {h}
    /\ answered' = IF h.live THEN answered \cup {h.op} ELSE answered
    /\ UNCHANGED <<durable, link, pending, call, beats, wire, accepted, raised, asked,
                   faults>>

-----------------------------------------------------------------------------
\* The process ends and starts again: what the host has received stays with it.
Crash ==
    /\ Fault
    /\ link' = "down" /\ call' = [c \in Callers |-> Idle]
    /\ handlers' = {} /\ asked' = {}
    /\ ConnectionEnds
    /\ UNCHANGED <<durable, beats, accepted, raised, answered>>

Next ==
    \/ EnqueueReport \/ AcceptCandidate
    \/ Connect \/ LoseConnection \/ Unpublish \/ Crash
    \/ \E c \in Callers :
          Send(c) \/ CallTimesOut(c) \/ AnswerLostToDeadline(c) \/ CallAnswered(c)
    \/ \E r \in requests : HostAccepts(r) \/ HostRefuses(r)
    \/ \E r \in replies : ResolveResponse(r)
    \/ RequestLimitExceeded \/ \E o \in HostOperations : Dispatch(o)
    \/ \E h \in handlers : HandleOperation(h)

(* The loops and the connection run until the service stops; deadlines       *)
(* pass; the host answers and keeps asking for what it has no answer to.     *)
Fairness ==
    /\ WF_vars(Connect) /\ WF_vars(Unpublish)
    /\ \A c \in Callers :
          WF_vars(Send(c)) /\ WF_vars(CallTimesOut(c)) /\ WF_vars(CallAnswered(c))
    /\ WF_vars(\E r \in requests : HostAccepts(r))
    /\ WF_vars(\E r \in replies : ResolveResponse(r))
    /\ WF_vars(\E h \in handlers : HandleOperation(h))
    /\ \A o \in HostOperations : WF_vars(Dispatch(o))

Spec == Init /\ [][Next]_vars /\ Fairness

-----------------------------------------------------------------------------
Position(op) == CHOOSE i \in DOMAIN accepted : accepted[i] = op
Precedes(p, q) == q \in Accepted => p \in Accepted /\ Position(p) < Position(q)

(* HostHearsInOrder: whatever is retried, answered late or lost, the host     *)
(* first sees the workers' reports in the order they were stored, and the    *)
(* candidate's completion only after every evidence publication it names     *)
(* (NextComisReport and the forwarders).                                    *)
HostHearsInOrder ==
    /\ \A i, j \in 1..queued :
          i < j /\ i # Candidate => Precedes(<<"reports", i>>, <<"reports", j>>)
    /\ \A e \in Evidence : Precedes(<<"evidence", e>>, <<"reports", Candidate>>)

(* RecordedIsHeld: a row is marked delivered, and a surfacing counted, only   *)
(* when the host holds it; and at most one surfacing that the host holds is  *)
(* not counted yet, so a crash repeats one question and loses none           *)
(* (MarkComisReportDelivered, MarkComisEvidenceDelivered, RecordSurfaced).   *)
RecordedIsHeld ==
    /\ delivered \subseteq Accepted
    /\ \E m \in {surfaced, surfaced + 1} : raised = {<<"attention", n>> : n \in 1..m}

(* HostAndStoreAgree: what the host has heard and what the store says it has   *)
(* heard differ by at most the calls in flight, and never in their order.    *)
HostAndStoreAgree == HostHearsInOrder /\ RecordedIsHeld

(* OneHandlerPerOperation: although the host repeats on a new session what    *)
(* an old one left unanswered, the handler of the old one has ended before   *)
(* the new one begins (serve waits for its workers before Run reconnects),   *)
(* and the session's limit bounds all the handlers there are.                *)
OneHandlerPerOperation ==
    /\ \A g, h \in handlers : g.op = h.op => g = h
    /\ Cardinality(handlers) <= MaxInFlight

Owed == {i \in 1..queued : <<"reports", i>> \notin delivered /\ (i = Candidate => validated)}

(* EverythingArrives: whatever the loops owe the host (every queued report,   *)
(* the candidate's once it is validated) is eventually recorded as delivered *)
(* and every operation of the host is eventually answered, through timeouts, *)
(* late answers that end the session, lost connections and restarts          *)
(* (ControlConnection.Run, the forwarders' retries, removePending).          *)
EverythingArrives == []<>(Owed = {} /\ HostOperations \subseteq answered)
=============================================================================
