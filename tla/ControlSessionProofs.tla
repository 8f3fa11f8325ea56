-------------------------- MODULE ControlSessionProofs ------------------------
(***************************************************************************)
(* The safety invariants of ControlSession for any outboxes, bounds, host  *)
(* operations and faults.                                                  *)
(*                                                                         *)
(* A request may reach the host at any time after it was sent, on a        *)
(* session long gone.  What makes that harmless is that an operation is    *)
(* sent only when everything the host must hear before it is recorded, and *)
(* recorded only when the host holds it, and both are for ever.            *)
(***************************************************************************)
EXTENDS ControlSession, FiniteSetTheorems, TLAPS

-----------------------------------------------------------------------------
(* The inductive invariant.                                                *)

Outbox == {"reports", "evidence"} \X Nat
Operations == Callers \X Nat

ControlTypeOK ==
    /\ queued \in Nat /\ surfaced \in Nat /\ faults \in Nat /\ beats \in Nat
    /\ delivered \subseteq Outbox /\ accepted \in Seq(Outbox)
    /\ raised \subseteq {"attention"} \X Nat
    /\ requests \subseteq [op: Operations, live: BOOLEAN, try: Nat]
    /\ replies \subseteq [op: Operations, try: Nat, ok: BOOLEAN]
    /\ call \in [Callers -> [op: Operations \cup {NoOperation}, stage: {"idle", "waiting", "answered"}]]

\* What the host must have heard before it hears op, is in S: the reports queued
\* before it, and before the candidate's completion its evidence.
Ripe(op, S) ==
    op[1] = "reports" =>
      /\ \A i \in 1..queued : i < op[2] /\ i # Candidate => <<"reports", i>> \in S
      /\ op[2] = Candidate => \A e \in Evidence : <<"evidence", e>> \in S

\* Every operation that was ever sent was ripe, and at most the next surfacing.
Sent(op) ==
    /\ op[1] = "reports" => op[2] \in 1..queued
    /\ Ripe(op, delivered)
    /\ op[1] = "attention" => op[2] \in 1..(surfaced + 1)

\* A call is of its own loop, and an answered one is held by the host.
CallInv(c) ==
    \/ call[c] = Idle
    \/ /\ call[c] \in [op: {c} \X Nat, stage: {"waiting", "answered"}] /\ Sent(call[c].op)
       /\ c = "attention" => call[c].op = <<"attention", surfaced + 1>>
       /\ call[c].stage = "answered" => c = "beats" \/ call[c].op \in Accepted

WireInv ==
    /\ \A r \in requests : Sent(r.op)
    /\ \A r \in replies : r.ok => r.op[1] = "beats" \/ r.op \in Accepted

Heard(n) == {accepted[k] : k \in 1..n}

\* The host heard each operation once and when it was ripe.
HeardInv ==
    /\ \A k \in DOMAIN accepted :
         /\ Ripe(accepted[k], Heard(k - 1)) /\ accepted[k] \notin Heard(k - 1)
         /\ accepted[k][1] = "reports" => accepted[k][2] \in 1..queued
    /\ RecordedIsHeld

\* A published session has only handlers of its own.
HandlerInv ==
    /\ handlers \subseteq [op: HostOperations, live: BOOLEAN] /\ IsFiniteSet(handlers)
    /\ link = "up" => \A h \in handlers : h.live /\ h.op \in asked
    /\ link = "down" => handlers = {}
    /\ OneHandlerPerOperation

ControlInv ==
    /\ ControlTypeOK
    /\ \A c \in Callers : CallInv(c)
    /\ WireInv /\ HeardInv /\ HandlerInv

-----------------------------------------------------------------------------
(* The store and the host only move forward, so what was sent stays ripe.  *)

Forward ==
    /\ queued' \in Nat /\ queued <= queued' /\ delivered \subseteq delivered'
    /\ surfaced' \in Nat /\ surfaced <= surfaced' /\ Accepted \subseteq Accepted'

Still == UNCHANGED <<queued, delivered, surfaced, accepted, raised>>

LEMMA StillIsForward ==
    ASSUME ControlInv, Still
    PROVE  Forward /\ Accepted' = Accepted
    BY DEF ControlInv, ControlTypeOK, Still, Forward, Accepted

LEMMA SentForward ==
    ASSUME ControlInv, Forward, NEW op, Sent(op)
    PROVE  Sent(op)'
    <1>1. queued \in Nat /\ queued' \in Nat /\ queued <= queued'
          /\ surfaced \in Nat /\ surfaced' \in Nat /\ surfaced <= surfaced'
        BY DEF ControlInv, ControlTypeOK, Forward
    <1>2. op[1] = "reports" => op[2] \in 1..queued /\ op[2] \in 1..queued'
        BY <1>1 DEF Sent
    <1>3. op[1] = "attention" => op[2] \in 1..(surfaced' + 1)
        BY <1>1 DEF Sent
    <1>4. ASSUME op[1] = "reports", NEW i \in 1..queued', i < op[2], i # Candidate
          PROVE  <<"reports", i>> \in delivered'
        <2>1. i \in 1..queued
            BY <1>1, <1>2, <1>4
        <2>2. QED
            BY <1>4, <2>1 DEF Sent, Ripe, Forward
    <1>5. op[1] = "reports" /\ op[2] = Candidate => \A e \in Evidence : <<"evidence", e>> \in delivered'
        BY DEF Sent, Ripe, Forward
    <1>6. QED
        BY <1>2, <1>3, <1>4, <1>5 DEF Sent, Ripe

\* A call that stays as it is, or ends.
LEMMA CallStays ==
    ASSUME ControlInv, Forward, NEW c \in Callers,
           \/ call'[c] = Idle
           \/ call'[c] = call[c] /\ (c = "attention" => surfaced' = surfaced)
    PROVE  CallInv(c)'
    <1>1. CASE call'[c] = Idle
        BY <1>1 DEF CallInv
    <1>2. CASE call[c] # Idle /\ call'[c] = call[c] /\ (c = "attention" => surfaced' = surfaced)
        <2>1. CallInv(c)
            BY DEF ControlInv
        <2>2. ASSUME NEW op, op = call[c].op PROVE Sent(op)'
            BY <1>2, <2>1, <2>2, SentForward DEF CallInv
        <2>3. Sent(call[c].op)'
            BY <1>2, <2>2
        <2>4. call'[c].stage = "answered" => c = "beats" \/ call'[c].op \in Accepted'
            BY <1>2, <2>1 DEF CallInv, Forward
        <2>5. QED
            BY <1>2, <2>1, <2>3, <2>4 DEF CallInv
    <1>3. QED
        BY <1>1, <1>2

LEMMA HeardStays ==
    ASSUME ControlInv, UNCHANGED <<accepted, raised, delivered, surfaced>>,
           queued' \in Nat, queued <= queued'
    PROVE  HeardInv'
    <1>1. \A n : Heard(n)' = Heard(n)
        BY DEF Heard
    <1>2. RecordedIsHeld'
        BY DEF ControlInv, HeardInv, RecordedIsHeld, Accepted
    <1>3. ASSUME NEW k \in DOMAIN accepted
          PROVE  /\ Ripe(accepted[k], Heard(k - 1))' /\ accepted'[k] \notin Heard(k - 1)'
                 /\ accepted'[k][1] = "reports" => accepted'[k][2] \in 1..queued'
        <2>1. /\ Ripe(accepted[k], Heard(k - 1)) /\ accepted[k] \notin Heard(k - 1)
              /\ accepted[k][1] = "reports" => accepted[k][2] \in 1..queued
              /\ queued \in Nat
            BY DEF ControlInv, HeardInv, ControlTypeOK
        <2>2. accepted'[k] \notin Heard(k - 1)'
            BY <1>1, <2>1
        <2>3. accepted'[k][1] = "reports" => accepted'[k][2] \in 1..queued'
            BY <2>1
        <2>4. ASSUME accepted[k][1] = "reports", NEW i \in 1..queued', i < accepted[k][2], i # Candidate
              PROVE  <<"reports", i>> \in Heard(k - 1)
            <3>1. i \in 1..queued
                BY <2>1, <2>4
            <3>2. QED
                BY <2>1, <2>4, <3>1 DEF Ripe
        <2>5. Ripe(accepted[k], Heard(k - 1))'
            BY <1>1, <2>1, <2>4 DEF Ripe
        <2>6. QED
            BY <2>2, <2>3, <2>5
    <1>4. QED
        BY <1>2, <1>3 DEF HeardInv

LEMMA HandlersStay ==
    ASSUME ControlInv, UNCHANGED <<link, handlers, asked>>
    PROVE  HandlerInv'
    BY DEF ControlInv, HandlerInv, OneHandlerPerOperation

-----------------------------------------------------------------------------
(* The outboxes and the connection.                                        *)

LEMMA OutboxKeeps ==
    ASSUME ControlInv, EnqueueReport \/ AcceptCandidate
    PROVE  ControlInv'
    <1>1. /\ UNCHANGED <<delivered, surfaced, link, call, handlers, asked, beats, requests,
                         replies, accepted, raised, faults>>
          /\ queued' \in Nat /\ queued <= queued'
        BY DEF EnqueueReport, AcceptCandidate, wire, host, ControlInv, ControlTypeOK
    <1>2. Accepted' = Accepted /\ Forward
        BY <1>1 DEF Accepted, Forward, ControlInv, ControlTypeOK
    <1>3. ControlTypeOK' /\ HandlerInv' /\ HeardInv'
        BY <1>1, HandlersStay, HeardStays DEF ControlInv, ControlTypeOK
    <1>4. WireInv'
        BY <1>1, <1>2, SentForward DEF ControlInv, WireInv
    <1>5. \A c \in Callers : CallInv(c)'
        BY <1>1, <1>2, CallStays
    <1>6. QED
        BY <1>3, <1>4, <1>5 DEF ControlInv

\* The session goes, and with it its answers; what was sent may still arrive.
LEMMA ConnectionEndsKeeps ==
    ASSUME ControlInv, Still, UNCHANGED beats, faults' \in Nat, ConnectionEnds,
           call' \in [Callers -> [op: Operations \cup {NoOperation}, stage: {"idle", "waiting", "answered"}]],
           \A c \in Callers : call'[c] = Idle \/ call'[c] = call[c],
           HandlerInv'
    PROVE  ControlInv'
    <1>1. Accepted' = Accepted /\ Forward
        BY StillIsForward
    <1>2. ASSUME NEW r \in requests'
          PROVE  r \in [op: Operations, live: BOOLEAN, try: Nat] /\ \E m \in requests : r.op = m.op
        <2>1. PICK m \in requests : r = [m EXCEPT !.live = FALSE, !.try = 0]
            BY DEF ConnectionEnds
        <2>2. m \in [op: Operations, live: BOOLEAN, try: Nat]
            BY DEF ControlInv, ControlTypeOK
        <2>3. QED
            BY <2>1, <2>2
    <1>3. WireInv'
        BY <1>1, <1>2, SentForward DEF ControlInv, WireInv, ConnectionEnds
    <1>4. ControlTypeOK'
        BY <1>2 DEF ControlInv, ControlTypeOK, Still, ConnectionEnds
    <1>5. \A c \in Callers : CallInv(c)'
        BY <1>1, CallStays DEF Still
    <1>6. HeardInv'
        BY <1>1, HeardStays DEF Still, Forward
    <1>7. QED
        BY <1>3, <1>4, <1>5, <1>6 DEF ControlInv

LEMMA FailKeeps ==
    ASSUME ControlInv, Still, UNCHANGED beats, faults' \in Nat, Fail
    PROVE  ControlInv'
    <1>1. /\ link' = "failed" /\ ConnectionEnds
          /\ call' = [c \in Callers |-> IF call[c].op \in pending THEN Idle ELSE call[c]]
          /\ handlers' = {[h EXCEPT !.live = FALSE] : h \in handlers}
        BY DEF Fail, FailWaiters
    <1>2. Idle \in [op: Operations \cup {NoOperation}, stage: {"idle", "waiting", "answered"}]
        BY DEF Idle
    <1>3. /\ call' \in [Callers -> [op: Operations \cup {NoOperation}, stage: {"idle", "waiting", "answered"}]]
          /\ \A c \in Callers : call'[c] = Idle \/ call'[c] = call[c]
        BY <1>1, <1>2 DEF ControlInv, ControlTypeOK
    <1>4. /\ handlers \subseteq [op: HostOperations, live: BOOLEAN] /\ IsFiniteSet(handlers)
          /\ \A g, h \in handlers : g.op = h.op => g = h
          /\ Cardinality(handlers) <= MaxInFlight
        BY DEF ControlInv, HandlerInv, OneHandlerPerOperation
    <1>5. IsFiniteSet(handlers') /\ Cardinality(handlers') <= MaxInFlight
        <2> DEFINE f == [h \in handlers |-> [h EXCEPT !.live = FALSE]]
        <2>1. handlers' = {f[h] : h \in handlers}
            BY <1>1
        <2>2. f \in Surjection(handlers, handlers')
            BY <2>1 DEF Surjection
        <2>3. IsFiniteSet(handlers') /\ Cardinality(handlers') <= Cardinality(handlers)
            BY <1>4, <2>2, FS_Surjection
        <2>4. /\ Cardinality(handlers) \in Nat /\ Cardinality(handlers') \in Nat
              /\ MaxInFlight \in Nat
            BY <1>4, <2>3, FS_CardinalityType, ControlBounds
        <2>5. QED
            BY <1>4, <2>3, <2>4
    <1>6. /\ handlers' \subseteq [op: HostOperations, live: BOOLEAN]
          /\ \A g, h \in handlers' : g.op = h.op => g = h
        <2>1. ASSUME NEW g \in handlers'
              PROVE  /\ g \in [op: HostOperations, live: BOOLEAN]
                     /\ \E a \in handlers : g.op = a.op /\ g = [a EXCEPT !.live = FALSE]
            <3>1. PICK a \in handlers : g = [a EXCEPT !.live = FALSE]
                BY <1>1
            <3>2. a \in [op: HostOperations, live: BOOLEAN]
                BY <1>4
            <3>3. QED
                BY <3>1, <3>2
        <2>2. ASSUME NEW g \in handlers', NEW h \in handlers', g.op = h.op
              PROVE  g = h
            <3>1. PICK a \in handlers : g.op = a.op /\ g = [a EXCEPT !.live = FALSE]
                BY <2>1
            <3>2. PICK b \in handlers : h.op = b.op /\ h = [b EXCEPT !.live = FALSE]
                BY <2>1
            <3>3. a = b
                BY <1>4, <2>2, <3>1, <3>2
            <3>4. QED
                BY <3>1, <3>2, <3>3
        <2>3. QED
            BY <2>1, <2>2
    <1>7. HandlerInv'
        BY <1>1, <1>5, <1>6 DEF HandlerInv, OneHandlerPerOperation
    <1>8. QED
        BY <1>1, <1>3, <1>7, ConnectionEndsKeeps

LEMMA LossKeeps ==
    ASSUME ControlInv, LoseConnection \/ RequestLimitExceeded
    PROVE  ControlInv'
    <1>1. Still /\ UNCHANGED beats /\ faults' \in Nat /\ Fail
        BY DEF LoseConnection, RequestLimitExceeded, Fault, Still, durable, host, ControlInv, ControlTypeOK
    <1>2. QED
        BY <1>1, FailKeeps

LEMMA CrashKeeps ==
    ASSUME ControlInv, Crash
    PROVE  ControlInv'
    <1>1. /\ Still /\ UNCHANGED beats /\ faults' \in Nat /\ ConnectionEnds
          /\ link' = "down" /\ call' = [c \in Callers |-> Idle] /\ handlers' = {}
        BY DEF Crash, Fault, Still, durable, ControlInv, ControlTypeOK
    <1>2. Idle \in [op: Operations \cup {NoOperation}, stage: {"idle", "waiting", "answered"}]
        BY DEF Idle
    <1>3. /\ call' \in [Callers -> [op: Operations \cup {NoOperation}, stage: {"idle", "waiting", "answered"}]]
          /\ \A c \in Callers : call'[c] = Idle
        BY <1>1, <1>2
    <1>4. HandlerInv'
        <2>1. IsFiniteSet(handlers') /\ Cardinality(handlers') = 0
            BY <1>1, FS_EmptySet
        <2>2. QED
            BY <1>1, <2>1, ControlBounds DEF HandlerInv, OneHandlerPerOperation
    <1>5. QED
        BY <1>1, <1>3, <1>4, ConnectionEndsKeeps

\* A step of the connection or of its handlers only.
LEMMA HandlingKeeps ==
    ASSUME ControlInv, Still, UNCHANGED <<call, beats, requests, replies, faults>>, HandlerInv'
    PROVE  ControlInv'
    <1>1. Accepted' = Accepted /\ Forward
        BY StillIsForward
    <1>2. ControlTypeOK'
        BY DEF ControlInv, ControlTypeOK, Still
    <1>3. WireInv'
        BY <1>1, SentForward DEF ControlInv, WireInv
    <1>4. \A c \in Callers : CallInv(c)'
        BY <1>1, CallStays DEF Still
    <1>5. HeardInv'
        BY <1>1, HeardStays DEF Still, Forward
    <1>6. QED
        BY <1>2, <1>3, <1>4, <1>5 DEF ControlInv

LEMMA ConnectKeeps ==
    ASSUME ControlInv, Connect \/ Unpublish
    PROVE  ControlInv'
    <1>1. Still /\ UNCHANGED <<call, beats, requests, replies, faults, handlers>>
        BY DEF Connect, Unpublish, Still, durable, wire, host
    <1>2. handlers = {} /\ link' \in {"up", "down"}
        BY DEF Connect, Unpublish, ControlInv, HandlerInv
    <1>3. HandlerInv'
        BY <1>1, <1>2 DEF ControlInv, HandlerInv, OneHandlerPerOperation
    <1>4. QED
        BY <1>1, <1>3, HandlingKeeps

\* All handlers of a published session hold a place, so one more fits.
LEMMA DispatchKeeps ==
    ASSUME ControlInv, NEW o \in HostOperations, Dispatch(o)
    PROVE  ControlInv'
    <1> DEFINE h0 == [op |-> o, live |-> TRUE]
    <1>1. /\ Still /\ UNCHANGED <<call, beats, requests, replies, faults, link>>
          /\ link = "up" /\ o \notin asked /\ asked' = asked \cup {o}
          /\ InFlight < MaxInFlight /\ handlers' = handlers \cup {h0}
        BY DEF Dispatch, Still, durable, wire
    <1>2. /\ handlers \subseteq [op: HostOperations, live: BOOLEAN] /\ IsFiniteSet(handlers)
          /\ \A h \in handlers : h.live /\ h.op \in asked
          /\ \A g, h \in handlers : g.op = h.op => g = h
        BY <1>1 DEF ControlInv, HandlerInv, OneHandlerPerOperation
    <1>3. h0 \in [op: HostOperations, live: BOOLEAN] /\ h0.op = o /\ h0.live
        OBVIOUS
    <1> HIDE DEF h0
    <1>4. h0 \notin handlers
        BY <1>1, <1>2, <1>3
    <1>5. {h \in handlers : h.live} = handlers
        BY <1>2
    <1>6. Cardinality(handlers) < MaxInFlight
        BY <1>1, <1>5 DEF InFlight
    <1>7. IsFiniteSet(handlers') /\ Cardinality(handlers') = Cardinality(handlers) + 1
        BY <1>1, <1>2, <1>4, FS_AddElement
    <1>8. Cardinality(handlers') <= MaxInFlight
        BY <1>2, <1>6, <1>7, FS_CardinalityType, ControlBounds
    <1>9. \A g, h \in handlers' : g.op = h.op => g = h
        BY <1>1, <1>2, <1>3
    <1>10. HandlerInv'
        BY <1>1, <1>2, <1>3, <1>7, <1>8, <1>9 DEF HandlerInv, OneHandlerPerOperation
    <1>11. QED
        BY <1>1, <1>10, HandlingKeeps

LEMMA HandleKeeps ==
    ASSUME ControlInv, NEW h \in handlers, HandleOperation(h)
    PROVE  ControlInv'
    <1>1. /\ Still /\ UNCHANGED <<call, beats, requests, replies, faults, link, asked>>
          /\ handlers' = handlers \ {h}
        BY DEF HandleOperation, Still, durable, wire
    <1>2. IsFiniteSet(handlers) /\ Cardinality(handlers) <= MaxInFlight
        BY DEF ControlInv, HandlerInv, OneHandlerPerOperation
    <1>3. IsFiniteSet(handlers') /\ Cardinality(handlers') <= Cardinality(handlers)
        BY <1>1, <1>2, FS_Subset
    <1>4. Cardinality(handlers') <= MaxInFlight
        BY <1>2, <1>3, FS_CardinalityType, ControlBounds
    <1>5. HandlerInv'
        BY <1>1, <1>3, <1>4 DEF ControlInv, HandlerInv, OneHandlerPerOperation
    <1>6. QED
        BY <1>1, <1>5, HandlingKeeps

-----------------------------------------------------------------------------
(* The calls.                                                              *)

\* Only the oldest report is sent, and the candidate's after its evidence.
LEMMA NextIsRipe ==
    ASSUME ControlInv, NEW c \in Callers, NEW op \in NextOperation(c)
    PROVE  /\ op \in {c} \X Nat /\ Sent(op)
           /\ c = "attention" => op = <<"attention", surfaced + 1>>
    <1>0. /\ queued \in Nat /\ surfaced \in Nat /\ beats \in Nat /\ Evidence \subseteq Nat
          /\ c \in {"reports", "evidence", "attention", "beats"}
        BY ControlBounds DEF ControlInv, ControlTypeOK, Callers
    <1>1. CASE c = "reports"
        <2> DEFINE due == {n \in 1..queued : ReportIsDue(n)}
        <2>1. op \in Oldest({<<"reports", i>> : i \in due})
            BY <1>1 DEF NextOperation, NextComisReport
        <2>2. PICK i \in due : op = <<"reports", i>>
            BY <2>1 DEF Oldest
        <2>3. ASSUME NEW n \in due PROVE i <= n
            <3>1. <<"reports", n>> \in {<<"reports", m>> : m \in due}
                BY <2>3
            <3>2. op[2] <= <<"reports", n>>[2]
                BY <2>1, <3>1 DEF Oldest
            <3>3. QED
                BY <2>2, <3>2
        <2>4. ASSUME NEW j \in 1..queued, j < i, j # Candidate
              PROVE  <<"reports", j>> \in delivered
            <3>1. ~ ReportIsDue(j)
                BY <1>0, <2>2, <2>3, <2>4
            <3>2. QED
                BY <2>4, <3>1 DEF ReportIsDue
        <2>5. i = Candidate => \A e \in Evidence : <<"evidence", e>> \in delivered
            BY <2>2 DEF ReportIsDue, PendingEvidence
        <2>6. op[1] = "reports" /\ op[2] = i /\ i \in 1..queued
            BY <2>2
        <2>7. Sent(op)
            BY <2>4, <2>5, <2>6 DEF Sent, Ripe
        <2>8. QED
            BY <1>0, <1>1, <2>2, <2>6, <2>7
    <1>2. CASE c = "evidence"
        <2>1. op \in PendingEvidence
            BY <1>2 DEF NextOperation, NextComisEvidence, Oldest
        <2>2. PICK e \in Evidence : op = <<"evidence", e>>
            BY <2>1 DEF PendingEvidence
        <2>3. QED
            BY <1>0, <1>2, <2>2 DEF Sent, Ripe
    <1>3. CASE c = "attention"
        <2>1. op = <<"attention", surfaced + 1>>
            BY <1>3 DEF NextOperation, DecisionRaise
        <2>2. QED
            BY <1>0, <1>3, <2>1 DEF Sent, Ripe
    <1>4. CASE c = "beats"
        <2>1. op = <<"beats", beats>>
            BY <1>4 DEF NextOperation, LivenessBeat
        <2>2. QED
            BY <1>0, <1>4, <2>1 DEF Sent, Ripe
    <1>5. QED
        BY <1>0, <1>1, <1>2, <1>3, <1>4

\* A step of the calls and the wire, when store and host do not move.
LEMMA CallingKeeps ==
    ASSUME ControlInv, Still, UNCHANGED <<link, handlers, asked>>,
           faults' \in Nat, beats' \in Nat, WireInv', \A c \in Callers : CallInv(c)',
           requests' \subseteq [op: Operations, live: BOOLEAN, try: Nat],
           replies' \subseteq [op: Operations, try: Nat, ok: BOOLEAN],
           call' \in [Callers -> [op: Operations \cup {NoOperation}, stage: {"idle", "waiting", "answered"}]]
    PROVE  ControlInv'
    <1>1. ControlTypeOK'
        BY DEF ControlInv, ControlTypeOK, Still
    <1>2. HeardInv' /\ HandlerInv'
        BY StillIsForward, HeardStays, HandlersStay DEF Still, Forward
    <1>3. QED
        BY <1>1, <1>2 DEF ControlInv

LEMMA SendKeeps ==
    ASSUME ControlInv, NEW c \in Callers, Send(c)
    PROVE  ControlInv'
    <1>1. /\ Still /\ UNCHANGED <<link, handlers, asked, replies, faults>>
          /\ faults \in Nat /\ faults' \in Nat /\ beats' \in Nat
        BY DEF Send, Still, durable, host, ControlInv, ControlTypeOK
    <1>2. PICK op \in NextOperation(c) :
            /\ call' = [call EXCEPT ![c] = [op |-> op, stage |-> "waiting"]]
            /\ requests' = requests \cup {[op |-> op, live |-> TRUE, try |-> faults]}
        BY DEF Send
    <1>3. /\ op \in {c} \X Nat /\ Sent(op)
          /\ c = "attention" => op = <<"attention", surfaced + 1>>
        BY NextIsRipe
    <1>4. op \in Operations
        BY <1>3 DEF Operations
    <1>5. Forward /\ Accepted' = Accepted
        BY <1>1, StillIsForward
    <1>6. Sent(op)'
        BY <1>3, <1>5, SentForward
    <1>7. \A r \in requests : Sent(r.op)'
        BY <1>5, SentForward DEF ControlInv, WireInv
    <1>8. WireInv'
        BY <1>1, <1>2, <1>5, <1>6, <1>7 DEF ControlInv, WireInv
    <1>9. /\ requests' \subseteq [op: Operations, live: BOOLEAN, try: Nat]
          /\ replies' \subseteq [op: Operations, try: Nat, ok: BOOLEAN]
        <2>1. [op |-> op, live |-> TRUE, try |-> faults] \in [op: Operations, live: BOOLEAN, try: Nat]
            BY <1>1, <1>4
        <2>2. QED
            BY <1>1, <1>2, <2>1 DEF ControlInv, ControlTypeOK
    <1>10. call' \in [Callers -> [op: Operations \cup {NoOperation}, stage: {"idle", "waiting", "answered"}]]
        BY <1>2, <1>4 DEF ControlInv, ControlTypeOK
    <1>11. ASSUME NEW d \in Callers PROVE CallInv(d)'
        <2>1. CASE d # c
            <3>1. call'[d] = call[d]
                BY <1>2, <2>1 DEF ControlInv, ControlTypeOK
            <3>2. QED
                BY <1>1, <1>5, <3>1, CallStays DEF Still
        <2>2. CASE d = c
            <3>1. call'[d] = [op |-> op, stage |-> "waiting"]
                BY <1>2, <2>2 DEF ControlInv, ControlTypeOK
            <3>2. QED
                BY <1>1, <1>3, <1>6, <2>2, <3>1 DEF CallInv, Still
        <2>3. QED
            BY <2>1, <2>2
    <1>12. QED
        BY <1>1, <1>8, <1>9, <1>10, <1>11, CallingKeeps

\* A call given up, whatever becomes of its request or its answer.
LEMMA GiveUpKeeps ==
    ASSUME ControlInv, NEW c \in Callers, CallTimesOut(c) \/ AnswerLostToDeadline(c)
    PROVE  ControlInv'
    <1>1. /\ Still /\ UNCHANGED <<link, handlers, asked, beats, requests>>
          /\ replies' \subseteq replies /\ faults' \in Nat /\ beats' \in Nat
          /\ call' = [call EXCEPT ![c] = Idle]
        BY DEF CallTimesOut, AnswerLostToDeadline, GiveUp, DeadlinePasses, Fault, Still,
               durable, host, wire, ControlInv, ControlTypeOK
    <1>2. Forward /\ Accepted' = Accepted
        BY <1>1, StillIsForward
    <1>3. Idle \in [op: Operations \cup {NoOperation}, stage: {"idle", "waiting", "answered"}]
        BY DEF Idle
    <1>4. /\ call' \in [Callers -> [op: Operations \cup {NoOperation}, stage: {"idle", "waiting", "answered"}]]
          /\ \A d \in Callers : call'[d] = Idle \/ call'[d] = call[d]
        BY <1>1, <1>3 DEF ControlInv, ControlTypeOK
    <1>5. \A d \in Callers : CallInv(d)'
        BY <1>1, <1>2, <1>4, CallStays DEF Still
    <1>6. WireInv'
        BY <1>1, <1>2, SentForward DEF ControlInv, WireInv
    <1>7. /\ requests' \subseteq [op: Operations, live: BOOLEAN, try: Nat]
          /\ replies' \subseteq [op: Operations, try: Nat, ok: BOOLEAN]
        BY <1>1 DEF ControlInv, ControlTypeOK
    <1>8. QED
        BY <1>1, <1>4, <1>5, <1>6, <1>7, CallingKeeps

\* An answer to a call is of an operation the host holds.
LEMMA ResolveKeeps ==
    ASSUME ControlInv, NEW r \in replies, ResolveResponse(r)
    PROVE  ControlInv'
    <1>1. Still /\ UNCHANGED <<beats, asked, faults>> /\ faults' \in Nat /\ beats' \in Nat
        BY DEF ResolveResponse, Still, durable, host, ControlInv, ControlTypeOK
    <1>2. Forward /\ Accepted' = Accepted
        BY <1>1, StillIsForward
    <1>3. CASE r.op \notin pending
        BY <1>1, <1>3, FailKeeps DEF ResolveResponse
    <1>4. CASE r.op \in pending
        <2>1. /\ replies' \subseteq replies /\ UNCHANGED <<link, handlers, requests>>
              /\ call' = [c \in Callers |->
                           IF call[c].op # r.op THEN call[c]
                           ELSE IF r.ok THEN [call[c] EXCEPT !.stage = "answered"] ELSE Idle]
            BY <1>4 DEF ResolveResponse
        <2>2. r.op \in Operations /\ (r.ok => r.op[1] = "beats" \/ r.op \in Accepted)
            BY DEF ControlInv, ControlTypeOK, WireInv
        <2>3. WireInv'
            BY <1>2, <2>1, SentForward DEF ControlInv, WireInv
        <2>4. ASSUME NEW c \in Callers
              PROVE  /\ call'[c] \in [op: Operations \cup {NoOperation}, stage: {"idle", "waiting", "answered"}]
                     /\ CallInv(c)'
            <3>0. call[c] \in [op: Operations \cup {NoOperation}, stage: {"idle", "waiting", "answered"}]
                BY DEF ControlInv, ControlTypeOK
            <3>1. CASE call'[c] = Idle \/ call'[c] = call[c]
                BY <1>1, <1>2, <3>0, <3>1, CallStays DEF Idle, Still
            <3>2. CASE call[c].op = r.op /\ r.ok /\ call'[c] = [call[c] EXCEPT !.stage = "answered"]
                <4>1. call[c] # Idle
                    BY <2>2, <3>2 DEF Idle, NoOperation, Operations, Callers
                <4>2. /\ call[c] \in [op: {c} \X Nat, stage: {"waiting", "answered"}]
                      /\ Sent(call[c].op)
                      /\ c = "attention" => call[c].op = <<"attention", surfaced + 1>>
                    BY <4>1 DEF ControlInv, CallInv
                <4>3. c = "beats" \/ r.op \in Accepted
                    BY <2>2, <3>2, <4>2
                <4>4. call'[c].op = call[c].op /\ call'[c].stage = "answered"
                      /\ call'[c] \in [op: {c} \X Nat, stage: {"waiting", "answered"}]
                    BY <3>2, <4>2
                <4>5. Sent(call[c].op)'
                    <5>1. ASSUME NEW op, op = call'[c].op PROVE Sent(op)'
                        BY <1>2, <4>2, <4>4, <5>1, SentForward
                    <5>2. QED
                        BY <5>1
                <4>6. CallInv(c)'
                    BY <1>1, <1>2, <3>2, <4>2, <4>3, <4>4, <4>5 DEF CallInv, Still
                <4>7. QED
                    BY <3>0, <3>2, <4>6
            <3>3. QED
                BY <2>1, <3>1, <3>2
        <2>5. call' \in [Callers -> [op: Operations \cup {NoOperation}, stage: {"idle", "waiting", "answered"}]]
            BY <2>1, <2>4
        <2>6. /\ requests' \subseteq [op: Operations, live: BOOLEAN, try: Nat]
              /\ replies' \subseteq [op: Operations, try: Nat, ok: BOOLEAN]
            BY <2>1 DEF ControlInv, ControlTypeOK
        <2>7. QED
            BY <1>1, <2>1, <2>3, <2>4, <2>5, <2>6, CallingKeeps
    <1>5. QED
        BY <1>3, <1>4

LEMMA AnswerType ==
    ASSUME ControlInv, NEW r \in requests, NEW ok \in BOOLEAN
    PROVE  /\ Answer(r, ok) \subseteq [op: Operations, try: Nat, ok: BOOLEAN]
           /\ \A a \in Answer(r, ok) : a.op = r.op /\ a.ok = ok
    <1>1. r \in [op: Operations, live: BOOLEAN, try: Nat]
        BY DEF ControlInv, ControlTypeOK
    <1>2. [op |-> r.op, try |-> r.try, ok |-> ok] \in [op: Operations, try: Nat, ok: BOOLEAN]
        BY <1>1
    <1>3. QED
        BY <1>2 DEF Answer

LEMMA RefuseKeeps ==
    ASSUME ControlInv, NEW r \in requests, HostRefuses(r)
    PROVE  ControlInv'
    <1>1. /\ Still /\ UNCHANGED <<link, handlers, asked, beats, call>>
          /\ faults' \in Nat /\ beats' \in Nat
          /\ requests' \subseteq requests /\ replies' \subseteq replies \cup Answer(r, FALSE)
        <2>1. /\ Still /\ UNCHANGED <<link, handlers, asked, beats, call>>
              /\ faults' \in Nat /\ beats' \in Nat
            BY DEF HostRefuses, Fault, Still, durable, host, ControlInv, ControlTypeOK
        <2>2. requests' = requests \ {r} /\ replies' \in {replies, replies \cup Answer(r, FALSE)}
            BY DEF HostRefuses
        <2>3. QED
            BY <2>1, <2>2
    <1>2. Forward /\ Accepted' = Accepted
        BY <1>1, StillIsForward
    <1>3. /\ Answer(r, FALSE) \subseteq [op: Operations, try: Nat, ok: BOOLEAN]
          /\ \A a \in Answer(r, FALSE) : ~ a.ok
        BY AnswerType
    <1>4. WireInv'
        BY <1>1, <1>2, <1>3, SentForward DEF ControlInv, WireInv
    <1>5. \A c \in Callers : CallInv(c)'
        BY <1>1, <1>2, CallStays DEF Still
    <1>6. /\ requests' \subseteq [op: Operations, live: BOOLEAN, try: Nat]
          /\ replies' \subseteq [op: Operations, try: Nat, ok: BOOLEAN]
          /\ call' \in [Callers -> [op: Operations \cup {NoOperation}, stage: {"idle", "waiting", "answered"}]]
        BY <1>1, <1>3 DEF ControlInv, ControlTypeOK
    <1>7. QED
        BY <1>1, <1>4, <1>5, <1>6, CallingKeeps

\* What is recorded as delivered, the host heard.
LEMMA DeliveredIsHeard ==
    ASSUME ControlInv
    PROVE  delivered \subseteq Heard(Len(accepted))
    <1>1. /\ accepted \in Seq(Outbox) /\ delivered \subseteq Outbox
          /\ raised \subseteq {"attention"} \X Nat /\ delivered \subseteq Accepted
        BY DEF ControlInv, ControlTypeOK, HeardInv, RecordedIsHeld
    <1>2. DOMAIN accepted = 1..Len(accepted)
        BY <1>1
    <1>3. delivered \cap raised = {}
        BY <1>1 DEF Outbox
    <1>4. QED
        BY <1>1, <1>2, <1>3 DEF Accepted, Heard

\* The host hears an operation it did not know: all it must hear first it has heard.
LEMMA HearingKeeps ==
    ASSUME ControlInv, NEW op \in Outbox, op \notin Accepted, Sent(op),
           accepted' = Append(accepted, op), UNCHANGED <<queued, delivered, surfaced, raised>>
    PROVE  HeardInv' /\ Accepted \subseteq Accepted' /\ op \in Accepted'
    <1> DEFINE n == Len(accepted)
    <1>1. /\ accepted \in Seq(Outbox) /\ n \in Nat /\ DOMAIN accepted = 1..n
          /\ accepted' \in Seq(Outbox) /\ DOMAIN accepted' = 1..(n + 1)
        BY DEF ControlInv, ControlTypeOK
    <1>2. /\ \A k \in 1..n : accepted'[k] = accepted[k]
          /\ accepted'[n + 1] = op
        BY <1>1
    <1> HIDE DEF n
    <1>3. ASSUME NEW k \in 1..(n + 1) PROVE Heard(k - 1)' = Heard(k - 1)
        <2>1. \A i \in 1..(k - 1) : i \in 1..n
            BY <1>1, <1>3
        <2>2. QED
            BY <1>2, <2>1 DEF Heard
    <1>4. Accepted \subseteq Accepted' /\ op \in Accepted'
        <2>1. \A k \in DOMAIN accepted : k \in DOMAIN accepted' /\ accepted'[k] = accepted[k]
            BY <1>1, <1>2
        <2>2. n + 1 \in DOMAIN accepted'
            BY <1>1
        <2>3. QED
            BY <1>2, <2>1, <2>2 DEF Accepted
    <1>5. RecordedIsHeld'
        <2>1. RecordedIsHeld
            BY DEF ControlInv, HeardInv
        <2>2. QED
            BY <1>4, <2>1 DEF RecordedIsHeld
    <1>6. ASSUME NEW k \in 1..n
          PROVE  /\ Ripe(accepted[k], Heard(k - 1))' /\ accepted'[k] \notin Heard(k - 1)'
                 /\ accepted'[k][1] = "reports" => accepted'[k][2] \in 1..queued'
        <2>1. /\ Ripe(accepted[k], Heard(k - 1)) /\ accepted[k] \notin Heard(k - 1)
              /\ accepted[k][1] = "reports" => accepted[k][2] \in 1..queued
            BY <1>1 DEF ControlInv, HeardInv
        <2>2. accepted'[k] = accepted[k] /\ Heard(k - 1)' = Heard(k - 1)
            BY <1>1, <1>2, <1>3
        <2>3. QED
            BY <2>1, <2>2 DEF Ripe
    <1>7. ASSUME NEW k, k = n + 1
          PROVE  /\ Ripe(accepted[k], Heard(k - 1))' /\ accepted'[k] \notin Heard(k - 1)'
                 /\ accepted'[k][1] = "reports" => accepted'[k][2] \in 1..queued'
        <2>1. accepted'[k] = op /\ Heard(k - 1)' = Heard(n)
            BY <1>1, <1>2, <1>3, <1>7
        <2>2. delivered \subseteq Heard(n)
            BY DeliveredIsHeard DEF n
        <2>3. op \notin Heard(n)
            BY <1>1 DEF Heard, Accepted
        <2>4. Ripe(op, delivered) /\ (op[1] = "reports" => op[2] \in 1..queued)
            BY DEF Sent
        <2>5. Ripe(accepted[k], Heard(k - 1))'
            BY <2>1, <2>2, <2>4 DEF Ripe
        <2>6. QED
            BY <2>1, <2>3, <2>4, <2>5
    <1>8. ASSUME NEW k \in DOMAIN accepted'
          PROVE  /\ Ripe(accepted[k], Heard(k - 1))' /\ accepted'[k] \notin Heard(k - 1)'
                 /\ accepted'[k][1] = "reports" => accepted'[k][2] \in 1..queued'
        <2>1. k \in 1..n \/ k = n + 1
            BY <1>1, <1>8
        <2>2. QED
            BY <1>6, <1>7, <2>1
    <1>9. QED
        BY <1>4, <1>5, <1>8 DEF HeardInv

\* The host is asked to raise the surfacing that is next, or one it has raised.
LEMMA RaisingKeeps ==
    ASSUME ControlInv, NEW op \in {"attention"} \X Nat, Sent(op),
           raised' = raised \cup {op}, UNCHANGED <<queued, delivered, surfaced, accepted>>
    PROVE  HeardInv' /\ Accepted \subseteq Accepted' /\ op \in Accepted'
    <1>1. Accepted \subseteq Accepted' /\ op \in Accepted'
        BY DEF Accepted
    <1>2. surfaced \in Nat /\ op[2] \in 1..(surfaced + 1) /\ op = <<"attention", op[2]>>
        BY DEF ControlInv, ControlTypeOK, Sent
    <1>3. PICK m \in {surfaced, surfaced + 1} : raised = {<<"attention", n>> : n \in 1..m}
        BY DEF ControlInv, HeardInv, RecordedIsHeld
    <1>4. \E m1 \in {surfaced, surfaced + 1} : raised' = {<<"attention", n>> : n \in 1..m1}
        <2>1. CASE op[2] \in 1..m
            <3>1. raised' = raised
                BY <1>2, <1>3, <2>1
            <3>2. QED
                BY <1>3, <3>1
        <2>2. CASE op[2] \notin 1..m
            <3>1. m = surfaced /\ op[2] = surfaced + 1
                BY <1>2, <1>3, <2>2
            <3>2. 1..(surfaced + 1) = 1..surfaced \cup {surfaced + 1}
                BY <1>2
            <3>3. raised' = {<<"attention", n>> : n \in 1..(surfaced + 1)}
                BY <1>2, <1>3, <3>1, <3>2
            <3>4. QED
                BY <3>3
        <2>3. QED
            BY <2>1, <2>2
    <1>5. RecordedIsHeld'
        BY <1>1, <1>4 DEF RecordedIsHeld, ControlInv, HeardInv
    <1>6. \A n : Heard(n)' = Heard(n)
        BY DEF Heard
    <1>7. ASSUME NEW k \in DOMAIN accepted PROVE Ripe(accepted[k], Heard(k - 1))'
        BY <1>6 DEF Ripe, ControlInv, HeardInv
    <1>8. QED
        BY <1>1, <1>5, <1>6, <1>7 DEF ControlInv, HeardInv

LEMMA AcceptKeeps ==
    ASSUME ControlInv, NEW r \in requests, HostAccepts(r)
    PROVE  ControlInv'
    <1>1. /\ UNCHANGED <<queued, delivered, surfaced, link, call, handlers, asked, beats, faults>>
          /\ requests' \subseteq requests /\ replies' = replies \cup Answer(r, TRUE)
        BY DEF HostAccepts, durable
    <1>2. r.op \in Operations /\ Sent(r.op)
        BY DEF ControlInv, ControlTypeOK, WireInv
    <1>3. /\ HeardInv' /\ Accepted \subseteq Accepted' /\ (r.op[1] = "beats" \/ r.op \in Accepted')
          /\ accepted' \in Seq(Outbox) /\ raised' \subseteq {"attention"} \X Nat
        <2>0. /\ queued \in Nat /\ accepted \in Seq(Outbox) /\ raised \subseteq {"attention"} \X Nat
            BY DEF ControlInv, ControlTypeOK
        <2>1. CASE r.op[1] = "attention"
            <3>1. r.op \in {"attention"} \X Nat
                BY <1>2, <2>1 DEF Operations
            <3>2. accepted' = accepted /\ raised' = raised \cup {r.op}
                BY <2>1 DEF HostAccepts
            <3>3. QED
                BY <1>1, <1>2, <2>0, <3>1, <3>2, RaisingKeeps
        <2>2. CASE r.op[1] \in {"reports", "evidence"} /\ r.op \notin Accepted
            <3>1. r.op \in Outbox
                BY <1>2, <2>2 DEF Operations, Outbox
            <3>2. accepted' = Append(accepted, r.op) /\ raised' = raised
                BY <2>2 DEF HostAccepts
            <3>3. QED
                BY <1>1, <1>2, <2>0, <2>2, <3>1, <3>2, HearingKeeps
        <2>3. CASE r.op[1] # "attention" /\ (r.op \in Accepted \/ r.op[1] = "beats")
            <3>1. accepted' = accepted /\ raised' = raised
                BY <2>3 DEF HostAccepts
            <3>2. Accepted' = Accepted
                BY <3>1 DEF Accepted
            <3>3. QED
                BY <1>1, <2>0, <2>3, <3>1, <3>2, HeardStays
        <2>4. r.op[1] \in {"reports", "evidence", "attention", "beats"}
            BY <1>2 DEF Operations, Callers
        <2>5. QED
            BY <2>1, <2>2, <2>3, <2>4
    <1>4. Forward
        BY <1>1, <1>3 DEF Forward, ControlInv, ControlTypeOK
    <1>5. /\ Answer(r, TRUE) \subseteq [op: Operations, try: Nat, ok: BOOLEAN]
          /\ \A a \in Answer(r, TRUE) : a.op = r.op
        BY AnswerType
    <1>6. WireInv'
        <2>1. \A m \in requests' : Sent(m.op)'
            BY <1>1, <1>4, SentForward DEF ControlInv, WireInv
        <2>2. \A a \in replies' : a.ok => a.op[1] = "beats" \/ a.op \in Accepted'
            BY <1>1, <1>3, <1>5 DEF ControlInv, WireInv
        <2>3. QED
            BY <2>1, <2>2 DEF WireInv
    <1>7. \A c \in Callers : CallInv(c)'
        BY <1>1, <1>4, CallStays
    <1>8. ControlTypeOK'
        BY <1>1, <1>3, <1>5 DEF ControlInv, ControlTypeOK
    <1>9. QED
        BY <1>1, <1>3, <1>6, <1>7, <1>8, HandlersStay DEF ControlInv

\* An acknowledgement is recorded: the host holds what it is of.
LEMMA AnsweredKeeps ==
    ASSUME ControlInv, NEW c \in Callers, CallAnswered(c)
    PROVE  ControlInv'
    <1>0. c \in {"reports", "evidence", "attention", "beats"}
        BY DEF Callers
    <1>1. /\ UNCHANGED <<queued, link, handlers, asked, beats, requests, replies, accepted,
                         raised, faults>>
          /\ call[c].stage = "answered" /\ call' = [call EXCEPT ![c] = Idle]
          /\ MarkComisDelivered(c) \/ RecordDecisionSurfaced(c) \/ HeartbeatAnswered(c)
        BY DEF CallAnswered, wire, host
    <1>2. Accepted' = Accepted
        BY <1>1 DEF Accepted
    <1>3. /\ queued \in Nat /\ surfaced \in Nat /\ delivered \subseteq Outbox
          /\ accepted \in Seq(Outbox) /\ RecordedIsHeld
        BY DEF ControlInv, ControlTypeOK, HeardInv
    <1>4. /\ call[c].op \in {c} \X Nat /\ (c = "beats" \/ call[c].op \in Accepted)
          /\ c = "attention" => call[c].op = <<"attention", surfaced + 1>>
        <2>1. call[c] # Idle
            BY <1>1 DEF Idle
        <2>2. QED
            BY <1>1, <2>1 DEF ControlInv, CallInv
    <1>5. /\ delivered \subseteq delivered' /\ delivered' \subseteq Outbox
          /\ surfaced' \in Nat /\ surfaced <= surfaced' /\ RecordedIsHeld'
          /\ c # "attention" => surfaced' = surfaced
        <2>1. CASE MarkComisDelivered(c)
            <3>1. /\ c \in {"reports", "evidence"} /\ surfaced' = surfaced
                  /\ delivered' = delivered \cup {call[c].op}
                BY <2>1 DEF MarkComisDelivered
            <3>2. call[c].op \in Outbox
                BY <1>4, <3>1 DEF Outbox
            <3>3. RecordedIsHeld'
                BY <1>1, <1>2, <1>3, <1>4, <3>1 DEF RecordedIsHeld
            <3>4. QED
                BY <1>3, <3>1, <3>2, <3>3
        <2>2. CASE RecordDecisionSurfaced(c)
            <3>1. c = "attention" /\ surfaced' = surfaced + 1 /\ delivered' = delivered
                BY <2>2 DEF RecordDecisionSurfaced
            <3>2. <<"attention", surfaced + 1>> \in raised
                <4>1. <<"attention", surfaced + 1>> \in Accepted
                    BY <1>4, <3>1
                <4>2. <<"attention", surfaced + 1>> \notin Outbox
                    BY DEF Outbox
                <4>3. QED
                    BY <1>3, <4>1, <4>2 DEF Accepted
            <3>3. raised = {<<"attention", n>> : n \in 1..(surfaced + 1)}
                <4>1. PICK m \in {surfaced, surfaced + 1} : raised = {<<"attention", n>> : n \in 1..m}
                    BY <1>3 DEF RecordedIsHeld
                <4>2. surfaced + 1 \in 1..m
                    BY <3>2, <4>1
                <4>3. m = surfaced + 1
                    BY <1>3, <4>1, <4>2
                <4>4. QED
                    BY <4>1, <4>3
            <3>4. \E m \in {surfaced', surfaced' + 1} : raised' = {<<"attention", n>> : n \in 1..m}
                BY <1>1, <3>1, <3>3
            <3>5. RecordedIsHeld'
                BY <1>2, <1>3, <3>1, <3>4 DEF RecordedIsHeld
            <3>6. QED
                BY <1>3, <3>1, <3>5
        <2>3. CASE HeartbeatAnswered(c)
            <3>1. c = "beats" /\ surfaced' = surfaced /\ delivered' = delivered
                BY <2>3 DEF HeartbeatAnswered
            <3>2. RecordedIsHeld'
                BY <1>1, <1>2, <1>3, <3>1 DEF RecordedIsHeld
            <3>3. QED
                BY <1>3, <3>1, <3>2
        <2>4. QED
            BY <1>1, <2>1, <2>2, <2>3
    <1>6. Forward
        BY <1>1, <1>2, <1>3, <1>5 DEF Forward
    <1>7. WireInv'
        BY <1>1, <1>2, <1>6, SentForward DEF ControlInv, WireInv
    <1>8. ASSUME NEW d \in Callers PROVE CallInv(d)'
        <2>1. call'[d] = Idle \/ (d # c /\ call'[d] = call[d])
            BY <1>1 DEF ControlInv, ControlTypeOK
        <2>3. d = "attention" /\ d # c => surfaced' = surfaced
            BY <1>1 DEF MarkComisDelivered, RecordDecisionSurfaced, HeartbeatAnswered
        <2>4. QED
            BY <1>5, <1>6, <2>1, <2>3, CallStays
    <1>9. HeardInv'
        <2>1. \A n : Heard(n)' = Heard(n)
            BY <1>1 DEF Heard
        <2>2. ASSUME NEW k \in DOMAIN accepted PROVE Ripe(accepted[k], Heard(k - 1))'
            BY <1>1, <2>1 DEF Ripe, ControlInv, HeardInv
        <2>3. QED
            BY <1>1, <1>5, <2>1, <2>2 DEF ControlInv, HeardInv
    <1>10. ControlTypeOK'
        <2>1. Idle \in [op: Operations \cup {NoOperation}, stage: {"idle", "waiting", "answered"}]
            BY DEF Idle
        <2>2. QED
            BY <1>1, <1>5, <2>1 DEF ControlInv, ControlTypeOK
    <1>11. QED
        BY <1>1, <1>7, <1>8, <1>9, <1>10, HandlersStay DEF ControlInv

-----------------------------------------------------------------------------
(* The theorems.                                                           *)

LEMMA ControlBegins ==
    ASSUME Init
    PROVE  ControlInv
    <1>1. /\ queued = 0 /\ delivered = {} /\ surfaced = 0 /\ link = "down"
          /\ call = [c \in Callers |-> Idle] /\ handlers = {} /\ asked = {} /\ beats = 0
          /\ requests = {} /\ replies = {} /\ accepted = <<>> /\ raised = {} /\ faults = 0
        BY DEF Init
    <1>2. Idle \in [op: Operations \cup {NoOperation}, stage: {"idle", "waiting", "answered"}]
        BY DEF Idle
    <1>3. ControlTypeOK
        BY <1>1, <1>2 DEF ControlTypeOK
    <1>4. WireInv /\ \A c \in Callers : CallInv(c)
        BY <1>1 DEF WireInv, CallInv
    <1>5. RecordedIsHeld
        <2>1. raised = {<<"attention", n>> : n \in 1..surfaced}
            BY <1>1
        <2>2. QED
            BY <1>1, <2>1 DEF RecordedIsHeld
    <1>6. HeardInv
        BY <1>1, <1>5 DEF HeardInv
    <1>7. IsFiniteSet(handlers) /\ Cardinality(handlers) = 0
        BY <1>1, FS_EmptySet
    <1>8. HandlerInv
        BY <1>1, <1>7, ControlBounds DEF HandlerInv, OneHandlerPerOperation
    <1>9. QED
        BY <1>3, <1>4, <1>6, <1>8 DEF ControlInv

LEMMA ControlStep ==
    ASSUME ControlInv, [Next]_vars
    PROVE  ControlInv'
    <1>1. CASE UNCHANGED vars
        <2>1. Still /\ UNCHANGED <<call, beats, requests, replies, faults, link, handlers, asked>>
            BY <1>1 DEF vars, durable, wire, host, Still
        <2>2. QED
            BY <2>1, HandlersStay, HandlingKeeps
    <1>2. CASE Next
        <2>1. CASE EnqueueReport \/ AcceptCandidate
            BY <2>1, OutboxKeeps
        <2>2. CASE Connect \/ Unpublish
            BY <2>2, ConnectKeeps
        <2>3. CASE LoseConnection \/ RequestLimitExceeded
            BY <2>3, LossKeeps
        <2>4. CASE Crash
            BY <2>4, CrashKeeps
        <2>5. ASSUME NEW c \in Callers,
                     Send(c) \/ CallTimesOut(c) \/ AnswerLostToDeadline(c) \/ CallAnswered(c)
              PROVE  ControlInv'
            BY <2>5, SendKeeps, GiveUpKeeps, AnsweredKeeps
        <2>6. ASSUME NEW r \in requests, HostAccepts(r) \/ HostRefuses(r)
              PROVE  ControlInv'
            BY <2>6, AcceptKeeps, RefuseKeeps
        <2>7. ASSUME NEW r \in replies, ResolveResponse(r)
              PROVE  ControlInv'
            BY <2>7, ResolveKeeps
        <2>8. ASSUME NEW o \in HostOperations, Dispatch(o)
              PROVE  ControlInv'
            BY <2>8, DispatchKeeps
        <2>9. ASSUME NEW h \in handlers, HandleOperation(h)
              PROVE  ControlInv'
            BY <2>9, HandleKeeps
        <2>10. QED
            BY <1>2, <2>1, <2>2, <2>3, <2>4, <2>5, <2>6, <2>7, <2>8, <2>9 DEF Next
    <1>3. QED
        BY <1>1, <1>2

(* ControlInductive: whatever is lost, answered late, refused or cut short    *)
(* by a crash, every request that was ever written to the host was ripe when *)
(* it was written (NextComisReport, NextComisEvidence), an answered call is  *)
(* of an operation the host holds (resolveResponse), and a published session *)
(* has no handler of an earlier one (serve).                                 *)
THEOREM ControlInductive == Spec => []ControlInv
    <1>1. Init => ControlInv
        BY ControlBegins
    <1>2. ControlInv /\ [Next]_vars => ControlInv'
        BY ControlStep
    <1>3. QED
        BY <1>1, <1>2, PTL DEF Spec

(* OneHandlerAtATime: an operation that the host repeats on a new session is  *)
(* never handled beside its first handler, and all the handlers there are    *)
(* fit the session's limit, because serve joins its workers before Run       *)
(* unpublishes the session.                                                  *)
THEOREM OneHandlerAtATime == Spec => []OneHandlerPerOperation
    <1>1. ControlInv => OneHandlerPerOperation
        BY DEF ControlInv, HandlerInv
    <1>2. QED
        BY <1>1, ControlInductive, PTL

\* The host hears an operation at one place only.
LEMMA HeardOnce ==
    ASSUME ControlInv, NEW k \in DOMAIN accepted
    PROVE  Position(accepted[k]) = k
    <1>1. accepted \in Seq(Outbox) /\ DOMAIN accepted = 1..Len(accepted) /\ Len(accepted) \in Nat
        BY DEF ControlInv, ControlTypeOK
    <1>2. ASSUME NEW i \in DOMAIN accepted, NEW j \in DOMAIN accepted, i < j
          PROVE  accepted[i] # accepted[j]
        <2>1. i \in 1..(j - 1)
            BY <1>1, <1>2
        <2>2. accepted[i] \in Heard(j - 1)
            BY <2>1 DEF Heard
        <2>3. accepted[j] \notin Heard(j - 1)
            BY DEF ControlInv, HeardInv
        <2>4. QED
            BY <2>2, <2>3
    <1>3. \A i \in DOMAIN accepted : accepted[i] = accepted[k] => i = k
        <2>1. ASSUME NEW i \in DOMAIN accepted, i # k PROVE accepted[i] # accepted[k]
            <3>1. i < k \/ k < i
                BY <1>1, <2>1
            <3>2. QED
                BY <1>2, <3>1
        <2>2. QED
            BY <2>1
    <1>4. QED
        BY <1>3 DEF Position

\* What was heard before a report precedes it.
LEMMA HeardBefore ==
    ASSUME ControlInv, NEW p, NEW j,
           \A k \in DOMAIN accepted : accepted[k] = <<"reports", j>> => p \in Heard(k - 1)
    PROVE  Precedes(p, <<"reports", j>>)
    <1> DEFINE q == <<"reports", j>>
    <1>1. SUFFICES ASSUME q \in Accepted
                   PROVE  p \in Accepted /\ Position(p) < Position(q)
        BY DEF Precedes
    <1>2. /\ accepted \in Seq(Outbox) /\ DOMAIN accepted = 1..Len(accepted) /\ Len(accepted) \in Nat
          /\ raised \subseteq {"attention"} \X Nat
        BY DEF ControlInv, ControlTypeOK
    <1>3. PICK k \in DOMAIN accepted : accepted[k] = q
        BY <1>1, <1>2 DEF Accepted
    <1>4. PICK i \in 1..(k - 1) : p = accepted[i]
        BY <1>3 DEF Heard
    <1>5. i \in DOMAIN accepted /\ i < k
        BY <1>2, <1>4
    <1>6. Position(p) = i /\ Position(q) = k
        BY <1>3, <1>4, <1>5, HeardOnce
    <1>7. QED
        BY <1>4, <1>5, <1>6 DEF Accepted

(* HostAndStoreNeverDiverge: for any number of reports and evidence, and      *)
(* through any late, lost or repeated request, the host first hears the      *)
(* reports in the order they were stored and a candidate's completion after  *)
(* its evidence, and a row is marked delivered only when the host holds it   *)
(* (NextComisReport, MarkComisReportDelivered, MarkComisEvidenceDelivered,   *)
(* RecordSurfaced).                                                          *)
THEOREM HostAndStoreNeverDiverge == Spec => []HostAndStoreAgree
    <1>1. ASSUME ControlInv PROVE HostAndStoreAgree
        <2>1. RecordedIsHeld
            BY <1>1 DEF ControlInv, HeardInv
        <2>2. \A k \in DOMAIN accepted : Ripe(accepted[k], Heard(k - 1))
            BY <1>1 DEF ControlInv, HeardInv
        <2>3. ASSUME NEW i \in 1..queued, NEW j \in 1..queued, i < j, i # Candidate
              PROVE  Precedes(<<"reports", i>>, <<"reports", j>>)
            <3>1. ASSUME NEW k \in DOMAIN accepted, accepted[k] = <<"reports", j>>
                  PROVE  <<"reports", i>> \in Heard(k - 1)
                BY <2>2, <2>3, <3>1 DEF Ripe
            <3>2. QED
                BY <1>1, <3>1, HeardBefore
        <2>4. ASSUME NEW e \in Evidence
              PROVE  Precedes(<<"evidence", e>>, <<"reports", Candidate>>)
            <3>1. ASSUME NEW k \in DOMAIN accepted, accepted[k] = <<"reports", Candidate>>
                  PROVE  <<"evidence", e>> \in Heard(k - 1)
                BY <2>2, <3>1 DEF Ripe
            <3>2. QED
                BY <1>1, <3>1, HeardBefore
        <2>5. QED
            BY <2>1, <2>3, <2>4 DEF HostAndStoreAgree, HostHearsInOrder
    <1>2. QED
        BY <1>1, ControlInductive, PTL
=============================================================================
