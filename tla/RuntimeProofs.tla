--------------------------- MODULE RuntimeProofs ---------------------------
(***************************************************************************)
(* The safety properties of a task's runtime attachment for any number of  *)
(* calls, crashes, errors and interferences, and those of the service      *)
(* process around it for any number of processes, clients and connections. *)
(*                                                                         *)
(* The attachment's invariant has four layers, each resting on the ones    *)
(* before it:                                                              *)
(*    Control  who is at which step, under which lock, in which phase;     *)
(*    Disk     what the record says of the directory, come what may;       *)
(*    Served   an attachment on offer is whole;                            *)
(*    Fine     while nothing excuses a refusal, every step finds what it   *)
(*             looks for, so that none refuses.                            *)
(***************************************************************************)
EXTENDS RuntimeAttachment, ServiceLifecycle, TLAPS

-----------------------------------------------------------------------------
(* Control: who does what, and under which lock. It ties the step an actor *)
(* is at to the mutex, to the entry, to the task's phase and to the state  *)
(* of the goroutine, and says which calls exclude each other. It speaks of *)
(* the disk only through its types.                                        *)

Making == {"create", "intent", "mkdir", "bind", "linkIn", "bindLink", "listen", "secure",
           "bindSocket", "publishDir", "activate"}
Approach == {"open", "releaseIntent", "move", "stageMoved"}
Taking == {"sockIsolate", "sockRetire", "linkIsolate", "linkRetire", "stageDir", "dirIsolate",
           "dirRetire"}
Ended == {"done", "refuse", "failed"}
Elsewhere == {"idle", "lock", "register", "registered", "join", "commit", "relocate", "isolated",
              "send", "close", "unproven", "authorize"}
Retiring == {"absent", "released", "removal", "cleaned"}

Acts == [job: {"idle", "prepare", "unregister", "release", "sweep", "recover", "restore", "shutdown"},
         pc: Making \cup Approach \cup Taking \cup Ended \cup Elsewhere,
         pin: Names \cup {"none"}, stage: Stages, fresh: BOOLEAN,
         held: {"none", "own", "foreign"}]

Typed ==
    /\ TypeOK
    /\ act \in [Actors -> Acts]
    /\ anchor \in BOOLEAN
    /\ legacy \in BOOLEAN /\ refused \in BOOLEAN /\ releaseErr \in BOOLEAN

Registering(c) ==
    \/ act[c].job = "unregister"
    \/ act[c].job = "prepare" /\ act[c].pc \in {"register", "registered"}
Past(c) ==
    \/ act[c].pc \in Taking \cup {"close", "done", "failed"}
    \/ act[c].pc = "refuse" /\ mu # c
Finishing(c) == act[c].job = "release" /\ (act[c].pc \in {"send", "unproven"} \/ Past(c))

PrepareOK(c) ==
    act[c].job = "prepare" =>
       /\ act[c].pc \in Making \cup Ended \cup {"lock", "register", "registered", "join", "commit"}
       /\ phase # "none"
       /\ act[c].pc \in Making \cup {"done"} => mu = c
       /\ mu = c => act[c].pc \in Making \cup Ended /\ phase = "intent" /\ entry = "none"
       /\ act[c].pc \in {"register", "registered"} => entry = "pending"
       /\ act[c].pc = "register" => server = "listening"
       /\ act[c].pc = "registered" /\ run = "running" => server = "active"
       /\ act[c].pc = "registered" => server # "listening"
       /\ act[c].pc = "commit" /\ phase = "intent" => entry = "ready"

UnregisterOK(c) ==
    act[c].job = "unregister" =>
       /\ act[c].pc \in Approach \cup Taking \cup Ended \cup {"relocate", "isolated"}
       /\ entry = "pending" /\ mu # c
       /\ server \in {"none", "listening"}
       /\ act[c].pc \in Taking \cup {"done"} => server = "none"

ReleaseOK(c) ==
    act[c].job = "release" =>
       /\ act[c].pc \in Approach \cup Taking \cup Ended
                \cup {"lock", "join", "relocate", "isolated", "send", "close", "unproven", "authorize"}
       /\ phase \in Retiring
       /\ act[c].pc \in Approach \cup {"relocate", "isolated"} => mu = c
       /\ mu = c => /\ act[c].pc \in Approach \cup {"relocate", "isolated", "refuse"}
                    /\ entry \in {"ready", "recovered"}
       /\ Finishing(c) => entry = "releasing"
       /\ Past(c) => server # "active"
       /\ act[c].pc = "join" => entry \in {"releasing", "none"}
       /\ act[c].pc = "authorize" => entry = "none"

SweepOK(c) ==
    act[c].job = "sweep" =>
       /\ act[c].pc \in Approach \cup Taking \cup Ended
       /\ phase \in Retiring /\ entry = "none" /\ mu # c

CallerOK(c) ==
    /\ act[c].job \in {"idle", "prepare", "unregister", "release", "sweep"}
    /\ act[c].job = "idle" => act[c] = Idle /\ mu # c
    /\ PrepareOK(c) /\ UnregisterOK(c) /\ ReleaseOK(c) /\ SweepOK(c)

RecoverOK ==
    /\ act[Run].job = "recover" =>
          /\ run = "recovering" /\ ~legacy /\ ~refused /\ phase # "none"
          /\ act[Run].pc \in Approach \cup Taking \cup Ended
    /\ act[Run].job = "restore" =>
          /\ run = "recovering" /\ ~legacy /\ phase \in {"task", "absent"}
          /\ act[Run].pc \in Making \cup Ended

ShutdownOK ==
    act[Run].job = "shutdown" =>
       /\ run = "stopping" /\ entry # "none" /\ server # "listening"
       /\ act[Run].pc \in Approach \cup Ended \cup {"lock", "relocate", "isolated", "stageDir"}
       /\ act[Run].pc \in Approach \cup {"relocate", "isolated"} => mu = Run
       /\ mu = Run => entry # "releasing"
       /\ act[Run].pc \in {"lock", "stageDir", "done", "failed"} => mu # Run
       /\ \A c \in Callers : act[c].job # "unregister" /\ (act[c].job = "release" => ~Past(c))

RunOK ==
    /\ act[Run].job \in {"idle", "recover", "restore", "shutdown"}
    /\ act[Run].job = "idle" => act[Run] = Idle
    /\ RecoverOK /\ ShutdownOK
    /\ mu = Run => run = "recovering" \/ act[Run].job = "shutdown"
    /\ run = "recovering" => mu = Run

ModeOK ==
    /\ run \in {"down", "recovering", "failed"} =>
          entry = "none" /\ server = "none" /\ \A c \in Callers : act[c] = Idle
    /\ run \in {"down", "failed"} => mu = "free"
    /\ run = "stopped" => server \in {"none", "listening"}
    /\ legacy => run \in {"down", "recovering"} /\ act[Run] = Idle /\ phase = "task"

EntryOK ==
    /\ entry # "none" => phase # "none"
    /\ entry = "pending" => phase = "intent"
    /\ entry = "releasing" => phase \in Retiring
    /\ entry = "recovered" => phase \notin {"none", "intent"}
    /\ phase \in {"removal", "cleaned"} => entry = "none"
    /\ run \in {"running", "stopping", "stopped"} /\ phase = "task" /\ ~refused => entry # "none"
    /\ server = "active" => entry # "none"
    /\ server = "listening" => entry = "pending"
    /\ entry \in {"ready", "recovered"} /\ run = "running" => server = "active"

OneAtATime ==
    \A c, d \in Callers :
       /\ Registering(c) /\ Registering(d) => c = d
       /\ Finishing(c) /\ Finishing(d) => c = d

Control ==
    /\ Typed
    /\ \A c \in Callers : CallerOK(c)
    /\ RunOK /\ ModeOK /\ EntryOK /\ OneAtATime

-----------------------------------------------------------------------------
(* How an actor moves.                                                     *)

\* One actor's entry changes; the others keep theirs.
Others(a) == \A b \in Actors \ {a} : act'[b] = act[b]

LEMMA GotoShape ==
  ASSUME act \in [Actors -> Acts], NEW a \in Actors, NEW p, Goto(a, p),
         p \in Making \cup Approach \cup Taking \cup Ended \cup Elsewhere
  PROVE  /\ act' \in [Actors -> Acts] /\ Others(a)
         /\ act'[a].pc = p /\ act'[a].job = act[a].job /\ act'[a].pin = act[a].pin
         /\ act'[a].stage = act[a].stage /\ act'[a].fresh = act[a].fresh
         /\ act'[a].held = "none"
  <1>1. PICK h : h = act[a]
    OBVIOUS
  <1>2. PICK r : r = [h EXCEPT !.pc = p, !.held = "none"]
    OBVIOUS
  <1>3. h \in Acts
    BY <1>1
  <1>4. /\ r \in Acts /\ r.pc = p /\ r.job = h.job /\ r.pin = h.pin /\ r.stage = h.stage
        /\ r.fresh = h.fresh /\ r.held = "none"
    BY <1>2, <1>3 DEF Acts
  <1>5. act' = [act EXCEPT ![a] = r]
    BY <1>1, <1>2 DEF Goto
  <1>6. QED
    BY <1>1, <1>4, <1>5 DEF Others

LEMMA HoldShape ==
  ASSUME act \in [Actors -> Acts], NEW a \in Actors, NEW w \in {"own", "foreign"}, Hold(a, w)
  PROVE  /\ act' \in [Actors -> Acts] /\ Others(a) /\ UNCHANGED disk
         /\ act'[a].pc = act[a].pc /\ act'[a].job = act[a].job /\ act'[a].pin = act[a].pin
         /\ act'[a].stage = act[a].stage /\ act'[a].fresh = act[a].fresh
         /\ act'[a].held = w
  BY DEF Hold, Acts, Others

LEMMA IdleIsTyped ==
    /\ Idle \in Acts /\ Idle.job = "idle" /\ Idle.pc = "idle" /\ Idle.pin = "none"
    /\ Idle.stage = "none" /\ Idle.fresh = TRUE /\ Idle.held = "none"
  BY DEF Idle, Acts, Stages, Elsewhere

LEMMA StartShape ==
  ASSUME act \in [Actors -> Acts], NEW a \in Actors, NEW j, NEW p, Start(a, j, p),
         j \in {"prepare", "unregister", "release", "sweep", "recover", "restore", "shutdown"},
         p \in Making \cup Approach \cup Taking \cup Ended \cup Elsewhere
  PROVE  /\ act' \in [Actors -> Acts] /\ Others(a)
         /\ act'[a].pc = p /\ act'[a].job = j /\ act'[a].pin = "none"
         /\ act'[a].stage = "none" /\ act'[a].fresh = TRUE /\ act'[a].held = "none"
  <1>1. PICK h : h = Idle
    OBVIOUS
  <1>2. /\ h \in Acts /\ h.pin = "none" /\ h.stage = "none" /\ h.fresh = TRUE
        /\ h.held = "none"
    BY <1>1, IdleIsTyped
  <1>3. act' = [act EXCEPT ![a] = [h EXCEPT !.job = j, !.pc = p]]
    BY <1>1 DEF Start
  <1>4. QED
    BY <1>2, <1>3 DEF Acts, Others

LEMMA ReturnShape ==
  ASSUME act \in [Actors -> Acts], NEW a \in Actors, Return(a)
  PROVE  act' \in [Actors -> Acts] /\ Others(a) /\ act'[a] = Idle
  BY IdleIsTyped DEF Return, Others

(* Publishing may make another actor's view of the record stale.           *)
Peer(b) ==
    /\ act'[b].job = act[b].job /\ act'[b].pc = act[b].pc /\ act'[b].pin = act[b].pin
    /\ act'[b].stage = act[b].stage /\ act'[b].held = act[b].held
    /\ act'[b].fresh => act[b].fresh
    /\ act[b].pin = "none" => act'[b] = act[b]
    /\ act[b].pin # "none" /\ record' # record => ~act'[b].fresh

Moved(a) ==
    /\ act' \in [Actors -> Acts]
    /\ act'[a].job = act[a].job
    /\ \A b \in Actors \ {a} : Peer(b)

\* What Publish does: it writes the record, or refuses and changes nothing.
Published(a, stage, restamp, to) ==
    /\ Publishable(a)
    /\ record' = stage /\ touched' = (touched /\ ~restamp)
    /\ act'[a].pc = to /\ act'[a].stage = stage /\ act'[a].fresh = act[a].fresh
    /\ act'[a].pin = act[a].pin /\ act'[a].held = act[a].held
    /\ UNCHANGED <<anchor, loc, link, sock, foreign, litter>>
NotPublished(a) ==
    /\ ~Publishable(a)
    /\ act'[a].pc = "refuse" /\ act'[a].stage = act[a].stage /\ act'[a].fresh = act[a].fresh
    /\ act'[a].pin = act[a].pin /\ act'[a].held = "none" /\ Others(a)
    /\ UNCHANGED disk

LEMMA OverwriteShape ==
  ASSUME act \in [Actors -> Acts], NEW a \in Actors, NEW stage \in Stages, NEW changed \in BOOLEAN,
         NEW p \in Making \cup Approach \cup Taking \cup Ended \cup Elsewhere,
         Overwrite(a, stage, p, changed), stage # record => changed
  PROVE  /\ Moved(a) /\ record' = stage
         /\ act'[a].pc = p /\ act'[a].stage = stage /\ act'[a].fresh = act[a].fresh
         /\ act'[a].pin = act[a].pin /\ act'[a].held = act[a].held
  <1> DEFINE r(b) == [act[b] EXCEPT !.pc = p, !.stage = stage]
             g(b) == [act[b] EXCEPT !.fresh = @ /\ ~(changed /\ act[b].pin # "none")]
  <1>1. record' = stage /\ act' = [b \in Actors |-> IF b = a THEN r(b) ELSE g(b)]
    BY Zenon DEF Overwrite
  <1>2. /\ r(a) \in Acts /\ r(a).pc = p /\ r(a).stage = stage /\ r(a).job = act[a].job
        /\ r(a).fresh = act[a].fresh /\ r(a).pin = act[a].pin /\ r(a).held = act[a].held
    BY DEF Acts
  <1>3. ASSUME NEW b \in Actors
        PROVE  /\ g(b) \in Acts
               /\ g(b).job = act[b].job /\ g(b).pc = act[b].pc /\ g(b).pin = act[b].pin
               /\ g(b).stage = act[b].stage /\ g(b).held = act[b].held
               /\ g(b).fresh = (act[b].fresh /\ ~(changed /\ act[b].pin # "none"))
    <2> DEFINE k == act[b].fresh /\ ~(changed /\ act[b].pin # "none")
    <2>1. k \in BOOLEAN
      BY DEF Acts
    <2>2. g(b) = [act[b] EXCEPT !.fresh = k]
      OBVIOUS
    <2> HIDE DEF k
    <2>3. QED
      BY <2>1, <2>2 DEF Acts
  <1>4. ASSUME NEW b \in Actors, act[b].pin = "none"
        PROVE  g(b) = act[b]
    <2>1. act[b].fresh \in BOOLEAN
      BY DEF Acts
    <2>2. (act[b].fresh /\ ~(changed /\ act[b].pin # "none")) = act[b].fresh
      BY <1>4, <2>1
    <2>3. [act[b] EXCEPT !.fresh = act[b].fresh] = act[b]
      BY DEF Acts
    <2>4. QED
      BY <2>2, <2>3
  <1> HIDE DEF r, g
  <1>5. act' \in [Actors -> Acts] /\ act'[a] = r(a)
    BY <1>1, <1>2, <1>3
  <1>6. ASSUME NEW b \in Actors \ {a}
        PROVE  Peer(b)
    <2>1. act'[b] = g(b)
      BY <1>1
    <2>2. QED
      BY <1>1, <2>1, <1>3, <1>4 DEF Peer
  <1>7. QED
    BY <1>1, <1>2, <1>5, <1>6 DEF Moved

LEMMA PublishShape ==
  ASSUME act \in [Actors -> Acts], NEW a \in Actors, NEW stage \in Stages,
         NEW restamp, NEW p \in Making \cup Approach \cup Taking \cup Ended \cup Elsewhere,
         Publish(a, stage, restamp, p)
  PROVE  /\ Moved(a)
         /\ Published(a, stage, restamp, p) \/ NotPublished(a)
  <1>1. CASE Publishable(a)
    <2> DEFINE changed == stage # record \/ (restamp /\ touched)
    <2>1. /\ Overwrite(a, stage, p, changed) /\ touched' = (touched /\ ~restamp)
          /\ UNCHANGED <<anchor, loc, link, sock, foreign, litter>>
      BY <1>1 DEF Publish
    <2>2. changed \in BOOLEAN /\ (stage # record => changed)
      OBVIOUS
    <2> HIDE DEF changed
    <2>3. QED
      BY <1>1, <2>1, <2>2, OverwriteShape DEF Published
  <1>2. CASE ~Publishable(a)
    <2>1. Goto(a, "refuse") /\ UNCHANGED disk
      BY <1>2 DEF Publish, Refuse
    <2>2. Others(a) /\ act' \in [Actors -> Acts] /\ act'[a].job = act[a].job
      BY <2>1, GotoShape DEF Ended
    <2>3. \A b \in Actors \ {a} : Peer(b)
      BY <2>1, <2>2 DEF Peer, Others, disk
    <2>4. NotPublished(a)
      BY <1>2, <2>1, GotoShape DEF NotPublished, Ended
    <2>5. QED
      BY <2>2, <2>3, <2>4 DEF Moved
  <1>3. QED
    BY <1>1, <1>2

LEMMA GotoMoves ==
  ASSUME act \in [Actors -> Acts], NEW a \in Actors, NEW p, Goto(a, p), record' = record,
         p \in Making \cup Approach \cup Taking \cup Ended \cup Elsewhere
  PROVE  /\ Moved(a) /\ act'[a].pc = p /\ act'[a].pin = act[a].pin
         /\ act'[a].stage = act[a].stage /\ act'[a].fresh = act[a].fresh
         /\ act'[a].held = "none"
  BY GotoShape DEF Moved, Peer, Others

-----------------------------------------------------------------------------
(* Every step on the directory, whoever takes it: it moves one actor along *)
(* within its own part of the work.                                        *)

DiskTyped ==
    /\ record \in Stages
    /\ loc \in Names \cup {"none", "isolated", "orphaned"}
    /\ link \in {"none", "linked", "isolated", "foreign", "seized"}
    /\ sock \in {"none", "unsafe", "held", "isolated", "foreign", "seized"}
    /\ foreign \subseteq Names \cup {"isolation"} /\ anchor \in BOOLEAN

Forward(a) ==
    \/ /\ act[a].pc \in Approach
       /\ IF Closing(a) THEN act'[a].pc \in Approach \cup {"relocate", "refuse"}
          ELSE act'[a].pc \in Approach \cup Taking \cup Ended
    \/ /\ act[a].pc \in Taking
       /\ act'[a].pc \in Taking \cup Ended
       /\ act[a].pc = "stageDir" /\ act[a].job = "shutdown" => act'[a].pc \in Ended
    \/ /\ act[a].pc \in Making
       /\ act'[a].pc \in Making \cup Ended
    \/ /\ act[a].pc = "relocate"
       /\ act'[a].pc \in {"isolated", "refuse"}

LEMMA HoldMoves ==
  ASSUME act \in [Actors -> Acts], NEW a \in Actors, NEW w \in {"own", "foreign"}, Hold(a, w),
         act[a].pc \in {"move", "sockIsolate", "linkIsolate", "dirIsolate", "publishDir"}
  PROVE  Moved(a) /\ Forward(a) /\ UNCHANGED disk
  <1>1. Moved(a) /\ act'[a].pc = act[a].pc /\ UNCHANGED disk
    BY HoldShape DEF Moved, Peer, Others, disk
  <1>2. QED
    BY <1>1 DEF Forward, Approach, Taking, Making

LEMMA ApproachMoves ==
  ASSUME act \in [Actors -> Acts], NEW a \in Actors, NEW p, Goto(a, p), record' = record,
         act[a].pc \in Approach, 
         \/ p \in Approach \cup {"refuse"}
         \/ p = "relocate" /\ Closing(a)
         \/ p \in Taking \cup {"done", "failed"} /\ ~Closing(a)
  PROVE  Moved(a) /\ Forward(a)
  <1>1. Moved(a) /\ act'[a].pc = p
    BY GotoMoves DEF Elsewhere, Ended
  <1>2. Forward(a)
    <2>1. CASE Closing(a)
      BY <1>1, <2>1 DEF Forward
    <2>2. CASE ~Closing(a)
      BY <1>1, <2>2 DEF Forward, Approach, Taking, Ended
    <2>3. QED
      BY <2>1, <2>2
  <1>3. QED
    BY <1>1, <1>2

LEMMA TakingMoves ==
  ASSUME act \in [Actors -> Acts], NEW a \in Actors, NEW p, Goto(a, p), record' = record,
         act[a].pc \in Taking \ {"stageDir"}, p \in Taking \cup Ended
  PROVE  Moved(a) /\ Forward(a)
  <1>1. Moved(a) /\ act'[a].pc = p
    BY GotoMoves
  <1>2. QED
    BY <1>1 DEF Forward

LEMMA MakingMoves ==
  ASSUME act \in [Actors -> Acts], NEW a \in Actors, NEW p, Goto(a, p), record' = record,
         act[a].pc \in Making, p \in Making \cup Ended
  PROVE  Moved(a) /\ Forward(a)
  <1>1. Moved(a) /\ act'[a].pc = p
    BY GotoMoves
  <1>2. QED
    BY <1>1 DEF Forward

LEMMA RemovalShape ==
  ASSUME DiskTyped, act \in [Actors -> Acts], NEW a \in Actors, Removal(a)
  PROVE  Moved(a) /\ Forward(a) /\ DiskTyped' /\ UNCHANGED <<faults, cause>>
  <1> USE DEF Approach, Taking, Ended
  <1>1. CASE Open(a)
    <2>0. \/ Refuse(a)
          \/ (Goto(a, "done") /\ UNCHANGED disk /\ ~Closing(a))
          \/ (Goto(a, "dirRetire") /\ UNCHANGED disk /\ ~Closing(a))
          \/ \E n \in NamesOf(record) :
                /\ Pinned(a, n) /\ record \in Stages \ {"damaged", "none", "intent"}
                /\ Closing(a) => record \in {"active", "releaseIntent", "releasing"}
      BY <1>1 DEF Open, RecordReadable, DiskTyped, NamesOf, Names
    <2>1. act[a].pc = "open" /\ record' = record /\ UNCHANGED <<disk, faults, cause>>
      <3>1. UNCHANGED disk
        BY <2>0, Zenon DEF Refuse, Pinned
      <3>2. act[a].pc = "open" /\ UNCHANGED <<faults, cause>>
        BY <1>1 DEF Open, At
      <3>3. QED
        BY <3>1, <3>2 DEF disk
    <2>2. CASE Refuse(a)
      BY <2>1, <2>2, GotoMoves DEF Refuse, Forward, DiskTyped, disk
    <2>3. CASE Goto(a, "done") /\ ~Closing(a)
      BY <2>1, <2>3, GotoMoves DEF Forward, DiskTyped, disk
    <2>4. CASE Goto(a, "dirRetire") /\ ~Closing(a)
      BY <2>1, <2>4, GotoMoves DEF Forward, DiskTyped, disk
    <2>5. ASSUME NEW n \in NamesOf(record), Pinned(a, n),
                 record \in Stages \ {"damaged", "none", "intent"},
                 Closing(a) => record \in {"active", "releaseIntent", "releasing"}
          PROVE  Moved(a) /\ Forward(a)
      <3>1. n \in Names
        BY DEF NamesOf, Names
      <3>2. PICK p : p = FirstRemovalStep(record)
        OBVIOUS
      <3>3. /\ p \in Approach \cup Taking \cup {"refuse"}
            /\ Closing(a) => p \in Approach \cup {"refuse"}
        <4>1. AfterSocket \in {"linkIsolate", "dirIsolate"}
          BY DEF AfterSocket
        <4>2. QED
          BY <2>5, <3>2, <4>1 DEF FirstRemovalStep, DiskTyped, Stages
      <3>4. PICK s : s = record
        OBVIOUS
      <3>5. act' = [act EXCEPT ![a] = [@ EXCEPT !.pin = n, !.stage = s, !.fresh = TRUE, !.pc = p]]
        BY <2>5, <3>2, <3>4 DEF Pinned
      <3>6. /\ act' \in [Actors -> Acts] /\ Others(a) /\ act'[a].pc = p /\ act'[a].job = act[a].job
        <4>1. PICK h : h = act[a]
          OBVIOUS
        <4>2. PICK r : r = [h EXCEPT !.pin = n, !.stage = s, !.fresh = TRUE, !.pc = p]
          OBVIOUS
        <4>3. h \in Acts /\ s \in Stages
          BY <4>1, <3>4 DEF DiskTyped
        <4>4. r \in Acts /\ r.pc = p /\ r.job = h.job
          BY <3>1, <3>3, <4>2, <4>3 DEF Acts
        <4>5. act' = [act EXCEPT ![a] = r]
          BY <3>5, <4>1, <4>2
        <4>6. QED
          BY <4>1, <4>4, <4>5 DEF Others
      <3>7. QED
        BY <2>1, <3>3, <3>6 DEF Moved, Peer, Others, Forward
    <2>6. QED
      BY <2>0, <2>1, <2>2, <2>3, <2>4, <2>5 DEF DiskTyped, disk
  <1>2. CASE PublishReleaseIntent(a)
    <2>1. Publish(a, "releaseIntent", FALSE, "move") /\ act[a].pc = "releaseIntent"
          /\ UNCHANGED <<faults, cause>>
      BY <1>2 DEF PublishReleaseIntent, At
    <2>2. Moved(a) /\ (Published(a, "releaseIntent", FALSE, "move") \/ NotPublished(a))
      BY <2>1, PublishShape DEF Stages
    <2>3. QED
      BY <2>1, <2>2 DEF Forward, DiskTyped, Published, NotPublished, disk, Stages
  <1>3. CASE InspectMove(a) \/ Move(a)
    <2>1. act[a].pc = "move" /\ UNCHANGED <<faults, cause, record>>
      BY <1>3 DEF InspectMove, Move, Inspecting, Renaming, At, Refuse, Hold, disk
    <2>2. CASE \E p \in {Isolated(a), "stageMoved", "refuse"} : Goto(a, p)
      <3>1. Isolated(a) \in {"relocate", "sockIsolate"} /\ (Closing(a) => Isolated(a) = "relocate")
        BY DEF Isolated
      <3>2. DiskTyped'
        BY <1>3 DEF InspectMove, Move, Refuse, Hold, DiskTyped, disk, Names
      <3>3. QED
        BY <2>1, <2>2, <3>1, <3>2, ApproachMoves DEF Closing, Isolated
    <2>3. CASE /\ act' = [act EXCEPT ![a] = [@ EXCEPT !.pc = "stageMoved", !.pin = "release",
                                                      !.held = "none"]]
               /\ loc' = "release" /\ UNCHANGED <<anchor, record, link, sock, foreign, litter>>
      <3>1. PICK h : h = act[a]
        OBVIOUS
      <3>2. PICK r : r = [h EXCEPT !.pc = "stageMoved", !.pin = "release", !.held = "none"]
        OBVIOUS
      <3>3. r \in Acts /\ r.pc = "stageMoved" /\ r.job = h.job
        BY <3>1, <3>2 DEF Acts, Names
      <3>4. act' = [act EXCEPT ![a] = r]
        BY <2>3, <3>1, <3>2
      <3>5. /\ act' \in [Actors -> Acts] /\ Others(a) /\ act'[a].pc = "stageMoved"
            /\ act'[a].job = act[a].job
        BY <3>1, <3>3, <3>4 DEF Others
      <3>6. QED
        BY <2>1, <2>3, <3>5 DEF Moved, Peer, Others, Forward, DiskTyped, Names
    <2>4. CASE Hold(a, "own")
      BY <2>1, <2>4, HoldMoves DEF DiskTyped, disk
    <2>5. QED
      BY <1>3, <2>2, <2>3, <2>4 DEF InspectMove, Move, Refuse
  <1>4. CASE StageMoved(a)
    <2>1. PICK p : p = Isolated(a)
      OBVIOUS
    <2>2. IF Closing(a) THEN p = "relocate" ELSE p = "sockIsolate"
      BY <2>1 DEF Isolated
    <2>3. Publish(a, "releasing", TRUE, p) /\ act[a].pc = "stageMoved" /\ UNCHANGED <<faults, cause>>
      BY <1>4, <2>1 DEF StageMoved, At
    <2>4. Moved(a) /\ (Published(a, "releasing", TRUE, p) \/ NotPublished(a))
      BY <2>2, <2>3, PublishShape DEF Stages, Elsewhere
    <2>5. Forward(a)
      BY <2>2, <2>3, <2>4 DEF Forward, Published, NotPublished
    <2>6. QED
      BY <2>3, <2>4, <2>5 DEF DiskTyped, Published, NotPublished, disk, Stages
  <1>5. CASE InspectSocket(a) \/ SockIsolate(a) \/ SockRetire(a)
    <2>1. /\ act[a].pc \in {"sockIsolate", "sockRetire"} /\ record' = record
          /\ UNCHANGED <<faults, cause>>
      BY <1>5 DEF InspectSocket, SockIsolate, SockRetire, Refuse, Hold, Inspecting, Renaming, At,
                  disk
    <2>2. DiskTyped'
      BY <1>5 DEF InspectSocket, SockIsolate, SockRetire, Refuse, Hold, DiskTyped, disk
    <2>3. CASE \E p \in {"sockRetire", "linkIsolate", "refuse"} : Goto(a, p)
      BY <2>1, <2>2, <2>3, TakingMoves
    <2>4. CASE InspectSocket(a) /\ \E w \in {"own", "foreign"} : Hold(a, w)
      <3>1. act[a].pc = "sockIsolate"
        BY <2>4 DEF InspectSocket, Inspecting, At
      <3>2. QED
        BY <2>1, <2>2, <2>4, <3>1, HoldMoves
    <2>5. CASE InspectSocket(a)
      BY <2>3, <2>4, <2>5 DEF InspectSocket, Refuse
    <2>6. CASE SockIsolate(a) \/ SockRetire(a)
      BY <2>3, <2>6 DEF SockIsolate, SockRetire
    <2>7. QED
      BY <1>5, <2>5, <2>6
  <1>6. CASE InspectLink(a) \/ LinkIsolate(a) \/ LinkRetire(a)
    <2>1. LinkGone(act[a].stage) \in {"dirIsolate", "stageDir"}
      BY DEF LinkGone
    <2>2. /\ act[a].pc \in {"linkIsolate", "linkRetire"} /\ record' = record
          /\ UNCHANGED <<faults, cause>>
      BY <1>6 DEF InspectLink, LinkIsolate, LinkRetire, Refuse, Fail, Hold, Inspecting, Renaming,
                  At, disk
    <2>3. DiskTyped'
      BY <1>6 DEF InspectLink, LinkIsolate, LinkRetire, Refuse, Fail, Hold, DiskTyped, disk
    <2>4. CASE \E p \in {"linkRetire", LinkGone(act[a].stage), "failed", "refuse"} : Goto(a, p)
      BY <2>1, <2>2, <2>3, <2>4, TakingMoves
    <2>5. CASE InspectLink(a) /\ Hold(a, "own")
      BY <2>2, <2>3, <2>5, HoldMoves DEF InspectLink, Inspecting, At
    <2>6. QED
      BY <1>6, <2>4, <2>5 DEF InspectLink, LinkIsolate, LinkRetire, Fail, Refuse
  <1>7. CASE StageDir(a)
    <2>1. act[a].stage \in Stages
      BY DEF Acts
    <2>2. PICK p : p = IF act[a].job = "shutdown" THEN "done" ELSE "dirIsolate"
      OBVIOUS
    <2>3. Publish(a, act[a].stage, TRUE, p) /\ act[a].pc = "stageDir" /\ UNCHANGED <<faults, cause>>
      BY <1>7, <2>2 DEF StageDir, At
    <2>4. Moved(a) /\ (Published(a, act[a].stage, TRUE, p) \/ NotPublished(a))
      BY <2>1, <2>2, <2>3, PublishShape
    <2>5. QED
      BY <2>1, <2>2, <2>3, <2>4 DEF Forward, DiskTyped, Published, NotPublished, disk
  <1>8. CASE InspectDirectory(a) \/ DirIsolate(a) \/ DirRetire(a)
    <2>1. /\ act[a].pc \in {"dirIsolate", "dirRetire"} /\ record' = record
          /\ UNCHANGED <<faults, cause>>
      BY <1>8 DEF InspectDirectory, DirIsolate, DirRetire, Refuse, Hold, Inspecting, Renaming, At,
                  disk
    <2>2. DiskTyped'
      BY <1>8 DEF InspectDirectory, DirIsolate, DirRetire, Refuse, Hold, DiskTyped, disk
    <2>3. CASE \E p \in {"dirRetire", "done", "refuse"} : Goto(a, p)
      BY <2>1, <2>2, <2>3, TakingMoves
    <2>4. CASE InspectDirectory(a) /\ Hold(a, "own")
      BY <2>1, <2>2, <2>4, HoldMoves DEF InspectDirectory, Inspecting, At
    <2>5. QED
      BY <1>8, <2>3, <2>4 DEF InspectDirectory, DirIsolate, DirRetire, Refuse
  <1>9. QED
    BY <1>1, <1>2, <1>3, <1>4, <1>5, <1>6, <1>7, <1>8 DEF Removal

LEMMA CreationShape ==
  ASSUME DiskTyped, act \in [Actors -> Acts], NEW a \in Actors, Creation(a)
  PROVE  Moved(a) /\ Forward(a) /\ DiskTyped' /\ UNCHANGED faults
  <1> USE DEF Making, Ended
  <1>1. CASE Begin(a)
    <2>1. act[a].pc = "create" /\ UNCHANGED <<disk, faults>>
      BY <1>1 DEF Begin, At, Fail
    <2>2. CASE Fail(a)
      BY <2>1, <2>2, MakingMoves DEF Fail, DiskTyped, disk
    <2>3. ASSUME NEW p \in {"intent", "linkIn", "listen"},
                 act' = [act EXCEPT ![a] = [@ EXCEPT !.stage = record, !.fresh = TRUE,
                                                     !.pin = "creation", !.pc = p]]
          PROVE  Moved(a) /\ Forward(a)
      <3>1. PICK h : h = act[a]
        OBVIOUS
      <3>2. PICK s : s = record
        OBVIOUS
      <3>3. PICK r : r = [h EXCEPT !.stage = s, !.fresh = TRUE, !.pin = "creation", !.pc = p]
        OBVIOUS
      <3>4. h \in Acts /\ s \in Stages
        BY <3>1, <3>2 DEF DiskTyped
      <3>5. r \in Acts /\ r.pc = p /\ r.job = h.job
        BY <3>3, <3>4 DEF Acts, Names
      <3>6. act' = [act EXCEPT ![a] = r]
        BY <2>3, <3>1, <3>2, <3>3
      <3>7. act' \in [Actors -> Acts] /\ Others(a) /\ act'[a].pc = p /\ act'[a].job = act[a].job
        BY <3>1, <3>5, <3>6 DEF Others
      <3>8. Moved(a)
        BY <2>1, <3>7 DEF Moved, Peer, Others, disk
      <3>9. QED
        BY <2>1, <3>7, <3>8 DEF Forward
    <2>4. \/ Fail(a)
          \/ \E p \in {"intent", "linkIn", "listen"} :
                act' = [act EXCEPT ![a] = [@ EXCEPT !.stage = record, !.fresh = TRUE,
                                                    !.pin = "creation", !.pc = p]]
      BY <1>1 DEF Begin
    <2>5. QED
      BY <2>1, <2>2, <2>3, <2>4 DEF DiskTyped, disk
  <1>2. CASE MakeDirectory(a)
    <2>1. /\ \E p \in {"bind", "failed"} : Goto(a, p)
          /\ act[a].pc = "mkdir" /\ record' = record /\ UNCHANGED faults
      BY <1>2 DEF MakeDirectory, At, Fail, disk
    <2>2. DiskTyped'
      BY <1>2 DEF MakeDirectory, Fail, DiskTyped, disk, Names
    <2>3. QED
      BY <2>1, <2>2, MakingMoves
  <1>3. CASE \/ LinkGeneration(a) \/ Listen(a) \/ SecureSocket(a)
             \/ InspectStaged(a) \/ PublishDirectory(a)
    <2>1. /\ act[a].pc \in {"linkIn", "listen", "secure", "publishDir"} /\ record' = record
          /\ UNCHANGED faults
      BY <1>3 DEF LinkGeneration, Listen, SecureSocket, InspectStaged, PublishDirectory,
                  FailListening, Inspecting, Renaming, Hold, At, Fail, disk
    <2>2. DiskTyped'
      BY <1>3 DEF LinkGeneration, Listen, SecureSocket, InspectStaged, PublishDirectory,
                  FailListening, Fail, Hold, DiskTyped, disk, Names
    <2>3. CASE \E p \in {"bindLink", "failed", "secure", "bindSocket", "activate"} : Goto(a, p)
      BY <2>1, <2>2, <2>3, MakingMoves
    <2>4. CASE InspectStaged(a) /\ Hold(a, "own")
      BY <2>1, <2>2, <2>4, HoldMoves DEF InspectStaged, Inspecting, At
    <2>5. QED
      BY <1>3, <2>3, <2>4 DEF LinkGeneration, Listen, SecureSocket, InspectStaged,
                              PublishDirectory, FailListening, Fail
  <1>4. ASSUME NEW stage \in Stages, NEW restamp, NEW p \in Making \cup {"done"},
               Publish(a, stage, restamp, p), act[a].pc \in Making, UNCHANGED faults
        PROVE  Moved(a) /\ Forward(a) /\ DiskTyped' /\ UNCHANGED faults
    <2>1. Moved(a) /\ (Published(a, stage, restamp, p) \/ NotPublished(a))
      BY <1>4, PublishShape
    <2>2. Forward(a)
      BY <1>4, <2>1 DEF Forward, Published, NotPublished
    <2>3. QED
      BY <1>4, <2>1, <2>2 DEF DiskTyped, Published, NotPublished, disk
  <1>5. CASE PublishIntent(a)
    BY <1>5, <1>4 DEF PublishIntent, At, Stages
  <1>6. CASE BindDirectory(a)
    BY <1>6, <1>4 DEF BindDirectory, At, Stages
  <1>7. CASE PublishCreating(a)
    BY <1>7, <1>4 DEF PublishCreating, At, Stages
  <1>8. CASE PublishListening(a) \/ PublishActive(a)
    <2>1. CASE FailListening(a)
      <3>1. /\ Goto(a, "failed") /\ act[a].pc \in Making /\ record' = record /\ UNCHANGED faults
        BY <1>8, <2>1 DEF PublishListening, PublishActive, FailListening, At
      <3>2. DiskTyped'
        BY <2>1 DEF FailListening, DiskTyped
      <3>3. QED
        BY <3>1, <3>2, MakingMoves
    <2>2. CASE Publish(a, "listening", TRUE, "publishDir")
      BY <1>8, <2>2, <1>4 DEF PublishListening, PublishActive, At, Stages
    <2>3. CASE Publish(a, "active", TRUE, "done")
      BY <1>8, <2>3, <1>4 DEF PublishListening, PublishActive, At, Stages
    <2>4. QED
      BY <1>8, <2>1, <2>2, <2>3 DEF PublishListening, PublishActive
  <1>9. QED
    BY <1>1, <1>2, <1>3, <1>5, <1>6, <1>7, <1>8 DEF Creation

LEMMA IOErrorShape ==
  ASSUME DiskTyped, act \in [Actors -> Acts], NEW a \in Actors, IOError(a)
  PROVE  Moved(a) /\ Forward(a) /\ DiskTyped' /\ act'[a].pc = "failed"
  <1>1. Goto(a, "failed") /\ record' = record
    BY DEF IOError, Fail, FailListening, disk
  <1>2. Moved(a) /\ act'[a].pc = "failed"
    BY <1>1, GotoMoves DEF Ended
  <1>3. act[a].pc \in Making \cup Taking \/ (act[a].pc \in Approach /\ ~Closing(a))
    BY DEF IOError, Making, Taking, Approach
  <1>4. DiskTyped'
    BY DEF IOError, Fail, FailListening, DiskTyped, disk
  <1>5. Forward(a)
    BY <1>2, <1>3 DEF Forward, Ended
  <1>6. QED
    BY <1>2, <1>4, <1>5

LEMMA UnprovenErrorShape ==
  ASSUME DiskTyped, act \in [Actors -> Acts], NEW a \in Actors, UnprovenError(a)
  PROVE  Moved(a) /\ Forward(a) /\ DiskTyped' /\ act'[a].pc \in {"refuse", "failed"}
  <1>1. CASE Refuse(a)
    <2>1. Moved(a) /\ act'[a].pc = "refuse" /\ UNCHANGED disk
      BY <1>1, GotoMoves DEF Ended, Refuse, disk
    <2>2. act[a].pc \in Taking \cup Approach \cup {"relocate"} \cup Making /\ act[a].pc # "stageDir"
      BY DEF UnprovenError, Unsynchronized, FailActive, Taking, Approach, Making, At
    <2>3. QED
      BY <2>1, <2>2 DEF Forward, Ended, Taking, Approach, Making, DiskTyped, disk
  <1>2. CASE FailActive(a)
    <2>1. Overwrite(a, "active", "failed", TRUE) /\ act[a].pc = "activate"
      BY <1>2 DEF FailActive, At
    <2>2. Moved(a) /\ act'[a].pc = "failed" /\ record' = "active"
      BY <2>1, OverwriteShape DEF Ended, Stages
    <2>3. DiskTyped'
      BY <1>2, <2>2 DEF FailActive, DiskTyped, Stages
    <2>4. QED
      BY <2>1, <2>2, <2>3 DEF Forward, Ended, Making
  <1>3. QED
    BY <1>1, <1>2 DEF UnprovenError

-----------------------------------------------------------------------------
(* Control is inductive.                                                   *)

LEMMA WorkControl ==
  ASSUME Control, NEW a \in Actors, Moved(a), Forward(a), DiskTyped', faults' \in 0..MaxFaults,
         UNCHANGED <<memory, durable>>
  PROVE  Control'
  <1> USE DEF memory, durable
  <1>1. Typed'
    BY DEF Control, Typed, TypeOK, DiskTyped, Moved
  <1>2. \A b \in Actors \ {a} : Peer(b)
    BY DEF Moved
  <1>3. \A b \in Actors : act'[b].job = act[b].job
    BY <1>2 DEF Moved, Peer
  <1>4. \A b \in Actors \ {a} : act[b].job = "idle" => act'[b] = act[b]
    BY <1>2, IdleIsTyped DEF Peer, Control, CallerOK, RunOK, Actors
  <1>5. act[a].job # "idle"
    BY IdleIsTyped DEF Forward, Approach, Taking, Making, Control, CallerOK, RunOK, Actors
  <1>6. CASE a \in Callers
    <2>1. a # Run /\ Run \in Actors /\ a \in Actors
      BY <1>6, RunAssumption DEF Actors
    <2>2. CallerOK(a)'
      <3>1. CallerOK(a)
        BY <1>6 DEF Control
      <3>2. CASE act[a].job = "prepare"
        BY <3>1, <3>2, <1>3 DEF CallerOK, PrepareOK, UnregisterOK, ReleaseOK, SweepOK, Forward, Making,
               Approach, Taking, Ended
      <3>3. CASE act[a].job = "unregister"
        BY <3>1, <3>3, <1>3 DEF CallerOK, PrepareOK, UnregisterOK, ReleaseOK, SweepOK, Forward, Making,
               Approach, Taking, Ended, Closing
      <3>4. CASE act[a].job = "release"
        BY <3>1, <3>4, <1>3 DEF CallerOK, PrepareOK, UnregisterOK, ReleaseOK, SweepOK, Forward, Making,
               Approach, Taking, Ended, Closing, Past, Finishing
      <3>5. CASE act[a].job = "sweep"
        BY <3>1, <3>5, <1>3 DEF CallerOK, PrepareOK, UnregisterOK, ReleaseOK, SweepOK, Forward, Making,
               Approach, Taking, Ended, Closing
      <3>6. QED
        BY <1>5, <3>1, <3>2, <3>3, <3>4, <3>5 DEF CallerOK
    <2>3. \A c \in Callers \ {a} : CallerOK(c)'
      BY <1>2, <1>4
      DEF Control, CallerOK, PrepareOK, UnregisterOK, ReleaseOK, SweepOK, Peer, Actors, Past,
          Finishing
    <2>4. RunOK'
      <3>1. /\ act'[Run].pc = act[Run].pc /\ act'[Run].job = act[Run].job
            /\ act[Run].job = "idle" => act'[Run] = act[Run]
        BY <1>2, <1>4, <2>1 DEF Peer
      <3>2. act'[a].job = "release" /\ Past(a)' => Past(a) \/ act[Run].job # "shutdown"
        <4>1. ASSUME act[a].job = "release", ~Past(a), Past(a)'
              PROVE  act[Run].job # "shutdown"
          <5>1. act[a].pc \in Approach \cup {"relocate"} /\ mu = a
            BY <4>1, <1>6
            DEF Forward, Past, Control, CallerOK, ReleaseOK, Making, Approach, Taking, Ended,
                Closing
          <5>2. act'[a].pc \in Approach \cup {"relocate", "isolated", "refuse"}
            BY <4>1, <5>1 DEF Forward, Closing, Making, Approach, Taking
          <5>3. QED
            BY <4>1, <5>1, <5>2 DEF Past, Approach, Taking
        <4>2. QED
          BY <4>1, <1>3
      <3>3. \A c \in Callers \ {a} : Past(c)' = Past(c)
        BY <1>2 DEF Past, Peer, Actors
      <3>4. QED
        BY <1>3, <3>1, <3>2, <3>3 DEF Control, RunOK, RecoverOK, ShutdownOK, Actors
    <2>5. OneAtATime'
      <3>1. ASSUME NEW c \in Callers
            PROVE  /\ Registering(c)' => Registering(c)
                   /\ Finishing(c)' => Finishing(c)
        <4>1. CASE c = a
          <5>1. Registering(a)' => Registering(a)
            BY <1>3, <1>6
            DEF Registering, Forward, Making, Approach, Taking, Ended, Control, CallerOK, PrepareOK
          <5>2. Finishing(a)' => Finishing(a)
            BY <1>3, <1>6 DEF Finishing, Past, Forward, Making, Approach, Taking, Ended, Closing,
                              Control, CallerOK, ReleaseOK
          <5>3. QED
            BY <4>1, <5>1, <5>2
        <4>2. CASE c # a
          BY <1>2, <4>2 DEF Registering, Finishing, Past, Peer, Actors
        <4>3. QED
          BY <4>1, <4>2
      <3>2. QED
        BY <3>1 DEF OneAtATime, Control
    <2>6. ModeOK'
      BY <1>3, <1>4, <1>6, <1>5, <2>1, IdleIsTyped DEF ModeOK, Control, Actors
    <2>7. QED
      BY <1>1, <2>2, <2>3, <2>4, <2>5, <2>6 DEF Control, EntryOK
  <1>7. CASE a = Run
    <2>1. \A c \in Callers : c # a /\ c \in Actors
      BY <1>7, RunAssumption DEF Actors
    <2>2. \A c \in Callers : CallerOK(c)'
      BY <1>2, <1>4, <2>1
      DEF Control, CallerOK, PrepareOK, UnregisterOK, ReleaseOK, SweepOK, Peer, Past, Finishing
    <2>3. \A c \in Callers : Past(c)' = Past(c) /\ Registering(c)' = Registering(c) /\ Finishing(c)' = Finishing(c)
      BY <1>2, <2>1 DEF Past, Registering, Finishing, Peer
    <2>4. RunOK'
      <3>1. RunOK
        BY DEF Control
      <3>2. CASE act[Run].job \in {"recover", "restore"}
        BY <3>1, <3>2, <1>3, <1>7
        DEF RunOK, RecoverOK, ShutdownOK, Forward, Making, Approach, Taking, Ended, Closing
      <3>3. CASE act[Run].job = "shutdown"
        BY <3>1, <3>3, <1>3, <1>7, <2>1, <2>3
        DEF RunOK, RecoverOK, ShutdownOK, Forward, Making, Approach, Taking, Ended, Closing
      <3>4. QED
        BY <3>1, <3>2, <3>3, <1>5, <1>7 DEF RunOK
    <2>5. OneAtATime'
      BY <2>3 DEF OneAtATime, Control
    <2>6. ModeOK'
      BY <1>3, <1>4, <1>7, <1>5, <2>1, IdleIsTyped DEF ModeOK, Control
    <2>7. QED
      BY <1>1, <2>2, <2>4, <2>5, <2>6 DEF Control, EntryOK
  <1>8. QED
    BY <1>6, <1>7 DEF Actors

LEMMA Shapes ==
  ASSUME act \in [Actors -> Acts], NEW a \in Actors
  PROVE  /\ \A p \in Making \cup Approach \cup Taking \cup Ended \cup Elsewhere :
              Goto(a, p) => /\ act' \in [Actors -> Acts] /\ Others(a)
                            /\ act'[a].pc = p /\ act'[a].job = act[a].job
                            /\ act'[a].pin = act[a].pin /\ act'[a].stage = act[a].stage
                            /\ act'[a].fresh = act[a].fresh
         /\ \A j \in {"prepare", "unregister", "release", "sweep", "recover", "restore", "shutdown"},
               p \in Making \cup Approach \cup Taking \cup Ended \cup Elsewhere :
              Start(a, j, p) => /\ act' \in [Actors -> Acts] /\ Others(a)
                                /\ act'[a].pc = p /\ act'[a].job = j /\ act'[a].pin = "none"
                                /\ act'[a].stage = "none" /\ act'[a].fresh = TRUE
         /\ Return(a) => act' \in [Actors -> Acts] /\ Others(a) /\ act'[a] = Idle
  <1>1. \A p \in Making \cup Approach \cup Taking \cup Ended \cup Elsewhere :
          Goto(a, p) => /\ act' \in [Actors -> Acts] /\ Others(a)
                        /\ act'[a].pc = p /\ act'[a].job = act[a].job
                        /\ act'[a].pin = act[a].pin /\ act'[a].stage = act[a].stage
                        /\ act'[a].fresh = act[a].fresh
    BY GotoShape
  <1>2. \A j \in {"prepare", "unregister", "release", "sweep", "recover", "restore", "shutdown"},
           p \in Making \cup Approach \cup Taking \cup Ended \cup Elsewhere :
          Start(a, j, p) => /\ act' \in [Actors -> Acts] /\ Others(a)
                            /\ act'[a].pc = p /\ act'[a].job = j /\ act'[a].pin = "none"
                            /\ act'[a].stage = "none" /\ act'[a].fresh = TRUE
    BY StartShape
  <1>3. QED
    BY <1>1, <1>2, ReturnShape

LEMMA PrepareCallControl ==
  ASSUME Control, NEW c \in Callers, PrepareCall(c)
  PROVE  Control'
  <1> USE DEF memory, durable, Making, Approach, Taking, Ended, Elsewhere, Retiring
  <1>1. /\ act' \in [Actors -> Acts] /\ Others(c)
        /\ act[c] = Idle /\ run = "running" /\ phase \in {"none", "intent"}
        /\ act'[c].job = "prepare" /\ act'[c].pc = "lock" /\ phase' = "intent"
        /\ UNCHANGED <<disk, faults, memory, legacy, refused>>
    BY ZenonT(60), Shapes, RunAssumption DEF PrepareCall, Control, Typed, TypeOK, Actors
  <1>2. Typed'
    BY <1>1, FreeAssumption DEF Control, Typed, TypeOK, Actors, Phases, disk
  <1>3. /\ c \in Actors /\ Run \in Actors /\ c # Run /\ act'[Run] = act[Run]
        /\ c # "free" /\ Run # "free"
        /\ \A d \in Callers \ {c} : act'[d] = act[d] /\ d # "free"
    BY <1>1, RunAssumption, FreeAssumption DEF Others, Actors
  <1>4. CallerOK(c)'
    BY <1>1, <1>3, IdleIsTyped
    DEF Control, CallerOK, PrepareOK, UnregisterOK, ReleaseOK, SweepOK, Past, Finishing, EntryOK,
        ModeOK, RunOK
  <1>5. \A d \in Callers \ {c} : CallerOK(d)'
    BY SMTT(30), <1>1, <1>3
    DEF Control, CallerOK, PrepareOK, UnregisterOK, ReleaseOK, SweepOK, Past, Finishing, EntryOK,
        ModeOK, RunOK, OneAtATime, Registering
  <1>6. RunOK'
    BY SMTT(30), <1>1, <1>3, IdleIsTyped
    DEF Control, RunOK, RecoverOK, ShutdownOK, CallerOK, PrepareOK, UnregisterOK, ReleaseOK,
        SweepOK, Past, Finishing, EntryOK, ModeOK
  <1>7. ModeOK' /\ EntryOK'
    BY SMTT(30), <1>1, <1>3, IdleIsTyped
    DEF Control, ModeOK, EntryOK, CallerOK, PrepareOK, UnregisterOK, ReleaseOK, SweepOK, Past,
        Finishing, RunOK
  <1>8. OneAtATime'
    BY SMTT(30), <1>1, <1>3, IdleIsTyped
    DEF Control, OneAtATime, Registering, CallerOK, PrepareOK, UnregisterOK, ReleaseOK, SweepOK,
        Past, Finishing, EntryOK
  <1>9. QED
    BY <1>2, <1>4, <1>5, <1>6, <1>7, <1>8 DEF Control

LEMMA PrepareLockControl ==
  ASSUME Control, NEW c \in Callers, PrepareLock(c)
  PROVE  Control'
  <1> USE DEF memory, durable, Making, Approach, Taking, Ended, Elsewhere, Retiring
  <1>1. /\ act' \in [Actors -> Acts] /\ Others(c)
        /\ act[c].job = "prepare" /\ act[c].pc = "lock" /\ mu = "free"
        /\ \/ act'[c] = Idle /\ mu' = mu
           \/ /\ act'[c].job = "prepare" /\ act'[c].pc = "create" /\ mu' = c
              /\ entry = "none" /\ phase = "intent"
           \/ /\ act'[c].job = "prepare" /\ act'[c].pc \in {"commit", "join", "failed"} /\ mu' = mu
              /\ act'[c].pc = "commit" => entry = "ready"
        /\ UNCHANGED <<disk, faults, run, entry, server, releaseErr, durable>>
    <2>1. /\ act[c].job = "prepare" /\ act[c].pc = "lock" /\ mu = "free"
          /\ UNCHANGED <<disk, faults, run, entry, server, releaseErr, durable>>
          /\ \/ Return(c) /\ mu' = mu
             \/ Goto(c, "create") /\ mu' = c /\ entry = "none" /\ phase = "intent"
             \/ \E p \in {"commit", "join", "failed"} :
                   Goto(c, p) /\ mu' = mu /\ (p = "commit" => entry = "ready")
      BY DEF PrepareLock, Doing
    <2>2. act \in [Actors -> Acts] /\ c \in Actors
      BY DEF Control, Typed, Actors
    <2>3. CASE Return(c) /\ mu' = mu
      BY <2>1, <2>2, <2>3, ReturnShape
    <2>4. CASE Goto(c, "create") /\ mu' = c /\ entry = "none" /\ phase = "intent"
      BY <2>1, <2>2, <2>4, GotoShape
    <2>5. CASE \E p \in {"commit", "join", "failed"} :
                  Goto(c, p) /\ mu' = mu /\ (p = "commit" => entry = "ready")
      <3>1. PICK p \in {"commit", "join", "failed"} :
                   Goto(c, p) /\ mu' = mu /\ (p = "commit" => entry = "ready")
        BY <2>5
      <3>2. p \in Making \cup Approach \cup Taking \cup Ended \cup Elsewhere
        OBVIOUS
      <3>3. act' \in [Actors -> Acts] /\ Others(c) /\ act'[c].pc = p /\ act'[c].job = act[c].job
        BY <2>2, <3>1, <3>2, GotoShape
      <3>4. QED
        BY <2>1, <3>1, <3>3
    <2>6. QED
      BY <2>1, <2>3, <2>4, <2>5
  <1>2. Typed'
    BY <1>1, FreeAssumption DEF Control, Typed, TypeOK, Actors, Phases, disk
  <1>3. /\ c \in Actors /\ Run \in Actors /\ c # Run /\ act'[Run] = act[Run]
        /\ c # "free" /\ Run # "free"
        /\ \A d \in Callers \ {c} : act'[d] = act[d] /\ d # "free"
    BY <1>1, RunAssumption, FreeAssumption DEF Others, Actors
  <1>4. CallerOK(c)'
    BY <1>1, <1>3, IdleIsTyped
    DEF Control, CallerOK, PrepareOK, UnregisterOK, ReleaseOK, SweepOK, Past, Finishing, EntryOK,
        ModeOK, RunOK
  <1>5. \A d \in Callers \ {c} : CallerOK(d)'
    BY SMTT(30), <1>1, <1>3
    DEF Control, CallerOK, PrepareOK, UnregisterOK, ReleaseOK, SweepOK, Past, Finishing, EntryOK,
        ModeOK, RunOK, OneAtATime, Registering
  <1>6. RunOK'
    BY SMTT(30), <1>1, <1>3, IdleIsTyped
    DEF Control, RunOK, RecoverOK, ShutdownOK, CallerOK, PrepareOK, UnregisterOK, ReleaseOK,
        SweepOK, Past, Finishing, EntryOK, ModeOK
  <1>7. ModeOK' /\ EntryOK'
    BY SMTT(30), <1>1, <1>3, IdleIsTyped
    DEF Control, ModeOK, EntryOK, CallerOK, PrepareOK, UnregisterOK, ReleaseOK, SweepOK, Past,
        Finishing, RunOK
  <1>8. OneAtATime'
    BY SMTT(30), <1>1, <1>3, IdleIsTyped
    DEF Control, OneAtATime, Registering, CallerOK, PrepareOK, UnregisterOK, ReleaseOK, SweepOK,
        Past, Finishing, EntryOK
  <1>9. QED
    BY <1>2, <1>4, <1>5, <1>6, <1>7, <1>8 DEF Control

LEMMA PrepareListeningControl ==
  ASSUME Control, NEW c \in Callers, PrepareListening(c)
  PROVE  Control'
  <1> USE DEF memory, durable, Making, Approach, Taking, Ended, Elsewhere, Retiring
  <1>1. /\ act' \in [Actors -> Acts] /\ Others(c)
        /\ act[c].job = "prepare" /\ act[c].pc = "done"
        /\ act'[c].job = "prepare" /\ act'[c].pc = "register"
        /\ entry' = "pending" /\ server' = "listening" /\ mu' = "free"
        /\ UNCHANGED <<disk, faults, run, releaseErr, durable>>
    BY ZenonT(60), Shapes, RunAssumption DEF PrepareListening, Doing, Control, Typed, TypeOK, Actors
  <1>2. Typed'
    BY <1>1, FreeAssumption DEF Control, Typed, TypeOK, Actors, Phases, disk
  <1>3. /\ c \in Actors /\ Run \in Actors /\ c # Run /\ act'[Run] = act[Run]
        /\ c # "free" /\ Run # "free"
        /\ \A d \in Callers \ {c} : act'[d] = act[d] /\ d # "free"
    BY <1>1, RunAssumption, FreeAssumption DEF Others, Actors
  <1>4. CallerOK(c)'
    BY <1>1, <1>3, IdleIsTyped
    DEF Control, CallerOK, PrepareOK, UnregisterOK, ReleaseOK, SweepOK, Past, Finishing, EntryOK,
        ModeOK, RunOK
  <1>5. \A d \in Callers \ {c} : CallerOK(d)'
    BY SMTT(30), <1>1, <1>3
    DEF Control, CallerOK, PrepareOK, UnregisterOK, ReleaseOK, SweepOK, Past, Finishing, EntryOK,
        ModeOK, RunOK, OneAtATime, Registering
  <1>6. RunOK'
    BY SMTT(30), <1>1, <1>3, IdleIsTyped
    DEF Control, RunOK, RecoverOK, ShutdownOK, CallerOK, PrepareOK, UnregisterOK, ReleaseOK,
        SweepOK, Past, Finishing, EntryOK, ModeOK
  <1>7. ModeOK' /\ EntryOK'
    BY SMTT(30), <1>1, <1>3, IdleIsTyped
    DEF Control, ModeOK, EntryOK, CallerOK, PrepareOK, UnregisterOK, ReleaseOK, SweepOK, Past,
        Finishing, RunOK
  <1>8. OneAtATime'
    BY SMTT(30), <1>1, <1>3, IdleIsTyped
    DEF Control, OneAtATime, Registering, CallerOK, PrepareOK, UnregisterOK, ReleaseOK, SweepOK,
        Past, Finishing, EntryOK
  <1>9. QED
    BY <1>2, <1>4, <1>5, <1>6, <1>7, <1>8 DEF Control

LEMMA RegisterControl ==
  ASSUME Control, NEW c \in Callers, Register(c)
  PROVE  Control'
  <1> USE DEF memory, durable, Making, Approach, Taking, Ended, Elsewhere, Retiring
  <1>1. /\ act' \in [Actors -> Acts] /\ Others(c)
        /\ act[c].job = "prepare" /\ act[c].pc = "register"
        /\ \/ /\ act'[c].job = "prepare" /\ act'[c].pc = "registered"
              /\ run = "running" /\ server' = "active"
           \/ /\ act'[c].job = "unregister" /\ act'[c].pc = "open" /\ server' = server
        /\ UNCHANGED <<disk, faults, run, mu, entry, releaseErr, durable>>
    BY ZenonT(60), Shapes, RunAssumption DEF Register, Doing, Control, Typed, TypeOK, Actors
  <1>2. Typed'
    BY <1>1, FreeAssumption DEF Control, Typed, TypeOK, Actors, Phases, disk
  <1>3. /\ c \in Actors /\ Run \in Actors /\ c # Run /\ act'[Run] = act[Run]
        /\ c # "free" /\ Run # "free"
        /\ \A d \in Callers \ {c} : act'[d] = act[d] /\ d # "free"
    BY <1>1, RunAssumption, FreeAssumption DEF Others, Actors
  <1>4. CallerOK(c)'
    BY <1>1, <1>3, IdleIsTyped
    DEF Control, CallerOK, PrepareOK, UnregisterOK, ReleaseOK, SweepOK, Past, Finishing, EntryOK,
        ModeOK, RunOK
  <1>5. \A d \in Callers \ {c} : CallerOK(d)'
    BY SMTT(30), <1>1, <1>3
    DEF Control, CallerOK, PrepareOK, UnregisterOK, ReleaseOK, SweepOK, Past, Finishing, EntryOK,
        ModeOK, RunOK, OneAtATime, Registering
  <1>6. RunOK'
    BY SMTT(30), <1>1, <1>3, IdleIsTyped
    DEF Control, RunOK, RecoverOK, ShutdownOK, CallerOK, PrepareOK, UnregisterOK, ReleaseOK,
        SweepOK, Past, Finishing, EntryOK, ModeOK
  <1>7. ModeOK' /\ EntryOK'
    BY SMTT(30), <1>1, <1>3, IdleIsTyped
    DEF Control, ModeOK, EntryOK, CallerOK, PrepareOK, UnregisterOK, ReleaseOK, SweepOK, Past,
        Finishing, RunOK
  <1>8. OneAtATime'
    BY SMTT(30), <1>1, <1>3, IdleIsTyped
    DEF Control, OneAtATime, Registering, CallerOK, PrepareOK, UnregisterOK, ReleaseOK, SweepOK,
        Past, Finishing, EntryOK
  <1>9. QED
    BY <1>2, <1>4, <1>5, <1>6, <1>7, <1>8 DEF Control

LEMMA RegisteredControl ==
  ASSUME Control, NEW c \in Callers, Registered(c)
  PROVE  Control'
  <1> USE DEF memory, durable, Making, Approach, Taking, Ended, Elsewhere, Retiring
  <1>1. /\ act' \in [Actors -> Acts] /\ Others(c)
        /\ act[c].job = "prepare" /\ act[c].pc = "registered"
        /\ \/ /\ act'[c].job = "prepare" /\ act'[c].pc = "commit" /\ entry' = "ready"
           \/ /\ act'[c].job = "unregister" /\ act'[c].pc = "open" /\ run = "stopped" /\ entry' = entry
        /\ UNCHANGED <<disk, faults, run, mu, server, releaseErr, durable>>
    BY ZenonT(60), Shapes, RunAssumption DEF Registered, Doing, Control, Typed, TypeOK, Actors
  <1>2. Typed'
    BY <1>1, FreeAssumption DEF Control, Typed, TypeOK, Actors, Phases, disk
  <1>3. /\ c \in Actors /\ Run \in Actors /\ c # Run /\ act'[Run] = act[Run]
        /\ c # "free" /\ Run # "free"
        /\ \A d \in Callers \ {c} : act'[d] = act[d] /\ d # "free"
    BY <1>1, RunAssumption, FreeAssumption DEF Others, Actors
  <1>4. CallerOK(c)'
    BY <1>1, <1>3, IdleIsTyped
    DEF Control, CallerOK, PrepareOK, UnregisterOK, ReleaseOK, SweepOK, Past, Finishing, EntryOK,
        ModeOK, RunOK
  <1>5. \A d \in Callers \ {c} : CallerOK(d)'
    BY SMTT(30), <1>1, <1>3
    DEF Control, CallerOK, PrepareOK, UnregisterOK, ReleaseOK, SweepOK, Past, Finishing, EntryOK,
        ModeOK, RunOK, OneAtATime, Registering
  <1>6. RunOK'
    BY SMTT(30), <1>1, <1>3, IdleIsTyped
    DEF Control, RunOK, RecoverOK, ShutdownOK, CallerOK, PrepareOK, UnregisterOK, ReleaseOK,
        SweepOK, Past, Finishing, EntryOK, ModeOK
  <1>7. ModeOK' /\ EntryOK'
    <2>1. /\ entry = "pending" /\ phase = "intent" /\ run \notin {"down", "recovering", "failed"}
          /\ server # "listening"
          /\ run = "running" => server = "active"
      BY <1>1, IdleIsTyped DEF Control, CallerOK, PrepareOK, EntryOK, ModeOK
    <2>2. ModeOK'
      BY <1>1, <1>3, <2>1 DEF Control, ModeOK
    <2>3. EntryOK'
      BY <1>1, <2>1 DEF Control, EntryOK
    <2>4. QED
      BY <2>2, <2>3
  <1>8. OneAtATime'
    BY SMTT(30), <1>1, <1>3, IdleIsTyped
    DEF Control, OneAtATime, Registering, CallerOK, PrepareOK, UnregisterOK, ReleaseOK, SweepOK,
        Past, Finishing, EntryOK
  <1>9. QED
    BY <1>2, <1>4, <1>5, <1>6, <1>7, <1>8 DEF Control

LEMMA PrepareJoinControl ==
  ASSUME Control, NEW c \in Callers, PrepareJoin(c)
  PROVE  Control'
  <1> USE DEF memory, durable, Making, Approach, Taking, Ended, Elsewhere, Retiring
  <1>1. /\ act' \in [Actors -> Acts] /\ Others(c)
        /\ act[c].job = "prepare" /\ act[c].pc = "join"
        /\ \/ act'[c] = Idle
           \/ act'[c].job = "prepare" /\ act'[c].pc = "commit" /\ entry = "ready"
        /\ UNCHANGED <<disk, faults, memory, durable>>
    BY ZenonT(60), Shapes, RunAssumption DEF PrepareJoin, Doing, Control, Typed, TypeOK, Actors
  <1>2. Typed'
    BY <1>1, FreeAssumption DEF Control, Typed, TypeOK, Actors, Phases, disk
  <1>3. /\ c \in Actors /\ Run \in Actors /\ c # Run /\ act'[Run] = act[Run]
        /\ c # "free" /\ Run # "free"
        /\ \A d \in Callers \ {c} : act'[d] = act[d] /\ d # "free"
    BY <1>1, RunAssumption, FreeAssumption DEF Others, Actors
  <1>4. CallerOK(c)'
    BY <1>1, <1>3, IdleIsTyped
    DEF Control, CallerOK, PrepareOK, UnregisterOK, ReleaseOK, SweepOK, Past, Finishing, EntryOK,
        ModeOK, RunOK
  <1>5. \A d \in Callers \ {c} : CallerOK(d)'
    BY SMTT(30), <1>1, <1>3
    DEF Control, CallerOK, PrepareOK, UnregisterOK, ReleaseOK, SweepOK, Past, Finishing, EntryOK,
        ModeOK, RunOK, OneAtATime, Registering
  <1>6. RunOK'
    BY SMTT(30), <1>1, <1>3, IdleIsTyped
    DEF Control, RunOK, RecoverOK, ShutdownOK, CallerOK, PrepareOK, UnregisterOK, ReleaseOK,
        SweepOK, Past, Finishing, EntryOK, ModeOK
  <1>7. ModeOK' /\ EntryOK'
    BY SMTT(30), <1>1, <1>3, IdleIsTyped
    DEF Control, ModeOK, EntryOK, CallerOK, PrepareOK, UnregisterOK, ReleaseOK, SweepOK, Past,
        Finishing, RunOK
  <1>8. OneAtATime'
    BY SMTT(30), <1>1, <1>3, IdleIsTyped
    DEF Control, OneAtATime, Registering, CallerOK, PrepareOK, UnregisterOK, ReleaseOK, SweepOK,
        Past, Finishing, EntryOK
  <1>9. QED
    BY <1>2, <1>4, <1>5, <1>6, <1>7, <1>8 DEF Control

LEMMA CommitPreparedTaskControl ==
  ASSUME Control, NEW c \in Callers, CommitPreparedTask(c)
  PROVE  Control'
  <1> USE DEF memory, durable, Making, Approach, Taking, Ended, Elsewhere, Retiring
  <1>1. /\ act' \in [Actors -> Acts] /\ Others(c)
        /\ act[c].job = "prepare" /\ act[c].pc = "commit" /\ act'[c] = Idle
        /\ phase' = IF phase = "intent" THEN "task" ELSE phase
        /\ UNCHANGED <<disk, faults, memory, legacy, refused>>
    BY ZenonT(60), Shapes, RunAssumption DEF CommitPreparedTask, Doing, Control, Typed, TypeOK, Actors
  <1>2. Typed'
    BY <1>1, FreeAssumption DEF Control, Typed, TypeOK, Actors, Phases, disk
  <1>3. /\ c \in Actors /\ Run \in Actors /\ c # Run /\ act'[Run] = act[Run]
        /\ c # "free" /\ Run # "free"
        /\ \A d \in Callers \ {c} : act'[d] = act[d] /\ d # "free"
    BY <1>1, RunAssumption, FreeAssumption DEF Others, Actors
  <1>4. CallerOK(c)'
    BY <1>1, <1>3, IdleIsTyped
    DEF Control, CallerOK, PrepareOK, UnregisterOK, ReleaseOK, SweepOK, Past, Finishing, EntryOK,
        ModeOK, RunOK
  <1>5. \A d \in Callers \ {c} : CallerOK(d)'
    BY SMTT(30), <1>1, <1>3
    DEF Control, CallerOK, PrepareOK, UnregisterOK, ReleaseOK, SweepOK, Past, Finishing, EntryOK,
        ModeOK, RunOK, OneAtATime, Registering
  <1>6. RunOK'
    BY SMTT(30), <1>1, <1>3, IdleIsTyped
    DEF Control, RunOK, RecoverOK, ShutdownOK, CallerOK, PrepareOK, UnregisterOK, ReleaseOK,
        SweepOK, Past, Finishing, EntryOK, ModeOK
  <1>7. ModeOK' /\ EntryOK'
    BY SMTT(30), <1>1, <1>3, IdleIsTyped
    DEF Control, ModeOK, EntryOK, CallerOK, PrepareOK, UnregisterOK, ReleaseOK, SweepOK, Past,
        Finishing, RunOK
  <1>8. OneAtATime'
    BY SMTT(30), <1>1, <1>3, IdleIsTyped
    DEF Control, OneAtATime, Registering, CallerOK, PrepareOK, UnregisterOK, ReleaseOK, SweepOK,
        Past, Finishing, EntryOK
  <1>9. QED
    BY <1>2, <1>4, <1>5, <1>6, <1>7, <1>8 DEF Control

LEMMA PrepareFailedControl ==
  ASSUME Control, NEW c \in Callers, PrepareFailed(c)
  PROVE  Control'
  <1> USE DEF memory, durable, Making, Approach, Taking, Ended, Elsewhere, Retiring
  <1>1. /\ act' \in [Actors -> Acts] /\ Others(c)
        /\ act[c].job = "prepare" /\ act[c].pc \in {"failed", "refuse"} /\ act'[c] = Idle
        /\ mu' = IF mu = c THEN "free" ELSE mu
        /\ UNCHANGED <<disk, faults, run, entry, server, releaseErr, durable>>
    BY ZenonT(60), Shapes, RunAssumption DEF PrepareFailed, Control, Typed, TypeOK, Actors
  <1>2. Typed'
    BY <1>1, FreeAssumption DEF Control, Typed, TypeOK, Actors, Phases, disk
  <1>3. /\ c \in Actors /\ Run \in Actors /\ c # Run /\ act'[Run] = act[Run]
        /\ c # "free" /\ Run # "free"
        /\ \A d \in Callers \ {c} : act'[d] = act[d] /\ d # "free"
    BY <1>1, RunAssumption, FreeAssumption DEF Others, Actors
  <1>4. CallerOK(c)'
    BY <1>1, <1>3, IdleIsTyped
    DEF Control, CallerOK, PrepareOK, UnregisterOK, ReleaseOK, SweepOK, Past, Finishing, EntryOK,
        ModeOK, RunOK
  <1>5. \A d \in Callers \ {c} : CallerOK(d)'
    BY SMTT(30), <1>1, <1>3
    DEF Control, CallerOK, PrepareOK, UnregisterOK, ReleaseOK, SweepOK, Past, Finishing, EntryOK,
        ModeOK, RunOK, OneAtATime, Registering
  <1>6. RunOK'
    BY SMTT(30), <1>1, <1>3, IdleIsTyped
    DEF Control, RunOK, RecoverOK, ShutdownOK, CallerOK, PrepareOK, UnregisterOK, ReleaseOK,
        SweepOK, Past, Finishing, EntryOK, ModeOK
  <1>7. ModeOK' /\ EntryOK'
    BY SMTT(30), <1>1, <1>3, IdleIsTyped
    DEF Control, ModeOK, EntryOK, CallerOK, PrepareOK, UnregisterOK, ReleaseOK, SweepOK, Past,
        Finishing, RunOK
  <1>8. OneAtATime'
    BY SMTT(30), <1>1, <1>3, IdleIsTyped
    DEF Control, OneAtATime, Registering, CallerOK, PrepareOK, UnregisterOK, ReleaseOK, SweepOK,
        Past, Finishing, EntryOK
  <1>9. QED
    BY <1>2, <1>4, <1>5, <1>6, <1>7, <1>8 DEF Control

LEMMA UnregisterCloseControl ==
  ASSUME Control, NEW c \in Callers, UnregisterClose(c)
  PROVE  Control'
  <1> USE DEF memory, durable, Making, Approach, Taking, Ended, Elsewhere, Retiring
  <1>1. /\ act' \in [Actors -> Acts] /\ Others(c)
        /\ act[c].job = "unregister" /\ act[c].pc = "isolated"
        /\ act'[c].job = "unregister" /\ act'[c].pc = "sockIsolate"
        /\ server' = IF server \in {"active", "releasing"} THEN "closed" ELSE "none"
        /\ UNCHANGED <<disk, faults, run, mu, entry, releaseErr, durable>>
    BY ZenonT(60), Shapes, RunAssumption
    DEF UnregisterClose, Doing, ServerStops, Control, Typed, TypeOK, Actors
  <1>2. Typed'
    BY <1>1, FreeAssumption DEF Control, Typed, TypeOK, Actors, Phases, disk
  <1>3. /\ c \in Actors /\ Run \in Actors /\ c # Run /\ act'[Run] = act[Run]
        /\ c # "free" /\ Run # "free"
        /\ \A d \in Callers \ {c} : act'[d] = act[d] /\ d # "free"
    BY <1>1, RunAssumption, FreeAssumption DEF Others, Actors
  <1>4. CallerOK(c)'
    BY <1>1, <1>3, IdleIsTyped
    DEF Control, CallerOK, PrepareOK, UnregisterOK, ReleaseOK, SweepOK, Past, Finishing, EntryOK,
        ModeOK, RunOK
  <1>5. \A d \in Callers \ {c} : CallerOK(d)'
    BY SMTT(30), <1>1, <1>3
    DEF Control, CallerOK, PrepareOK, UnregisterOK, ReleaseOK, SweepOK, Past, Finishing, EntryOK,
        ModeOK, RunOK, OneAtATime, Registering
  <1>6. RunOK'
    BY SMTT(30), <1>1, <1>3, IdleIsTyped
    DEF Control, RunOK, RecoverOK, ShutdownOK, CallerOK, PrepareOK, UnregisterOK, ReleaseOK,
        SweepOK, Past, Finishing, EntryOK, ModeOK
  <1>7. ModeOK' /\ EntryOK'
    BY SMTT(30), <1>1, <1>3, IdleIsTyped
    DEF Control, ModeOK, EntryOK, CallerOK, PrepareOK, UnregisterOK, ReleaseOK, SweepOK, Past,
        Finishing, RunOK
  <1>8. OneAtATime'
    BY SMTT(30), <1>1, <1>3, IdleIsTyped
    DEF Control, OneAtATime, Registering, CallerOK, PrepareOK, UnregisterOK, ReleaseOK, SweepOK,
        Past, Finishing, EntryOK
  <1>9. QED
    BY <1>2, <1>4, <1>5, <1>6, <1>7, <1>8 DEF Control

LEMMA UnregisterEndControl ==
  ASSUME Control, NEW c \in Callers, UnregisterEnd(c)
  PROVE  Control'
  <1> USE DEF memory, durable, Making, Approach, Taking, Ended, Elsewhere, Retiring
  <1>1. /\ act' \in [Actors -> Acts] /\ Others(c)
        /\ act[c].job = "unregister" /\ act[c].pc \in {"done", "refuse", "failed"}
        /\ act'[c] = Idle /\ entry' = "none"
        /\ sock' \in {"none", sock}
        /\ IF act[c].pc = "done" THEN server' = server
           ELSE server' = IF server \in {"active", "releasing"} THEN "closed" ELSE "none"
        /\ UNCHANGED <<anchor, record, loc, link, foreign, litter, faults, run, mu, releaseErr, durable>>
    BY ZenonT(60), Shapes, RunAssumption
    DEF UnregisterEnd, ServerStops, CloseSocket, Control, Typed, TypeOK, Actors
  <1>2. Typed'
    BY <1>1, FreeAssumption DEF Control, Typed, TypeOK, Actors, Phases, disk
  <1>3. /\ c \in Actors /\ Run \in Actors /\ c # Run /\ act'[Run] = act[Run]
        /\ c # "free" /\ Run # "free"
        /\ \A d \in Callers \ {c} : act'[d] = act[d] /\ d # "free"
    BY <1>1, RunAssumption, FreeAssumption DEF Others, Actors
  <1>4. CallerOK(c)'
    BY <1>1, <1>3, IdleIsTyped
    DEF Control, CallerOK, PrepareOK, UnregisterOK, ReleaseOK, SweepOK, Past, Finishing, EntryOK,
        ModeOK, RunOK
  <1>5. \A d \in Callers \ {c} : CallerOK(d)'
    BY SMTT(30), <1>1, <1>3
    DEF Control, CallerOK, PrepareOK, UnregisterOK, ReleaseOK, SweepOK, Past, Finishing, EntryOK,
        ModeOK, RunOK, OneAtATime, Registering
  <1>6. RunOK'
    BY SMTT(30), <1>1, <1>3, IdleIsTyped
    DEF Control, RunOK, RecoverOK, ShutdownOK, CallerOK, PrepareOK, UnregisterOK, ReleaseOK,
        SweepOK, Past, Finishing, EntryOK, ModeOK
  <1>7. ModeOK' /\ EntryOK'
    BY SMTT(30), <1>1, <1>3, IdleIsTyped
    DEF Control, ModeOK, EntryOK, CallerOK, PrepareOK, UnregisterOK, ReleaseOK, SweepOK, Past,
        Finishing, RunOK
  <1>8. OneAtATime'
    BY SMTT(30), <1>1, <1>3, IdleIsTyped
    DEF Control, OneAtATime, Registering, CallerOK, PrepareOK, UnregisterOK, ReleaseOK, SweepOK,
        Past, Finishing, EntryOK
  <1>9. QED
    BY <1>2, <1>4, <1>5, <1>6, <1>7, <1>8 DEF Control

LEMMA ReleaseCallControl ==
  ASSUME Control, NEW c \in Callers, ReleaseCall(c)
  PROVE  Control'
  <1> USE DEF memory, durable, Making, Approach, Taking, Ended, Elsewhere, Retiring
  <1>1. /\ act' \in [Actors -> Acts] /\ Others(c)
        /\ act[c] = Idle /\ run = "running" /\ phase \in {"absent", "released"}
        /\ act'[c].job = "release" /\ act'[c].pc = "lock"
        /\ UNCHANGED <<disk, faults, memory, durable>>
    BY ZenonT(60), Shapes, RunAssumption DEF ReleaseCall, Releasable, Control, Typed, TypeOK, Actors
  <1>2. Typed'
    BY <1>1, FreeAssumption DEF Control, Typed, TypeOK, Actors, Phases, disk
  <1>3. /\ c \in Actors /\ Run \in Actors /\ c # Run /\ act'[Run] = act[Run]
        /\ c # "free" /\ Run # "free"
        /\ \A d \in Callers \ {c} : act'[d] = act[d] /\ d # "free"
    BY <1>1, RunAssumption, FreeAssumption DEF Others, Actors
  <1>4. CallerOK(c)'
    BY <1>1, <1>3, IdleIsTyped
    DEF Control, CallerOK, PrepareOK, UnregisterOK, ReleaseOK, SweepOK, Past, Finishing, EntryOK,
        ModeOK, RunOK
  <1>5. \A d \in Callers \ {c} : CallerOK(d)'
    BY SMTT(30), <1>1, <1>3
    DEF Control, CallerOK, PrepareOK, UnregisterOK, ReleaseOK, SweepOK, Past, Finishing, EntryOK,
        ModeOK, RunOK, OneAtATime, Registering
  <1>6. RunOK'
    BY SMTT(30), <1>1, <1>3, IdleIsTyped
    DEF Control, RunOK, RecoverOK, ShutdownOK, CallerOK, PrepareOK, UnregisterOK, ReleaseOK,
        SweepOK, Past, Finishing, EntryOK, ModeOK
  <1>7. ModeOK' /\ EntryOK'
    BY SMTT(30), <1>1, <1>3, IdleIsTyped
    DEF Control, ModeOK, EntryOK, CallerOK, PrepareOK, UnregisterOK, ReleaseOK, SweepOK, Past,
        Finishing, RunOK
  <1>8. OneAtATime'
    BY SMTT(30), <1>1, <1>3, IdleIsTyped
    DEF Control, OneAtATime, Registering, CallerOK, PrepareOK, UnregisterOK, ReleaseOK, SweepOK,
        Past, Finishing, EntryOK
  <1>9. QED
    BY <1>2, <1>4, <1>5, <1>6, <1>7, <1>8 DEF Control

LEMMA ReleaseLockControl ==
  ASSUME Control, NEW c \in Callers, ReleaseLock(c)
  PROVE  Control'
  <1> USE DEF memory, durable, Making, Approach, Taking, Ended, Elsewhere, Retiring
  <1>1. /\ act' \in [Actors -> Acts] /\ Others(c)
        /\ act[c].job = "release" /\ act[c].pc = "lock" /\ mu = "free"
        /\ \/ act'[c] = Idle /\ mu' = mu
           \/ act'[c].job = "sweep" /\ act'[c].pc = "open" /\ mu' = mu /\ entry = "none"
           \/ act'[c].job = "release" /\ act'[c].pc = "join" /\ mu' = mu /\ entry = "releasing"
           \/ /\ act'[c].job = "release" /\ act'[c].pc = "open" /\ mu' = c
              /\ entry \in {"pending", "ready", "recovered"}
        /\ UNCHANGED <<disk, faults, run, entry, server, releaseErr, durable>>
    <2>1. /\ act[c].job = "release" /\ act[c].pc = "lock" /\ mu = "free"
          /\ UNCHANGED <<disk, faults, run, entry, server, releaseErr, durable>>
          /\ \/ Return(c) /\ mu' = mu
             \/ Start(c, "sweep", "open") /\ mu' = mu /\ entry = "none"
             \/ Goto(c, "join") /\ mu' = mu /\ entry = "releasing"
             \/ Goto(c, "open") /\ mu' = c /\ entry \in {"pending", "ready", "recovered"}
      BY DEF ReleaseLock, Doing, Control, Typed, TypeOK
    <2>2. QED
      BY ZenonT(60), <2>1, Shapes DEF Control, Typed, Actors
  <1>2. Typed'
    BY <1>1, FreeAssumption DEF Control, Typed, TypeOK, Actors, Phases, disk
  <1>3. /\ c \in Actors /\ Run \in Actors /\ c # Run /\ act'[Run] = act[Run]
        /\ c # "free" /\ Run # "free"
        /\ \A d \in Callers \ {c} : act'[d] = act[d] /\ d # "free"
    BY <1>1, RunAssumption, FreeAssumption DEF Others, Actors
  <1>4. CallerOK(c)'
    BY <1>1, <1>3, IdleIsTyped
    DEF Control, CallerOK, PrepareOK, UnregisterOK, ReleaseOK, SweepOK, Past, Finishing, EntryOK,
        ModeOK, RunOK
  <1>5. \A d \in Callers \ {c} : CallerOK(d)'
    BY SMTT(30), <1>1, <1>3
    DEF Control, CallerOK, PrepareOK, UnregisterOK, ReleaseOK, SweepOK, Past, Finishing, EntryOK,
        ModeOK, RunOK, OneAtATime, Registering
  <1>6. RunOK'
    BY SMTT(30), <1>1, <1>3, IdleIsTyped
    DEF Control, RunOK, RecoverOK, ShutdownOK, CallerOK, PrepareOK, UnregisterOK, ReleaseOK,
        SweepOK, Past, Finishing, EntryOK, ModeOK
  <1>7. ModeOK' /\ EntryOK'
    BY SMTT(30), <1>1, <1>3, IdleIsTyped
    DEF Control, ModeOK, EntryOK, CallerOK, PrepareOK, UnregisterOK, ReleaseOK, SweepOK, Past,
        Finishing, RunOK
  <1>8. OneAtATime'
    BY SMTT(30), <1>1, <1>3, IdleIsTyped
    DEF Control, OneAtATime, Registering, CallerOK, PrepareOK, UnregisterOK, ReleaseOK, SweepOK,
        Past, Finishing, EntryOK
  <1>9. QED
    BY <1>2, <1>4, <1>5, <1>6, <1>7, <1>8 DEF Control

LEMMA ReleaseJoinControl ==
  ASSUME Control, NEW c \in Callers, ReleaseJoin(c)
  PROVE  Control'
  <1> USE DEF memory, durable, Making, Approach, Taking, Ended, Elsewhere, Retiring
  <1>1. /\ act' \in [Actors -> Acts] /\ Others(c)
        /\ act[c].job = "release" /\ act[c].pc = "join"
        /\ \/ act'[c] = Idle
           \/ /\ act'[c].job = "release" /\ act'[c].pc = "authorize"
              /\ entry # "releasing" /\ ~releaseErr
        /\ UNCHANGED <<disk, faults, memory, durable>>
    BY ZenonT(60), Shapes, RunAssumption DEF ReleaseJoin, Doing, Control, Typed, TypeOK, Actors
  <1>2. Typed'
    BY <1>1, FreeAssumption DEF Control, Typed, TypeOK, Actors, Phases, disk
  <1>3. /\ c \in Actors /\ Run \in Actors /\ c # Run /\ act'[Run] = act[Run]
        /\ c # "free" /\ Run # "free"
        /\ \A d \in Callers \ {c} : act'[d] = act[d] /\ d # "free"
    BY <1>1, RunAssumption, FreeAssumption DEF Others, Actors
  <1>4. CallerOK(c)'
    BY <1>1, <1>3, IdleIsTyped
    DEF Control, CallerOK, PrepareOK, UnregisterOK, ReleaseOK, SweepOK, Past, Finishing, EntryOK,
        ModeOK, RunOK
  <1>5. \A d \in Callers \ {c} : CallerOK(d)'
    BY SMTT(30), <1>1, <1>3
    DEF Control, CallerOK, PrepareOK, UnregisterOK, ReleaseOK, SweepOK, Past, Finishing, EntryOK,
        ModeOK, RunOK, OneAtATime, Registering
  <1>6. RunOK'
    BY SMTT(30), <1>1, <1>3, IdleIsTyped
    DEF Control, RunOK, RecoverOK, ShutdownOK, CallerOK, PrepareOK, UnregisterOK, ReleaseOK,
        SweepOK, Past, Finishing, EntryOK, ModeOK
  <1>7. ModeOK' /\ EntryOK'
    BY SMTT(30), <1>1, <1>3, IdleIsTyped
    DEF Control, ModeOK, EntryOK, CallerOK, PrepareOK, UnregisterOK, ReleaseOK, SweepOK, Past,
        Finishing, RunOK
  <1>8. OneAtATime'
    BY SMTT(30), <1>1, <1>3, IdleIsTyped
    DEF Control, OneAtATime, Registering, CallerOK, PrepareOK, UnregisterOK, ReleaseOK, SweepOK,
        Past, Finishing, EntryOK
  <1>9. QED
    BY <1>2, <1>4, <1>5, <1>6, <1>7, <1>8 DEF Control

LEMMA ReleasePinnedControl ==
  ASSUME Control, NEW c \in Callers, ReleasePinned(c)
  PROVE  Control'
  <1> USE DEF memory, durable, Making, Approach, Taking, Ended, Elsewhere, Retiring
  <1>1. /\ act' \in [Actors -> Acts] /\ Others(c)
        /\ act[c].job = "release" /\ mu = c /\ act[c].pc \in {"isolated", "refuse", "failed"}
        /\ entry' = "releasing" /\ mu' = "free"
        /\ act'[c].job = "release"
        /\ act'[c].pc = IF act[c].pc = "isolated" THEN "send" ELSE "unproven"
        /\ UNCHANGED <<disk, faults, run, server, releaseErr, durable>>
    <2>1. PICK p : p = IF act[c].pc = "isolated" THEN "send" ELSE "unproven"
      OBVIOUS
    <2>2. Goto(c, p) /\ p \in {"send", "unproven"}
      BY <2>1 DEF ReleasePinned
    <2>3. /\ act' \in [Actors -> Acts] /\ Others(c) /\ act'[c].pc = p /\ act'[c].job = act[c].job
      BY <2>2, GotoShape DEF Control, Typed, Actors
    <2>4. QED
      BY <2>1, <2>3 DEF ReleasePinned, Control, Typed, Actors
  <1>2. Typed'
    BY <1>1, FreeAssumption DEF Control, Typed, TypeOK, Actors, Phases, disk
  <1>3. /\ c \in Actors /\ Run \in Actors /\ c # Run /\ act'[Run] = act[Run]
        /\ c # "free" /\ Run # "free"
        /\ \A d \in Callers \ {c} : act'[d] = act[d] /\ d # "free"
    BY <1>1, RunAssumption, FreeAssumption DEF Others, Actors
  <1>4. CallerOK(c)'
    BY <1>1, <1>3, IdleIsTyped
    DEF Control, CallerOK, PrepareOK, UnregisterOK, ReleaseOK, SweepOK, Past, Finishing, EntryOK,
        ModeOK, RunOK
  <1>5. \A d \in Callers \ {c} : CallerOK(d)'
    BY SMTT(30), <1>1, <1>3
    DEF Control, CallerOK, PrepareOK, UnregisterOK, ReleaseOK, SweepOK, Past, Finishing, EntryOK,
        ModeOK, RunOK, OneAtATime, Registering
  <1>6. RunOK'
    BY SMTT(30), <1>1, <1>3, IdleIsTyped
    DEF Control, RunOK, RecoverOK, ShutdownOK, CallerOK, PrepareOK, UnregisterOK, ReleaseOK,
        SweepOK, Past, Finishing, EntryOK, ModeOK
  <1>7. ModeOK' /\ EntryOK'
    BY SMTT(30), <1>1, <1>3, IdleIsTyped
    DEF Control, ModeOK, EntryOK, CallerOK, PrepareOK, UnregisterOK, ReleaseOK, SweepOK, Past,
        Finishing, RunOK
  <1>8. OneAtATime'
    BY SMTT(30), <1>1, <1>3, IdleIsTyped
    DEF Control, OneAtATime, Registering, CallerOK, PrepareOK, UnregisterOK, ReleaseOK, SweepOK,
        Past, Finishing, EntryOK
  <1>9. QED
    BY <1>2, <1>4, <1>5, <1>6, <1>7, <1>8 DEF Control

LEMMA ReleaseSendControl ==
  ASSUME Control, NEW c \in Callers, ReleaseSend(c)
  PROVE  Control'
  <1> USE DEF memory, durable, Making, Approach, Taking, Ended, Elsewhere, Retiring
  <1>1. /\ act' \in [Actors -> Acts] /\ Others(c)
        /\ act[c].job = "release" /\ act[c].pc = "send"
        /\ \/ /\ run = "running" /\ server' = "releasing" /\ entry' = entry /\ releaseErr' = releaseErr
              /\ act'[c].job = "release" /\ act'[c].pc = "close"
           \/ /\ run = "stopped" /\ entry' = "none" /\ releaseErr' = TRUE /\ act'[c] = Idle
              /\ server' = IF server \in {"active", "releasing"} THEN "closed" ELSE "none"
        /\ sock' \in {"none", sock}
        /\ UNCHANGED <<anchor, record, loc, link, foreign, litter, faults, run, mu, durable>>
    BY ZenonT(60), Shapes, RunAssumption
    DEF ReleaseSend, Doing, ServerStops, CloseSocket, Control, Typed, TypeOK, Actors
  <1>2. Typed'
    <2>1. server' \in {"none", "listening", "active", "releasing", "closed"} /\ releaseErr' \in BOOLEAN
      BY <1>1 DEF Control, Typed, TypeOK
    <2>2. entry' \in {"none", "pending", "ready", "recovered", "releasing"}
      BY <1>1 DEF Control, Typed, TypeOK
    <2>3. sock' \in {"none", "unsafe", "held", "isolated", "foreign", "seized"}
      BY <1>1 DEF Control, Typed, TypeOK
    <2>4. QED
      BY <1>1, <2>1, <2>2, <2>3 DEF Control, Typed, TypeOK
  <1>3. /\ c \in Actors /\ Run \in Actors /\ c # Run /\ act'[Run] = act[Run]
        /\ c # "free" /\ Run # "free"
        /\ \A d \in Callers \ {c} : act'[d] = act[d] /\ d # "free"
    BY <1>1, RunAssumption, FreeAssumption DEF Others, Actors
  <1>4. CallerOK(c)'
    BY <1>1, <1>3, IdleIsTyped
    DEF Control, CallerOK, PrepareOK, UnregisterOK, ReleaseOK, SweepOK, Past, Finishing, EntryOK,
        ModeOK, RunOK
  <1>5. \A d \in Callers \ {c} : CallerOK(d)'
    BY SMTT(30), <1>1, <1>3
    DEF Control, CallerOK, PrepareOK, UnregisterOK, ReleaseOK, SweepOK, Past, Finishing, EntryOK,
        ModeOK, RunOK, OneAtATime, Registering
  <1>6. RunOK'
    BY SMTT(30), <1>1, <1>3, IdleIsTyped
    DEF Control, RunOK, RecoverOK, ShutdownOK, CallerOK, PrepareOK, UnregisterOK, ReleaseOK,
        SweepOK, Past, Finishing, EntryOK, ModeOK
  <1>7. ModeOK' /\ EntryOK'
    BY SMTT(30), <1>1, <1>3, IdleIsTyped
    DEF Control, ModeOK, EntryOK, CallerOK, PrepareOK, UnregisterOK, ReleaseOK, SweepOK, Past,
        Finishing, RunOK
  <1>8. OneAtATime'
    BY SMTT(30), <1>1, <1>3, IdleIsTyped
    DEF Control, OneAtATime, Registering, CallerOK, PrepareOK, UnregisterOK, ReleaseOK, SweepOK,
        Past, Finishing, EntryOK
  <1>9. QED
    BY <1>2, <1>4, <1>5, <1>6, <1>7, <1>8 DEF Control

LEMMA ReleaseCloseControl ==
  ASSUME Control, NEW c \in Callers, ReleaseClose(c)
  PROVE  Control'
  <1> USE DEF memory, durable, Making, Approach, Taking, Ended, Elsewhere, Retiring
  <1>1. /\ act' \in [Actors -> Acts] /\ Others(c)
        /\ act[c].job = "release" /\ act[c].pc = "close"
        /\ act'[c].job = "release" /\ act'[c].pc = "sockIsolate"
        /\ server' = IF server \in {"active", "releasing"} THEN "closed" ELSE "none"
        /\ UNCHANGED <<disk, faults, run, mu, entry, releaseErr, durable>>
    BY ZenonT(60), Shapes, RunAssumption DEF ReleaseClose, Doing, ServerStops, Control, Typed, TypeOK, Actors
  <1>2. Typed'
    BY <1>1, FreeAssumption DEF Control, Typed, TypeOK, Actors, Phases, disk
  <1>3. /\ c \in Actors /\ Run \in Actors /\ c # Run /\ act'[Run] = act[Run]
        /\ c # "free" /\ Run # "free"
        /\ \A d \in Callers \ {c} : act'[d] = act[d] /\ d # "free"
    BY <1>1, RunAssumption, FreeAssumption DEF Others, Actors
  <1>4. CallerOK(c)'
    BY <1>1, <1>3, IdleIsTyped
    DEF Control, CallerOK, PrepareOK, UnregisterOK, ReleaseOK, SweepOK, Past, Finishing, EntryOK,
        ModeOK, RunOK
  <1>5. \A d \in Callers \ {c} : CallerOK(d)'
    BY SMTT(30), <1>1, <1>3
    DEF Control, CallerOK, PrepareOK, UnregisterOK, ReleaseOK, SweepOK, Past, Finishing, EntryOK,
        ModeOK, RunOK, OneAtATime, Registering
  <1>6. RunOK'
    BY SMTT(30), <1>1, <1>3, IdleIsTyped
    DEF Control, RunOK, RecoverOK, ShutdownOK, CallerOK, PrepareOK, UnregisterOK, ReleaseOK,
        SweepOK, Past, Finishing, EntryOK, ModeOK
  <1>7. ModeOK' /\ EntryOK'
    BY SMTT(30), <1>1, <1>3, IdleIsTyped
    DEF Control, ModeOK, EntryOK, CallerOK, PrepareOK, UnregisterOK, ReleaseOK, SweepOK, Past,
        Finishing, RunOK
  <1>8. OneAtATime'
    BY SMTT(30), <1>1, <1>3, IdleIsTyped
    DEF Control, OneAtATime, Registering, CallerOK, PrepareOK, UnregisterOK, ReleaseOK, SweepOK,
        Past, Finishing, EntryOK
  <1>9. QED
    BY <1>2, <1>4, <1>5, <1>6, <1>7, <1>8 DEF Control

LEMMA ReleaseUnprovenControl ==
  ASSUME Control, NEW c \in Callers, ReleaseUnproven(c)
  PROVE  Control'
  <1> USE DEF memory, durable, Making, Approach, Taking, Ended, Elsewhere, Retiring
  <1>1. /\ act' \in [Actors -> Acts] /\ Others(c)
        /\ act[c].job = "release" /\ act[c].pc = "unproven"
        /\ run \in {"running", "stopped"} /\ act'[c] = Idle
        /\ sock' \in {"none", sock}
        /\ server' = IF server \in {"active", "releasing"} THEN "closed" ELSE "none"
        /\ refused' = TRUE /\ entry' = "none" /\ releaseErr' = TRUE
        /\ UNCHANGED <<anchor, record, loc, link, foreign, litter, faults, run, mu, phase, legacy>>
    BY ZenonT(60), Shapes, RunAssumption
    DEF ReleaseUnproven, Doing, ServerStops, CloseSocket, Control, Typed, TypeOK, Actors
  <1>2. Typed'
    BY <1>1, FreeAssumption DEF Control, Typed, TypeOK, Actors, Phases, disk
  <1>3. /\ c \in Actors /\ Run \in Actors /\ c # Run /\ act'[Run] = act[Run]
        /\ c # "free" /\ Run # "free"
        /\ \A d \in Callers \ {c} : act'[d] = act[d] /\ d # "free"
    BY <1>1, RunAssumption, FreeAssumption DEF Others, Actors
  <1>4. CallerOK(c)'
    BY <1>1, <1>3, IdleIsTyped
    DEF Control, CallerOK, PrepareOK, UnregisterOK, ReleaseOK, SweepOK, Past, Finishing, EntryOK,
        ModeOK, RunOK
  <1>5. \A d \in Callers \ {c} : CallerOK(d)'
    BY SMTT(30), <1>1, <1>3
    DEF Control, CallerOK, PrepareOK, UnregisterOK, ReleaseOK, SweepOK, Past, Finishing, EntryOK,
        ModeOK, RunOK, OneAtATime, Registering
  <1>6. RunOK'
    BY SMTT(30), <1>1, <1>3, IdleIsTyped
    DEF Control, RunOK, RecoverOK, ShutdownOK, CallerOK, PrepareOK, UnregisterOK, ReleaseOK,
        SweepOK, Past, Finishing, EntryOK, ModeOK
  <1>7. ModeOK' /\ EntryOK'
    BY SMTT(30), <1>1, <1>3, IdleIsTyped
    DEF Control, ModeOK, EntryOK, CallerOK, PrepareOK, UnregisterOK, ReleaseOK, SweepOK, Past,
        Finishing, RunOK
  <1>8. OneAtATime'
    BY SMTT(30), <1>1, <1>3, IdleIsTyped
    DEF Control, OneAtATime, Registering, CallerOK, PrepareOK, UnregisterOK, ReleaseOK, SweepOK,
        Past, Finishing, EntryOK
  <1>9. QED
    BY <1>2, <1>4, <1>5, <1>6, <1>7, <1>8 DEF Control

LEMMA ReleaseEndControl ==
  ASSUME Control, NEW c \in Callers, ReleaseEnd(c)
  PROVE  Control'
  <1> USE DEF memory, durable, Making, Approach, Taking, Ended, Elsewhere, Retiring
  <1>1. /\ act' \in [Actors -> Acts] /\ Others(c)
        /\ act[c].job = "release" /\ mu # c /\ act[c].pc \in {"done", "refuse", "failed"}
        /\ entry' = "none" /\ releaseErr' = (act[c].pc # "done")
        /\ IF act[c].pc = "done" THEN act'[c].job = "release" /\ act'[c].pc = "authorize"
           ELSE act'[c] = Idle
        /\ UNCHANGED <<disk, faults, run, mu, server, durable>>
    BY ZenonT(60), Shapes, RunAssumption DEF ReleaseEnd, Control, Typed, TypeOK, Actors
  <1>2. Typed'
    BY <1>1, FreeAssumption DEF Control, Typed, TypeOK, Actors, Phases, disk
  <1>3. /\ c \in Actors /\ Run \in Actors /\ c # Run /\ act'[Run] = act[Run]
        /\ c # "free" /\ Run # "free"
        /\ \A d \in Callers \ {c} : act'[d] = act[d] /\ d # "free"
    BY <1>1, RunAssumption, FreeAssumption DEF Others, Actors
  <1>4. CallerOK(c)'
    BY <1>1, <1>3, IdleIsTyped
    DEF Control, CallerOK, PrepareOK, UnregisterOK, ReleaseOK, SweepOK, Past, Finishing, EntryOK,
        ModeOK, RunOK
  <1>5. \A d \in Callers \ {c} : CallerOK(d)'
    BY SMTT(30), <1>1, <1>3
    DEF Control, CallerOK, PrepareOK, UnregisterOK, ReleaseOK, SweepOK, Past, Finishing, EntryOK,
        ModeOK, RunOK, OneAtATime, Registering
  <1>6. RunOK'
    BY SMTT(30), <1>1, <1>3, IdleIsTyped
    DEF Control, RunOK, RecoverOK, ShutdownOK, CallerOK, PrepareOK, UnregisterOK, ReleaseOK,
        SweepOK, Past, Finishing, EntryOK, ModeOK
  <1>7. ModeOK' /\ EntryOK'
    BY SMTT(30), <1>1, <1>3, IdleIsTyped
    DEF Control, ModeOK, EntryOK, CallerOK, PrepareOK, UnregisterOK, ReleaseOK, SweepOK, Past,
        Finishing, RunOK
  <1>8. OneAtATime'
    BY SMTT(30), <1>1, <1>3, IdleIsTyped
    DEF Control, OneAtATime, Registering, CallerOK, PrepareOK, UnregisterOK, ReleaseOK, SweepOK,
        Past, Finishing, EntryOK
  <1>9. QED
    BY <1>2, <1>4, <1>5, <1>6, <1>7, <1>8 DEF Control

LEMMA SweepEndControl ==
  ASSUME Control, NEW c \in Callers, SweepEnd(c)
  PROVE  Control'
  <1> USE DEF memory, durable, Making, Approach, Taking, Ended, Elsewhere, Retiring
  <1>1. /\ act' \in [Actors -> Acts] /\ Others(c)
        /\ act[c].job = "sweep" /\ act[c].pc \in {"done", "refuse", "failed"}
        /\ refused' = (refused \/ act[c].pc = "refuse")
        /\ IF act[c].pc = "done" THEN act'[c].job = "release" /\ act'[c].pc = "authorize"
           ELSE act'[c] = Idle
        /\ UNCHANGED <<disk, faults, memory, phase, legacy>>
    BY ZenonT(60), Shapes, RunAssumption DEF SweepEnd, Control, Typed, TypeOK, Actors
  <1>2. Typed'
    BY <1>1, FreeAssumption DEF Control, Typed, TypeOK, Actors, Phases, disk
  <1>3. /\ c \in Actors /\ Run \in Actors /\ c # Run /\ act'[Run] = act[Run]
        /\ c # "free" /\ Run # "free"
        /\ \A d \in Callers \ {c} : act'[d] = act[d] /\ d # "free"
    BY <1>1, RunAssumption, FreeAssumption DEF Others, Actors
  <1>4. CallerOK(c)'
    BY <1>1, <1>3, IdleIsTyped
    DEF Control, CallerOK, PrepareOK, UnregisterOK, ReleaseOK, SweepOK, Past, Finishing, EntryOK,
        ModeOK, RunOK
  <1>5. \A d \in Callers \ {c} : CallerOK(d)'
    BY SMTT(30), <1>1, <1>3
    DEF Control, CallerOK, PrepareOK, UnregisterOK, ReleaseOK, SweepOK, Past, Finishing, EntryOK,
        ModeOK, RunOK, OneAtATime, Registering
  <1>6. RunOK'
    BY SMTT(30), <1>1, <1>3, IdleIsTyped
    DEF Control, RunOK, RecoverOK, ShutdownOK, CallerOK, PrepareOK, UnregisterOK, ReleaseOK,
        SweepOK, Past, Finishing, EntryOK, ModeOK
  <1>7. ModeOK' /\ EntryOK'
    BY SMTT(30), <1>1, <1>3, IdleIsTyped
    DEF Control, ModeOK, EntryOK, CallerOK, PrepareOK, UnregisterOK, ReleaseOK, SweepOK, Past,
        Finishing, RunOK
  <1>8. OneAtATime'
    BY SMTT(30), <1>1, <1>3, IdleIsTyped
    DEF Control, OneAtATime, Registering, CallerOK, PrepareOK, UnregisterOK, ReleaseOK, SweepOK,
        Past, Finishing, EntryOK
  <1>9. QED
    BY <1>2, <1>4, <1>5, <1>6, <1>7, <1>8 DEF Control

LEMMA AuthorizeRemovalControl ==
  ASSUME Control, NEW c \in Callers, AuthorizeRemoval(c)
  PROVE  Control'
  <1> USE DEF memory, durable, Making, Approach, Taking, Ended, Elsewhere, Retiring
  <1>1. /\ act' \in [Actors -> Acts] /\ Others(c)
        /\ act[c].job = "release" /\ act[c].pc = "authorize" /\ act'[c] = Idle
        /\ phase' = IF phase \in {"absent", "released"} /\ ~refused THEN "removal" ELSE phase
        /\ UNCHANGED <<disk, faults, memory, legacy, refused>>
    BY ZenonT(60), Shapes, RunAssumption
    DEF AuthorizeRemoval, Doing, Releasable, Control, Typed, TypeOK, Actors
  <1>2. Typed'
    BY <1>1, FreeAssumption DEF Control, Typed, TypeOK, Actors, Phases, disk
  <1>3. /\ c \in Actors /\ Run \in Actors /\ c # Run /\ act'[Run] = act[Run]
        /\ c # "free" /\ Run # "free"
        /\ \A d \in Callers \ {c} : act'[d] = act[d] /\ d # "free"
    BY <1>1, RunAssumption, FreeAssumption DEF Others, Actors
  <1>4. CallerOK(c)'
    BY <1>1, <1>3, IdleIsTyped
    DEF Control, CallerOK, PrepareOK, UnregisterOK, ReleaseOK, SweepOK, Past, Finishing, EntryOK,
        ModeOK, RunOK
  <1>5. \A d \in Callers \ {c} : CallerOK(d)'
    BY SMTT(30), <1>1, <1>3
    DEF Control, CallerOK, PrepareOK, UnregisterOK, ReleaseOK, SweepOK, Past, Finishing, EntryOK,
        ModeOK, RunOK, OneAtATime, Registering
  <1>6. RunOK'
    BY SMTT(30), <1>1, <1>3, IdleIsTyped
    DEF Control, RunOK, RecoverOK, ShutdownOK, CallerOK, PrepareOK, UnregisterOK, ReleaseOK,
        SweepOK, Past, Finishing, EntryOK, ModeOK
  <1>7. ModeOK' /\ EntryOK'
    BY SMTT(30), <1>1, <1>3, IdleIsTyped
    DEF Control, ModeOK, EntryOK, CallerOK, PrepareOK, UnregisterOK, ReleaseOK, SweepOK, Past,
        Finishing, RunOK
  <1>8. OneAtATime'
    BY SMTT(30), <1>1, <1>3, IdleIsTyped
    DEF Control, OneAtATime, Registering, CallerOK, PrepareOK, UnregisterOK, ReleaseOK, SweepOK,
        Past, Finishing, EntryOK
  <1>9. QED
    BY <1>2, <1>4, <1>5, <1>6, <1>7, <1>8 DEF Control

LEMMA BootControl ==
  ASSUME Control, Boot
  PROVE  Control'
  <1> USE DEF memory, durable, Making, Approach, Taking, Ended, Elsewhere, Retiring
  <1>1. /\ act' \in [Actors -> Acts] /\ Others(Run)
        /\ act'[Run] = act[Run] /\ run = "down" /\ run' = "recovering" /\ mu' = Run
        /\ UNCHANGED <<disk, faults, entry, server, releaseErr, durable>>
    BY ZenonT(60), Shapes, RunAssumption DEF Boot, Others, Control, Typed, TypeOK, Actors
  <1>2. Typed'
    BY <1>1, FreeAssumption DEF Control, Typed, TypeOK, Actors, Phases, disk
  <1>3. /\ Run \in Actors /\ Run # "free"
        /\ \A d \in Callers : act'[d] = act[d] /\ d # "free" /\ d # Run
    BY <1>1, RunAssumption, FreeAssumption DEF Others, Actors
  <1>4. \A d \in Callers : CallerOK(d)'
    BY <1>1, <1>3
    DEF Control, CallerOK, PrepareOK, UnregisterOK, ReleaseOK, SweepOK, Past, Finishing, EntryOK,
        ModeOK, RunOK, ShutdownOK, OneAtATime, Registering
  <1>5. RunOK'
    BY SMTT(30), <1>1, <1>3, IdleIsTyped
    DEF Control, RunOK, RecoverOK, ShutdownOK, CallerOK, PrepareOK, UnregisterOK, ReleaseOK,
        SweepOK, Past, Finishing, EntryOK, ModeOK
  <1>6. ModeOK' /\ EntryOK'
    BY SMTT(30), <1>1, <1>3, IdleIsTyped
    DEF Control, ModeOK, EntryOK, CallerOK, PrepareOK, UnregisterOK, ReleaseOK, SweepOK, Past,
        Finishing, RunOK, RecoverOK, ShutdownOK
  <1>7. OneAtATime'
    BY SMTT(30), <1>1, <1>3
    DEF Control, OneAtATime, Registering, CallerOK, PrepareOK, UnregisterOK, ReleaseOK, SweepOK,
        Past, Finishing, EntryOK
  <1>8. QED
    BY <1>2, <1>4, <1>5, <1>6, <1>7 DEF Control

LEMMA UpgradeRelayIdentityControl ==
  ASSUME Control, UpgradeRelayIdentity
  PROVE  Control'
  <1> USE DEF memory, durable, Making, Approach, Taking, Ended, Elsewhere, Retiring
  <1>1. /\ act' \in [Actors -> Acts] /\ Others(Run)
        /\ act'[Run] = act[Run] /\ run = "recovering" /\ legacy /\ legacy' = FALSE
        /\ record' \in Stages /\ refused' \in BOOLEAN
        /\ UNCHANGED <<loc, link, anchor, sock, foreign, faults, memory, phase>>
    BY ZenonT(60), Shapes, RunAssumption
    DEF UpgradeRelayIdentity, CompleteRelayUpgrade, RefuseRelayUpgrade, Others, Stages, Control,
        Typed, TypeOK, Actors
  <1>2. Typed'
    <2>1. /\ record' \in Stages /\ refused' \in BOOLEAN /\ legacy' \in BOOLEAN
          /\ UNCHANGED <<loc, link, anchor, sock, foreign, faults, run, mu, entry, server, releaseErr, phase>>
      BY <1>1
    <2>2. QED
      BY <1>1, <2>1 DEF Control, Typed, TypeOK
  <1>3. /\ Run \in Actors /\ Run # "free"
        /\ \A d \in Callers : act'[d] = act[d] /\ d # "free" /\ d # Run
    BY <1>1, RunAssumption, FreeAssumption DEF Others, Actors
  <1>4. \A d \in Callers : CallerOK(d)'
    BY <1>1, <1>3
    DEF Control, CallerOK, PrepareOK, UnregisterOK, ReleaseOK, SweepOK, Past, Finishing, EntryOK,
        ModeOK, RunOK, ShutdownOK, OneAtATime, Registering
  <1>5. RunOK'
    BY SMTT(30), <1>1, <1>3, IdleIsTyped
    DEF Control, RunOK, RecoverOK, ShutdownOK, CallerOK, PrepareOK, UnregisterOK, ReleaseOK,
        SweepOK, Past, Finishing, EntryOK, ModeOK
  <1>6. ModeOK' /\ EntryOK'
    BY SMTT(30), <1>1, <1>3, IdleIsTyped
    DEF Control, ModeOK, EntryOK, CallerOK, PrepareOK, UnregisterOK, ReleaseOK, SweepOK, Past,
        Finishing, RunOK, RecoverOK, ShutdownOK
  <1>7. OneAtATime'
    BY SMTT(30), <1>1, <1>3
    DEF Control, OneAtATime, Registering, CallerOK, PrepareOK, UnregisterOK, ReleaseOK, SweepOK,
        Past, Finishing, EntryOK
  <1>8. QED
    BY <1>2, <1>4, <1>5, <1>6, <1>7 DEF Control

LEMMA BeginRecoveryControl ==
  ASSUME Control, BeginRecovery
  PROVE  Control'
  <1> USE DEF memory, durable, Making, Approach, Taking, Ended, Elsewhere, Retiring
  <1>1. /\ act' \in [Actors -> Acts] /\ Others(Run)
        /\ run = "recovering" /\ ~legacy /\ act[Run] = Idle
        /\ \/ /\ refused \/ phase = "none"
              /\ run' = "running" /\ mu' = "free" /\ act'[Run] = act[Run]
           \/ /\ ~refused /\ phase # "none" /\ UNCHANGED <<run, mu>>
              /\ act'[Run].job = "recover" /\ act'[Run].pc = "open"
        /\ UNCHANGED <<disk, faults, entry, server, releaseErr, durable>>
    BY ZenonT(60), Shapes, RunAssumption DEF BeginRecovery, Others, Control, Typed, TypeOK, Actors
  <1>2. Typed'
    BY <1>1, FreeAssumption DEF Control, Typed, TypeOK, Actors, Phases, disk
  <1>3. /\ Run \in Actors /\ Run # "free"
        /\ \A d \in Callers : act'[d] = act[d] /\ d # "free" /\ d # Run
    BY <1>1, RunAssumption, FreeAssumption DEF Others, Actors
  <1>4. \A d \in Callers : CallerOK(d)'
    BY <1>1, <1>3
    DEF Control, CallerOK, PrepareOK, UnregisterOK, ReleaseOK, SweepOK, Past, Finishing, EntryOK,
        ModeOK, RunOK, ShutdownOK, OneAtATime, Registering
  <1>5. RunOK'
    BY SMTT(30), <1>1, <1>3, IdleIsTyped
    DEF Control, RunOK, RecoverOK, ShutdownOK, CallerOK, PrepareOK, UnregisterOK, ReleaseOK,
        SweepOK, Past, Finishing, EntryOK, ModeOK
  <1>6. ModeOK' /\ EntryOK'
    BY SMTT(30), <1>1, <1>3, IdleIsTyped
    DEF Control, ModeOK, EntryOK, CallerOK, PrepareOK, UnregisterOK, ReleaseOK, SweepOK, Past,
        Finishing, RunOK, RecoverOK, ShutdownOK
  <1>7. OneAtATime'
    BY SMTT(30), <1>1, <1>3
    DEF Control, OneAtATime, Registering, CallerOK, PrepareOK, UnregisterOK, ReleaseOK, SweepOK,
        Past, Finishing, EntryOK
  <1>8. QED
    BY <1>2, <1>4, <1>5, <1>6, <1>7 DEF Control

LEMMA RecoveryRemovedControl ==
  ASSUME Control, RecoveryRemoved
  PROVE  Control'
  <1> USE DEF memory, durable, Making, Approach, Taking, Ended, Elsewhere, Retiring
  <1>1. /\ act' \in [Actors -> Acts] /\ Others(Run)
        /\ act[Run].job = "recover" /\ act[Run].pc = "done"
        /\ \/ /\ phase \in {"task", "absent"} /\ UNCHANGED <<run, mu>>
              /\ act'[Run].job = "restore" /\ act'[Run].pc = "create"
           \/ /\ phase \notin {"task", "absent"} /\ act'[Run] = Idle /\ run' = "running" /\ mu' = "free"
        /\ UNCHANGED <<disk, faults, entry, server, releaseErr, durable>>
    BY ZenonT(60), Shapes, RunAssumption
    DEF RecoveryRemoved, Doing, Restorable, Control, Typed, TypeOK, Actors
  <1>2. Typed'
    BY <1>1, FreeAssumption DEF Control, Typed, TypeOK, Actors, Phases, disk
  <1>3. /\ Run \in Actors /\ Run # "free"
        /\ \A d \in Callers : act'[d] = act[d] /\ d # "free" /\ d # Run
    BY <1>1, RunAssumption, FreeAssumption DEF Others, Actors
  <1>4. \A d \in Callers : CallerOK(d)'
    BY <1>1, <1>3, IdleIsTyped
    DEF Control, CallerOK, PrepareOK, UnregisterOK, ReleaseOK, SweepOK, ModeOK, RunOK, RecoverOK,
        Registering
  <1>5. RunOK'
    BY SMTT(30), <1>1, <1>3, IdleIsTyped
    DEF Control, RunOK, RecoverOK, ShutdownOK, CallerOK, PrepareOK, UnregisterOK, ReleaseOK,
        SweepOK, Past, Finishing, EntryOK, ModeOK
  <1>6. ModeOK' /\ EntryOK'
    BY SMTT(30), <1>1, <1>3, IdleIsTyped
    DEF Control, ModeOK, EntryOK, CallerOK, PrepareOK, UnregisterOK, ReleaseOK, SweepOK, Past,
        Finishing, RunOK, RecoverOK, ShutdownOK
  <1>7. OneAtATime'
    BY SMTT(30), <1>1, <1>3
    DEF Control, OneAtATime, Registering, CallerOK, PrepareOK, UnregisterOK, ReleaseOK, SweepOK,
        Past, Finishing, EntryOK
  <1>8. QED
    BY <1>2, <1>4, <1>5, <1>6, <1>7 DEF Control

LEMMA RecoveryRestoredControl ==
  ASSUME Control, RecoveryRestored
  PROVE  Control'
  <1> USE DEF memory, durable, Making, Approach, Taking, Ended, Elsewhere, Retiring
  <1>1. /\ act' \in [Actors -> Acts] /\ Others(Run)
        /\ act[Run].job = "restore" /\ act[Run].pc = "done" /\ act'[Run] = Idle
        /\ entry' = "recovered" /\ server' = "active" /\ run' = "running" /\ mu' = "free"
        /\ UNCHANGED <<disk, faults, releaseErr, durable>>
    BY ZenonT(60), Shapes, RunAssumption DEF RecoveryRestored, Doing, Control, Typed, TypeOK, Actors
  <1>2. Typed'
    BY <1>1, FreeAssumption DEF Control, Typed, TypeOK, Actors, Phases, disk
  <1>3. /\ Run \in Actors /\ Run # "free"
        /\ \A d \in Callers : act'[d] = act[d] /\ d # "free" /\ d # Run
    BY <1>1, RunAssumption, FreeAssumption DEF Others, Actors
  <1>4. \A d \in Callers : CallerOK(d)'
    BY <1>1, <1>3, IdleIsTyped
    DEF Control, CallerOK, PrepareOK, UnregisterOK, ReleaseOK, SweepOK, ModeOK, RunOK, RecoverOK,
        Registering
  <1>5. RunOK'
    BY SMTT(30), <1>1, <1>3, IdleIsTyped
    DEF Control, RunOK, RecoverOK, ShutdownOK, CallerOK, PrepareOK, UnregisterOK, ReleaseOK,
        SweepOK, Past, Finishing, EntryOK, ModeOK
  <1>6. ModeOK' /\ EntryOK'
    BY SMTT(30), <1>1, <1>3, IdleIsTyped
    DEF Control, ModeOK, EntryOK, CallerOK, PrepareOK, UnregisterOK, ReleaseOK, SweepOK, Past,
        Finishing, RunOK, RecoverOK, ShutdownOK
  <1>7. OneAtATime'
    BY SMTT(30), <1>1, <1>3
    DEF Control, OneAtATime, Registering, CallerOK, PrepareOK, UnregisterOK, ReleaseOK, SweepOK,
        Past, Finishing, EntryOK
  <1>8. QED
    BY <1>2, <1>4, <1>5, <1>6, <1>7 DEF Control

LEMMA RecoveryRefusedControl ==
  ASSUME Control, RecoveryRefused
  PROVE  Control'
  <1> USE DEF memory, durable, Making, Approach, Taking, Ended, Elsewhere, Retiring
  <1>1. /\ act' \in [Actors -> Acts] /\ Others(Run)
        /\ act[Run].job = "recover" /\ act[Run].pc = "refuse" /\ act'[Run] = Idle
        /\ refused' = TRUE /\ run' = "running" /\ mu' = "free"
        /\ UNCHANGED <<disk, faults, entry, server, releaseErr, phase, legacy>>
    BY ZenonT(60), Shapes, RunAssumption DEF RecoveryRefused, Doing, Control, Typed, TypeOK, Actors
  <1>2. Typed'
    BY <1>1, FreeAssumption DEF Control, Typed, TypeOK, Actors, Phases, disk
  <1>3. /\ Run \in Actors /\ Run # "free"
        /\ \A d \in Callers : act'[d] = act[d] /\ d # "free" /\ d # Run
    BY <1>1, RunAssumption, FreeAssumption DEF Others, Actors
  <1>4. \A d \in Callers : CallerOK(d)'
    BY <1>1, <1>3, IdleIsTyped
    DEF Control, CallerOK, PrepareOK, UnregisterOK, ReleaseOK, SweepOK, ModeOK, RunOK, RecoverOK,
        Registering
  <1>5. RunOK'
    BY SMTT(30), <1>1, <1>3, IdleIsTyped
    DEF Control, RunOK, RecoverOK, ShutdownOK, CallerOK, PrepareOK, UnregisterOK, ReleaseOK,
        SweepOK, Past, Finishing, EntryOK, ModeOK
  <1>6. ModeOK' /\ EntryOK'
    BY SMTT(30), <1>1, <1>3, IdleIsTyped
    DEF Control, ModeOK, EntryOK, CallerOK, PrepareOK, UnregisterOK, ReleaseOK, SweepOK, Past,
        Finishing, RunOK, RecoverOK, ShutdownOK
  <1>7. OneAtATime'
    BY SMTT(30), <1>1, <1>3
    DEF Control, OneAtATime, Registering, CallerOK, PrepareOK, UnregisterOK, ReleaseOK, SweepOK,
        Past, Finishing, EntryOK
  <1>8. QED
    BY <1>2, <1>4, <1>5, <1>6, <1>7 DEF Control

LEMMA RecoveryFailedControl ==
  ASSUME Control, RecoveryFailed
  PROVE  Control'
  <1> USE DEF memory, durable, Making, Approach, Taking, Ended, Elsewhere, Retiring
  <1>1. /\ act' \in [Actors -> Acts] /\ Others(Run)
        /\ act[Run].job \in {"recover", "restore"} /\ act'[Run] = Idle
        /\ run' = "failed" /\ mu' = "free"
        /\ UNCHANGED <<disk, faults, entry, server, releaseErr, durable>>
    BY ZenonT(60), Shapes, RunAssumption DEF RecoveryFailed, Doing, Control, Typed, TypeOK, Actors
  <1>2. Typed'
    BY <1>1, FreeAssumption DEF Control, Typed, TypeOK, Actors, Phases, disk
  <1>3. /\ Run \in Actors /\ Run # "free"
        /\ \A d \in Callers : act'[d] = act[d] /\ d # "free" /\ d # Run
    BY <1>1, RunAssumption, FreeAssumption DEF Others, Actors
  <1>4. \A d \in Callers : CallerOK(d)'
    BY <1>1, <1>3, IdleIsTyped
    DEF Control, CallerOK, PrepareOK, UnregisterOK, ReleaseOK, SweepOK, ModeOK, RunOK, RecoverOK,
        Registering
  <1>5. RunOK'
    BY SMTT(30), <1>1, <1>3, IdleIsTyped
    DEF Control, RunOK, RecoverOK, ShutdownOK, CallerOK, PrepareOK, UnregisterOK, ReleaseOK,
        SweepOK, Past, Finishing, EntryOK, ModeOK
  <1>6. ModeOK' /\ EntryOK'
    BY SMTT(30), <1>1, <1>3, IdleIsTyped
    DEF Control, ModeOK, EntryOK, CallerOK, PrepareOK, UnregisterOK, ReleaseOK, SweepOK, Past,
        Finishing, RunOK, RecoverOK, ShutdownOK
  <1>7. OneAtATime'
    BY SMTT(30), <1>1, <1>3
    DEF Control, OneAtATime, Registering, CallerOK, PrepareOK, UnregisterOK, ReleaseOK, SweepOK,
        Past, Finishing, EntryOK
  <1>8. QED
    BY <1>2, <1>4, <1>5, <1>6, <1>7 DEF Control

LEMMA CleanupAdvancesControl ==
  ASSUME Control, CleanupAdvances
  PROVE  Control'
  <1> USE DEF memory, durable, Making, Approach, Taking, Ended, Elsewhere, Retiring
  <1>1. /\ act' \in [Actors -> Acts] /\ Others(Run)
        /\ act'[Run] = act[Run] /\ run = "running" /\ ~refused
        /\ \/ phase = "task" /\ phase' \in {"absent", "released"}
           \/ phase = "removal" /\ phase' = "cleaned"
        /\ UNCHANGED <<disk, faults, memory, legacy, refused>>
    BY ZenonT(60), Shapes, RunAssumption DEF CleanupAdvances, Others, Control, Typed, TypeOK, Actors
  <1>2. Typed'
    BY <1>1, FreeAssumption DEF Control, Typed, TypeOK, Actors, Phases, disk
  <1>3. /\ Run \in Actors /\ Run # "free"
        /\ \A d \in Callers : act'[d] = act[d] /\ d # "free" /\ d # Run
    BY <1>1, RunAssumption, FreeAssumption DEF Others, Actors
  <1>4. \A d \in Callers : CallerOK(d)'
    BY <1>1, <1>3
    DEF Control, CallerOK, PrepareOK, UnregisterOK, ReleaseOK, SweepOK, Past, Finishing, EntryOK,
        ModeOK, RunOK, ShutdownOK, OneAtATime, Registering
  <1>5. RunOK'
    BY SMTT(30), <1>1, <1>3, IdleIsTyped
    DEF Control, RunOK, RecoverOK, ShutdownOK, CallerOK, PrepareOK, UnregisterOK, ReleaseOK,
        SweepOK, Past, Finishing, EntryOK, ModeOK
  <1>6. ModeOK' /\ EntryOK'
    BY SMTT(30), <1>1, <1>3, IdleIsTyped
    DEF Control, ModeOK, EntryOK, CallerOK, PrepareOK, UnregisterOK, ReleaseOK, SweepOK, Past,
        Finishing, RunOK, RecoverOK, ShutdownOK
  <1>7. OneAtATime'
    BY SMTT(30), <1>1, <1>3
    DEF Control, OneAtATime, Registering, CallerOK, PrepareOK, UnregisterOK, ReleaseOK, SweepOK,
        Past, Finishing, EntryOK
  <1>8. QED
    BY <1>2, <1>4, <1>5, <1>6, <1>7 DEF Control

LEMMA ServerResultControl ==
  ASSUME Control, ServerResult
  PROVE  Control'
  <1> USE DEF memory, durable, Making, Approach, Taking, Ended, Elsewhere, Retiring
  <1>1. /\ act' \in [Actors -> Acts] /\ Others(Run)
        /\ act'[Run] = act[Run] /\ server = "closed" /\ server' = "none"
        /\ UNCHANGED <<disk, faults, run, mu, entry, releaseErr, durable>>
    BY ZenonT(60), Shapes, RunAssumption DEF ServerResult, Others, Control, Typed, TypeOK, Actors
  <1>2. Typed'
    BY <1>1, FreeAssumption DEF Control, Typed, TypeOK, Actors, Phases, disk
  <1>3. /\ Run \in Actors /\ Run # "free"
        /\ \A d \in Callers : act'[d] = act[d] /\ d # "free" /\ d # Run
    BY <1>1, RunAssumption, FreeAssumption DEF Others, Actors
  <1>4. \A d \in Callers : CallerOK(d)'
    BY <1>1, <1>3
    DEF Control, CallerOK, PrepareOK, UnregisterOK, ReleaseOK, SweepOK, Past, Finishing, EntryOK,
        ModeOK, RunOK, ShutdownOK, OneAtATime, Registering
  <1>5. RunOK'
    BY SMTT(30), <1>1, <1>3, IdleIsTyped
    DEF Control, RunOK, RecoverOK, ShutdownOK, CallerOK, PrepareOK, UnregisterOK, ReleaseOK,
        SweepOK, Past, Finishing, EntryOK, ModeOK
  <1>6. ModeOK' /\ EntryOK'
    BY SMTT(30), <1>1, <1>3, IdleIsTyped
    DEF Control, ModeOK, EntryOK, CallerOK, PrepareOK, UnregisterOK, ReleaseOK, SweepOK, Past,
        Finishing, RunOK, RecoverOK, ShutdownOK
  <1>7. OneAtATime'
    BY SMTT(30), <1>1, <1>3
    DEF Control, OneAtATime, Registering, CallerOK, PrepareOK, UnregisterOK, ReleaseOK, SweepOK,
        Past, Finishing, EntryOK
  <1>8. QED
    BY <1>2, <1>4, <1>5, <1>6, <1>7 DEF Control

LEMMA StopControl ==
  ASSUME Control, Stop
  PROVE  Control'
  <1> USE DEF memory, durable, Making, Approach, Taking, Ended, Elsewhere, Retiring
  <1>1. /\ act' \in [Actors -> Acts] /\ Others(Run)
        /\ run = "running" /\ run' = "stopping"
        /\ \/ /\ server = "active" /\ act'[Run].job = "shutdown" /\ act'[Run].pc = "lock"
           \/ server # "active" /\ act'[Run] = act[Run]
        /\ UNCHANGED <<disk, faults, mu, entry, server, releaseErr, durable>>
    <2>1. act \in [Actors -> Acts] /\ Run \in Actors
      BY DEF Control, Typed, Actors
    <2>2. /\ run = "running" /\ run' = "stopping"
          /\ UNCHANGED <<disk, faults, mu, entry, server, releaseErr, durable>>
      BY DEF Stop
    <2>3. CASE server = "active"
      <3>1. Start(Run, "shutdown", "lock")
        BY <2>3 DEF Stop
      <3>2. QED
        BY <2>1, <2>2, <2>3, <3>1, StartShape
    <2>4. CASE server # "active"
      BY <2>1, <2>2, <2>4 DEF Stop, Others
    <2>5. QED
      BY <2>3, <2>4
  <1>2. Typed'
    BY <1>1, FreeAssumption DEF Control, Typed, TypeOK, Actors, Phases, disk
  <1>3. /\ Run \in Actors /\ Run # "free"
        /\ \A d \in Callers : act'[d] = act[d] /\ d # "free" /\ d # Run
    BY <1>1, RunAssumption, FreeAssumption DEF Others, Actors
  <1>4. \A d \in Callers : CallerOK(d)'
    BY <1>1, <1>3
    DEF Control, CallerOK, PrepareOK, UnregisterOK, ReleaseOK, SweepOK, Past, Finishing, EntryOK,
        ModeOK, RunOK, ShutdownOK, OneAtATime, Registering
  <1>5. RunOK'
    BY SMTT(30), <1>1, <1>3, IdleIsTyped
    DEF Control, RunOK, RecoverOK, ShutdownOK, CallerOK, PrepareOK, UnregisterOK, ReleaseOK,
        SweepOK, Past, Finishing, EntryOK, ModeOK
  <1>6. ModeOK' /\ EntryOK'
    BY SMTT(30), <1>1, <1>3, IdleIsTyped
    DEF Control, ModeOK, EntryOK, CallerOK, PrepareOK, UnregisterOK, ReleaseOK, SweepOK, Past,
        Finishing, RunOK, RecoverOK, ShutdownOK
  <1>7. OneAtATime'
    BY SMTT(30), <1>1, <1>3
    DEF Control, OneAtATime, Registering, CallerOK, PrepareOK, UnregisterOK, ReleaseOK, SweepOK,
        Past, Finishing, EntryOK
  <1>8. QED
    BY <1>2, <1>4, <1>5, <1>6, <1>7 DEF Control

LEMMA ShutdownLockControl ==
  ASSUME Control, ShutdownLock
  PROVE  Control'
  <1> USE DEF memory, durable, Making, Approach, Taking, Ended, Elsewhere, Retiring
  <1>1. /\ act' \in [Actors -> Acts] /\ Others(Run)
        /\ act[Run].job = "shutdown" /\ act[Run].pc = "lock" /\ mu = "free" /\ act'[Run].job = "shutdown"
        /\ \/ act'[Run].pc = "refuse" /\ mu' = mu
           \/ act'[Run].pc = "open" /\ mu' = Run /\ entry # "releasing"
        /\ UNCHANGED <<disk, faults, run, entry, server, releaseErr, durable>>
    <2>1. /\ act[Run].job = "shutdown" /\ act[Run].pc = "lock" /\ mu = "free"
          /\ UNCHANGED <<disk, faults, run, entry, server, releaseErr, durable>>
          /\ \/ Goto(Run, "refuse") /\ mu' = mu
             \/ Goto(Run, "open") /\ mu' = Run /\ entry # "releasing"
      BY DEF ShutdownLock, Doing
    <2>2. PICK p \in {"refuse", "open"} : Goto(Run, p) /\ (p = "refuse" => mu' = mu)
                                          /\ (p = "open" => mu' = Run /\ entry # "releasing")
      BY <2>1
    <2>3. /\ act' \in [Actors -> Acts] /\ Others(Run) /\ act'[Run].pc = p
          /\ act'[Run].job = act[Run].job
      BY <2>2, GotoShape DEF Control, Typed, Actors
    <2>4. QED
      BY <2>1, <2>2, <2>3
  <1>2. Typed'
    BY <1>1, FreeAssumption DEF Control, Typed, TypeOK, Actors, Phases, disk
  <1>3. /\ Run \in Actors /\ Run # "free"
        /\ \A d \in Callers : act'[d] = act[d] /\ d # "free" /\ d # Run
    BY <1>1, RunAssumption, FreeAssumption DEF Others, Actors
  <1>4. \A d \in Callers : CallerOK(d)'
    BY <1>1, <1>3
    DEF Control, CallerOK, PrepareOK, UnregisterOK, ReleaseOK, SweepOK, Past, Finishing, EntryOK,
        ModeOK, RunOK, ShutdownOK, OneAtATime, Registering
  <1>5. RunOK'
    BY SMTT(30), <1>1, <1>3, IdleIsTyped
    DEF Control, RunOK, RecoverOK, ShutdownOK, CallerOK, PrepareOK, UnregisterOK, ReleaseOK,
        SweepOK, Past, Finishing, EntryOK, ModeOK
  <1>6. ModeOK' /\ EntryOK'
    BY SMTT(30), <1>1, <1>3, IdleIsTyped
    DEF Control, ModeOK, EntryOK, CallerOK, PrepareOK, UnregisterOK, ReleaseOK, SweepOK, Past,
        Finishing, RunOK, RecoverOK, ShutdownOK
  <1>7. OneAtATime'
    BY SMTT(30), <1>1, <1>3
    DEF Control, OneAtATime, Registering, CallerOK, PrepareOK, UnregisterOK, ReleaseOK, SweepOK,
        Past, Finishing, EntryOK
  <1>8. QED
    BY <1>2, <1>4, <1>5, <1>6, <1>7 DEF Control

LEMMA ShutdownPinnedControl ==
  ASSUME Control, ShutdownPinned
  PROVE  Control'
  <1> USE DEF memory, durable, Making, Approach, Taking, Ended, Elsewhere, Retiring
  <1>1. /\ act' \in [Actors -> Acts] /\ Others(Run)
        /\ act[Run].job = "shutdown" /\ act[Run].pc = "isolated" /\ mu' = "free"
        /\ act'[Run].job = "shutdown" /\ act'[Run].pc = "stageDir"
        /\ server' \in {"none", "closed"} /\ sock' \in {"none", sock}
        /\ UNCHANGED <<anchor, record, loc, link, foreign, faults, run, entry, releaseErr, durable>>
    <2>1. /\ act[Run].job = "shutdown" /\ act[Run].pc = "isolated" /\ mu' = "free"
          /\ Goto(Run, "stageDir")
          /\ UNCHANGED <<anchor, record, loc, link, foreign, faults, run, entry, releaseErr, durable>>
          /\ server' \in {"none", "closed"} /\ sock' \in {"none", sock}
      BY DEF ShutdownPinned, Doing, ServerStops, CloseSocket
    <2>2. /\ act' \in [Actors -> Acts] /\ Others(Run) /\ act'[Run].pc = "stageDir"
          /\ act'[Run].job = act[Run].job
      BY <2>1, GotoShape DEF Control, Typed, Actors
    <2>3. QED
      BY <2>1, <2>2
  <1>2. Typed'
    BY <1>1, FreeAssumption DEF Control, Typed, TypeOK, Actors, Phases, disk
  <1>3. /\ Run \in Actors /\ Run # "free"
        /\ \A d \in Callers : act'[d] = act[d] /\ d # "free" /\ d # Run
    BY <1>1, RunAssumption, FreeAssumption DEF Others, Actors
  <1>4. \A d \in Callers : CallerOK(d)'
    BY <1>1, <1>3
    DEF Control, CallerOK, PrepareOK, UnregisterOK, ReleaseOK, SweepOK, Past, Finishing, EntryOK,
        ModeOK, RunOK, ShutdownOK, OneAtATime, Registering
  <1>5. RunOK'
    BY SMTT(30), <1>1, <1>3, IdleIsTyped
    DEF Control, RunOK, RecoverOK, ShutdownOK, CallerOK, PrepareOK, UnregisterOK, ReleaseOK,
        SweepOK, Past, Finishing, EntryOK, ModeOK
  <1>6. ModeOK' /\ EntryOK'
    BY SMTT(30), <1>1, <1>3, IdleIsTyped
    DEF Control, ModeOK, EntryOK, CallerOK, PrepareOK, UnregisterOK, ReleaseOK, SweepOK, Past,
        Finishing, RunOK, RecoverOK, ShutdownOK
  <1>7. OneAtATime'
    BY SMTT(30), <1>1, <1>3
    DEF Control, OneAtATime, Registering, CallerOK, PrepareOK, UnregisterOK, ReleaseOK, SweepOK,
        Past, Finishing, EntryOK
  <1>8. QED
    BY <1>2, <1>4, <1>5, <1>6, <1>7 DEF Control

LEMMA ShutdownUnprovenControl ==
  ASSUME Control, ShutdownUnproven
  PROVE  Control'
  <1> USE DEF memory, durable, Making, Approach, Taking, Ended, Elsewhere, Retiring
  <1>1. /\ act' \in [Actors -> Acts] /\ Others(Run)
        /\ act[Run].job = "shutdown" /\ act'[Run] = Idle
        /\ mu' = IF mu = Run THEN "free" ELSE mu
        /\ server' \in {server, "closed"} /\ server' # "active" /\ sock' \in {"none", sock}
        /\ UNCHANGED <<anchor, record, loc, link, foreign, faults, run, entry, releaseErr, durable>>
    BY ZenonT(60), Shapes, RunAssumption DEF ShutdownUnproven, CloseSocket, Control, Typed, TypeOK, Actors
  <1>2. Typed'
    BY <1>1, FreeAssumption DEF Control, Typed, TypeOK, Actors, Phases, disk
  <1>3. /\ Run \in Actors /\ Run # "free"
        /\ \A d \in Callers : act'[d] = act[d] /\ d # "free" /\ d # Run
    BY <1>1, RunAssumption, FreeAssumption DEF Others, Actors
  <1>4. \A d \in Callers : CallerOK(d)'
    BY <1>1, <1>3
    DEF Control, CallerOK, PrepareOK, UnregisterOK, ReleaseOK, SweepOK, Past, Finishing, EntryOK,
        ModeOK, RunOK, ShutdownOK, OneAtATime, Registering
  <1>5. RunOK'
    BY SMTT(30), <1>1, <1>3, IdleIsTyped
    DEF Control, RunOK, RecoverOK, ShutdownOK, CallerOK, PrepareOK, UnregisterOK, ReleaseOK,
        SweepOK, Past, Finishing, EntryOK, ModeOK
  <1>6. ModeOK' /\ EntryOK'
    BY SMTT(30), <1>1, <1>3, IdleIsTyped
    DEF Control, ModeOK, EntryOK, CallerOK, PrepareOK, UnregisterOK, ReleaseOK, SweepOK, Past,
        Finishing, RunOK, RecoverOK, ShutdownOK
  <1>7. OneAtATime'
    BY SMTT(30), <1>1, <1>3
    DEF Control, OneAtATime, Registering, CallerOK, PrepareOK, UnregisterOK, ReleaseOK, SweepOK,
        Past, Finishing, EntryOK
  <1>8. QED
    BY <1>2, <1>4, <1>5, <1>6, <1>7 DEF Control

LEMMA ShutdownStagedControl ==
  ASSUME Control, ShutdownStaged
  PROVE  Control'
  <1> USE DEF memory, durable, Making, Approach, Taking, Ended, Elsewhere, Retiring
  <1>1. /\ act' \in [Actors -> Acts] /\ Others(Run)
        /\ act[Run].job = "shutdown" /\ act[Run].pc = "done" /\ act'[Run] = Idle
        /\ UNCHANGED <<disk, faults, memory, durable>>
    BY ZenonT(60), Shapes, RunAssumption DEF ShutdownStaged, Doing, Control, Typed, TypeOK, Actors
  <1>2. Typed'
    BY <1>1, FreeAssumption DEF Control, Typed, TypeOK, Actors, Phases, disk
  <1>3. /\ Run \in Actors /\ Run # "free"
        /\ \A d \in Callers : act'[d] = act[d] /\ d # "free" /\ d # Run
    BY <1>1, RunAssumption, FreeAssumption DEF Others, Actors
  <1>4. \A d \in Callers : CallerOK(d)'
    BY <1>1, <1>3
    DEF Control, CallerOK, PrepareOK, UnregisterOK, ReleaseOK, SweepOK, Past, Finishing, EntryOK,
        ModeOK, RunOK, ShutdownOK, OneAtATime, Registering
  <1>5. RunOK'
    BY SMTT(30), <1>1, <1>3, IdleIsTyped
    DEF Control, RunOK, RecoverOK, ShutdownOK, CallerOK, PrepareOK, UnregisterOK, ReleaseOK,
        SweepOK, Past, Finishing, EntryOK, ModeOK
  <1>6. ModeOK' /\ EntryOK'
    BY SMTT(30), <1>1, <1>3, IdleIsTyped
    DEF Control, ModeOK, EntryOK, CallerOK, PrepareOK, UnregisterOK, ReleaseOK, SweepOK, Past,
        Finishing, RunOK, RecoverOK, ShutdownOK
  <1>7. OneAtATime'
    BY SMTT(30), <1>1, <1>3
    DEF Control, OneAtATime, Registering, CallerOK, PrepareOK, UnregisterOK, ReleaseOK, SweepOK,
        Past, Finishing, EntryOK
  <1>8. QED
    BY <1>2, <1>4, <1>5, <1>6, <1>7 DEF Control

LEMMA StoppedControl ==
  ASSUME Control, Stopped
  PROVE  Control'
  <1> USE DEF memory, durable, Making, Approach, Taking, Ended, Elsewhere, Retiring
  <1>1. /\ act' \in [Actors -> Acts] /\ Others(Run)
        /\ act'[Run] = act[Run] /\ run = "stopping" /\ act[Run] = Idle /\ server \in {"none", "listening"} /\ run' = "stopped"
        /\ UNCHANGED <<disk, faults, mu, entry, server, releaseErr, durable>>
    BY ZenonT(60), Shapes, RunAssumption DEF Stopped, Others, Control, Typed, TypeOK, Actors
  <1>2. Typed'
    BY <1>1, FreeAssumption DEF Control, Typed, TypeOK, Actors, Phases, disk
  <1>3. /\ Run \in Actors /\ Run # "free"
        /\ \A d \in Callers : act'[d] = act[d] /\ d # "free" /\ d # Run
    BY <1>1, RunAssumption, FreeAssumption DEF Others, Actors
  <1>4. \A d \in Callers : CallerOK(d)'
    BY <1>1, <1>3
    DEF Control, CallerOK, PrepareOK, UnregisterOK, ReleaseOK, SweepOK, Past, Finishing, EntryOK,
        ModeOK, RunOK, ShutdownOK, OneAtATime, Registering
  <1>5. RunOK'
    BY SMTT(30), <1>1, <1>3, IdleIsTyped
    DEF Control, RunOK, RecoverOK, ShutdownOK, CallerOK, PrepareOK, UnregisterOK, ReleaseOK,
        SweepOK, Past, Finishing, EntryOK, ModeOK
  <1>6. ModeOK' /\ EntryOK'
    BY SMTT(30), <1>1, <1>3, IdleIsTyped
    DEF Control, ModeOK, EntryOK, CallerOK, PrepareOK, UnregisterOK, ReleaseOK, SweepOK, Past,
        Finishing, RunOK, RecoverOK, ShutdownOK
  <1>7. OneAtATime'
    BY SMTT(30), <1>1, <1>3
    DEF Control, OneAtATime, Registering, CallerOK, PrepareOK, UnregisterOK, ReleaseOK, SweepOK,
        Past, Finishing, EntryOK
  <1>8. QED
    BY <1>2, <1>4, <1>5, <1>6, <1>7 DEF Control

LEMMA ProcessEndsControl ==
  ASSUME Control, ProcessEnds, faults' \in 0..MaxFaults
  PROVE  Control'
  <1>1. \A a \in Actors : act'[a] = Idle
    BY DEF ProcessEnds
  <1>2. act' \in [Actors -> Acts]
    BY IdleIsTyped DEF ProcessEnds
  <1>3. /\ run' = "down" /\ mu' = "free" /\ entry' = "none" /\ server' = "none" /\ releaseErr' = FALSE
        /\ UNCHANGED <<record, loc, link, anchor, sock, foreign, phase, legacy, refused>>
    BY DEF ProcessEnds, disk, durable
  <1>4. /\ Run \in Actors /\ Run # "free"
        /\ \A c \in Callers : c \in Actors /\ c # "free"
    BY FreeAssumption DEF Actors
  <1>5. Typed'
    BY <1>2, <1>3 DEF Control, Typed, TypeOK
  <1>6. \A c \in Callers : CallerOK(c)'
    BY <1>1, <1>3, <1>4, IdleIsTyped DEF CallerOK, PrepareOK, UnregisterOK, ReleaseOK, SweepOK
  <1>7. RunOK'
    BY SMTT(30), <1>1, <1>3, <1>4, IdleIsTyped DEF RunOK, RecoverOK, ShutdownOK
  <1>8. ModeOK' /\ EntryOK' /\ OneAtATime'
    BY SMTT(30), <1>1, <1>3, <1>4, IdleIsTyped
    DEF Control, ModeOK, EntryOK, OneAtATime, Registering, Finishing
  <1>9. QED
    BY <1>5, <1>6, <1>7, <1>8 DEF Control

LEMMA InterferenceControl ==
  ASSUME Control, Interference
  PROVE  Control'
  <1>1. act' = act /\ faults' \in 0..MaxFaults /\ UNCHANGED <<memory, durable>>
    BY MaxFaultsAssumption
    DEF Interference, ReplaceDirectory, ReplaceSocket, ReplaceLink, DamageRecord, LoseGeneration,
        Plant, Control, Typed, TypeOK
  <1>2. DiskTyped'
    <2>1. DiskTyped
      BY DEF Control, Typed, TypeOK, DiskTyped
    <2>2. CASE ReplaceDirectory
      BY <2>1, <2>2 DEF ReplaceDirectory, DiskTyped
    <2>3. CASE ReplaceSocket \/ ReplaceLink \/ DamageRecord \/ LoseGeneration
      BY <2>1, <2>3 DEF ReplaceSocket, ReplaceLink, DamageRecord, LoseGeneration, DiskTyped, Stages
    <2>4. CASE \E n \in Names : Plant(n)
      BY <2>1, <2>4 DEF Plant, DiskTyped
    <2>5. QED
      BY <2>2, <2>3, <2>4 DEF Interference
  <1>3. Typed'
    BY <1>1, <1>2 DEF Control, Typed, TypeOK, DiskTyped, memory, durable
  <1>4. QED
    BY <1>1, <1>3
    DEF Control, CallerOK, PrepareOK, UnregisterOK, ReleaseOK, SweepOK, RunOK, RecoverOK,
        ShutdownOK, ModeOK, EntryOK, OneAtATime, Registering, Finishing, Past, memory, durable

\* A system call of the actor fails.
Failing(a) == (IOError(a) \/ UnprovenError(a)) /\ UNCHANGED <<memory, durable>>

LEMMA DirectoryWorks ==
  ASSUME Control, NEW a \in Actors,
         \/ DirectoryStep(a)
         \/ Relocate(a)
         \/ Failing(a)
  PROVE  /\ Moved(a) /\ Forward(a) /\ DiskTyped' /\ faults' \in 0..MaxFaults
         /\ UNCHANGED <<memory, durable>>
  <1>1. DiskTyped /\ act \in [Actors -> Acts] /\ faults \in 0..MaxFaults
    BY DEF Control, Typed, TypeOK, DiskTyped
  <1>2. CASE DirectoryStep(a)
    BY <1>1, <1>2, RemovalShape, CreationShape DEF DirectoryStep
  <1>3. CASE Relocate(a)
    <2>1. PICK p \in {"isolated", "refuse"} : Goto(a, p) /\ act[a].pc = "relocate"
      BY <1>3 DEF Relocate, At
    <2>2. record' = record /\ DiskTyped' /\ faults' = faults /\ UNCHANGED <<memory, durable>>
      BY <1>1, <1>3 DEF Relocate, disk, DiskTyped
    <2>3. Moved(a) /\ act'[a].pc = p
      BY <1>1, <2>1, <2>2, GotoMoves DEF Elsewhere, Ended
    <2>4. QED
      BY <1>1, <2>1, <2>2, <2>3 DEF Forward
  <1>4. CASE Failing(a)
    <2>1. faults' \in 0..MaxFaults
      BY <1>1, <1>4, MaxFaultsAssumption DEF Failing, IOError, UnprovenError
    <2>2. QED
      BY <1>1, <1>4, <2>1, IOErrorShape, UnprovenErrorShape DEF Failing
  <1>5. QED
    BY <1>2, <1>3, <1>4

LEMMA InitControl == Init => Control
  <1> SUFFICES ASSUME Init PROVE Control
    OBVIOUS
  <1>1. /\ \A a \in Actors : act[a] = Idle
        /\ act \in [Actors -> Acts] /\ Run \in Actors /\ Run # "free"
        /\ \A c \in Callers : c \in Actors /\ c # "free"
    BY IdleIsTyped, FreeAssumption DEF Init, Actors
  <1>2. Typed
    <2>1. foreign \subseteq Names /\ phase \in Phases /\ legacy \in BOOLEAN
      BY DEF Init, LegacyInit, Names, Phases
    <2>2. faults \in 0..MaxFaults
      BY MaxFaultsAssumption DEF Init
    <2>3. QED
      BY <1>1, <2>1, <2>2 DEF Init, Typed, TypeOK, Stages
  <1>3. \A c \in Callers : CallerOK(c)
    BY <1>1, IdleIsTyped DEF Init, CallerOK, PrepareOK, UnregisterOK, ReleaseOK, SweepOK
  <1>4. RunOK
    BY <1>1, IdleIsTyped DEF Init, RunOK, RecoverOK, ShutdownOK
  <1>5. ModeOK /\ EntryOK /\ OneAtATime
    BY <1>1, IdleIsTyped DEF Init, LegacyInit, ModeOK, EntryOK, OneAtATime, Registering, Finishing
  <1>6. QED
    BY <1>2, <1>3, <1>4, <1>5 DEF Control

LEMMA NextControl ==
  ASSUME Control, [Next]_vars
  PROVE  Control'
  <1>0. faults \in 0..MaxFaults
    BY DEF Control, Typed, TypeOK
  <1>1. ASSUME NEW a \in Actors,
               DirectoryStep(a) \/ Relocate(a) \/ Failing(a)
        PROVE  Control'
    BY <1>1, DirectoryWorks, WorkControl
  <1>2. CASE Recovery
    BY <1>2, BootControl, UpgradeRelayIdentityControl, BeginRecoveryControl, RecoveryRemovedControl,
       RecoveryRestoredControl, RecoveryRefusedControl, RecoveryFailedControl DEF Recovery
  <1>3. CASE Shutdown
    BY <1>3, ShutdownLockControl, ShutdownPinnedControl, ShutdownUnprovenControl, ShutdownStagedControl,
       StoppedControl DEF Shutdown
  <1>4. CASE RunStep
    BY <1>4, <1>1, <1>2, <1>3, ServerResultControl DEF RunStep, Actors
  <1>5. CASE Stop \/ CleanupAdvances \/ Interference
    BY <1>5, StopControl, CleanupAdvancesControl, InterferenceControl
  <1>6. CASE Exit \/ Crash
    <2>1. faults' \in 0..MaxFaults
      BY <1>0, <1>6, MaxFaultsAssumption DEF Exit, Crash
    <2>2. QED
      BY <1>6, <2>1, ProcessEndsControl DEF Exit, Crash
  <1>7. ASSUME NEW c \in Callers, CallerStep(c) \/ PrepareCall(c) \/ ReleaseCall(c)
        PROVE  Control'
    <2>1. c \in Actors
      BY DEF Actors
    <2>2. CASE DirectoryStep(c) \/ Relocate(c)
      BY <2>1, <2>2, <1>1
    <2>3. CASE \/ PrepareCall(c) \/ PrepareLock(c) \/ PrepareListening(c) \/ Register(c)
               \/ Registered(c) \/ PrepareJoin(c) \/ CommitPreparedTask(c) \/ PrepareFailed(c)
      BY <2>3, PrepareCallControl, PrepareLockControl, PrepareListeningControl, RegisterControl,
         RegisteredControl, PrepareJoinControl, CommitPreparedTaskControl, PrepareFailedControl
    <2>4. CASE UnregisterClose(c) \/ UnregisterEnd(c)
      BY <2>4, UnregisterCloseControl, UnregisterEndControl
    <2>5. CASE \/ ReleaseCall(c) \/ ReleaseLock(c) \/ ReleaseJoin(c) \/ ReleasePinned(c)
               \/ ReleaseSend(c) \/ ReleaseClose(c) \/ ReleaseUnproven(c) \/ ReleaseEnd(c)
               \/ SweepEnd(c) \/ AuthorizeRemoval(c)
      BY <2>5, ReleaseCallControl, ReleaseLockControl, ReleaseJoinControl, ReleasePinnedControl,
         ReleaseSendControl, ReleaseCloseControl, ReleaseUnprovenControl, ReleaseEndControl,
         SweepEndControl, AuthorizeRemovalControl
    <2>6. QED
      BY <1>7, <2>2, <2>3, <2>4, <2>5 DEF CallerStep
  <1>8. CASE UNCHANGED vars
    BY <1>8 DEF vars, disk, memory, durable, Control, Typed, TypeOK, CallerOK, PrepareOK, UnregisterOK,
       ReleaseOK, SweepOK, RunOK, RecoverOK, ShutdownOK, ModeOK, EntryOK, OneAtATime, Registering,
       Finishing, Past
  <1>9. QED
    BY <1>1, <1>4, <1>5, <1>6, <1>7, <1>8 DEF Next, Failing

(* Every step of a preparation, a release, a sweep, a recovery and a       *)
(* shutdown is taken with the mutex, the entry and the phase that          *)
(* coordinator.mu and the entry states of runtime_attachment.go promise    *)
(* it.                                                                     *)
THEOREM ControlHolds == Spec => []Control
  <1>1. Init => Control
    BY InitControl
  <1>2. Control /\ [Next]_vars => Control'
    BY NextControl
  <1>3. QED
    BY <1>1, <1>2, PTL DEF Spec

-----------------------------------------------------------------------------
(* Disk: what the record says of the directory, whatever somebody else has *)
(* done to the disk. A directory stands only under a name of its record's  *)
(* stage, the step of an actor tells the stage the record is in, and a     *)
(* removal that says it is done has left nothing.                          *)

Gone == loc \notin Names
Builder(a) == act[a].job \in {"prepare", "restore"}
Building(a) == Builder(a) /\ act[a].pc \in Making \cup {"done"}

StageAt(to, stage) ==
    /\ to \in {"mkdir", "bind"} => stage = "intent"
    /\ to \in {"linkIn", "bindLink"} => stage = "bound"
    /\ to \in {"listen", "secure", "bindSocket"} => stage = "creating"
    /\ to \in {"publishDir", "activate"} => stage = "listening"
    /\ to = "releaseIntent" => stage = "active"
    /\ to \in {"move", "stageMoved"} => stage \in {"releaseIntent", "releasing"}

\* The steps that pin what they are about to rename.
Inspected == {"move", "sockIsolate", "linkIsolate", "dirIsolate", "publishDir"}

StageOK(a) ==
    /\ StageAt(act[a].pc, act[a].stage)
    /\ act[a].pin # "none" /\ act[a].fresh => record \in {act[a].stage, "damaged"}
    /\ act[a].pc \in Making \ {"create"} => act[a].pin = "creation" /\ act[a].fresh
    /\ act[a].pc \in (Approach \cup Taking \cup {"relocate", "isolated", "send", "close"})
                     \ {"open", "dirRetire"} => act[a].pin # "none"
    /\ Builder(a) /\ act[a].pc = "done" => record \in {"active", "damaged"}
    /\ act[a].pc = "intent" => loc \notin {"creation", "canonical"}
    /\ act[a].pc \in Making \ {"create", "intent", "mkdir", "activate"} => loc \in {"creation", "none"}
    /\ act[a].pc = "activate" => loc \in {"canonical", "none"}
    /\ act[a].pc \in {"move", "stageMoved"} => record \in {"releaseIntent", "releasing", "damaged"}
    /\ act[a].held # "none" => act[a].pc \in Inspected
    /\ act[a].held = "foreign" => act[a].pc = "sockIsolate" /\ act[a].stage = "creating"

GoneOK(a) ==
    /\ act[a].pc = "dirRetire" => Gone
    /\ act[a].job \in {"release", "sweep", "recover"} /\ act[a].pc = "done" /\ phase # "intent" => Gone
    /\ act[a].job = "restore" /\ act[a].pc \in {"create", "intent", "mkdir"} => Gone
    /\ act[a].pc = "authorize" => Gone
    /\ act[a].pc = "join" /\ act[a].job = "release" /\ entry = "none" /\ ~releaseErr => Gone

RecordOK ==
    /\ record = "none" => Gone
    /\ record = "intent" => loc # "canonical" /\ (loc = "release" => phase = "intent")
    /\ record \in {"bound", "creating"} => loc \notin {"canonical", "release"}
    /\ record = "listening" => loc # "release"
    /\ record = "active" => loc \notin {"creation", "release"}
    /\ record \in {"releaseIntent", "releasing"} => loc # "creation"
    /\ entry # "none" => record \in {"active", "releaseIntent", "releasing", "damaged"}
    /\ phase \in {"removal", "cleaned"} => Gone

Disk == RecordOK /\ \A a \in Actors : StageOK(a) /\ GoneOK(a)

\* While one actor builds the directory, no other touches it.
LEMMA BuildingAlone ==
  ASSUME Control, NEW a \in Actors, Building(a), NEW b \in Actors \ {a}
  PROVE  /\ act[b].job \in {"idle", "prepare"}
         /\ act[b].pc \in {"idle", "lock", "join", "failed", "refuse"}
         /\ a \in Callers => phase = "intent" /\ entry = "none" /\ mu = a
         /\ a = Run => run = "recovering" /\ phase \in {"task", "absent"} /\ entry = "none"
  <1>1. CASE a = Run
    <2>1. act[Run].job = "restore" /\ run = "recovering" /\ phase \in {"task", "absent"} /\ entry = "none"
      BY <1>1 DEF Building, Builder, Control, RunOK, RecoverOK, ModeOK
    <2>2. b \in Callers
      BY <1>1 DEF Actors
    <2>3. act[b] = Idle
      BY <2>1, <2>2 DEF Control, ModeOK
    <2>4. QED
      BY <1>1, <2>1, <2>3, RunAssumption, IdleIsTyped
  <1>2. CASE a \in Callers
    <2>1. /\ act[a].job = "prepare" /\ mu = a /\ phase = "intent" /\ entry = "none"
      BY <1>2 DEF Building, Builder, Control, CallerOK, PrepareOK
    <2>2. CASE b = Run
      <3>1. run # "recovering"
        BY <1>2, <2>1, IdleIsTyped DEF Control, ModeOK
      <3>2. act[Run].job = "idle"
        BY <2>1, <3>1 DEF Control, RunOK, RecoverOK, ShutdownOK
      <3>3. QED
        BY <1>2, <2>1, <2>2, <3>2, IdleIsTyped, RunAssumption DEF Control, RunOK
    <2>3. CASE b \in Callers
      <3>1. act[b].job \in {"idle", "prepare"} /\ mu # b
        BY <2>1, <2>3 DEF Control, CallerOK, UnregisterOK, ReleaseOK, SweepOK, Retiring
      <3>2. QED
        BY <1>2, <2>1, <2>3, <3>1, IdleIsTyped, RunAssumption DEF Control, CallerOK, PrepareOK, Ended
    <2>4. QED
      BY <2>2, <2>3 DEF Actors
  <1>3. QED
    BY <1>1, <1>2 DEF Actors

LEMMA MakingIsBuilding ==
  ASSUME Control, NEW a \in Actors
  PROVE  /\ act[a].pc \in Making => Building(a)
         /\ act[a].pc \in Approach \cup Taking \cup {"relocate", "isolated", "send", "close", "unproven", "authorize"}
              => ~Builder(a)
  <1>1. CASE a = Run
    BY <1>1, IdleIsTyped
    DEF Building, Builder, Control, RunOK, RecoverOK, ShutdownOK, Making, Approach, Taking, Ended
  <1>2. CASE a \in Callers
    BY <1>2, IdleIsTyped
    DEF Building, Builder, Control, CallerOK, PrepareOK, UnregisterOK, ReleaseOK, SweepOK, Making,
        Approach, Taking, Ended
  <1>3. QED
    BY <1>1, <1>2 DEF Actors

\* What a step of one actor leaves true of the others.
LEMMA PeersDisk ==
  ASSUME Control, Disk, NEW a \in Actors, Moved(a), UNCHANGED <<memory, durable>>,
         \/ act[a].pc \in Making
         \/ /\ act[a].pc \in Approach \cup Taking \cup {"relocate"}
            /\ Gone => Gone'
            /\ record' \in {record, "releaseIntent", "releasing"}
  PROVE  \A b \in Actors \ {a} : StageOK(b)' /\ GoneOK(b)'
  <1> SUFFICES ASSUME NEW b \in Actors \ {a} PROVE StageOK(b)' /\ GoneOK(b)'
    OBVIOUS
  <1>1. StageOK(b) /\ GoneOK(b) /\ Peer(b)
    BY DEF Disk, Moved
  <1>2. CASE act[a].pc \in Making
    <2>1. act[b].job \in {"idle", "prepare"} /\ act[b].pc \in {"idle", "lock", "join", "failed", "refuse"}
      BY <1>2, MakingIsBuilding, BuildingAlone
    <2>2. QED
      BY <1>1, <2>1 DEF StageOK, StageAt, GoneOK, Peer, Making, Approach, Taking
  <1>3. CASE /\ act[a].pc \in Approach \cup Taking \cup {"relocate"}
             /\ Gone => Gone'
             /\ record' \in {record, "releaseIntent", "releasing"}
    <2>1. ~Building(b)
      <3>1. CASE Building(b)
        <4>1. act[a].pc \in {"idle", "lock", "join", "failed", "refuse"}
          BY <3>1, BuildingAlone
        <4>2. QED
          BY <4>1, <1>3 DEF Approach, Taking
      <3>2. QED
        BY <3>1
    <2>2. act[b].pc \notin Making /\ ~(Builder(b) /\ act[b].pc = "done")
      BY <2>1, MakingIsBuilding DEF Building
    <2>3. StageOK(b)'
      BY <1>1, <1>3, <2>2 DEF StageOK, StageAt, Builder, Peer, Making
    <2>4. GoneOK(b)'
      BY <1>1, <1>3, <2>2 DEF GoneOK, Peer, Making, memory, durable
    <2>5. QED
      BY <2>3, <2>4
  <1>4. QED
    BY <1>2, <1>3

\* To pin an object changes nothing.
LEMMA HoldDisk ==
  ASSUME Control, Disk, NEW a \in Actors, NEW w \in {"own", "foreign"}, Hold(a, w),
         act[a].pc \in Inspected,
         w = "foreign" => act[a].pc = "sockIsolate" /\ act[a].stage = "creating",
         UNCHANGED <<memory, durable>>
  PROVE  StageOK(a)' /\ GoneOK(a)' /\ RecordOK' /\ (Gone => Gone') /\ record' = record
  <1>1. /\ UNCHANGED disk /\ act'[a].held = w /\ act'[a].pc = act[a].pc /\ act'[a].job = act[a].job
        /\ act'[a].pin = act[a].pin /\ act'[a].stage = act[a].stage /\ act'[a].fresh = act[a].fresh
    BY HoldShape DEF Control, Typed
  <1>2. StageOK(a) /\ GoneOK(a) /\ RecordOK
    BY DEF Disk
  <1>3. QED
    BY <1>1, <1>2
    DEF StageOK, StageAt, GoneOK, RecordOK, Gone, Builder, disk, memory, durable

LEMMA RemovalDisk ==
  ASSUME Control, Disk, NEW a \in Actors, Removal(a), UNCHANGED <<memory, durable>>
  PROVE  /\ StageOK(a)' /\ GoneOK(a)' /\ RecordOK'
         /\ Gone => Gone'
         /\ record' \in {record, "releaseIntent", "releasing"}
         /\ act[a].pc \in Approach \cup Taking
  <1> USE DEF Approach, Taking, Making, Ended, Inspected
  <1>1. /\ DiskTyped /\ act \in [Actors -> Acts] /\ StageOK(a) /\ GoneOK(a) /\ RecordOK
        /\ Moved(a) /\ act'[a].job = act[a].job
    BY RemovalShape DEF Control, Typed, TypeOK, DiskTyped, Disk, Moved
  <1>2. phase' = phase /\ entry' = entry /\ releaseErr' = releaseErr
    BY DEF memory, durable
  <1>3. act[a].pc \in Approach \cup Taking => ~Builder(a)
    BY MakingIsBuilding
  <1>4. ASSUME NEW p \in {"sockRetire", "linkIsolate", "refuse", "linkRetire", "stageDir", "dirIsolate", "failed",
                          "sockIsolate", "relocate"},
               Goto(a, p), act[a].pc \in Approach \cup Taking, UNCHANGED <<record, loc>>,
               p \in Taking \cup {"relocate"} => act[a].pin # "none"
        PROVE  /\ StageOK(a)' /\ GoneOK(a)' /\ RecordOK'
               /\ Gone => Gone' 
               /\ record' \in {record, "releaseIntent", "releasing"}
    <2>1. /\ act'[a].pc = p /\ act'[a].pin = act[a].pin /\ act'[a].stage = act[a].stage
          /\ act'[a].fresh = act[a].fresh /\ act'[a].held = "none"
      BY <1>1, <1>4, GotoShape DEF Elsewhere
    <2>2. StageOK(a)'
      BY <1>1, <1>3, <1>4, <2>1 DEF StageOK, StageAt, Builder
    <2>3. GoneOK(a)'
      BY <1>4, <2>1 DEF GoneOK
    <2>4. RecordOK' /\ (Gone => Gone')
      BY <1>1, <1>2, <1>4 DEF RecordOK, Gone
    <2>5. QED
      BY <1>4, <2>2, <2>3, <2>4
  <1>5. ASSUME NEW stage \in Stages, NEW restamp, NEW p \in Approach \cup Taking \cup {"relocate", "done"},
               Publish(a, stage, restamp, p), act[a].pc \in {"releaseIntent", "stageMoved", "stageDir"},
               p = "done" => act[a].job = "shutdown", p # "dirRetire", p # "open",
               \/ act[a].pc = "releaseIntent" /\ stage = "releaseIntent" /\ p = "move"
               \/ act[a].pc = "stageMoved" /\ stage = "releasing" /\ p \in {"relocate", "sockIsolate"}
               \/ act[a].pc = "stageDir" /\ stage = act[a].stage /\ p \in {"dirIsolate", "done"}
        PROVE  /\ StageOK(a)' /\ GoneOK(a)' /\ RecordOK'
               /\ Gone => Gone'
               /\ record' \in {record, "releaseIntent", "releasing"}
    <2>1. act[a].pin # "none" /\ ~Builder(a)
      BY <1>1, <1>3, <1>5 DEF StageOK
    <2>2. CASE NotPublished(a)
      BY <1>1, <1>2, <1>5, <2>1, <2>2
      DEF NotPublished, StageOK, StageAt, GoneOK, RecordOK, Gone, Builder, disk
    <2>3. CASE Published(a, stage, restamp, p)
      <3>1. record = act[a].stage /\ record # "damaged"
        BY <1>1, <2>1, <2>3 DEF Published, Publishable, StageOK, RecordReadable
      <3>2. /\ record' = stage /\ loc' = loc /\ act'[a].pc = p /\ act'[a].stage = stage
            /\ act'[a].pin = act[a].pin /\ act'[a].held = act[a].held /\ ~Builder(a)'
        BY <1>1, <2>1, <2>3 DEF Published, Builder
      <3>3. StageOK(a)'
        BY <1>1, <1>5, <2>1, <3>1, <3>2 DEF StageOK, StageAt
      <3>4. GoneOK(a)'
        BY <1>1, <1>5, <3>2 DEF GoneOK
      <3>5. RecordOK' /\ (Gone => Gone')
        BY <1>1, <1>2, <1>5, <3>1, <3>2 DEF RecordOK, Gone, StageOK, StageAt
      <3>6. QED
        BY <1>5, <3>1, <3>2, <3>3, <3>4, <3>5
    <2>4. QED
      BY <1>1, <1>5, <2>2, <2>3, PublishShape DEF Elsewhere
  <1>6. CASE Open(a)
    <2>1. act[a].pc = "open" /\ UNCHANGED disk
      <3>1. act[a].pc = "open"
        BY <1>6 DEF Open, At
      <3>2. \/ Refuse(a) \/ UNCHANGED disk \/ \E n \in NamesOf(record) : Pinned(a, n)
        BY <1>6 DEF Open
      <3>3. QED
        BY <3>1, <3>2, Zenon DEF Refuse, Pinned
    <2>2. RecordOK' /\ (Gone => Gone') /\ record' = record
      BY <1>1, <1>2, <2>1 DEF RecordOK, Gone, disk
    <2>3. CASE Refuse(a)
      BY <2>1, <2>3, <1>4 DEF Refuse, disk
    <2>4. ASSUME NEW p \in {"done", "dirRetire"}, Goto(a, p), ~Closing(a), phase # "intent" \/ p = "dirRetire" => Gone
          PROVE  StageOK(a)' /\ GoneOK(a)'
      <3>1. /\ act'[a].pc = p /\ act'[a].pin = act[a].pin /\ act'[a].stage = act[a].stage
            /\ act'[a].fresh = act[a].fresh /\ act'[a].held = "none"
        BY <1>1, <2>4, GotoShape
      <3>2. QED
        BY <1>1, <1>2, <1>3, <2>1, <2>2, <2>4, <3>1 DEF StageOK, StageAt, GoneOK, Builder, disk, Gone
    <2>5. ASSUME NEW n \in NamesOf(record), Pinned(a, n), record \notin {"none", "intent", "damaged"}
          PROVE  StageOK(a)' /\ GoneOK(a)'
      <3>1. PICK p : p = FirstRemovalStep(record)
        OBVIOUS
      <3>2. /\ p \in {"linkIsolate", "dirIsolate", "refuse", "sockIsolate", "releaseIntent", "move"}
            /\ p = "releaseIntent" => record = "active"
            /\ p = "move" => record \in {"releaseIntent", "releasing"}
        <4>1. AfterSocket \in {"linkIsolate", "dirIsolate"}
          BY DEF AfterSocket
        <4>2. QED
          BY <1>1, <2>5, <3>1, <4>1 DEF FirstRemovalStep, DiskTyped, Stages
      <3>3. n \in Names
        BY DEF NamesOf, Names
      <3>4. /\ act'[a].pc = p /\ act'[a].pin = n /\ act'[a].stage = record
            /\ act'[a].held = act[a].held
        <4>1. PICK h : h = act[a]
          OBVIOUS
        <4>2. PICK s : s = record
          OBVIOUS
        <4>3. PICK r : r = [h EXCEPT !.pin = n, !.stage = s, !.fresh = TRUE, !.pc = p]
          OBVIOUS
        <4>4. act' = [act EXCEPT ![a] = r]
          BY <2>5, <3>1, <4>1, <4>2, <4>3 DEF Pinned
        <4>5. h \in Acts
          BY <1>1, <4>1
        <4>6. QED
          BY <1>1, <4>1, <4>2, <4>3, <4>4, <4>5 DEF Acts
      <3>5. QED
        BY <1>1, <1>3, <2>1, <2>2, <3>2, <3>3, <3>4 DEF StageOK, StageAt, GoneOK, Builder, Names
    <2>6. \/ Refuse(a)
          \/ \E p \in {"done", "dirRetire"} :
                Goto(a, p) /\ ~Closing(a) /\ (phase # "intent" \/ p = "dirRetire" => Gone)
          \/ \E n \in NamesOf(record) : Pinned(a, n) /\ record \notin {"none", "intent", "damaged"}
      <3>1. CASE record \in {"none", "intent"}
        BY <1>1, <1>6, <3>1 DEF Open, RecordReadable, RecordOK, Gone, Occupied, Names, DiskTyped
      <3>2. CASE record \notin {"none", "intent", "damaged"}
        <4>1. PICK found : found = {n \in NamesOf(record) : Occupied(n)}
          OBVIOUS
        <4>2. found = {} => Gone
          BY <1>1, <3>2, <4>1 DEF NamesOf, Occupied, RecordOK, Gone, DiskTyped, Names, Stages
        <4>3. CASE found = {}
          BY <1>6, <3>2, <4>1, <4>2, <4>3 DEF Open, RecordReadable, IsolationFound
        <4>4. CASE found # {}
          BY <1>6, <3>2, <4>1, <4>4 DEF Open, RecordReadable
        <4>5. QED
          BY <4>3, <4>4
      <3>3. CASE record = "damaged"
        BY <1>6, <3>3 DEF Open, RecordReadable
      <3>4. QED
        BY <3>1, <3>2, <3>3
    <2>7. QED
      BY <2>1, <2>2, <2>3, <2>4, <2>5, <2>6
  <1>7. CASE PublishReleaseIntent(a)
    BY <1>7, <1>5 DEF PublishReleaseIntent, At, Stages
  <1>8. CASE InspectMove(a) \/ Move(a)
    <2>1. act[a].pc = "move" /\ record' = record /\ record \in {"releaseIntent", "releasing", "damaged"}
          /\ act[a].pin # "none" /\ ~Builder(a)
      BY <1>1, <1>3, <1>8
      DEF InspectMove, Move, Inspecting, Renaming, At, Refuse, Hold, disk, StageOK
    <2>2. ASSUME Goto(a, "stageMoved"), UNCHANGED disk
          PROVE  StageOK(a)' /\ GoneOK(a)' /\ RecordOK' /\ (Gone => Gone')
      <3>1. /\ act'[a].pc = "stageMoved" /\ act'[a].pin = act[a].pin /\ act'[a].stage = act[a].stage
            /\ act'[a].fresh = act[a].fresh /\ act'[a].held = "none"
        BY <1>1, <2>2, GotoShape
      <3>2. QED
        BY <1>1, <1>2, <2>1, <2>2, <3>1 DEF StageOK, StageAt, GoneOK, Builder, disk, RecordOK, Gone
    <2>3. ASSUME act' = [act EXCEPT ![a] = [@ EXCEPT !.pc = "stageMoved", !.pin = "release",
                                                     !.held = "none"]],
                 loc' = "release", loc = "canonical"
          PROVE  StageOK(a)' /\ GoneOK(a)' /\ RecordOK' /\ (Gone => Gone')
      <3>0. PICK r : r = [act[a] EXCEPT !.pc = "stageMoved", !.pin = "release", !.held = "none"]
        OBVIOUS
      <3>1. /\ act'[a].pc = "stageMoved" /\ act'[a].pin = "release" /\ act'[a].stage = act[a].stage
            /\ act'[a].fresh = act[a].fresh /\ act'[a].held = "none"
        <4>1. /\ r.pc = "stageMoved" /\ r.pin = "release" /\ r.stage = act[a].stage
              /\ r.fresh = act[a].fresh /\ r.held = "none"
          BY <1>1, <3>0 DEF Acts
        <4>2. act'[a] = r
          BY <1>1, <2>3, <3>0
        <4>3. QED
          BY <4>1, <4>2
      <3>2. StageOK(a)' /\ GoneOK(a)'
        BY <1>1, <1>2, <2>1, <3>1 DEF StageOK, StageAt, GoneOK, Builder
      <3>3. RecordOK' /\ (Gone => Gone')
        BY <1>1, <1>2, <2>1, <2>3 DEF RecordOK, Gone, Names
      <3>4. QED
        BY <3>2, <3>3
    <2>4. Isolated(a) \in {"relocate", "sockIsolate"}
      BY DEF Isolated
    <2>5. CASE \E p \in {Isolated(a), "refuse"} : Goto(a, p) /\ UNCHANGED loc
      BY <1>4, <2>1, <2>4, <2>5
    <2>6. CASE Hold(a, "own")
      BY <2>1, <2>6, HoldDisk
    <2>7. CASE InspectMove(a)
      BY <2>1, <2>2, <2>5, <2>6, <2>7 DEF InspectMove, Refuse, disk
    <2>8. CASE Move(a)
      BY <2>1, <2>3, <2>5, <2>8 DEF Move, Refuse, disk
    <2>9. QED
      BY <1>8, <2>7, <2>8
  <1>9. CASE StageMoved(a)
    <2>1. PICK p : p = Isolated(a)
      OBVIOUS
    <2>2. p \in {"relocate", "sockIsolate"}
      BY <2>1 DEF Isolated
    <2>3. QED
      BY <1>9, <2>1, <2>2, <1>5 DEF StageMoved, At, Stages
  <1>10. CASE InspectSocket(a) \/ SockIsolate(a) \/ SockRetire(a)
    <2>1. act[a].pc \in {"sockIsolate", "sockRetire"} /\ UNCHANGED <<record, loc>>
      BY <1>10 DEF InspectSocket, SockIsolate, SockRetire, Inspecting, Renaming, Refuse, Hold, At, disk
    <2>2. act[a].pin # "none"
      BY <1>1, <2>1 DEF StageOK
    <2>3. CASE \E p \in {"sockRetire", "linkIsolate", "refuse"} : Goto(a, p)
      BY <2>1, <2>2, <2>3, <1>4
    <2>4. CASE /\ act[a].pc = "sockIsolate"
               /\ Hold(a, "own") \/ (Hold(a, "foreign") /\ act[a].stage = "creating")
      BY <2>1, <2>4, HoldDisk
    <2>5. CASE InspectSocket(a)
      BY <2>3, <2>4, <2>5 DEF InspectSocket, Inspecting, At, Refuse
    <2>6. CASE SockIsolate(a) \/ SockRetire(a)
      BY <2>3, <2>6 DEF SockIsolate, SockRetire
    <2>7. QED
      BY <1>10, <2>5, <2>6
  <1>11. CASE InspectLink(a) \/ LinkIsolate(a) \/ LinkRetire(a)
    <2>1. LinkGone(act[a].stage) \in {"dirIsolate", "stageDir"}
      BY DEF LinkGone
    <2>2. act[a].pc \in {"linkIsolate", "linkRetire"} /\ UNCHANGED <<record, loc>>
      BY <1>11 DEF InspectLink, LinkIsolate, LinkRetire, Inspecting, Renaming, Refuse, Fail, Hold,
                   At, disk
    <2>3. act[a].pin # "none"
      BY <1>1, <2>2 DEF StageOK
    <2>4. CASE \E p \in {"linkRetire", LinkGone(act[a].stage), "failed", "refuse"} : Goto(a, p)
      BY <2>1, <2>2, <2>3, <2>4, <1>4
    <2>5. CASE Hold(a, "own") /\ act[a].pc = "linkIsolate"
      BY <2>2, <2>5, HoldDisk
    <2>6. QED
      BY <1>11, <2>4, <2>5 DEF InspectLink, Inspecting, At, LinkIsolate, LinkRetire, Fail, Refuse
  <1>12. CASE StageDir(a)
    <2>1. act[a].stage \in Stages
      BY <1>1 DEF Acts
    <2>2. PICK p : p = IF act[a].job = "shutdown" THEN "done" ELSE "dirIsolate"
      OBVIOUS
    <2>3. Publish(a, act[a].stage, TRUE, p) /\ act[a].pc = "stageDir"
      BY <1>12, <2>2 DEF StageDir, At
    <2>4. QED
      BY <2>1, <2>2, <2>3, <1>5
  <1>13. CASE InspectDirectory(a) \/ DirIsolate(a) \/ DirRetire(a)
    <2>1. /\ act[a].pc \in {"dirIsolate", "dirRetire"} /\ record' = record
          /\ ~Builder(a)
          /\ \/ Goto(a, "dirRetire") /\ Gone' /\ act[a].pc = "dirIsolate"
             \/ Goto(a, "done") /\ Gone' /\ act[a].pc = "dirRetire"
             \/ Goto(a, "refuse") /\ UNCHANGED loc
             \/ Hold(a, "own") /\ act[a].pc = "dirIsolate"
      <3>1. CASE InspectDirectory(a)
        BY <3>1, <1>3 DEF InspectDirectory, Inspecting, Refuse, Hold, At, disk, Gone, Names, IsolationFound
      <3>2. CASE DirIsolate(a)
        BY <3>2, <1>3 DEF DirIsolate, Renaming, At, Gone, Names
      <3>3. CASE DirRetire(a)
        BY <3>3, <1>1, <1>3 DEF DirRetire, Refuse, At, disk, Gone, Names, GoneOK
      <3>4. QED
        BY <1>13, <3>1, <3>2, <3>3
    <2>2. CASE Goto(a, "refuse") /\ UNCHANGED loc
      BY <2>1, <2>2, <1>4
    <2>5. CASE Hold(a, "own") /\ act[a].pc = "dirIsolate"
      BY <2>1, <2>5, HoldDisk
    <2>3. ASSUME NEW p \in {"dirRetire", "done"}, Goto(a, p), Gone'
          PROVE  StageOK(a)' /\ GoneOK(a)' /\ RecordOK'
      <3>1. /\ act'[a].pc = p /\ act'[a].pin = act[a].pin /\ act'[a].stage = act[a].stage
            /\ act'[a].fresh = act[a].fresh /\ act'[a].held = "none"
        BY <1>1, <2>3, GotoShape
      <3>2. StageOK(a)' /\ GoneOK(a)'
        BY <1>1, <2>1, <2>3, <3>1 DEF StageOK, StageAt, GoneOK, Builder
      <3>3. RecordOK'
        BY <1>1, <1>2, <2>1, <2>3 DEF RecordOK, Gone, Names
      <3>4. QED
        BY <3>2, <3>3
    <2>4. QED
      BY <2>1, <2>2, <2>3, <2>5
  <1>14. act[a].pc \in Approach \cup Taking
    BY DEF Removal, Open, PublishReleaseIntent, InspectMove, Move, StageMoved, InspectSocket,
           SockIsolate, SockRetire, InspectLink, LinkIsolate, LinkRetire, StageDir,
           InspectDirectory, DirIsolate, DirRetire, Inspecting, Renaming, At
  <1>15. QED
    BY <1>6, <1>7, <1>8, <1>9, <1>10, <1>11, <1>12, <1>13, <1>14 DEF Removal

LEMMA CreationDisk ==
  ASSUME Control, Disk, NEW a \in Actors, Creation(a), UNCHANGED <<memory, durable>>
  PROVE  StageOK(a)' /\ GoneOK(a)' /\ RecordOK' /\ act[a].pc \in Making
  <1> USE DEF Making, Inspected
  <1>1. /\ DiskTyped /\ act \in [Actors -> Acts] /\ StageOK(a) /\ GoneOK(a) /\ RecordOK
        /\ Moved(a) /\ act'[a].job = act[a].job
    BY CreationShape DEF Control, Typed, TypeOK, DiskTyped, Disk, Moved
  <1>2. phase' = phase /\ entry' = entry /\ releaseErr' = releaseErr
    BY DEF memory, durable
  <1>3. act[a].pc \in Making
    BY DEF Creation, Begin, PublishIntent, MakeDirectory, BindDirectory, LinkGeneration, PublishCreating,
           Listen, SecureSocket, PublishListening, InspectStaged, PublishDirectory, PublishActive,
           Inspecting, Renaming, At
  <1>4. /\ phase \notin {"removal", "cleaned"} /\ entry = "none"
        /\ (act[a].job = "prepare" /\ phase = "intent") \/ act[a].job = "restore"
    BY <1>3, MakingIsBuilding, BuildingAlone
    DEF Building, Builder, Actors, Control, CallerOK, RunOK, PrepareOK, RecoverOK, ModeOK
  <1>5. ASSUME Goto(a, "failed"), UNCHANGED <<record, loc>>
        PROVE  StageOK(a)' /\ GoneOK(a)' /\ RecordOK'
    <2>1. /\ act'[a].pc = "failed" /\ act'[a].pin = act[a].pin /\ act'[a].stage = act[a].stage
          /\ act'[a].fresh = act[a].fresh /\ act'[a].held = "none"
      BY <1>1, <1>5, GotoShape DEF Ended
    <2>2. QED
      BY <1>1, <1>2, <1>4, <1>5, <2>1 DEF StageOK, StageAt, GoneOK, RecordOK, Gone, Builder, Approach, Taking
  <1>6. ASSUME NEW p \in {"bind", "bindLink", "secure", "bindSocket", "activate"}, Goto(a, p), record' = record,
               \/ p = "bind" /\ act[a].pc = "mkdir" /\ loc' = "creation"
               \/ p = "bindLink" /\ act[a].pc = "linkIn" /\ loc' = loc
               \/ p = "secure" /\ act[a].pc = "listen" /\ loc' = loc
               \/ p = "bindSocket" /\ act[a].pc = "secure" /\ loc' = loc
               \/ p = "activate" /\ act[a].pc = "publishDir" /\ loc' = "canonical"
        PROVE  StageOK(a)' /\ GoneOK(a)' /\ RecordOK'
    <2>1. /\ act'[a].pc = p /\ act'[a].pin = act[a].pin /\ act'[a].stage = act[a].stage
          /\ act'[a].fresh = act[a].fresh /\ act'[a].held = "none"
      BY <1>1, <1>6, GotoShape
    <2>2. StageOK(a)'
      BY <1>1, <1>6, <2>1 DEF StageOK, StageAt, Builder, Approach, Taking
    <2>3. GoneOK(a)'
      BY <1>6, <2>1 DEF GoneOK
    <2>4. /\ record \in {act[a].stage, "damaged"}
          /\ StageAt(act[a].pc, act[a].stage)
      BY <1>1, <1>6 DEF StageOK
    <2>5. CASE loc' = loc
      BY <1>1, <1>2, <2>2, <2>3, <2>5, <1>6 DEF RecordOK, Gone
    <2>6. CASE loc' # loc
      BY <1>2, <1>4, <1>6, <2>2, <2>3, <2>4, <2>6 DEF RecordOK, Gone, StageAt
    <2>7. QED
      BY <2>2, <2>3, <2>5, <2>6
  <1>7. ASSUME NEW stage \in Stages, NEW restamp, NEW p \in Making \cup {"done"},
               Publish(a, stage, restamp, p),
               \/ p = "mkdir" /\ act[a].pc = "intent" /\ stage = "intent"
               \/ p = "linkIn" /\ act[a].pc = "bind" /\ stage = "bound"
               \/ p = "listen" /\ act[a].pc = "bindLink" /\ stage = "creating"
               \/ p = "publishDir" /\ act[a].pc = "bindSocket" /\ stage = "listening"
               \/ p = "done" /\ act[a].pc = "activate" /\ stage = "active"
        PROVE  StageOK(a)' /\ GoneOK(a)' /\ RecordOK'
    <2>1. act[a].pin = "creation" /\ act[a].fresh
      BY <1>1, <1>7 DEF StageOK
    <2>2. CASE NotPublished(a)
      BY <1>1, <1>2, <1>7, <2>1, <2>2
      DEF NotPublished, StageOK, StageAt, GoneOK, RecordOK, Gone, Builder, disk, Approach, Taking
    <2>3. CASE Published(a, stage, restamp, p)
      <3>1. /\ record' = stage /\ loc' = loc /\ act'[a].pc = p /\ act'[a].stage = stage
            /\ act'[a].pin = "creation" /\ act'[a].fresh /\ act'[a].held = act[a].held
        BY <1>1, <2>1, <2>3 DEF Published
      <3>2. StageOK(a)'
        BY <1>1, <1>7, <3>1 DEF StageOK, StageAt, Approach, Taking, Builder
      <3>3. GoneOK(a)'
        BY <1>1, <1>4, <1>7, <3>1 DEF GoneOK, Gone
      <3>4. CASE stage = "intent"
        BY <1>1, <1>2, <1>4, <1>7, <3>1, <3>2, <3>3, <3>4 DEF RecordOK, Gone, GoneOK, StageOK, Names
      <3>5. CASE stage # "intent"
        <4>1. loc \in {"creation", "none"} \/ (stage = "active" /\ loc \in {"canonical", "none"})
          BY <1>1, <1>7, <3>5 DEF StageOK
        <4>2. stage \in {"bound", "creating", "listening", "active"}
          BY <1>7, <3>5
        <4>3. stage = "active" => loc # "creation"
          BY <1>1, <1>7 DEF StageOK
        <4>4. QED
          BY <1>2, <1>4, <3>1, <3>2, <3>3, <4>1, <4>2, <4>3 DEF RecordOK
      <3>6. QED
        BY <3>2, <3>3, <3>4, <3>5
    <2>4. QED
      BY <1>1, <1>7, <2>2, <2>3, PublishShape DEF Ended
  <1>8. CASE Begin(a)
    <2>1. act[a].pc = "create" /\ UNCHANGED disk
      BY <1>8 DEF Begin, At, Fail
    <2>2. RecordOK'
      BY <1>1, <1>2, <2>1 DEF RecordOK, Gone, disk
    <2>3. ASSUME NEW p \in {"intent", "linkIn", "listen"},
                 act' = [act EXCEPT ![a] = [@ EXCEPT !.stage = record, !.fresh = TRUE,
                                                     !.pin = "creation", !.pc = p]],
                 p = "intent" => loc \notin {"creation", "canonical"},
                 p = "linkIn" => record = "bound" /\ loc = "creation",
                 p = "listen" => record = "creating" /\ loc = "creation"
          PROVE  StageOK(a)' /\ GoneOK(a)'
      <3>1. PICK h : h = act[a]
        OBVIOUS
      <3>2. PICK s : s = record
        OBVIOUS
      <3>3. PICK r : r = [h EXCEPT !.stage = s, !.fresh = TRUE, !.pin = "creation", !.pc = p]
        OBVIOUS
      <3>4. h \in Acts
        BY <1>1, <3>1
      <3>5. r.pc = p /\ r.job = h.job /\ r.pin = "creation" /\ r.stage = s /\ r.fresh /\ r.held = h.held
        BY <3>3, <3>4 DEF Acts
      <3>6. act' = [act EXCEPT ![a] = r]
        BY <2>3, <3>1, <3>2, <3>3
      <3>7. act'[a] = r
        BY <1>1, <3>6
      <3>8. QED
        BY <1>1, <1>2, <1>4, <2>1, <2>3, <3>1, <3>2, <3>5, <3>7
           DEF StageOK, StageAt, GoneOK, Gone, Builder, disk, Approach, Taking
    <2>4. \/ Fail(a)
          \/ \E p \in {"intent", "linkIn", "listen"} :
                /\ act' = [act EXCEPT ![a] = [@ EXCEPT !.stage = record, !.fresh = TRUE,
                                                       !.pin = "creation", !.pc = p]]
                /\ p = "intent" => loc \notin {"creation", "canonical"}
                /\ p = "linkIn" => record = "bound" /\ loc = "creation"
                /\ p = "listen" => record = "creating" /\ loc = "creation"
      BY <1>8 DEF Begin, Occupied
    <2>5. CASE Fail(a)
      BY <2>5, <1>3, <1>5 DEF Fail, disk
    <2>6. QED
      BY <1>3, <2>2, <2>3, <2>4, <2>5
  <1>9. CASE MakeDirectory(a)
    BY <1>9, <1>5, <1>6 DEF MakeDirectory, Fail, At, disk
  <1>10. CASE LinkGeneration(a) \/ Listen(a) \/ SecureSocket(a)
    BY <1>10, <1>5, <1>6 DEF LinkGeneration, Listen, SecureSocket, Fail, At, disk
  <1>11. CASE InspectStaged(a) \/ PublishDirectory(a)
    BY <1>3, <1>11, <1>5, <1>6, HoldDisk
    DEF InspectStaged, PublishDirectory, FailListening, Inspecting, Renaming, At
  <1>12. CASE PublishIntent(a) \/ BindDirectory(a) \/ PublishCreating(a)
    BY <1>12, <1>7 DEF PublishIntent, BindDirectory, PublishCreating, At, Stages
  <1>13. CASE PublishListening(a)
    BY <1>13, <1>5, <1>7 DEF PublishListening, FailListening, At, Stages
  <1>14. CASE PublishActive(a)
    BY <1>14, <1>5, <1>7 DEF PublishActive, FailListening, At, Stages
  <1>15. QED
    BY <1>3, <1>8, <1>9, <1>10, <1>11, <1>12, <1>13, <1>14 DEF Creation

LEMMA DirectoryDisk ==
  ASSUME Control, Disk, NEW a \in Actors,
         \/ DirectoryStep(a)
         \/ Relocate(a)
         \/ Failing(a)
  PROVE  Disk'
  <1>1. Moved(a) /\ Forward(a) /\ UNCHANGED <<memory, durable>>
    BY DirectoryWorks
  <1>2. act \in [Actors -> Acts] /\ StageOK(a) /\ GoneOK(a) /\ RecordOK
    BY DEF Control, Typed, Disk
  <1>3. CASE Removal(a) /\ UNCHANGED <<memory, durable>>
    BY <1>1, <1>3, RemovalDisk, PeersDisk DEF Disk
  <1>4. CASE Creation(a) /\ UNCHANGED <<memory, durable>>
    BY <1>1, <1>4, CreationDisk, PeersDisk DEF Disk
  <1>5. ASSUME NEW p \in {"isolated", "refuse", "failed"}, Goto(a, p), UNCHANGED <<record, loc>>,
               act[a].pc \in Making \cup Approach \cup Taking \cup {"relocate"},
               p = "isolated" => act[a].pc = "relocate"
        PROVE  Disk'
    <2>1. /\ act'[a].pc = p /\ act'[a].pin = act[a].pin /\ act'[a].stage = act[a].stage
          /\ act'[a].fresh = act[a].fresh /\ act'[a].job = act[a].job /\ act'[a].held = "none"
      BY <1>2, <1>5, GotoShape DEF Ended, Elsewhere
    <2>2. StageOK(a)' /\ GoneOK(a)'
      BY <1>2, <1>5, <2>1 DEF StageOK, StageAt, GoneOK, Builder, Making, Approach, Taking
    <2>3. RecordOK'
      BY <1>1, <1>2, <1>5 DEF RecordOK, Gone, memory, durable
    <2>4. Gone => Gone'
      BY <1>5 DEF Gone
    <2>5. QED
      BY <1>1, <1>5, <2>2, <2>3, <2>4, PeersDisk DEF Disk
  <1>6. CASE Relocate(a)
    BY <1>5, <1>6 DEF Relocate, At, disk
  <1>7. CASE IOError(a)
    BY <1>5, <1>7 DEF IOError, Fail, FailListening, disk, Making, Approach, Taking
  <1>8. CASE UnprovenError(a)
    <2>1. CASE Refuse(a)
      <3>1. act[a].pc \in Making \cup Approach \cup Taking \cup {"relocate"}
        BY <1>8 DEF UnprovenError, Unsynchronized, FailActive, At, Making, Approach, Taking
      <3>2. QED
        BY <1>5, <2>1, <3>1 DEF Refuse, disk
    <2>2. CASE FailActive(a)
      <3>1. Overwrite(a, "active", "failed", TRUE) /\ act[a].pc = "activate" /\ loc = "canonical"
            /\ loc' = loc
        BY <2>2 DEF FailActive, At
      <3>2. /\ record' = "active" /\ act'[a].pc = "failed" /\ act'[a].stage = "active"
            /\ act'[a].pin = act[a].pin /\ act'[a].held = act[a].held
        BY <1>2, <3>1, OverwriteShape DEF Ended, Stages
      <3>3. StageOK(a)' /\ GoneOK(a)'
        BY <1>1, <1>2, <3>1, <3>2
        DEF StageOK, StageAt, GoneOK, Builder, Moved, Making, Approach, Taking, Inspected
      <3>4. phase \notin {"removal", "cleaned"}
        BY <3>1, MakingIsBuilding, BuildingAlone
        DEF Making, Building, Builder, Actors, Control, RunOK, RecoverOK
      <3>5. RecordOK'
        BY <1>1, <1>2, <3>1, <3>2, <3>4 DEF RecordOK, memory, durable
      <3>6. QED
        BY <1>1, <3>1, <3>3, <3>5, PeersDisk DEF Disk, Making
    <2>3. QED
      BY <1>8, <2>1, <2>2 DEF UnprovenError
  <1>9. QED
    BY <1>3, <1>4, <1>6, <1>7, <1>8 DEF DirectoryStep, Failing

-----------------------------------------------------------------------------
(* The other steps leave the record and the directory where they are.      *)

Kept ==
    /\ UNCHANGED <<record, loc>>
    /\ phase = "intent" => phase' = "intent" \/ entry = "ready"
    /\ phase' \in {"removal", "cleaned"} => phase \in {"removal", "cleaned"} \/ Gone
    /\ entry' # "none" => entry # "none" \/ record \in {"active", "damaged"}
    /\ entry' = "none" /\ ~releaseErr' => Gone \/ (entry = "none" /\ ~releaseErr) \/ entry = "pending"

LEMMA KeptDisk ==
  ASSUME Control, Disk, Kept, \A b \in Actors : act'[b] = act[b] \/ (StageOK(b)' /\ GoneOK(b)')
  PROVE  Disk'
  <1>1. RecordOK'
    BY DEF Kept, Disk, RecordOK, Gone, Control, EntryOK
  <1>2. ASSUME NEW b \in Actors, act'[b] = act[b]
        PROVE  StageOK(b)' /\ GoneOK(b)'
    <2>1. StageOK(b) /\ GoneOK(b)
      BY DEF Disk
    <2>2. StageOK(b)'
      BY <1>2, <2>1 DEF StageOK, Kept, Builder
    <2>3. phase = "intent" /\ phase' # "intent" => ~(act[b].job \in {"release", "sweep", "recover"} /\ act[b].pc = "done")
      BY RunAssumption
      DEF Kept, Control, CallerOK, ReleaseOK, SweepOK, UnregisterOK, PrepareOK, RunOK, RecoverOK,
          ModeOK, Actors, Retiring
    <2>4. act[b].pc = "join" /\ act[b].job = "release" => entry # "pending"
      BY RunAssumption DEF Control, CallerOK, ReleaseOK, RunOK, Actors
    <2>5. GoneOK(b)'
      BY <1>2, <2>1, <2>3, <2>4 DEF GoneOK, Gone, Kept
    <2>6. QED
      BY <2>2, <2>5
  <1>3. QED
    BY <1>1, <1>2 DEF Disk

LEMMA GotoDisk ==
  ASSUME Control, Disk, NEW a \in Actors, Kept,
         NEW p \in {"create", "register", "registered", "commit", "join", "failed", "refuse", "send", "unproven",
                    "open", "close", "sockIsolate", "stageDir", "authorize"},
         Goto(a, p),
         p \in {"send", "close", "sockIsolate", "stageDir"} => act[a].pin # "none",
         p = "authorize" => Gone,
         p = "create" => act[a].job = "prepare",
         p = "join" /\ act[a].job = "release" => entry' # "none"
  PROVE  Disk'
  <1>1. act \in [Actors -> Acts] /\ StageOK(a) /\ GoneOK(a)
    BY DEF Control, Typed, Disk
  <1>2. /\ Others(a) /\ act'[a].pc = p /\ act'[a].pin = act[a].pin /\ act'[a].stage = act[a].stage
        /\ act'[a].fresh = act[a].fresh /\ act'[a].job = act[a].job /\ act'[a].held = "none"
    BY <1>1, GotoShape DEF Making, Approach, Taking, Ended, Elsewhere
  <1>3. record' = record /\ loc' = loc
    BY DEF Kept
  <1>4. StageOK(a)'
    BY <1>1, <1>2, <1>3 DEF StageOK, StageAt, Builder, Making, Approach, Taking
  <1>5. GoneOK(a)'
    BY <1>1, <1>2, <1>3 DEF GoneOK, Gone
  <1>6. QED
    BY <1>2, <1>4, <1>5, KeptDisk DEF Others

LEMMA StartDisk ==
  ASSUME Control, Disk, NEW a \in Actors, Kept,
         NEW j \in {"prepare", "unregister", "release", "sweep", "recover", "restore", "shutdown"},
         NEW p \in {"create", "lock", "open", "authorize"},
         Start(a, j, p),
         p \in {"create", "authorize"} => Gone
  PROVE  Disk'
  <1>1. act \in [Actors -> Acts]
    BY DEF Control, Typed
  <1>2. /\ Others(a) /\ act'[a].pc = p /\ act'[a].pin = "none" /\ act'[a].stage = "none"
        /\ act'[a].job = j /\ act'[a].held = "none"
    BY <1>1, StartShape DEF Making, Approach, Taking, Ended, Elsewhere
  <1>3. StageOK(a)' /\ GoneOK(a)'
    BY <1>2 DEF StageOK, StageAt, Builder, Making, Approach, Taking, GoneOK, Gone, Kept
  <1>4. QED
    BY <1>2, <1>3, KeptDisk DEF Others

LEMMA ReturnDisk ==
  ASSUME Control, Disk, NEW a \in Actors, Kept, Return(a)
  PROVE  Disk'
  <1>1. act \in [Actors -> Acts]
    BY DEF Control, Typed
  <1>2. Others(a) /\ act'[a] = Idle
    BY <1>1, ReturnShape
  <1>3. StageOK(a)' /\ GoneOK(a)'
    BY <1>2, IdleIsTyped DEF StageOK, StageAt, Builder, Making, Approach, Taking, GoneOK
  <1>4. QED
    BY <1>2, <1>3, KeptDisk DEF Others

LEMMA PrepareDisk ==
  ASSUME Control, Disk, NEW c \in Callers,
         \/ PrepareCall(c) \/ PrepareLock(c) \/ PrepareListening(c) \/ Register(c)
         \/ Registered(c) \/ PrepareJoin(c) \/ CommitPreparedTask(c) \/ PrepareFailed(c)
  PROVE  Disk'
  <1> USE DEF disk, memory, durable, Doing
  <1>1. c \in Actors /\ PrepareOK(c) /\ StageOK(c) /\ GoneOK(c)
    BY DEF Actors, Control, CallerOK, Disk
  <1>2. CASE PrepareCall(c)
    <2>1. Kept
      BY <1>2 DEF PrepareCall, Kept
    <2>2. QED
      BY <1>1, <1>2, <2>1, StartDisk DEF PrepareCall
  <1>3. CASE PrepareLock(c)
    <2>1. Kept
      BY <1>3 DEF PrepareLock, Kept
    <2>2. Return(c) \/ \E p \in {"create", "commit", "join", "failed"} : Goto(c, p)
      BY <1>3 DEF PrepareLock
    <2>3. act[c].job = "prepare"
      BY <1>3 DEF PrepareLock
    <2>4. QED
      BY <1>1, <2>1, <2>2, <2>3, GotoDisk, ReturnDisk
  <1>4. CASE PrepareListening(c)
    <2>1. Kept
      BY <1>1, <1>4 DEF PrepareListening, Kept, StageOK, Builder
    <2>2. QED
      BY <1>1, <1>4, <2>1, GotoDisk DEF PrepareListening
  <1>5. CASE Register(c)
    <2>1. Kept
      BY <1>5 DEF Register, Kept
    <2>2. QED
      BY <1>1, <1>5, <2>1, GotoDisk, StartDisk DEF Register
  <1>6. CASE Registered(c)
    <2>1. Kept
      BY <1>1, <1>6 DEF Registered, Kept, PrepareOK
    <2>2. QED
      BY <1>1, <1>6, <2>1, GotoDisk, StartDisk DEF Registered
  <1>7. CASE PrepareJoin(c)
    <2>1. Kept
      BY <1>7 DEF PrepareJoin, Kept
    <2>2. QED
      BY <1>1, <1>7, <2>1, GotoDisk, ReturnDisk DEF PrepareJoin
  <1>8. CASE CommitPreparedTask(c)
    <2>1. Kept
      BY <1>1, <1>8 DEF CommitPreparedTask, Kept, PrepareOK
    <2>2. QED
      BY <1>1, <1>8, <2>1, ReturnDisk DEF CommitPreparedTask
  <1>9. CASE PrepareFailed(c)
    <2>1. Kept
      BY <1>9 DEF PrepareFailed, Kept
    <2>2. QED
      BY <1>1, <1>9, <2>1, ReturnDisk DEF PrepareFailed
  <1>10. QED
    BY <1>2, <1>3, <1>4, <1>5, <1>6, <1>7, <1>8, <1>9

LEMMA CleanupDisk ==
  ASSUME Control, Disk, NEW c \in Callers,
         \/ UnregisterClose(c) \/ UnregisterEnd(c)
         \/ ReleaseCall(c) \/ ReleaseLock(c) \/ ReleaseJoin(c) \/ ReleasePinned(c)
         \/ ReleaseSend(c) \/ ReleaseClose(c) \/ ReleaseUnproven(c) \/ ReleaseEnd(c)
         \/ SweepEnd(c) \/ AuthorizeRemoval(c)
  PROVE  Disk'
  <1> USE DEF disk, memory, durable, Doing
  <1>1. c \in Actors /\ UnregisterOK(c) /\ ReleaseOK(c) /\ SweepOK(c) /\ StageOK(c) /\ GoneOK(c)
    BY DEF Actors, Control, CallerOK, Disk
  <1>2. act[c].pc \in {"isolated", "close", "send"} => act[c].pin # "none"
    BY <1>1 DEF StageOK
  <1>3. CASE UnregisterClose(c)
    <2>1. Kept
      BY <1>3 DEF UnregisterClose, Kept
    <2>2. QED
      BY <1>1, <1>2, <1>3, <2>1, GotoDisk DEF UnregisterClose
  <1>4. CASE UnregisterEnd(c)
    <2>1. Kept
      BY <1>1, <1>4 DEF UnregisterEnd, Kept, UnregisterOK
    <2>2. QED
      BY <1>1, <1>4, <2>1, ReturnDisk DEF UnregisterEnd
  <1>5. CASE ReleaseCall(c)
    <2>1. Kept
      BY <1>5 DEF ReleaseCall, Kept
    <2>2. QED
      BY <1>1, <1>5, <2>1, StartDisk DEF ReleaseCall
  <1>6. CASE ReleaseLock(c)
    <2>1. Kept
      BY <1>6 DEF ReleaseLock, Kept
    <2>2. Return(c) \/ Start(c, "sweep", "open") \/ Goto(c, "open") \/ (Goto(c, "join") /\ entry' # "none")
      BY <1>6 DEF ReleaseLock
    <2>3. QED
      BY <1>1, <2>1, <2>2, StartDisk, GotoDisk, ReturnDisk
  <1>7. CASE ReleaseJoin(c)
    <2>1. Kept
      BY <1>7 DEF ReleaseJoin, Kept
    <2>2. Return(c) \/ (Goto(c, "authorize") /\ Gone)
      BY <1>1, <1>7 DEF ReleaseJoin, GoneOK, ReleaseOK
    <2>3. QED
      BY <1>1, <2>1, <2>2, GotoDisk, ReturnDisk
  <1>8. CASE ReleasePinned(c)
    <2>1. Kept
      BY <1>1, <1>8 DEF ReleasePinned, Kept, ReleaseOK
    <2>2. Goto(c, "unproven") \/ (Goto(c, "send") /\ act[c].pc = "isolated")
      BY <1>8 DEF ReleasePinned
    <2>3. QED
      BY <1>1, <1>2, <2>1, <2>2, GotoDisk
  <1>9. CASE ReleaseSend(c)
    <2>1. Kept
      BY <1>9 DEF ReleaseSend, Kept
    <2>2. QED
      BY <1>1, <1>2, <1>9, <2>1, GotoDisk, ReturnDisk DEF ReleaseSend
  <1>10. CASE ReleaseClose(c)
    <2>1. Kept
      BY <1>10 DEF ReleaseClose, Kept
    <2>2. QED
      BY <1>1, <1>2, <1>10, <2>1, GotoDisk DEF ReleaseClose
  <1>11. CASE ReleaseUnproven(c)
    <2>1. Kept
      BY <1>11 DEF ReleaseUnproven, Kept
    <2>2. QED
      BY <1>1, <1>11, <2>1, ReturnDisk DEF ReleaseUnproven
  <1>12. CASE ReleaseEnd(c)
    <2>1. act[c].pc = "done" => Gone
      BY <1>1, <1>12 DEF ReleaseEnd, GoneOK, ReleaseOK, Retiring
    <2>2. Kept
      BY <1>12, <2>1 DEF ReleaseEnd, Kept
    <2>3. Return(c) \/ (Goto(c, "authorize") /\ Gone)
      BY <1>12, <2>1 DEF ReleaseEnd
    <2>4. QED
      BY <1>1, <2>2, <2>3, GotoDisk, ReturnDisk
  <1>13. CASE SweepEnd(c)
    <2>1. act[c].pc = "done" => Gone
      BY <1>1, <1>13 DEF SweepEnd, GoneOK, SweepOK, Retiring
    <2>2. Kept
      BY <1>13 DEF SweepEnd, Kept
    <2>3. Return(c) \/ (Start(c, "release", "authorize") /\ Gone)
      BY <1>13, <2>1 DEF SweepEnd
    <2>4. QED
      BY <1>1, <2>2, <2>3, StartDisk, ReturnDisk
  <1>14. CASE AuthorizeRemoval(c)
    <2>1. Kept
      BY <1>1, <1>14 DEF AuthorizeRemoval, Kept, GoneOK, Releasable
    <2>2. QED
      BY <1>1, <1>14, <2>1, ReturnDisk DEF AuthorizeRemoval
  <1>15. QED
    BY <1>3, <1>4, <1>5, <1>6, <1>7, <1>8, <1>9, <1>10, <1>11, <1>12, <1>13, <1>14

LEMMA CoordinatorDisk ==
  ASSUME Control, Disk, 
         \/ Boot \/ BeginRecovery \/ RecoveryRemoved \/ RecoveryRestored \/ RecoveryRefused \/ RecoveryFailed
         \/ Shutdown \/ ServerResult \/ Stop \/ CleanupAdvances
  PROVE  Disk'
  <1> USE DEF disk, memory, durable, Doing
  <1>1. Run \in Actors /\ RunOK /\ StageOK(Run) /\ GoneOK(Run) /\ RecordOK
    BY DEF Actors, Control, Disk
  <1>2. CASE Kept /\ act' = act
    BY <1>2, KeptDisk
  <1>3. CASE Boot \/ ServerResult \/ Stopped
    <2>1. Kept /\ act' = act
      BY <1>3 DEF Boot, ServerResult, Stopped, Kept
    <2>2. QED
      BY <2>1, <1>2
  <1>4. CASE CleanupAdvances
    <2>1. Kept /\ act' = act
      BY <1>4 DEF CleanupAdvances, Kept
    <2>2. QED
      BY <2>1, <1>2
  <1>5. CASE BeginRecovery
    <2>1. Kept
      BY <1>5 DEF BeginRecovery, Kept
    <2>2. QED
      BY <1>1, <1>2, <1>5, <2>1, StartDisk DEF BeginRecovery
  <1>6. CASE RecoveryRemoved
    <2>1. Kept
      BY <1>6 DEF RecoveryRemoved, Kept
    <2>2. Return(Run) \/ (Start(Run, "restore", "create") /\ Gone)
      BY <1>1, <1>6 DEF RecoveryRemoved, Restorable, GoneOK
    <2>3. QED
      BY <1>1, <2>1, <2>2, StartDisk, ReturnDisk
  <1>7. CASE RecoveryRestored
    <2>1. Kept
      BY <1>1, <1>7 DEF RecoveryRestored, Kept, StageOK, Builder
    <2>2. QED
      BY <1>1, <1>7, <2>1, ReturnDisk DEF RecoveryRestored
  <1>8. CASE RecoveryRefused \/ RecoveryFailed
    <2>1. Kept /\ Return(Run)
      BY <1>8 DEF RecoveryRefused, RecoveryFailed, Kept
    <2>2. QED
      BY <1>1, <2>1, ReturnDisk
  <1>9. CASE Stop
    <2>1. Kept
      BY <1>9 DEF Stop, Kept
    <2>2. QED
      BY <1>1, <1>2, <1>9, <2>1, StartDisk DEF Stop
  <1>10. CASE ShutdownLock
    <2>1. Kept
      BY <1>10 DEF ShutdownLock, Kept
    <2>2. QED
      BY <1>1, <1>10, <2>1, GotoDisk DEF ShutdownLock
  <1>11. CASE ShutdownPinned
    <2>1. Kept /\ Goto(Run, "stageDir") /\ act[Run].pc = "isolated"
      BY <1>11 DEF ShutdownPinned, Kept
    <2>2. act[Run].pin # "none"
      BY <1>1, <2>1 DEF StageOK
    <2>3. QED
      BY <1>1, <2>1, <2>2, GotoDisk
  <1>12. CASE ShutdownUnproven \/ ShutdownStaged
    <2>1. Kept /\ Return(Run)
      BY <1>12 DEF ShutdownUnproven, ShutdownStaged, Kept
    <2>2. QED
      BY <1>1, <2>1, ReturnDisk
  <1>13. QED
    BY <1>3, <1>4, <1>5, <1>6, <1>7, <1>8, <1>9, <1>10, <1>11, <1>12 DEF Shutdown

LEMMA UpgradeDisk ==
  ASSUME Control, Disk, UpgradeRelayIdentity
  PROVE  Disk'
  <1>1. /\ phase' = phase /\ entry' = entry /\ releaseErr' = releaseErr /\ loc' = loc /\ act' = act
        /\ phase = "task" /\ entry = "none" /\ \A a \in Actors : act[a] = Idle
    BY DEF UpgradeRelayIdentity, Control, ModeOK, memory, Actors
  <1>2. record' = record \/ (record = "none" /\ record' = "intent")
    BY DEF UpgradeRelayIdentity, CompleteRelayUpgrade, RefuseRelayUpgrade
  <1>3. RecordOK'
    BY <1>1, <1>2 DEF Disk, RecordOK, Gone, Names
  <1>4. \A a \in Actors : StageOK(a)' /\ GoneOK(a)'
    BY <1>1, IdleIsTyped DEF StageOK, StageAt, Builder, Making, Approach, Taking, GoneOK
  <1>5. QED
    BY <1>3, <1>4 DEF Disk

LEMMA ProcessEndsDisk ==
  ASSUME Control, Disk, ProcessEnds
  PROVE  Disk'
  <1>1. /\ phase' = phase /\ entry' = "none" /\ loc' = loc /\ record' = record
        /\ \A a \in Actors : act'[a] = Idle
    BY DEF ProcessEnds, disk, durable
  <1>2. RecordOK'
    BY <1>1 DEF Disk, RecordOK, Gone
  <1>3. \A a \in Actors : StageOK(a)' /\ GoneOK(a)'
    BY <1>1, IdleIsTyped DEF StageOK, StageAt, Builder, Making, Approach, Taking, GoneOK
  <1>4. QED
    BY <1>2, <1>3 DEF Disk

\* Somebody else can take the directory away or make the record unreadable, and
\* neither makes the record claim what is not so.
LEMMA InterferenceDisk ==
  ASSUME Control, Disk, Interference
  PROVE  Disk'
  <1>1. /\ phase' = phase /\ entry' = entry /\ releaseErr' = releaseErr /\ act' = act
        /\ loc' \in {loc, "none"} /\ record' \in {record, "damaged"}
    BY DEF Interference, ReplaceDirectory, ReplaceSocket, ReplaceLink, DamageRecord, LoseGeneration,
           Plant, memory, durable
  <1>2. Gone => Gone'
    BY <1>1 DEF Gone, Names
  <1>3. RecordOK'
    BY <1>1, <1>2 DEF Disk, RecordOK, Gone, Names
  <1>4. ASSUME NEW a \in Actors
        PROVE  StageOK(a)' /\ GoneOK(a)'
    <2>1. StageOK(a) /\ GoneOK(a)
      BY DEF Disk
    <2>2. StageOK(a)'
      BY <1>1, <2>1 DEF StageOK, Builder
    <2>3. GoneOK(a)'
      BY <1>1, <1>2, <2>1 DEF GoneOK
    <2>4. QED
      BY <2>2, <2>3
  <1>5. QED
    BY <1>3, <1>4 DEF Disk

LEMMA InitDisk == Init => Disk
  <1> SUFFICES ASSUME Init PROVE Disk
    OBVIOUS
  <1>1. /\ \A a \in Actors : act[a] = Idle
        /\ loc = "none" /\ record = "none" /\ entry = "none"
    BY DEF Init
  <1>2. RecordOK
    BY <1>1 DEF RecordOK, Gone, Names
  <1>3. \A a \in Actors : StageOK(a) /\ GoneOK(a)
    BY <1>1, IdleIsTyped DEF StageOK, StageAt, Builder, Making, Approach, Taking, GoneOK
  <1>4. QED
    BY <1>2, <1>3 DEF Disk

LEMMA NextDisk ==
  ASSUME Control, Disk, [Next]_vars
  PROVE  Disk'
  <1>1. ASSUME NEW a \in Actors,
               DirectoryStep(a) \/ Relocate(a) \/ Failing(a)
        PROVE  Disk'
    BY <1>1, DirectoryDisk
  <1>2. CASE RunStep
    BY <1>2, <1>1, CoordinatorDisk, UpgradeDisk DEF RunStep, Recovery, Actors
  <1>3. CASE Stop \/ CleanupAdvances
    BY <1>3, CoordinatorDisk
  <1>4. CASE Interference
    BY <1>4, InterferenceDisk
  <1>5. CASE Exit \/ Crash
    BY <1>5, ProcessEndsDisk DEF Exit, Crash
  <1>6. ASSUME NEW c \in Callers, CallerStep(c) \/ PrepareCall(c) \/ ReleaseCall(c)
        PROVE  Disk'
    BY <1>6, <1>1, PrepareDisk, CleanupDisk DEF CallerStep, Actors
  <1>7. CASE UNCHANGED vars
    <2>1. Kept /\ act' = act
      BY <1>7 DEF vars, disk, memory, durable, Kept
    <2>2. QED
      BY <2>1, KeptDisk
  <1>8. QED
    BY <1>1, <1>2, <1>3, <1>4, <1>5, <1>6, <1>7 DEF Next, Failing

(* AuthorizeTaskCleanupRemoval comes only after a release or a sweep that  *)
(* left no attachment, and recovery restores none for such a task.         *)
THEOREM RemovalLeavesNothing == Spec => []NothingServesAfterRemoval
  <1>1. Init => Control /\ Disk
    BY InitControl, InitDisk
  <1>2. Control /\ Disk /\ [Next]_vars => (Control /\ Disk)'
    BY NextControl, NextDisk
  <1>3. Control /\ Disk => NothingServesAfterRemoval
    BY DEF NothingServesAfterRemoval, Control, EntryOK, Disk, RecordOK, Gone
  <1>4. QED
    BY <1>1, <1>2, <1>3, PTL DEF Spec

-----------------------------------------------------------------------------
(* Served: an attachment is whole from its publication (PublishActive)     *)
(* until somebody, under the mutex or after having taken its entry over,   *)
(* begins to remove it.                                                    *)

Whole == record = "active" /\ loc = "canonical" /\ link = "linked" /\ sock = "held"
Offered == run = "running" /\ mu = "free" /\ server = "active" /\ entry \in {"ready", "recovered"}
Handed(a) ==
    /\ Builder(a)
    /\ act[a].pc \in {"done", "register"} \/ (act[a].pc = "registered" /\ run = "running")

Served == "interference" \notin cause => ((Offered \/ \E a \in Actors : Handed(a)) => Whole)

Remover(a) == act[a].job \in {"unregister", "release", "sweep", "recover", "shutdown"}

\* Nobody removes what another actor has just published.
LEMMA RemovingAlone ==
  ASSUME Control, NEW a \in Actors, Remover(a), NEW b \in Actors
  PROVE  ~Handed(b)
  <1> SUFFICES ASSUME Handed(b) PROVE FALSE
    OBVIOUS
  <1>1. b # a
    BY DEF Handed, Builder, Remover
  <1>2. CASE act[b].pc = "done"
    <2>1. act[a].job \in {"idle", "prepare"}
      BY <1>1, <1>2, BuildingAlone DEF Handed, Building
    <2>2. QED
      BY <2>1 DEF Remover
  <1>3. CASE act[b].pc \in {"register", "registered"}
    <2>1. b \in Callers
      BY <1>3 DEF Handed, Builder, Actors, Control, RunOK, RecoverOK, Making, Ended
    <2>2. act[b].job = "prepare" /\ entry = "pending" /\ Registering(b) /\ phase = "intent"
      BY <1>3, <2>1 DEF Handed, Builder, Control, CallerOK, PrepareOK, EntryOK, Registering
    <2>3. CASE a = Run
      BY <1>3, <2>1, <2>2, <2>3
      DEF Remover, Handed, Control, RunOK, RecoverOK, ShutdownOK, CallerOK, PrepareOK, ModeOK
    <2>4. CASE a \in Callers
      <3>1. act[a].job = "unregister"
        BY <2>2, <2>4 DEF Remover, Control, CallerOK, ReleaseOK, SweepOK, Retiring
      <3>2. QED
        BY <1>1, <2>1, <2>2, <2>4, <3>1 DEF Registering, Control, OneAtATime
    <2>5. QED
      BY <2>3, <2>4 DEF Actors
  <1>4. QED
    BY <1>2, <1>3 DEF Handed

LEMMA RemovingUnoffered ==
  ASSUME Control, NEW a \in Actors, Remover(a), act[a].pc \in Approach \cup Taking \cup {"relocate"}
  PROVE  ~Offered
  <1>1. CASE a = Run
    BY <1>1 DEF Remover, Offered, Control, RunOK, RecoverOK, ShutdownOK
  <1>2. CASE a \in Callers
    <2>1. CallerOK(a) /\ (act[a].pc \in Taking => Past(a))
      BY <1>2 DEF Control, Past
    <2>2. a # "free"
      BY <1>2, FreeAssumption DEF Actors
    <2>3. CASE act[a].job = "release"
      <3>1. CASE act[a].pc \in Taking
        BY <2>1, <2>3, <3>1 DEF Offered, CallerOK, ReleaseOK, Finishing
      <3>2. CASE act[a].pc \in Approach \cup {"relocate"}
        BY <2>1, <2>2, <2>3, <3>2 DEF Offered, CallerOK, ReleaseOK
      <3>3. QED
        BY <3>1, <3>2
    <2>4. CASE act[a].job \in {"unregister", "sweep"}
      BY <2>1, <2>4 DEF Offered, CallerOK, UnregisterOK, SweepOK
    <2>5. act[a].job \notin {"recover", "shutdown"}
      BY <2>1 DEF CallerOK
    <2>6. QED
      BY <2>3, <2>4, <2>5 DEF Remover
  <1>3. QED
    BY <1>1, <1>2 DEF Actors

LEMMA DirectoryServed ==
  ASSUME Control, Served, NEW a \in Actors,
         \/ DirectoryStep(a)
         \/ Relocate(a)
         \/ Failing(a)
  PROVE  Served'
  <1>1. Moved(a) /\ Forward(a) /\ UNCHANGED <<memory, durable>>
    BY DirectoryWorks
  <1>2. DiskTyped /\ act \in [Actors -> Acts]
    BY DEF Control, Typed, TypeOK, DiskTyped
  <1>3. cause \subseteq cause'
    BY <1>2, RemovalShape
    DEF DirectoryStep, Creation, Begin, PublishIntent, MakeDirectory, BindDirectory, LinkGeneration,
        PublishCreating, Listen, SecureSocket, PublishListening, InspectStaged, PublishDirectory,
        PublishActive, Relocate, Failing, IOError, UnprovenError
  <1>4. run' = run /\ Offered' = Offered /\ act'[a].job = act[a].job
    BY <1>1 DEF memory, Offered, Moved
  <1>5. \A b \in Actors \ {a} : Handed(b)' = Handed(b)
    BY <1>1, <1>4 DEF Moved, Peer, Handed, Builder
  <1>6. CASE act[a].pc \notin Making
    <2>1. act[a].pc \in Approach \cup Taking \cup {"relocate"} /\ ~Builder(a)
      BY <1>1, <1>6, MakingIsBuilding DEF Forward
    <2>2. Remover(a)
      BY <1>2, <2>1, IdleIsTyped DEF Remover, Builder, Control, CallerOK, RunOK, Actors, Approach, Taking
    <2>3. ~Offered /\ \A b \in Actors : ~Handed(b)
      BY <2>1, <2>2, RemovingAlone, RemovingUnoffered
    <2>4. ~Handed(a)'
      BY <1>4, <2>1 DEF Handed, Builder
    <2>5. QED
      BY <1>4, <1>5, <2>3, <2>4 DEF Served
  <1>7. CASE act[a].pc \in Making
    <2>1. Building(a)
      BY <1>7, MakingIsBuilding
    <2>2. \A b \in Actors \ {a} : ~Handed(b)
      BY <2>1, BuildingAlone DEF Handed
    <2>3. ~Offered
      BY <1>7, <2>1
      DEF Offered, Building, Builder, Actors, Control, CallerOK, RunOK, PrepareOK, RecoverOK, ModeOK
    <2>4. CASE act'[a].pc \in Making \cup {"refuse", "failed"}
      <3>1. ~Handed(a)'
        BY <2>4 DEF Handed, Making
      <3>2. QED
        BY <1>4, <1>5, <2>2, <2>3, <3>1 DEF Served
    <2>5. CASE act'[a].pc = "done"
      <3>1. Creation(a)
        <4>1. ~Failing(a)
          BY <1>2, <2>5, IOErrorShape, UnprovenErrorShape DEF Failing
        <4>2. ~Relocate(a)
          BY <1>7 DEF Relocate, At, Making
        <4>3. ~Removal(a)
          BY <1>7
          DEF Removal, Open, PublishReleaseIntent, InspectMove, Move, StageMoved, InspectSocket,
              SockIsolate, SockRetire, InspectLink, LinkIsolate, LinkRetire, StageDir,
              InspectDirectory, DirIsolate, DirRetire, Inspecting, Renaming, At, Making
        <4>4. QED
          BY <4>1, <4>2, <4>3 DEF DirectoryStep
      <3>2. PublishActive(a)
        <4>1. ASSUME NEW p \in Making \cup {"failed", "refuse"}, Goto(a, p)
              PROVE  FALSE
          <5>1. act'[a].pc = p
            BY <1>2, <4>1, GotoShape DEF Ended
          <5>2. QED
            BY <2>5, <4>1, <5>1 DEF Making
        <4>2. ~(Begin(a) /\ ~Fail(a))
          <5>1. ASSUME NEW p \in {"intent", "linkIn", "listen"},
                       act' = [act EXCEPT ![a] = [@ EXCEPT !.stage = record, !.fresh = TRUE,
                                                           !.pin = "creation", !.pc = p]]
                PROVE  FALSE
            <6>1. PICK h : h = act[a]
              OBVIOUS
            <6>2. PICK r : r = [h EXCEPT !.stage = record, !.fresh = TRUE, !.pin = "creation", !.pc = p]
              OBVIOUS
            <6>3. h \in Acts /\ r.pc = p
              BY <1>2, <6>1, <6>2 DEF Acts
            <6>4. act'[a] = r
              BY <1>2, <5>1, <6>1, <6>2
            <6>5. QED
              BY <2>5, <6>3, <6>4
          <5>2. QED
            BY <5>1 DEF Begin
        <4>3. ~Fail(a) /\ ~FailListening(a)
          BY <4>1 DEF Fail, FailListening
        <4>4. ASSUME NEW stage \in Stages, NEW restamp, NEW p \in Making, Publish(a, stage, restamp, p)
              PROVE  FALSE
          <5>1. Published(a, stage, restamp, p) \/ NotPublished(a)
            BY <1>2, <4>4, PublishShape
          <5>2. QED
            BY <2>5, <4>4, <5>1 DEF Published, NotPublished, Making
        <4>5. ~InspectStaged(a)
          <5>1. InspectStaged(a) /\ Hold(a, "own") => act'[a].pc = "publishDir"
            BY <1>2, HoldShape DEF InspectStaged, Inspecting, At
          <5>2. QED
            BY <2>5, <4>3, <5>1 DEF InspectStaged
        <4>6. QED
          BY <3>1, <4>1, <4>2, <4>3, <4>4, <4>5
          DEF Creation, PublishIntent, MakeDirectory, BindDirectory, LinkGeneration,
              PublishCreating, Listen, SecureSocket, PublishListening, PublishDirectory, Making,
              Stages
      <3>3. Whole'
        <4>1. ~FailListening(a)
          <5>1. FailListening(a) => act'[a].pc = "failed"
            BY <1>2, GotoShape DEF FailListening, Ended
          <5>2. QED
            BY <2>5, <5>1
        <4>2. /\ loc = "canonical" /\ sock = "held" /\ link = "linked"
              /\ Publish(a, "active", TRUE, "done")
          BY <3>2, <4>1 DEF PublishActive, GenerationMatches
        <4>3. Published(a, "active", TRUE, "done")
          BY <1>2, <2>5, <4>2, PublishShape DEF NotPublished, Stages, Ended
        <4>4. QED
          BY <4>2, <4>3 DEF Whole, Published
      <3>4. QED
        BY <3>3 DEF Served
    <2>6. QED
      BY <1>1, <1>7, <2>4, <2>5 DEF Forward, Making, Approach, Taking, Ended
  <1>8. QED
    BY <1>6, <1>7

Undisturbed ==
    /\ UNCHANGED <<record, loc, link, sock>> /\ cause \subseteq cause'
    /\ run' = "running" => run \in {"running", "recovering"}
    /\ "interference" \notin cause /\ Offered' => Whole

Turns(a) ==
    \/ act' = act
    \/ Return(a)
    \/ \E j \in {"prepare", "unregister", "release", "sweep", "recover", "restore", "shutdown"},
          p \in {"create", "lock", "open", "authorize"} : Start(a, j, p)
    \/ \E p \in {"create", "commit", "join", "failed", "refuse", "send", "unproven", "open", "close",
                 "sockIsolate", "stageDir", "authorize"} : Goto(a, p)

LEMMA UndisturbedServed ==
  ASSUME Control, Served, Undisturbed,
         \A b \in Actors : act'[b] = act[b] \/ (Handed(b)' /\ "interference" \notin cause => Whole)
  PROVE  Served'
  <1>1. ASSUME NEW b \in Actors, "interference" \notin cause', Handed(b)'
        PROVE  Whole
    <2>1. CASE act'[b] = act[b]
      <3>1. run' = "running" /\ act[b].pc = "registered" => run = "running"
        <4>1. CASE run = "recovering" /\ b \in Callers
          BY <4>1, IdleIsTyped DEF Control, ModeOK
        <4>2. CASE b = Run
          BY <1>1, <2>1, <4>2 DEF Handed, Builder, Control, RunOK, RecoverOK, Making, Ended
        <4>3. QED
          BY <4>1, <4>2 DEF Undisturbed, Actors
      <3>2. Handed(b)
        BY <1>1, <2>1, <3>1 DEF Handed, Builder
      <3>3. QED
        BY <1>1, <3>2 DEF Served, Undisturbed
    <2>2. CASE act'[b] # act[b]
      BY <1>1, <2>2 DEF Undisturbed
    <2>3. QED
      BY <2>1, <2>2
  <1>2. Whole' = Whole
    BY DEF Whole, Undisturbed
  <1>3. QED
    BY <1>1, <1>2 DEF Served, Undisturbed

LEMMA TurnServed ==
  ASSUME Control, Served, Undisturbed, NEW a \in Actors, Turns(a)
  PROVE  Served'
  <1>1. act \in [Actors -> Acts]
    BY DEF Control, Typed
  <1>2. CASE act' = act
    BY <1>2, UndisturbedServed
  <1>3. CASE Others(a) /\ ~Handed(a)'
    BY <1>3, UndisturbedServed DEF Others
  <1>4. CASE Return(a)
    BY <1>1, <1>3, <1>4, ReturnShape, IdleIsTyped DEF Handed
  <1>5. CASE \E j \in {"prepare", "unregister", "release", "sweep", "recover", "restore", "shutdown"},
                p \in {"create", "lock", "open", "authorize"} : Start(a, j, p)
    <2>1. Others(a) /\ act'[a].pc \in {"create", "lock", "open", "authorize"}
      BY <1>1, <1>5, StartShape DEF Making, Approach, Elsewhere
    <2>2. QED
      BY <2>1, <1>3 DEF Handed
  <1>6. CASE \E p \in {"create", "commit", "join", "failed", "refuse", "send", "unproven", "open", "close",
                       "sockIsolate", "stageDir", "authorize"} : Goto(a, p)
    <2>1. Others(a) /\ act'[a].pc \notin {"done", "register", "registered"}
      BY <1>1, <1>6, GotoShape DEF Making, Approach, Taking, Ended, Elsewhere
    <2>2. QED
      BY <2>1, <1>3 DEF Handed
  <1>7. QED
    BY <1>2, <1>4, <1>5, <1>6 DEF Turns

LEMMA CallerServed ==
  ASSUME Control, Served, NEW c \in Callers,
         \/ PrepareCall(c) \/ PrepareLock(c) \/ PrepareListening(c) \/ Register(c)
         \/ Registered(c) \/ PrepareJoin(c) \/ CommitPreparedTask(c) \/ PrepareFailed(c)
         \/ UnregisterClose(c) \/ UnregisterEnd(c)
         \/ ReleaseCall(c) \/ ReleaseLock(c) \/ ReleaseJoin(c) \/ ReleasePinned(c)
         \/ ReleaseSend(c) \/ ReleaseClose(c) \/ ReleaseUnproven(c) \/ ReleaseEnd(c)
         \/ SweepEnd(c) \/ AuthorizeRemoval(c)
  PROVE  Served'
  <1> USE DEF disk, memory, durable, Doing
  <1>1. /\ c \in Actors /\ PrepareOK(c) /\ UnregisterOK(c) /\ ReleaseOK(c) /\ SweepOK(c)
        /\ act \in [Actors -> Acts] /\ c # "free" /\ EntryOK
    BY FreeAssumption DEF Actors, Control, Typed, CallerOK
  <1>2. ASSUME "interference" \notin cause
        PROVE  (Offered \/ Handed(c)) => Whole
    BY <1>1, <1>2 DEF Served
  <1>3. ASSUME NEW p \in {"register", "registered"}, Goto(c, p), Undisturbed,
               "interference" \notin cause => Whole
        PROVE  Served'
    <2>1. Others(c)
      BY <1>1, <1>3, GotoShape DEF Elsewhere
    <2>2. QED
      BY <1>3, <2>1, UndisturbedServed DEF Others
  <1>4. CASE PrepareCall(c) \/ PrepareJoin(c) \/ CommitPreparedTask(c)
    <2>1. Undisturbed
      BY <1>2, <1>4 DEF PrepareCall, PrepareJoin, CommitPreparedTask, Undisturbed, Offered
    <2>2. Turns(c)
      BY <1>4 DEF PrepareCall, PrepareJoin, CommitPreparedTask, Turns
    <2>3. QED
      BY <1>1, <2>1, <2>2, TurnServed
  <1>5. CASE PrepareLock(c) \/ PrepareFailed(c)
    <2>1. Undisturbed
      BY <1>1, <1>2, <1>5 DEF PrepareLock, PrepareFailed, Undisturbed, Offered, PrepareOK
    <2>2. Turns(c)
      BY <1>5 DEF PrepareLock, PrepareFailed, Turns
    <2>3. QED
      BY <1>1, <2>1, <2>2, TurnServed
  <1>6. CASE PrepareListening(c)
    <2>1. Undisturbed
      BY <1>6 DEF PrepareListening, Undisturbed, Offered
    <2>2. Handed(c)
      BY <1>6 DEF PrepareListening, Handed, Builder
    <2>3. QED
      BY <1>2, <1>3, <1>6, <2>1, <2>2 DEF PrepareListening
  <1>7. CASE Register(c)
    <2>1. Handed(c) /\ entry = "pending"
      BY <1>1, <1>7 DEF Register, Handed, Builder, PrepareOK
    <2>2. Undisturbed
      BY <1>2, <1>7, <2>1 DEF Register, Undisturbed, Offered
    <2>3. CASE Goto(c, "registered")
      BY <1>2, <1>3, <2>1, <2>2, <2>3
    <2>4. CASE Start(c, "unregister", "open")
      <3>1. Turns(c)
        BY <2>4 DEF Turns
      <3>2. QED
        BY <1>1, <2>2, <3>1, TurnServed
    <2>5. QED
      BY <1>7, <2>3, <2>4 DEF Register
  <1>8. CASE Registered(c)
    <2>1. run = "running" => Handed(c)
      BY <1>8 DEF Registered, Handed, Builder
    <2>2. Undisturbed
      BY <1>2, <1>8, <2>1 DEF Registered, Undisturbed, Offered
    <2>3. Turns(c)
      BY <1>8 DEF Registered, Turns
    <2>4. QED
      BY <1>1, <2>2, <2>3, TurnServed
  <1>9. CASE UnregisterClose(c) \/ ReleaseClose(c)
    <2>1. Undisturbed
      BY <1>2, <1>9 DEF UnregisterClose, ReleaseClose, Undisturbed, Offered, ServerStops
    <2>2. Turns(c)
      BY <1>9 DEF UnregisterClose, ReleaseClose, Turns
    <2>3. QED
      BY <1>1, <2>1, <2>2, TurnServed
  <1>10. CASE ReleaseCall(c) \/ ReleaseLock(c) \/ ReleaseJoin(c)
    <2>1. Undisturbed
      BY <1>1, <1>2, <1>10 DEF ReleaseCall, ReleaseLock, ReleaseJoin, Undisturbed, Offered
    <2>2. Turns(c)
      BY <1>10 DEF ReleaseCall, ReleaseLock, ReleaseJoin, Turns
    <2>3. QED
      BY <1>1, <2>1, <2>2, TurnServed
  <1>11. CASE ReleasePinned(c) \/ ReleaseEnd(c)
    <2>1. Undisturbed
      BY <1>11 DEF ReleasePinned, ReleaseEnd, Undisturbed, Offered
    <2>2. Turns(c)
      BY <1>11 DEF ReleasePinned, ReleaseEnd, Turns
    <2>3. QED
      BY <1>1, <2>1, <2>2, TurnServed
  <1>12. CASE SweepEnd(c) \/ AuthorizeRemoval(c)
    <2>1. Undisturbed
      BY <1>2, <1>12 DEF SweepEnd, AuthorizeRemoval, Undisturbed, Offered
    <2>2. Turns(c)
      BY <1>12 DEF SweepEnd, AuthorizeRemoval, Turns
    <2>3. QED
      BY <1>1, <2>1, <2>2, TurnServed
  <1>13. CASE ReleaseSend(c) /\ server' = "releasing"
    <2>1. Goto(c, "close") /\ UNCHANGED <<record, loc, link, sock, cause, run>>
      BY <1>13 DEF ReleaseSend, ServerStops
    <2>2. Undisturbed
      BY <1>13, <2>1 DEF Undisturbed, Offered
    <2>3. Turns(c)
      BY <2>1 DEF Turns
    <2>4. QED
      BY <1>1, <2>2, <2>3, TurnServed
  \* The server is closed by the call itself: nothing was on offer.
  <1>14. CASE UnregisterEnd(c) \/ ReleaseUnproven(c) \/ (ReleaseSend(c) /\ server' # "releasing")
    <2>1. Remover(c) /\ ~Offered' /\ run' = run /\ Return(c)
      BY <1>14 DEF UnregisterEnd, ReleaseUnproven, ReleaseSend, Remover, Offered
    <2>2. \A b \in Actors : ~Handed(b)
      BY <1>1, <2>1, RemovingAlone
    <2>3. Others(c) /\ act'[c] = Idle
      BY <1>1, <2>1, ReturnShape
    <2>4. \A b \in Actors : ~Handed(b)'
      BY <2>1, <2>2, <2>3, IdleIsTyped DEF Handed, Builder, Others
    <2>5. QED
      BY <2>1, <2>4 DEF Served
  <1>15. QED
    BY <1>4, <1>5, <1>6, <1>7, <1>8, <1>9, <1>10, <1>11, <1>12, <1>13, <1>14

LEMMA CoordinatorServed ==
  ASSUME Control, Served,
         \/ Recovery \/ Shutdown \/ ServerResult \/ Stop \/ CleanupAdvances
  PROVE  Served'
  <1> USE DEF disk, memory, durable, Doing
  <1>1. /\ Run \in Actors /\ RunOK /\ ModeOK /\ EntryOK /\ act \in [Actors -> Acts]
    BY DEF Actors, Control, Typed
  <1>2. ASSUME "interference" \notin cause
        PROVE  (Offered \/ Handed(Run)) => Whole
    BY <1>1, <1>2 DEF Served
  <1>3. CASE Boot \/ BeginRecovery \/ RecoveryRefused \/ RecoveryFailed \/ RecoveryRemoved
    <2>1. run \in {"down", "recovering"} /\ (run = "down" => run' = "recovering")
      BY <1>1, <1>3
      DEF Boot, BeginRecovery, RecoveryRefused, RecoveryFailed, RecoveryRemoved, RunOK, RecoverOK
    <2>2. entry = "none"
      BY <1>1, <2>1 DEF ModeOK
    <2>3. UNCHANGED <<record, loc, link, sock, cause, entry>>
      BY <1>3 DEF Boot, BeginRecovery, RecoveryRefused, RecoveryFailed, RecoveryRemoved
    <2>4. Undisturbed
      BY <2>1, <2>2, <2>3 DEF Undisturbed, Offered
    <2>5. Turns(Run)
      BY <1>3 DEF Boot, BeginRecovery, RecoveryRefused, RecoveryFailed, RecoveryRemoved, Turns
    <2>6. QED
      BY <1>1, <2>4, <2>5, TurnServed
  <1>4. CASE RecoveryRestored
    <2>1. run = "recovering" /\ Handed(Run)
      BY <1>1, <1>4 DEF RecoveryRestored, RunOK, RecoverOK, Handed, Builder
    <2>2. Undisturbed
      BY <1>2, <1>4, <2>1 DEF RecoveryRestored, Undisturbed
    <2>3. Turns(Run)
      BY <1>4 DEF RecoveryRestored, Turns
    <2>4. QED
      BY <1>1, <2>2, <2>3, TurnServed
  <1>5. CASE UpgradeRelayIdentity
    <2>1. /\ run = "recovering" /\ run' = run /\ \A a \in Actors : act'[a] = Idle
      BY <1>5 DEF UpgradeRelayIdentity, Control, ModeOK, Actors
    <2>2. ~Offered' /\ \A a \in Actors : ~Handed(a)'
      BY <2>1, IdleIsTyped DEF Offered, Handed, Builder
    <2>3. QED
      BY <2>2 DEF Served
  <1>6. CASE ServerResult \/ Stop \/ CleanupAdvances \/ ShutdownLock \/ ShutdownStaged \/ Stopped
    <2>1. UNCHANGED <<record, loc, link, sock, cause>>
      BY <1>6 DEF ServerResult, Stop, CleanupAdvances, ShutdownLock, ShutdownStaged, Stopped
    <2>2. run' = "running" => run = "running" /\ mu' = mu /\ entry' = entry /\ (server' = server \/ server' = "none")
      BY <1>1, <1>6
      DEF ServerResult, Stop, CleanupAdvances, ShutdownLock, ShutdownStaged, Stopped, RunOK,
          ShutdownOK
    <2>3. Undisturbed
      BY <1>2, <2>1, <2>2 DEF Undisturbed, Offered
    <2>4. Turns(Run)
      BY <1>6 DEF ServerResult, Stop, CleanupAdvances, ShutdownLock, ShutdownStaged, Stopped, Turns
    <2>5. QED
      BY <1>1, <2>3, <2>4, TurnServed
  <1>7. CASE ShutdownPinned \/ ShutdownUnproven
    <2>1. Remover(Run) /\ run = "stopping" /\ run' = run /\ (Return(Run) \/ Goto(Run, "stageDir"))
      BY <1>1, <1>7 DEF ShutdownPinned, ShutdownUnproven, Remover, RunOK, ShutdownOK
    <2>2. \A b \in Actors : ~Handed(b)
      BY <1>1, <2>1, RemovingAlone
    <2>3. Others(Run) /\ act'[Run].pc \in {"idle", "stageDir"}
      BY <1>1, <2>1, ReturnShape, GotoShape, IdleIsTyped DEF Taking
    <2>4. \A b \in Actors : ~Handed(b)'
      BY <2>1, <2>2, <2>3 DEF Handed, Builder, Others
    <2>5. QED
      BY <2>1, <2>4 DEF Served, Offered
  <1>8. QED
    BY <1>3, <1>4, <1>5, <1>6, <1>7 DEF Recovery, Shutdown

LEMMA NextServed ==
  ASSUME Control, Served, [Next]_vars
  PROVE  Served'
  <1>1. ASSUME NEW a \in Actors,
               DirectoryStep(a) \/ Relocate(a) \/ Failing(a)
        PROVE  Served'
    BY <1>1, DirectoryServed
  <1>2. CASE RunStep
    BY <1>2, <1>1, CoordinatorServed DEF RunStep, Actors
  <1>3. CASE Stop \/ CleanupAdvances
    BY <1>3, CoordinatorServed
  <1>4. CASE Interference
    BY <1>4 DEF Interference, ReplaceDirectory, ReplaceSocket, ReplaceLink, DamageRecord,
                LoseGeneration, Plant, Served
  <1>5. CASE Exit \/ Crash
    <2>1. run' = "down" /\ \A a \in Actors : act'[a] = Idle
      BY <1>5 DEF Exit, Crash, ProcessEnds
    <2>2. ~Offered' /\ \A a \in Actors : ~Handed(a)'
      BY <2>1, IdleIsTyped DEF Offered, Handed, Builder
    <2>3. QED
      BY <2>2 DEF Served
  <1>6. ASSUME NEW c \in Callers, CallerStep(c) \/ PrepareCall(c) \/ ReleaseCall(c)
        PROVE  Served'
    BY <1>6, <1>1, CallerServed DEF CallerStep, Actors
  <1>7. CASE UNCHANGED vars
    BY <1>7 DEF vars, disk, memory, durable, Served, Offered, Handed, Builder, Whole
  <1>8. QED
    BY <1>1, <1>2, <1>3, <1>4, <1>5, <1>6, <1>7 DEF Next, Failing

LEMMA InitServed == Init => Served
  BY IdleIsTyped DEF Init, Served, Offered, Handed, Builder

(* An attachment is whole whenever the goroutine serves it and nobody holds *)
(* the mutex, and a workspace whose removal is authorised has none.         *)
THEOREM AttachmentHolds == Spec => []AttachmentIsWholeOrGone
  <1>1. Init => Control /\ Disk /\ Served
    BY InitControl, InitDisk, InitServed
  <1>2. Control /\ Disk /\ Served /\ [Next]_vars => (Control /\ Disk /\ Served)'
    BY NextControl, NextDisk, NextServed
  <1>3. Control /\ Disk /\ Served => AttachmentIsWholeOrGone
    <2>1. Control /\ Disk => TypeOK /\ NothingServesAfterRemoval
      BY DEF Control, Typed, NothingServesAfterRemoval, EntryOK, Disk, RecordOK, Gone
    <2>2. Served => ReadyAttachmentIsWhole
      BY DEF Served, Offered, Whole, ReadyAttachmentIsWhole
    <2>3. QED
      BY <2>1, <2>2 DEF AttachmentIsWholeOrGone
  <1>4. QED
    BY <1>1, <1>2, <1>3, PTL DEF Spec

-----------------------------------------------------------------------------
(* What somebody else put there is not removed: it is what each step of the *)
(* directory work compares before a rename, and again after it.            *)

Preserved == DirectoriesPreserved /\ SocketPreserved /\ LinkPreserved

\* Nothing of somebody else's moves.
Untouched ==
    /\ foreign \subseteq foreign'
    /\ sock \in {"foreign", "seized"} => sock' = sock \/ loc' # loc
    /\ link \in {"foreign", "seized"} => link' = link \/ loc' # loc

LEMMA UntouchedIsPreserved == Untouched => Preserved
  BY DEF Untouched, Preserved, DirectoriesPreserved, SocketPreserved, LinkPreserved

LEMMA RenamesPreserve ==
  ASSUME Control, Disk, NEW a \in Actors,
         \/ Move(a) \/ SockIsolate(a) \/ LinkIsolate(a) \/ DirIsolate(a) \/ PublishDirectory(a)
  PROVE  Preserved
  <1>0. act \in [Actors -> Acts] /\ act[a].held \in {"none", "own", "foreign"}
    BY DEF Control, Typed, Acts
  <1>1. ASSUME NEW p \in {"refuse", "failed"}, Goto(a, p), act[a].held # "none"
        PROVE  GivesUp(a)
    BY <1>0, <1>1, GotoShape DEF GivesUp, Ended
  <1>2. CASE Move(a)
    <2>1. CASE foreign' = (foreign \ {"canonical"}) \cup {"release"}
      <3>1. GivesUp(a)
        BY <1>1, <1>2, <2>1 DEF Move, Renaming, Occupied, Refuse, disk
      <3>2. Route(a) = <<"canonical", "release">>
        BY <1>2 DEF Move, Renaming, Route, At
      <3>3. DirectoriesPreserved
        BY <2>1, <3>1, <3>2 DEF DirectoriesPreserved
      <3>4. UNCHANGED <<sock, link>>
        BY <1>2 DEF Move, Refuse, disk
      <3>5. QED
        BY <3>3, <3>4 DEF Preserved, SocketPreserved, LinkPreserved
    <2>2. CASE UNCHANGED <<foreign, sock, link>>
      BY <2>2, UntouchedIsPreserved DEF Untouched
    <2>3. QED
      BY <1>2, <2>1, <2>2 DEF Move, Refuse, disk
  <1>3. CASE DirIsolate(a)
    <2>1. CASE foreign' = (foreign \ {act[a].pin}) \cup {"isolation"} /\ Goto(a, "refuse")
      <3>1. GivesUp(a)
        BY <1>1, <1>3, <2>1 DEF DirIsolate, Renaming
      <3>2. Route(a) = <<act[a].pin, "isolation">>
        BY <1>3 DEF DirIsolate, Renaming, Route, At
      <3>3. DirectoriesPreserved
        BY <2>1, <3>1, <3>2 DEF DirectoriesPreserved
      <3>4. UNCHANGED <<sock, link>>
        BY <1>3 DEF DirIsolate
      <3>5. QED
        BY <3>3, <3>4 DEF Preserved, SocketPreserved, LinkPreserved
    <2>2. CASE UNCHANGED <<foreign, sock, link>>
      BY <2>2, UntouchedIsPreserved DEF Untouched
    <2>3. QED
      BY <1>3, <2>1, <2>2 DEF DirIsolate
  <1>4. CASE PublishDirectory(a)
    <2>1. CASE foreign' = (foreign \ {"creation"}) \cup {"canonical"} /\ Goto(a, "failed")
               /\ UNCHANGED <<sock, link>>
      <3>1. GivesUp(a)
        BY <1>1, <1>4, <2>1 DEF PublishDirectory, Renaming
      <3>2. Route(a) = <<"creation", "canonical">>
        BY <1>4 DEF PublishDirectory, Renaming, Route, At
      <3>3. DirectoriesPreserved
        BY <2>1, <3>1, <3>2 DEF DirectoriesPreserved
      <3>4. QED
        BY <2>1, <3>3 DEF Preserved, SocketPreserved, LinkPreserved
    <2>2. CASE /\ UNCHANGED <<foreign, link>>
               /\ sock' = sock \/ sock = "held"
      BY <2>2, UntouchedIsPreserved DEF Untouched
    <2>3. QED
      BY <1>4, <2>1, <2>2 DEF PublishDirectory, FailListening
  <1>5. CASE SockIsolate(a)
    <2>1. At(a, "sockIsolate") /\ act[a].held # "none" /\ UNCHANGED <<foreign, link>>
      BY <1>5 DEF SockIsolate, Renaming
    <2>2. ASSUME sock = "seized" PROVE sock' = "seized"
      BY <1>5, <2>2 DEF SockIsolate, HeldSocket
    <2>3. CASE sock = "foreign" /\ sock' = "isolated" /\ act[a].stage = "creating"
      BY <2>1, <2>3 DEF Preserved, DirectoriesPreserved, SocketPreserved, LinkPreserved
    <2>4. CASE sock = "foreign" /\ sock' = "seized" /\ Goto(a, "refuse")
      <3>1. GivesUp(a)
        BY <1>1, <2>1, <2>4
      <3>2. QED
        BY <2>1, <2>4, <3>1 DEF Preserved, DirectoriesPreserved, SocketPreserved, LinkPreserved
    <2>5. CASE sock \notin {"foreign", "seized"}
      BY <2>1, <2>5, UntouchedIsPreserved DEF Untouched
    <2>6. CASE sock = "seized"
      BY <2>1, <2>2, <2>6, UntouchedIsPreserved DEF Untouched
    <2>7. ASSUME sock = "foreign"
          PROVE  \/ sock' = "isolated" /\ act[a].stage = "creating"
                 \/ sock' = "seized" /\ Goto(a, "refuse")
      <3>1. act[a].held = "foreign" => act[a].stage = "creating"
        BY DEF Disk, StageOK
      <3>2. QED
        BY <1>0, <1>5, <2>1, <2>7, <3>1 DEF SockIsolate, HeldSocket
    <2>8. QED
      BY <1>5, <2>3, <2>4, <2>5, <2>6, <2>7
  <1>6. CASE LinkIsolate(a)
    <2>1. At(a, "linkIsolate") /\ act[a].held # "none" /\ UNCHANGED <<foreign, sock>>
      BY <1>6 DEF LinkIsolate, Renaming
    <2>2. link = "seized" => link' = "seized"
      BY <1>6 DEF LinkIsolate
    <2>3. link = "foreign" => link' = "seized" /\ GivesUp(a)
      BY <1>1, <1>6, <2>1 DEF LinkIsolate
    <2>4. QED
      BY <2>1, <2>2, <2>3 DEF Preserved, DirectoriesPreserved, SocketPreserved, LinkPreserved
  <1>7. QED
    BY <1>2, <1>3, <1>4, <1>5, <1>6

LEMMA StepPreserves ==
  ASSUME Control, Disk, [Next]_vars
  PROVE  Preserved
  <1> USE UntouchedIsPreserved DEF disk
  <1>1. ASSUME UNCHANGED disk
        PROVE  Preserved
    BY <1>1 DEF Untouched
  <1>2. ASSUME UNCHANGED <<foreign, sock, link>> \/ (UNCHANGED <<foreign, link>> /\ CloseSocket)
        PROVE  Preserved
    BY <1>2 DEF CloseSocket, Untouched
  <1>3. ASSUME NEW a \in Actors, NEW stage, NEW restamp, NEW to, Publish(a, stage, restamp, to)
        PROVE  UNCHANGED <<foreign, sock, link>>
    BY <1>3 DEF Publish, Refuse
  <1>4. ASSUME NEW a \in Actors, Removal(a)
        PROVE  Preserved
    <2>1. CASE Move(a) \/ SockIsolate(a) \/ LinkIsolate(a) \/ DirIsolate(a)
      BY <2>1, RenamesPreserve
    <2>2. CASE SockRetire(a) \/ LinkRetire(a)
      BY <2>2 DEF SockRetire, LinkRetire, Untouched
    <2>3. CASE \/ InspectMove(a) \/ InspectSocket(a) \/ InspectLink(a)
               \/ InspectDirectory(a) \/ DirRetire(a)
      <3>1. UNCHANGED <<foreign, sock, link>>
        BY <2>3 DEF InspectMove, InspectSocket, InspectLink, InspectDirectory, DirRetire,
                    Hold, Refuse, Fail
      <3>2. QED
        BY <3>1, <1>2
    <2>4. CASE Open(a)
      <3>1. UNCHANGED <<foreign, sock, link>>
        <4>1. \/ Refuse(a) \/ UNCHANGED disk \/ \E n \in NamesOf(record) : Pinned(a, n)
          BY <2>4 DEF Open
        <4>2. QED
          BY <4>1, Zenon DEF Refuse, Pinned
      <3>2. QED
        BY <3>1, <1>2
    <2>5. CASE PublishReleaseIntent(a) \/ StageMoved(a) \/ StageDir(a)
      BY <2>5, <1>2, <1>3 DEF PublishReleaseIntent, StageMoved, StageDir
    <2>6. QED
      BY <1>4, <2>1, <2>2, <2>3, <2>4, <2>5 DEF Removal
  <1>5. ASSUME NEW a \in Actors, Creation(a)
        PROVE  Preserved
    <2>1. CASE MakeDirectory(a)
      <3>1. CASE UNCHANGED disk
        BY <3>1, <1>1
      <3>2. CASE loc' = "creation" /\ loc # "creation" /\ foreign' = foreign \cup ({loc} \cap Names)
        BY <3>2 DEF Untouched
      <3>3. QED
        BY <2>1, <3>1, <3>2 DEF MakeDirectory, Fail, Occupied
    <2>2. CASE Listen(a) \/ SecureSocket(a) \/ LinkGeneration(a)
      BY <2>2 DEF Listen, SecureSocket, LinkGeneration, Fail, Untouched
    <2>3. CASE Begin(a)
      <3>1. UNCHANGED <<foreign, sock, link>>
        BY <2>3 DEF Begin, Fail
      <3>2. QED
        BY <3>1, <1>2
    <2>4. CASE PublishIntent(a) \/ BindDirectory(a) \/ PublishCreating(a)
      BY <2>4, <1>2, <1>3 DEF PublishIntent, BindDirectory, PublishCreating
    <2>5. CASE PublishListening(a) \/ InspectStaged(a) \/ PublishActive(a)
      <3>1. UNCHANGED <<foreign, sock, link>> \/ FailListening(a)
        BY <2>5, <1>3 DEF PublishListening, InspectStaged, PublishActive, Hold
      <3>2. FailListening(a) => Preserved
        BY DEF FailListening, Untouched
      <3>3. QED
        BY <3>1, <3>2, <1>2
    <2>6. CASE PublishDirectory(a)
      BY <2>6, RenamesPreserve
    <2>7. QED
      BY <1>5, <2>1, <2>2, <2>3, <2>4, <2>5, <2>6 DEF Creation
  <1>6. ASSUME NEW a \in Actors,
               DirectoryStep(a) \/ Relocate(a) \/ Failing(a)
        PROVE  Preserved
    <2>1. CASE Relocate(a)
      BY <2>1, <1>1 DEF Relocate
    <2>2. CASE IOError(a)
      BY <2>2, <1>1 DEF IOError, Fail, FailListening, Untouched
    <2>3. CASE UnprovenError(a)
      BY <2>3, <1>1 DEF UnprovenError, Refuse, FailActive, Untouched
    <2>4. QED
      BY <1>6, <1>4, <1>5, <2>1, <2>2, <2>3 DEF DirectoryStep, Failing
  <1>7. CASE Recovery \/ ServerResult \/ Stop \/ CleanupAdvances \/ Exit \/ Crash
    <2>1. UNCHANGED <<foreign, sock, link>>
      BY <1>7
      DEF Recovery, Boot, UpgradeRelayIdentity, BeginRecovery, RecoveryRemoved, RecoveryRestored,
          RecoveryRefused, RecoveryFailed, ServerResult, Stop, CleanupAdvances, Exit, Crash,
          ProcessEnds, CompleteRelayUpgrade, RefuseRelayUpgrade
    <2>2. QED
      BY <2>1, <1>2
  <1>8. CASE Shutdown
    <2>1. UNCHANGED <<foreign, sock, link>> \/ (UNCHANGED <<foreign, link>> /\ CloseSocket)
      BY <1>8 DEF Shutdown, ShutdownLock, ShutdownPinned, ShutdownUnproven, ShutdownStaged, Stopped
    <2>2. QED
      BY <2>1, <1>2
  <1>9. CASE Interference
    BY <1>9 DEF Interference, ReplaceDirectory, ReplaceSocket, ReplaceLink, DamageRecord,
                LoseGeneration, Plant, Names, Untouched
  <1>10. ASSUME NEW c \in Callers, CallerStep(c) \/ PrepareCall(c) \/ ReleaseCall(c)
         PROVE  Preserved
    <2>1. CASE DirectoryStep(c) \/ Relocate(c)
      BY <2>1, <1>6 DEF Actors
    <2>2. CASE \/ PrepareCall(c) \/ PrepareLock(c) \/ PrepareListening(c) \/ Register(c)
               \/ Registered(c) \/ PrepareJoin(c) \/ CommitPreparedTask(c) \/ PrepareFailed(c)
               \/ UnregisterClose(c) \/ ReleaseCall(c) \/ ReleaseLock(c) \/ ReleaseJoin(c)
               \/ ReleasePinned(c) \/ ReleaseClose(c) \/ ReleaseEnd(c) \/ SweepEnd(c) \/ AuthorizeRemoval(c)
      <3>1. UNCHANGED <<foreign, sock, link>>
        BY <2>2
        DEF PrepareCall, PrepareLock, PrepareListening, Register, Registered, PrepareJoin,
            CommitPreparedTask, PrepareFailed, UnregisterClose, ReleaseCall, ReleaseLock,
            ReleaseJoin, ReleasePinned, ReleaseClose, ReleaseEnd, SweepEnd, AuthorizeRemoval
      <3>2. QED
        BY <3>1, <1>2
    <2>3. CASE UnregisterEnd(c) \/ ReleaseSend(c) \/ ReleaseUnproven(c)
      <3>1. UNCHANGED <<foreign, sock, link>> \/ (UNCHANGED <<foreign, link>> /\ CloseSocket)
        BY <2>3 DEF UnregisterEnd, ReleaseSend, ReleaseUnproven
      <3>2. QED
        BY <3>1, <1>2
    <2>4. QED
      BY <1>10, <2>1, <2>2, <2>3 DEF CallerStep
  <1>11. CASE UNCHANGED vars
    BY <1>11, <1>1 DEF vars
  <1>12. QED
    BY <1>6, <1>7, <1>8, <1>9, <1>10, <1>11 DEF Next, RunStep, Actors, Failing

(* No step of a preparation, a removal or a recovery removes what somebody *)
(* else made, and a step renames it only after the name was inspected (the *)
(* pin and the comparison after the rename in runtime_quarantine.go and    *)
(* runtime_publish.go), but for a socket met before its own identity was   *)
(* recorded.                                                               *)
THEOREM ForeignPathsStay == Spec => ForeignPathsPreserved
  <1>1. Init => Control /\ Disk
    BY InitControl, InitDisk
  <1>2. Control /\ Disk /\ [Next]_vars => (Control /\ Disk)'
    BY NextControl, NextDisk
  <1>3. Control /\ Disk /\ [Next]_vars
        => [DirectoriesPreserved /\ SocketPreserved /\ LinkPreserved]_vars
    BY StepPreserves DEF Preserved
  <1>4. QED
    BY <1>1, <1>2, <1>3, PTL DEF Spec, ForeignPathsPreserved

-----------------------------------------------------------------------------
(* Fine: as long as nothing has happened that may excuse a refusal, no     *)
(* step refuses. CleanDisk says what the record then says of the whole     *)
(* disk; BuilderOK and RemoverOK, per actor, what its next step will find; *)
(* AttachedOK and LeftOK, what those who begin a removal will find, when   *)
(* nobody is busy with the attachment.                                     *)

Clean == cause \subseteq {"error"}

CleanDisk ==
    /\ anchor /\ foreign = {} /\ record # "damaged" /\ ~refused
    /\ sock \notin {"foreign", "seized"} /\ link \notin {"foreign", "seized"}
    /\ Gone => link = "none" /\ sock = "none"
    /\ sock = "unsafe" => record = "creating"
    /\ record = "none" => loc = "none"
    /\ record = "intent" /\ loc = "creation" => link = "none" /\ sock = "none"
    /\ record = "bound" => sock = "none"
    /\ record \in {"creating", "listening", "releasing"} /\ sock # "none" => link = "linked"
    /\ record = "active" => loc = "canonical" /\ link = "linked" /\ sock = "held"
    /\ record = "releaseIntent" => loc \in {"canonical", "release"} /\ link = "linked" /\ sock = "held"
    /\ record = "releasing" => loc # "canonical"

\* What a shutdown leaves of an attachment that was served.
ShutDisk == record = "releasing" /\ loc = "release" /\ link = "linked" /\ sock = "none"
\* What an interrupted removal leaves.
Leftover == Gone \/ (record = "releasing" /\ link # "isolated")

BuilderOK(a) ==
    Builder(a) =>
       /\ act[a].pc \in {"bind", "linkIn"} => loc = "creation"
       /\ act[a].pc \in {"bindLink", "listen"} => link = "linked"

\* The steps of a removal that has pinned the directory.
Holding == (Approach \cup Taking \cup {"relocate", "isolated", "send", "close"}) \ {"open", "dirRetire"}

OpenOK(a) ==
    act[a].pc = "open" =>
       /\ ~Unrecoverable
       /\ Closing(a) => Whole \/ ShutDisk
       /\ act[a].job = "sweep" => Leftover

HoldOK(a) ==
    act[a].pc \in Holding =>
       /\ loc = act[a].pin /\ record = act[a].stage
       /\ act[a].fresh \/ (act[a].pc \in {"move", "relocate"} /\ Closing(a) /\ ShutDisk)
       /\ act[a].job \in {"release", "shutdown", "unregister"} /\ act[a].pc = "move" => record = "releaseIntent" \/ ShutDisk
       /\ act[a].job = "sweep" => record = "releasing"
       /\ act[a].pc = "move" => link # "isolated" /\ (act[a].held # "none" => loc = "canonical")
       /\ act[a].pc = "stageMoved" => record = "releaseIntent" /\ loc = "release"
       /\ act[a].pc \in {"relocate", "isolated", "send", "close"} =>
             record = "releasing" /\ loc = "release" /\ link = "linked"
       /\ act[a].pc = "relocate" => sock \in {"held", "none"}
       /\ act[a].pc = "isolated" => sock = "held"

TakeOK(a) ==
    act[a].pc \in Taking \ {"dirRetire"} /\ act[a].job # "shutdown" =>
       /\ record \in {"bound", "creating", "listening", "releasing"}
       /\ act[a].job # "recover" => record = "releasing"
       /\ act[a].pc = "sockIsolate" =>
             /\ sock # "unsafe" /\ link # "isolated" /\ record # "bound"
             /\ act[a].held # "none" => act[a].held = "own" /\ sock = "held"
       /\ act[a].pc = "sockRetire" => sock = "isolated" /\ link # "isolated" /\ record # "bound"
       /\ act[a].pc = "linkIsolate" =>
             /\ sock = "none" /\ link # "isolated"
             /\ act[a].held # "none" => link = "linked"
       /\ act[a].pc = "linkRetire" => sock = "none" /\ link = "isolated"
       /\ act[a].pc \in {"stageDir", "dirIsolate"} => sock = "none" /\ link = "none"

EndOK(a) ==
    /\ act[a].pc = "refuse" => act[a].job = "shutdown" /\ entry = "releasing" /\ mu # Run
    /\ act[a].pc # "unproven"
    /\ act[a].pc = "failed" /\ Closing(a) => record = "releasing" /\ link # "isolated"
    /\ act[a].pc = "failed" /\ act[a].job = "sweep" => Leftover
    /\ act[a].job = "shutdown" =>
          /\ act[a].pc \in Approach \cup {"relocate", "isolated", "stageDir", "done", "failed"} => entry # "releasing"
          /\ act[a].pc \in {"stageDir", "done", "failed"} => ShutDisk
          /\ act[a].pc = "open" => Whole

RemoverOK(a) == Remover(a) => OpenOK(a) /\ HoldOK(a) /\ TakeOK(a) /\ EndOK(a)

Serving == run = "running" \/ (act[Run].job = "shutdown" /\ act[Run].pc = "lock")
Shut ==
    \/ run = "stopped"
    \/ run = "stopping" /\ (act[Run].job = "idle" \/ act[Run].pc \in {"stageDir", "done", "failed"})

\* Nobody is busy with an attachment that was handed over, or with what is left of one.
Attached ==
    /\ mu = "free" /\ entry \in {"pending", "ready", "recovered"} /\ server # "listening"
    /\ \A c \in Callers : act[c].job # "unregister"
Vacated ==
    /\ phase \in Retiring /\ entry = "none" /\ run \in {"running", "stopping", "stopped"}
    /\ \A c \in Callers : act[c].job # "sweep"

AttachedOK == Attached => (Serving => Whole) /\ (Shut => ShutDisk)
LeftOK == Vacated => Leftover

ReleasingOK == entry = "releasing" => record = "releasing"
RestartOK == run = "down" \/ (run = "recovering" /\ act[Run].job = "idle") => ~Unrecoverable
OneSweep == \A c, d \in Callers : act[c].job = "sweep" /\ act[d].job = "sweep" => c = d

Fine ==
    /\ CleanDisk
    /\ \A a \in Actors : BuilderOK(a) /\ RemoverOK(a)
    /\ AttachedOK /\ LeftOK /\ ReleasingOK /\ RestartOK /\ OneSweep

PendingOK == entry = "pending" => \E c \in Callers : Registering(c)

-----------------------------------------------------------------------------
(* A removal under CleanDisk.                                              *)

LEMMA OpenClean ==
  ASSUME DiskTyped, CleanDisk, RecordOK, NEW a \in Actors, OpenOK(a), Open(a)
  PROVE  \/ (Goto(a, "done") \/ Goto(a, "dirRetire")) /\ ~Closing(a)
         \/ /\ Pinned(a, loc) /\ loc \in Names
            /\ record \in {"bound", "creating", "listening", "active", "releaseIntent", "releasing"}
            /\ link # "isolated" /\ sock # "unsafe"
            /\ record = "creating" => sock \in {"none", "held"}
            /\ link = "none" => sock = "none" /\ record \in {"bound", "creating", "releasing"}
            /\ Closing(a) => Whole \/ ShutDisk
            /\ act[a].job = "sweep" => record = "releasing"
  <1> USE DEF DiskTyped, CleanDisk
  <1>1. ~Unrecoverable /\ (Closing(a) => Whole \/ ShutDisk) /\ (act[a].job = "sweep" => Leftover)
    BY DEF OpenOK, Open, At
  <1>2. \A n \in Names : Occupied(n) <=> loc = n
    BY DEF Occupied
  <1>3. RecordReadable
    BY DEF RecordReadable
  <1>4. CASE record \in {"none", "intent"}
    <2>1. ~Closing(a)
      BY <1>1, <1>4 DEF Whole, ShutDisk
    <2>2. ~Occupied("canonical") /\ ~Occupied("creation")
      BY <1>1, <1>2, <1>4 DEF RecordOK, Unrecoverable, Gone, Names
    <2>3. QED
      BY <1>3, <1>4, <2>1, <2>2 DEF Open
  <1>5. CASE record \notin {"none", "intent"} /\ loc \notin NamesOf(record)
    <2>1. {n \in NamesOf(record) : Occupied(n)} = {}
      BY <1>2, <1>5 DEF NamesOf, Names
    <2>2. ~Closing(a)
      BY <1>1, <1>5 DEF Whole, ShutDisk, NamesOf
    <2>3. QED
      BY <1>3, <1>5, <2>1, <2>2 DEF Open, IsolationSeized
  <1>6. CASE record \notin {"none", "intent"} /\ loc \in NamesOf(record)
    <2>1. loc \in Names
      BY <1>6 DEF NamesOf, Names
    <2>2. {n \in NamesOf(record) : Occupied(n)} = {loc}
      BY <1>2, <1>6 DEF NamesOf, Names
    <2>3. /\ record \in {"bound", "creating", "listening", "active", "releaseIntent", "releasing"}
          /\ Closing(a) => record \in {"active", "releaseIntent", "releasing"}
      BY <1>1, <1>6 DEF Stages, Whole, ShutDisk
    <2>4. link # "isolated" /\ sock # "unsafe" /\ (record = "creating" => sock \in {"none", "held"})
      BY <1>1 DEF Unrecoverable
    <2>5. link = "none" => sock = "none" /\ record \in {"bound", "creating", "releasing"}
      BY <1>1, <2>1, <2>3 DEF Unrecoverable
    <2>6. Acceptable(record, loc)
      <3>1. SocketRequired(record, loc) => sock = "held"
        BY DEF SocketRequired
      <3>2. CASE link = "linked"
        BY <3>1, <3>2 DEF Acceptable, GenerationMatches, GenerationAvailable
      <3>3. CASE link = "none"
        BY <2>5, <3>1, <3>3 DEF Acceptable, DirectoryEmpty, GenerationAvailable
      <3>4. QED
        BY <2>4, <3>2, <3>3
    <2>7. Pinned(a, loc)
      <3>1. PICK found : found = {n \in NamesOf(record) : Occupied(n)}
        OBVIOUS
      <3>2. found = {loc}
        BY <2>2, <3>1
      <3>3. IF \E n \in found : found = {n} /\ Acceptable(record, n)
            THEN \E n \in found : Pinned(a, n)
            ELSE Refuse(a)
        BY <1>3, <1>6, <2>3, <3>1, <3>2 DEF Open
      <3>4. QED
        BY <2>6, <3>2, <3>3
    <2>8. act[a].job = "sweep" => record = "releasing"
      BY <1>1, <2>1 DEF Leftover, Gone
    <2>9. QED
      BY <1>1, <2>1, <2>3, <2>4, <2>5, <2>7, <2>8
  <1>7. QED
    BY <1>4, <1>5, <1>6

LEMMA RemovalClean ==
  ASSUME Control, Disk, CleanDisk, NEW a \in Actors, Remover(a), RemoverOK(a), Removal(a),
         UNCHANGED <<memory, durable>>
  PROVE  CleanDisk' /\ RemoverOK(a)' /\ (record = "releasing" => record' = "releasing")
  <1> USE DEF Approach, Taking
  <1>1. /\ DiskTyped /\ act \in [Actors -> Acts] /\ StageOK(a) /\ GoneOK(a) /\ RecordOK
        /\ act'[a].job = act[a].job
    BY RemovalShape DEF Control, Typed, TypeOK, DiskTyped, Disk, Moved
  <1>2. entry' = entry /\ mu' = mu /\ refused' = refused
    BY DEF memory, durable
  <1>3. act[a].job = "shutdown" => act[a].pc \notin Taking \ {"stageDir"}
    BY DEF Control, RunOK, CallerOK, ShutdownOK, Actors, Ended
  <1>4. OpenOK(a) /\ HoldOK(a) /\ TakeOK(a) /\ EndOK(a)
    BY DEF RemoverOK
  <1>5. ASSUME UNCHANGED disk
        PROVE  CleanDisk'
    BY <1>2, <1>5 DEF CleanDisk, Gone, disk
  <1>6. CASE Open(a)
    <2>1. act[a].pc = "open" /\ UNCHANGED disk
      <3>1. act[a].pc = "open"
        BY <1>6 DEF Open, At
      <3>2. \/ Refuse(a) \/ UNCHANGED disk \/ \E n \in NamesOf(record) : Pinned(a, n)
        BY <1>6 DEF Open
      <3>3. QED
        BY <3>1, <3>2, Zenon DEF Refuse, Pinned
    <2>2. CASE (Goto(a, "done") \/ Goto(a, "dirRetire")) /\ ~Closing(a)
      <3>1. act'[a].pc \in {"done", "dirRetire"} /\ act'[a].job # "shutdown"
        BY <1>1, <2>2, GotoShape DEF Ended, Closing
      <3>2. OpenOK(a)' /\ HoldOK(a)' /\ TakeOK(a)' /\ EndOK(a)'
        BY <3>1 DEF OpenOK, HoldOK, TakeOK, EndOK, Holding
      <3>3. QED
        BY <1>5, <2>1, <3>2 DEF RemoverOK, disk
    <2>3. CASE /\ Pinned(a, loc) /\ loc \in Names
               /\ record \in {"bound", "creating", "listening", "active", "releaseIntent", "releasing"}
               /\ link # "isolated" /\ sock # "unsafe"
               /\ record = "creating" => sock \in {"none", "held"}
               /\ link = "none" => sock = "none" /\ record \in {"bound", "creating", "releasing"}
               /\ Closing(a) => Whole \/ ShutDisk
               /\ act[a].job = "sweep" => record = "releasing"
      <3>1. PICK p : p = FirstRemovalStep(record)
        OBVIOUS
      <3>2. PICK n : n = loc
        OBVIOUS
      <3>3. /\ act'[a].pc = p /\ act'[a].pin = n /\ act'[a].stage = record /\ act'[a].fresh = TRUE
            /\ act'[a].held = "none"
        <4>1. PICK h : h = act[a]
          OBVIOUS
        <4>2. PICK s : s = record
          OBVIOUS
        <4>3. PICK r : r = [h EXCEPT !.pin = n, !.stage = s, !.fresh = TRUE, !.pc = p]
          OBVIOUS
        <4>4. act' = [act EXCEPT ![a] = r]
          BY <2>3, <3>1, <3>2, <4>1, <4>2, <4>3 DEF Pinned
        <4>5. h \in Acts /\ h.held = "none"
          BY <1>1, <2>1, <4>1 DEF StageOK, Inspected
        <4>6. QED
          BY <1>1, <4>2, <4>3, <4>4, <4>5 DEF Acts
      <3>4. UNCHANGED <<record, loc, link, sock>> /\ Closing(a)' = Closing(a)
        BY <1>1, <2>1 DEF disk, Closing
      <3>5. /\ record = "bound" => p = IF link = "linked" THEN "linkIsolate" ELSE "dirIsolate"
            /\ record = "creating" => p = IF sock = "held" THEN "sockIsolate"
                                          ELSE IF link = "linked" THEN "linkIsolate" ELSE "dirIsolate"
            /\ record = "listening" => p = "sockIsolate"
            /\ record = "active" => p = "releaseIntent"
            /\ record \in {"releaseIntent", "releasing"} => p = "move"
        BY <2>3, <3>1 DEF FirstRemovalStep, AfterSocket
      <3>6. act[a].job = "shutdown" => p \in {"releaseIntent", "move"}
        BY <2>3, <3>5 DEF Closing, Whole, ShutDisk
      <3>7. p \in {"linkIsolate", "dirIsolate", "sockIsolate", "releaseIntent", "move"}
        BY <2>3, <3>5
      <3>8. OpenOK(a)'
        BY <3>3, <3>7 DEF OpenOK
      <3>9. HoldOK(a)'
        <4>1. loc' = act'[a].pin /\ record' = act'[a].stage /\ act'[a].fresh /\ link' # "isolated"
          BY <2>3, <3>2, <3>3, <3>4
        <4>2. act[a].job \in {"release", "shutdown", "unregister"} /\ p = "move" => ShutDisk
          BY <2>3, <3>5 DEF Closing, Whole, ShutDisk
        <4>3. ShutDisk' <=> ShutDisk
          BY <3>4 DEF ShutDisk
        <4>4. act'[a].job = "sweep" => record' = "releasing"
          BY <1>1, <2>3, <3>4
        <4>5. QED
          BY <1>1, <3>3, <3>7, <4>1, <4>2, <4>3, <4>4 DEF HoldOK
      <3>10. TakeOK(a)'
        <4>1. act[a].job # "recover" => record \in {"active", "releasing"}
          BY <2>3, <3>4 DEF Closing, Whole, ShutDisk, Remover
        <4>2. QED
          BY <1>1, <2>3, <3>3, <3>4, <3>5, <3>6, <4>1 DEF TakeOK, CleanDisk, DiskTyped
      <3>11. EndOK(a)'
        BY <1>1, <1>2, <1>4, <2>1, <3>3, <3>6, <3>7 DEF EndOK
      <3>12. QED
        BY <1>5, <2>1, <3>4, <3>8, <3>9, <3>10, <3>11 DEF RemoverOK
    <2>4. QED
      BY <1>1, <1>4, <1>6, <2>2, <2>3, OpenClean
  <1>7. ASSUME NEW stage \in Stages, NEW restamp, NEW p \in {"move", "relocate", "sockIsolate", "dirIsolate", "done"},
               Publish(a, stage, restamp, p), act[a].pc \in {"releaseIntent", "stageMoved", "stageDir"}
        PROVE  /\ record' = stage /\ UNCHANGED <<anchor, loc, link, sock, foreign>>
               /\ act'[a].pc = p /\ act'[a].stage = stage /\ act'[a].fresh
               /\ act'[a].pin = act[a].pin /\ act'[a].held = "none"
               /\ loc = act[a].pin /\ record = act[a].stage /\ act[a].fresh
    <2>1. HoldOK(a) /\ act[a].pc \in Holding
      BY <1>4, <1>7 DEF Holding
    <2>2. loc = act[a].pin /\ record = act[a].stage /\ act[a].fresh
      BY <1>7, <2>1 DEF HoldOK
    <2>3. Publishable(a)
      BY <2>2 DEF Publishable, RecordReadable, CleanDisk
    <2>4. Published(a, stage, restamp, p)
      BY <1>1, <1>7, <2>3, PublishShape DEF NotPublished, Ended, Elsewhere
    <2>5. act[a].held = "none"
      BY <1>1, <1>7 DEF StageOK, Inspected
    <2>6. QED
      BY <2>2, <2>4, <2>5 DEF Published
  <1>8. CASE PublishReleaseIntent(a)
    <2>1. Publish(a, "releaseIntent", FALSE, "move") /\ act[a].pc = "releaseIntent"
      BY <1>8 DEF PublishReleaseIntent, At
    <2>2. record = "active" /\ Whole
      BY <1>1, <1>7, <2>1 DEF StageOK, StageAt, CleanDisk, Whole, Stages
    <2>3. act[a].job # "sweep"
      BY <1>4, <2>1, <2>2 DEF HoldOK, Holding
    <2>4. CleanDisk'
      BY <1>2, <1>7, <2>1, <2>2 DEF CleanDisk, Gone, Whole, Stages
    <2>5. OpenOK(a)' /\ HoldOK(a)' /\ TakeOK(a)' /\ EndOK(a)'
      BY <1>1, <1>2, <1>4, <1>7, <2>1, <2>2, <2>3 DEF OpenOK, HoldOK, TakeOK, EndOK, Holding, Whole, Stages
    <2>6. QED
      BY <2>2, <2>4, <2>5 DEF RemoverOK
  <1>9. CASE InspectMove(a) \/ Move(a)
    <2>1. act[a].pc = "move" /\ HoldOK(a) /\ act[a].pc \in Holding
      BY <1>4, <1>9 DEF InspectMove, Move, Inspecting, Renaming, At, Holding
    <2>2. /\ loc = act[a].pin /\ record = act[a].stage /\ link # "isolated"
          /\ record \in {"releaseIntent", "releasing"}
          /\ act[a].fresh \/ ShutDisk
      BY <1>1, <2>1 DEF HoldOK, StageOK, StageAt
    <2>3. CASE InspectMove(a) /\ act[a].pin = "release" /\ record = "releasing"
      <3>1. PICK p : p = Isolated(a)
        OBVIOUS
      <3>2. p = IF Closing(a) THEN "relocate" ELSE "sockIsolate"
        BY <3>1 DEF Isolated
      <3>3. Goto(a, p) /\ UNCHANGED disk
        BY <2>2, <2>3, <3>1 DEF InspectMove
      <3>4. /\ act'[a].pc = p /\ act'[a].pin = act[a].pin /\ act'[a].stage = act[a].stage
            /\ act'[a].fresh = act[a].fresh /\ act'[a].held = "none"
        BY <1>1, <3>2, <3>3, GotoShape DEF Elsewhere
      <3>5. Closing(a) => ShutDisk
        BY <2>1, <2>3 DEF HoldOK, Closing
      <3>6. OpenOK(a)' /\ TakeOK(a)'
        BY <1>1, <2>2, <2>3, <3>2, <3>3, <3>4 DEF OpenOK, TakeOK, disk, CleanDisk, Closing
      <3>7. HoldOK(a)'
        BY <1>1, <2>1, <2>2, <2>3, <3>2, <3>3, <3>4, <3>5
        DEF HoldOK, Holding, disk, CleanDisk, ShutDisk, Closing
      <3>8. EndOK(a)'
        BY <1>1, <1>2, <1>4, <2>1, <3>2, <3>4 DEF EndOK, Closing
      <3>9. QED
        BY <1>5, <2>3, <3>3, <3>6, <3>7, <3>8 DEF RemoverOK, disk
    <2>4. CASE InspectMove(a) /\ act[a].pin = "release" /\ record = "releaseIntent"
      <3>1. Goto(a, "stageMoved") /\ UNCHANGED disk
        BY <2>2, <2>4 DEF InspectMove, CleanDisk
      <3>2. /\ act'[a].pc = "stageMoved" /\ act'[a].pin = act[a].pin /\ act'[a].stage = act[a].stage
            /\ act'[a].fresh = act[a].fresh
        BY <1>1, <3>1, GotoShape
      <3>3. OpenOK(a)' /\ TakeOK(a)' /\ HoldOK(a)'
        BY <1>1, <2>1, <2>2, <2>4, <3>1, <3>2 DEF OpenOK, TakeOK, disk, HoldOK, Holding, ShutDisk
      <3>4. EndOK(a)'
        BY <1>1, <1>2, <1>4, <2>1, <3>2 DEF EndOK
      <3>5. QED
        BY <1>5, <2>4, <3>1, <3>3, <3>4 DEF RemoverOK, disk
    <2>5. CASE InspectMove(a) /\ act[a].pin = "canonical"
      <3>1. Hold(a, "own")
        BY <2>2, <2>5 DEF InspectMove
      <3>2. /\ act'[a].pc = "move" /\ act'[a].pin = act[a].pin /\ act'[a].stage = act[a].stage
            /\ act'[a].fresh = act[a].fresh /\ UNCHANGED disk
        BY <1>1, <2>1, <3>1, HoldShape
      <3>3. OpenOK(a)' /\ TakeOK(a)' /\ HoldOK(a)'
        BY <1>1, <2>1, <2>2, <2>5, <3>2 DEF OpenOK, TakeOK, disk, HoldOK, Holding, ShutDisk
      <3>4. EndOK(a)'
        BY <1>1, <1>2, <1>4, <2>1, <3>2 DEF EndOK
      <3>5. QED
        BY <1>5, <3>2, <3>3, <3>4 DEF RemoverOK, disk
    <2>6. CASE Move(a)
      <3>1. loc = "canonical" /\ record = "releaseIntent" /\ ~Occupied("release")
        BY <2>1, <2>2, <2>6 DEF Move, Renaming, HoldOK, CleanDisk, Occupied
      <3>2. /\ loc' = "release"
            /\ act' = [act EXCEPT ![a] = [@ EXCEPT !.pc = "stageMoved", !.pin = "release",
                                                   !.held = "none"]]
            /\ UNCHANGED <<anchor, record, link, sock, foreign, litter>>
        BY <2>6, <3>1 DEF Move, Occupied
      <3>3. /\ act'[a].pc = "stageMoved" /\ act'[a].pin = "release" /\ act'[a].stage = act[a].stage
            /\ act'[a].fresh = act[a].fresh
        <4>1. PICK h : h = act[a]
          OBVIOUS
        <4>2. PICK q : q = [h EXCEPT !.pc = "stageMoved", !.pin = "release", !.held = "none"]
          OBVIOUS
        <4>3. h \in Acts
          BY <1>1, <4>1
        <4>4. q.pc = "stageMoved" /\ q.pin = "release" /\ q.stage = h.stage /\ q.fresh = h.fresh
          BY <4>2, <4>3 DEF Acts
        <4>5. act'[a] = q
          BY <1>1, <3>2, <4>1, <4>2
        <4>6. QED
          BY <4>1, <4>4, <4>5
      <3>4. CleanDisk'
        BY <1>2, <3>1, <3>2 DEF CleanDisk, Gone, Names
      <3>5. OpenOK(a)' /\ TakeOK(a)' /\ HoldOK(a)'
        BY <1>1, <2>1, <2>2, <3>1, <3>2, <3>3 DEF OpenOK, TakeOK, HoldOK, Holding, ShutDisk
      <3>6. EndOK(a)'
        BY <1>1, <1>2, <1>4, <2>1, <3>3 DEF EndOK
      <3>7. QED
        BY <3>1, <3>4, <3>5, <3>6 DEF RemoverOK
    <2>7. InspectMove(a) => act[a].pin \in {"canonical", "release"}
      BY DEF InspectMove
    <2>8. QED
      BY <1>9, <2>2, <2>3, <2>4, <2>5, <2>6, <2>7
  <1>10. CASE StageMoved(a)
    <2>1. PICK p : p = Isolated(a)
      OBVIOUS
    <2>2. p = IF Closing(a) THEN "relocate" ELSE "sockIsolate"
      BY <2>1 DEF Isolated
    <2>3. Publish(a, "releasing", TRUE, p) /\ act[a].pc = "stageMoved"
      BY <1>10, <2>1 DEF StageMoved, At
    <2>4. record = "releaseIntent" /\ loc = "release" /\ link = "linked" /\ sock = "held"
      BY <1>4, <2>3 DEF HoldOK, Holding, CleanDisk
    <2>5. CleanDisk'
      BY <1>2, <1>7, <2>2, <2>3, <2>4 DEF CleanDisk, Gone, Stages, Names
    <2>6. OpenOK(a)' /\ HoldOK(a)' /\ TakeOK(a)'
      BY <1>1, <1>7, <2>2, <2>3, <2>4 DEF OpenOK, HoldOK, TakeOK, Holding, Closing, Stages
    <2>7. EndOK(a)'
      BY <1>1, <1>2, <1>4, <1>7, <2>2, <2>3 DEF EndOK, Closing, Stages
    <2>8. QED
      BY <2>4, <2>5, <2>6, <2>7 DEF RemoverOK
  <1>11. CASE StageDir(a)
    <2>1. act[a].stage \in Stages
      BY <1>1 DEF Acts
    <2>2. PICK p : p = IF act[a].job = "shutdown" THEN "done" ELSE "dirIsolate"
      OBVIOUS
    <2>3. Publish(a, act[a].stage, TRUE, p) /\ act[a].pc = "stageDir"
      BY <1>11, <2>2 DEF StageDir, At
    <2>4. /\ record' = record /\ UNCHANGED <<anchor, loc, link, sock, foreign>>
          /\ act'[a].pc = p /\ act'[a].stage = record /\ act'[a].fresh
          /\ act'[a].pin = act[a].pin /\ loc = act[a].pin /\ record = act[a].stage
      BY <1>7, <2>1, <2>2, <2>3
    <2>5. CleanDisk'
      BY <1>2, <2>4 DEF CleanDisk, Gone
    <2>6. OpenOK(a)' /\ HoldOK(a)' /\ TakeOK(a)'
      BY <1>1, <1>4, <2>2, <2>3, <2>4 DEF OpenOK, HoldOK, TakeOK, Holding
    <2>7. EndOK(a)'
      BY <1>1, <1>2, <1>4, <2>2, <2>3, <2>4 DEF EndOK, ShutDisk
    <2>8. QED
      BY <2>4, <2>5, <2>6, <2>7 DEF RemoverOK
  <1>12. CASE \/ InspectSocket(a) \/ SockIsolate(a) \/ SockRetire(a)
              \/ InspectLink(a) \/ LinkIsolate(a) \/ LinkRetire(a)
    <2>1. act[a].pc \in {"sockIsolate", "sockRetire", "linkIsolate", "linkRetire"}
      BY <1>12 DEF InspectSocket, SockIsolate, SockRetire, InspectLink, LinkIsolate, LinkRetire,
                   Inspecting, Renaming, At
    <2>2. /\ act[a].job # "shutdown" /\ act[a].pc \in Holding /\ act[a].pc \in Taking \ {"dirRetire"}
      BY <1>3, <2>1 DEF Holding
    <2>3. /\ loc = act[a].pin /\ record = act[a].stage /\ act[a].fresh
          /\ record \in {"bound", "creating", "listening", "releasing"}
          /\ act[a].job # "recover" => record = "releasing"
      BY <1>4, <2>1, <2>2 DEF HoldOK, TakeOK
    <2>4. loc \in Names
      <3>1. act[a].pin # "none"
        BY <1>1, <2>1 DEF StageOK
      <3>2. QED
        BY <1>1, <2>3, <3>1 DEF Acts
    <2>5. ASSUME NEW p \in {"sockRetire", "linkIsolate", "linkRetire", "stageDir", "dirIsolate"}, Goto(a, p),
                 UNCHANGED <<record, loc, foreign, anchor>>,
                 p = "sockRetire" => sock' = "isolated" /\ link' # "isolated" /\ record # "bound",
                 p = "linkIsolate" => sock' = "none" /\ link' # "isolated",
                 p = "linkRetire" => sock' = "none" /\ link' = "isolated",
                 p \in {"stageDir", "dirIsolate"} => sock' = "none" /\ link' = "none",
                 sock' \in {"none", sock, "isolated"}, link' \in {"none", link, "isolated"},
                 sock' # "none" => link' = link /\ sock # "none" /\ record # "bound"
          PROVE  CleanDisk' /\ RemoverOK(a)'
      <3>1. /\ act'[a].pc = p /\ act'[a].pin = act[a].pin /\ act'[a].stage = act[a].stage
            /\ act'[a].fresh = act[a].fresh /\ act'[a].held = "none"
        BY <1>1, <2>5, GotoShape
      <3>2. CleanDisk'
        BY <1>2, <2>3, <2>4, <2>5 DEF CleanDisk, Gone
      <3>3. OpenOK(a)' /\ HoldOK(a)' /\ EndOK(a)'
        BY <1>1, <2>2, <2>3, <2>5, <3>1 DEF OpenOK, HoldOK, EndOK, Holding
      <3>4. TakeOK(a)'
        BY <1>1, <2>2, <2>3, <2>5, <3>1 DEF TakeOK
      <3>5. QED
        BY <3>2, <3>3, <3>4 DEF RemoverOK
    <2>6. CASE InspectSocket(a) \/ SockIsolate(a)
      <3>1. /\ act[a].pc = "sockIsolate" /\ sock \in {"held", "isolated", "none"} /\ link # "isolated"
            /\ record # "bound"
        BY <1>1, <1>4, <2>2, <2>6
        DEF InspectSocket, SockIsolate, Inspecting, Renaming, At, TakeOK, CleanDisk, DiskTyped
      <3>2. CASE InspectSocket(a) /\ sock = "held"
        <4>1. Hold(a, "own")
          BY <3>2 DEF InspectSocket
        <4>2. /\ act'[a].pc = act[a].pc /\ act'[a].pin = act[a].pin /\ act'[a].stage = act[a].stage
              /\ act'[a].fresh = act[a].fresh /\ act'[a].held = "own" /\ UNCHANGED disk
          BY <1>1, <4>1, HoldShape
        <4>3. OpenOK(a)' /\ HoldOK(a)' /\ EndOK(a)' /\ TakeOK(a)'
          BY <1>1, <2>2, <2>3, <3>1, <3>2, <4>2 DEF OpenOK, HoldOK, EndOK, TakeOK, Holding, disk
        <4>4. QED
          BY <1>5, <4>2, <4>3 DEF RemoverOK, disk
      <3>3. CASE InspectSocket(a) /\ sock # "held"
        BY <2>3, <2>5, <3>1, <3>3 DEF InspectSocket, disk
      <3>4. CASE SockIsolate(a)
        <4>1. sock = "held" /\ act[a].held = "own"
          BY <1>4, <2>2, <3>1, <3>4 DEF SockIsolate, Renaming, TakeOK
        <4>2. Goto(a, "sockRetire") /\ sock' = "isolated" /\ UNCHANGED <<anchor, record, loc, link, foreign>>
          BY <3>4, <4>1 DEF SockIsolate, HeldSocket
        <4>3. QED
          BY <2>3, <2>5, <3>1, <4>1, <4>2
      <3>5. QED
        BY <2>6, <3>2, <3>3, <3>4
    <2>7. CASE SockRetire(a)
      <3>1. act[a].pc = "sockRetire" /\ sock = "isolated" /\ link # "isolated"
        BY <1>4, <2>2, <2>7 DEF SockRetire, At, TakeOK
      <3>2. QED
        BY <2>3, <2>5, <2>7, <3>1 DEF SockRetire
    <2>8. CASE InspectLink(a) \/ LinkIsolate(a)
      <3>1. act[a].pc = "linkIsolate" /\ sock = "none" /\ link \in {"none", "linked"}
        BY <1>1, <1>4, <2>2, <2>8
        DEF InspectLink, LinkIsolate, Inspecting, Renaming, At, TakeOK, DiskTyped, CleanDisk
      <3>2. PICK p : p = LinkGone(act[a].stage)
        OBVIOUS
      <3>3. p \in {"dirIsolate", "stageDir"}
        BY <3>2 DEF LinkGone
      <3>4. CASE InspectLink(a) /\ link = "linked"
        <4>1. Hold(a, "own")
          BY <3>4 DEF InspectLink, GenerationAvailable, CleanDisk
        <4>2. /\ act'[a].pc = act[a].pc /\ act'[a].pin = act[a].pin /\ act'[a].stage = act[a].stage
              /\ act'[a].fresh = act[a].fresh /\ UNCHANGED disk
          BY <1>1, <4>1, HoldShape
        <4>3. OpenOK(a)' /\ HoldOK(a)' /\ EndOK(a)' /\ TakeOK(a)'
          BY <1>1, <2>2, <2>3, <3>1, <3>4, <4>2 DEF OpenOK, HoldOK, EndOK, TakeOK, Holding, disk
        <4>4. QED
          BY <1>5, <4>2, <4>3 DEF RemoverOK, disk
      <3>5. CASE InspectLink(a) /\ link = "none"
        <4>1. Goto(a, p) /\ UNCHANGED <<record, loc, foreign, anchor, sock, link>>
          BY <3>2, <3>5 DEF InspectLink, disk
        <4>2. QED
          BY <2>3, <2>5, <3>1, <3>3, <3>5, <4>1
      <3>6. CASE LinkIsolate(a)
        <4>1. link = "linked"
          BY <1>4, <2>2, <3>1, <3>6 DEF LinkIsolate, Renaming, TakeOK
        <4>2. Goto(a, "linkRetire") /\ link' = "isolated" /\ UNCHANGED <<record, loc, foreign, anchor, sock>>
          BY <3>6, <4>1 DEF LinkIsolate
        <4>3. QED
          BY <2>3, <2>5, <3>1, <4>2
      <3>7. QED
        BY <2>8, <3>1, <3>4, <3>5, <3>6
    <2>9. CASE LinkRetire(a)
      <3>1. act[a].pc = "linkRetire" /\ sock = "none" /\ link = "isolated"
        BY <1>4, <2>2, <2>9 DEF LinkRetire, At, TakeOK
      <3>2. PICK p : p = LinkGone(act[a].stage)
        OBVIOUS
      <3>3. p \in {"dirIsolate", "stageDir"}
        BY <3>2 DEF LinkGone
      <3>4. Goto(a, p) /\ link' = "none" /\ UNCHANGED <<record, loc, foreign, anchor, sock>>
        BY <2>9, <3>1, <3>2 DEF LinkRetire
      <3>5. QED
        BY <2>3, <2>5, <3>1, <3>3, <3>4
    <2>10. record' = record
      BY <1>12 DEF InspectSocket, SockIsolate, SockRetire, InspectLink, LinkIsolate, LinkRetire,
                   Hold, Refuse, Fail, disk
    <2>11. QED
      BY <1>12, <2>6, <2>7, <2>8, <2>9, <2>10
  <1>13. CASE InspectDirectory(a) \/ DirIsolate(a)
    <2>1. act[a].pc = "dirIsolate" /\ act[a].job # "shutdown"
      BY <1>3, <1>13 DEF InspectDirectory, DirIsolate, Inspecting, Renaming, At
    <2>2. loc = act[a].pin /\ sock = "none" /\ link = "none" /\ record \in {"bound", "creating", "listening", "releasing"}
      BY <1>4, <2>1 DEF HoldOK, TakeOK, Holding
    <2>3. CASE DirIsolate(a)
      <3>1. loc' \in {"isolated", "orphaned"} /\ Goto(a, "dirRetire")
            /\ UNCHANGED <<anchor, record, link, sock, foreign>>
        BY <2>2, <2>3 DEF DirIsolate
      <3>2. act'[a].pc = "dirRetire"
        BY <1>1, <3>1, GotoShape
      <3>3. CleanDisk'
        BY <1>2, <2>2, <3>1 DEF CleanDisk, Gone, Names
      <3>4. QED
        BY <1>1, <2>1, <3>1, <3>2, <3>3 DEF RemoverOK, OpenOK, HoldOK, TakeOK, EndOK, Holding
    <2>4. CASE InspectDirectory(a)
      <3>1. Hold(a, "own")
        BY <2>2, <2>4 DEF InspectDirectory
      <3>2. /\ act'[a].pc = act[a].pc /\ act'[a].pin = act[a].pin /\ act'[a].stage = act[a].stage
            /\ act'[a].fresh = act[a].fresh /\ UNCHANGED disk
        BY <1>1, <3>1, HoldShape
      <3>3. OpenOK(a)' /\ HoldOK(a)' /\ EndOK(a)' /\ TakeOK(a)'
        BY <1>1, <1>4, <2>1, <3>2 DEF OpenOK, HoldOK, EndOK, TakeOK, Holding, disk
      <3>4. QED
        BY <1>5, <3>2, <3>3 DEF RemoverOK, disk
    <2>5. QED
      BY <1>13, <2>3, <2>4
  <1>14. CASE DirRetire(a)
    <2>1. act[a].pc = "dirRetire" /\ act[a].job # "shutdown" /\ Gone
      BY <1>1, <1>3, <1>14 DEF DirRetire, At, GoneOK
    <2>2. DirectoryEmpty
      BY <2>1 DEF DirectoryEmpty, CleanDisk
    <2>3. /\ loc' = (IF loc \in {"isolated", "orphaned"} THEN "none" ELSE loc) /\ Goto(a, "done")
          /\ UNCHANGED <<anchor, record, link, sock, foreign>>
      BY <1>14, <2>2 DEF DirRetire
    <2>4. act'[a].pc = "done"
      BY <1>1, <2>3, GotoShape DEF Ended
    <2>5. CleanDisk'
      BY <1>2, <2>1, <2>3 DEF CleanDisk, Gone, Names
    <2>6. QED
      BY <1>1, <2>1, <2>3, <2>4, <2>5 DEF RemoverOK, OpenOK, HoldOK, TakeOK, EndOK, Holding
  <1>15. QED
    BY <1>6, <1>8, <1>9, <1>10, <1>11, <1>12, <1>13, <1>14 DEF Removal

-----------------------------------------------------------------------------
(* Two removals never meet on the disk, but for a release of an attachment *)
(* that a shutdown has just closed: it finds no socket and gives up.       *)

Claiming(a) ==
    /\ Remover(a)
    /\ \/ act[a].pc \in Approach \cup Taking \cup {"relocate", "isolated", "send", "close", "failed"}
       \/ act[a].job = "shutdown" /\ act[a].pc = "done"

Overtaken(c) ==
    /\ c \in Callers /\ act[c].job = "release" /\ mu = c /\ act[c].pc \in Approach \cup {"relocate"}
    /\ act[Run].job = "shutdown" /\ act[Run].pc \in {"stageDir", "done", "failed"} /\ ShutDisk

\* What of the control a claim of a call rests on.
LEMMA ClaimOfCall ==
  ASSUME Control, NEW c \in Callers, Claiming(c)
  PROVE  \/ act[c].job = "unregister" /\ entry = "pending" /\ phase = "intent" /\ Registering(c)
         \/ /\ act[c].job = "release" /\ mu = c /\ entry \in {"ready", "recovered"} /\ phase \in Retiring
            /\ act[c].pc \in Approach \cup {"relocate", "isolated"}
         \/ act[c].job = "release" /\ entry = "releasing" /\ phase \in Retiring /\ Finishing(c)
         \/ act[c].job = "sweep" /\ entry = "none" /\ phase \in Retiring
  <1>1. CallerOK(c) /\ EntryOK
    BY DEF Control
  <1>2. CASE act[c].job = "unregister"
    BY <1>1, <1>2 DEF CallerOK, UnregisterOK, EntryOK, Registering
  <1>3. CASE act[c].job = "sweep"
    BY <1>1, <1>3 DEF CallerOK, SweepOK
  <1>4. CASE act[c].job = "release"
    <2>1. CASE act[c].pc \in Approach \cup {"relocate", "isolated"}
      BY <1>1, <1>4, <2>1 DEF CallerOK, ReleaseOK
    <2>2. CASE act[c].pc \in Taking \cup {"send", "close", "failed"}
      BY <1>1, <1>4, <2>2 DEF CallerOK, ReleaseOK, Finishing, Past
    <2>3. QED
      BY <1>4, <2>1, <2>2 DEF Claiming
  <1>5. QED
    BY <1>1, <1>2, <1>3, <1>4 DEF Claiming, Remover, CallerOK

LEMMA ClaimOfRun ==
  ASSUME Control, Claiming(Run), NEW c \in Callers, Claiming(c), EndOK(Run), HoldOK(c)
  PROVE  Overtaken(c)
  <1>1. RunOK /\ ModeOK
    BY DEF Control
  <1>2. act[Run].job = "shutdown"
    <2>1. act[Run].job = "recover" => run = "recovering"
      BY <1>1 DEF RunOK, RecoverOK
    <2>2. act[Run].job # "recover"
      BY <1>1, <2>1, IdleIsTyped DEF ModeOK, Claiming, Remover
    <2>3. QED
      BY <1>1, <2>2 DEF RunOK, Claiming, Remover
  <1>3. ShutdownOK
    BY <1>1 DEF RunOK
  <1>4. /\ act[c].job = "release" /\ mu = c /\ entry \in {"ready", "recovered"}
        /\ act[c].pc \in Approach \cup {"relocate", "isolated"}
    <2>1. act[c].job # "unregister" /\ entry # "none"
      BY <1>2, <1>3 DEF ShutdownOK
    <2>2. ~(act[c].job = "release" /\ entry = "releasing" /\ Finishing(c))
      <3>1. SUFFICES ASSUME act[c].job = "release", entry = "releasing", Finishing(c) PROVE FALSE
        OBVIOUS
      <3>2. ~Past(c) /\ act[c].pc # "unproven"
        BY <1>2, <1>3, <3>1 DEF ShutdownOK, Claiming, Approach, Taking
      <3>3. act[Run].pc \in Approach \cup {"relocate", "isolated", "stageDir", "done", "failed"}
        BY <1>2, <1>3 DEF ShutdownOK, Claiming, Approach, Taking, Ended
      <3>4. QED
        BY <1>2, <3>1, <3>3 DEF EndOK
    <2>3. QED
      BY <2>1, <2>2, ClaimOfCall
  <1>5. mu # Run /\ act[Run].pc \in {"stageDir", "done", "failed"}
    <2>1. mu # Run
      BY <1>4, RunAssumption
    <2>2. QED
      BY <1>2, <1>3, <2>1 DEF ShutdownOK, Claiming, Approach, Taking, Ended
  <1>6. ShutDisk
    BY <1>2, <1>5 DEF EndOK
  <1>7. act[c].pc # "isolated"
    BY <1>6 DEF HoldOK, Holding, ShutDisk
  <1>8. QED
    BY <1>2, <1>4, <1>5, <1>6, <1>7 DEF Overtaken

LEMMA ClaimsExclude ==
  ASSUME Control, Fine, NEW a \in Actors, NEW b \in Actors, Claiming(a), Claiming(b), a # b
  PROVE  (a = Run /\ Overtaken(b)) \/ (b = Run /\ Overtaken(a))
  <1>1. RemoverOK(a) /\ RemoverOK(b) /\ Remover(a) /\ Remover(b)
    BY DEF Fine, Claiming
  <1>2. HoldOK(a) /\ EndOK(a) /\ HoldOK(b) /\ EndOK(b)
    BY <1>1 DEF RemoverOK
  <1>3. CASE a = Run
    BY <1>2, <1>3, ClaimOfRun DEF Actors
  <1>4. CASE b = Run
    BY <1>2, <1>4, ClaimOfRun DEF Actors
  <1>5. CASE a \in Callers /\ b \in Callers
    <2>1. PICK c \in Callers : c = a
      BY <1>5
    <2>2. PICK d \in Callers : d = b
      BY <1>5
    <2>3. Claiming(c) /\ Claiming(d) /\ c # d
      BY <2>1, <2>2
    <2>4. ~(Registering(c) /\ Registering(d)) /\ ~(Finishing(c) /\ Finishing(d))
      BY <2>3 DEF Control, OneAtATime
    <2>5. ~(act[c].job = "sweep" /\ act[d].job = "sweep")
      BY <2>3 DEF Fine, OneSweep
    <2>6. QED
      BY <2>3, <2>4, <2>5, ClaimOfCall DEF Retiring
  <1>6. QED
    BY <1>3, <1>4, <1>5 DEF Actors

\* What the others need of the disk survives a step of a removal.
LEMMA BystanderClean ==
  ASSUME NEW b \in Actors, Peer(b), RemoverOK(b), ~Claiming(b), UNCHANGED memory
  PROVE  RemoverOK(b)'
  <1> SUFFICES ASSUME Remover(b)' PROVE (OpenOK(b) /\ HoldOK(b) /\ TakeOK(b) /\ EndOK(b))'
    BY DEF RemoverOK
  <1>1. act'[b].job = act[b].job /\ act'[b].pc = act[b].pc /\ entry' = entry /\ mu' = mu
    BY DEF Peer, memory
  <1>2. Remover(b) /\ OpenOK(b) /\ HoldOK(b) /\ TakeOK(b) /\ EndOK(b)
    BY <1>1 DEF Remover, RemoverOK
  <1>3. /\ act[b].pc \notin Approach \cup Taking \cup {"relocate", "isolated", "send", "close", "failed"}
        /\ act[b].job = "shutdown" => act[b].pc # "done"
    BY <1>2 DEF Claiming
  <1>4. OpenOK(b)' /\ HoldOK(b)' /\ TakeOK(b)'
    BY <1>1, <1>3 DEF OpenOK, HoldOK, TakeOK, Holding, Approach, Taking
  <1>5. EndOK(b)'
    BY <1>1, <1>2, <1>3 DEF EndOK, Approach, Taking
  <1>6. QED
    BY <1>4, <1>5

LEMMA OvertakenClean ==
  ASSUME NEW c \in Callers, Overtaken(c), RemoverOK(c), StageOK(c), Peer(c), UNCHANGED <<record, loc, link, sock, mu, entry>>
  PROVE  RemoverOK(c)'
  <1>1. Remover(c) /\ OpenOK(c) /\ HoldOK(c) /\ TakeOK(c) /\ EndOK(c)
    BY DEF Remover, Overtaken, RemoverOK
  <1>2. /\ act'[c].job = "release" /\ act'[c].pc = act[c].pc /\ act'[c].pin = act[c].pin
        /\ act'[c].held = act[c].held
        /\ act'[c].stage = act[c].stage /\ act[c].pc \in {"open", "releaseIntent", "move", "stageMoved", "relocate"}
    BY DEF Peer, Overtaken, Approach
  <1>3. ShutDisk /\ ShutDisk'
    BY DEF Overtaken, ShutDisk
  <1>4. act[c].pc \notin {"releaseIntent", "stageMoved"} 
    BY <1>1, <1>3 DEF HoldOK, Holding, Approach, StageOK, StageAt, ShutDisk
  <1>5. OpenOK(c)'
    BY <1>2, <1>3 DEF OpenOK, ShutDisk, Unrecoverable
  <1>6. HoldOK(c)'
    BY <1>1, <1>2, <1>3, <1>4 DEF HoldOK, Holding, Approach, Taking, ShutDisk, Closing
  <1>7. TakeOK(c)' /\ EndOK(c)'
    BY <1>2 DEF TakeOK, EndOK, Taking
  <1>8. QED
    BY <1>5, <1>6, <1>7 DEF RemoverOK

\* A release overtaken by a shutdown does nothing to the disk.
LEMMA OvertakenStep ==
  ASSUME Control, Disk, NEW c \in Callers, Overtaken(c), RemoverOK(c), 
         Removal(c) \/ Relocate(c)
  PROVE  Others(c) /\ UNCHANGED disk
  <1>1. /\ HoldOK(c) /\ StageOK(c) /\ ShutDisk /\ act \in [Actors -> Acts] /\ c \in Actors
        /\ act[c].pc \in {"open", "releaseIntent", "move", "stageMoved", "relocate"}
    BY DEF Overtaken, RemoverOK, Remover, Disk, Control, Typed, Actors, Approach
  <1>2. act[c].pc \notin {"releaseIntent", "stageMoved"}
    BY <1>1 DEF HoldOK, Holding, Approach, StageOK, StageAt, ShutDisk
  <1>3. CASE Relocate(c)
    <2>1. UNCHANGED disk /\ (Goto(c, "isolated") \/ Goto(c, "refuse"))
      BY <1>3 DEF Relocate
    <2>2. QED
      BY <1>1, <2>1, GotoShape DEF Elsewhere, Ended
  <1>4. CASE Open(c)
    <2>1. UNCHANGED disk
      <3>1. \/ Refuse(c) \/ UNCHANGED disk \/ \E n \in NamesOf(record) : Pinned(c, n)
        BY <1>4 DEF Open
      <3>2. QED
        BY <3>1, Zenon DEF Refuse, Pinned
    <2>2. \/ Goto(c, "done") \/ Goto(c, "refuse") \/ Goto(c, "dirRetire")
          \/ \E n \in Names : Pinned(c, n)
      BY <1>4 DEF Open, Refuse, NamesOf, Names
    <2>3. CASE Goto(c, "done") \/ Goto(c, "refuse") \/ Goto(c, "dirRetire")
      BY <1>1, <2>1, <2>3, GotoShape DEF Ended, Taking
    <2>4. CASE \E n \in Names : Pinned(c, n)
      <3>1. Others(c)
        BY <1>1, <2>4 DEF Pinned, Others
      <3>2. QED
        BY <2>1, <3>1
    <2>5. QED
      BY <2>2, <2>3, <2>4
  <1>5. CASE InspectMove(c) \/ Move(c)
    <2>1. /\ act[c].pc = "move" /\ loc = act[c].pin /\ act[c].stage = "releasing" /\ act[c].pin = "release"
          /\ act[c].held = "none"
      BY <1>1, <1>5 DEF InspectMove, Move, Inspecting, Renaming, At, HoldOK, Holding, Approach, ShutDisk
    <2>2. UNCHANGED disk /\ (Goto(c, "relocate") \/ Goto(c, "sockIsolate"))
      BY <1>5, <2>1 DEF InspectMove, Move, Renaming, Isolated
    <2>3. QED
      BY <1>1, <2>2, GotoShape DEF Elsewhere, Taking
  <1>6. QED
    BY <1>1, <1>2, <1>3, <1>4, <1>5
    DEF Removal, PublishReleaseIntent, StageMoved, InspectSocket, SockIsolate, SockRetire, InspectLink,
        LinkIsolate, LinkRetire, StageDir, InspectDirectory, DirIsolate, DirRetire, Inspecting, Renaming, At

\* The last step of a shutdown leaves what it found.
LEMMA ShutdownStep ==
  ASSUME Control, Disk, CleanDisk, act[Run].job = "shutdown", act[Run].pc = "stageDir", RemoverOK(Run),
         Removal(Run)
  PROVE  UNCHANGED <<record, loc, link, sock>>
  <1>1. HoldOK(Run) /\ EndOK(Run) /\ act \in [Actors -> Acts] /\ Run \in Actors
    BY DEF RemoverOK, Remover, Control, Typed, Actors
  <1>2. StageDir(Run)
    BY DEF Removal, Open, PublishReleaseIntent, InspectMove, Move, StageMoved, InspectSocket,
           SockIsolate, SockRetire, InspectLink, LinkIsolate, LinkRetire, InspectDirectory,
           DirIsolate, DirRetire, Inspecting, Renaming, At
  <1>3. record = act[Run].stage /\ record = "releasing" /\ act[Run].fresh
    BY <1>1 DEF HoldOK, EndOK, Holding, Taking, ShutDisk
  <1>4. Publish(Run, "releasing", TRUE, "done")
    BY <1>2, <1>3 DEF StageDir
  <1>5. Published(Run, "releasing", TRUE, "done")
    <2>1. Publishable(Run)
      BY <1>3 DEF Publishable, RecordReadable
    <2>2. QED
      BY <1>1, <1>4, <2>1, PublishShape DEF NotPublished, Stages, Ended
  <1>6. QED
    BY <1>3, <1>5 DEF Published

LEMMA RelocateClean ==
  ASSUME Control, Disk, CleanDisk, NEW a \in Actors, Remover(a), RemoverOK(a), Relocate(a), Clean'
  PROVE  CleanDisk' /\ RemoverOK(a)'
  <1>1. /\ HoldOK(a) /\ EndOK(a) /\ act \in [Actors -> Acts] /\ act[a].pc = "relocate"
        /\ UNCHANGED <<disk, memory, durable>>
    BY DEF RemoverOK, Control, Typed, Relocate, At
  <1>2. /\ record = "releasing" /\ loc = "release" /\ link = "linked" /\ sock \in {"held", "none"}
        /\ loc = act[a].pin /\ record = act[a].stage
    BY <1>1 DEF HoldOK, Holding
  <1>3. sock # "none"
    BY DEF Relocate, Clean
  <1>4. Goto(a, "isolated") /\ act[a].fresh
    BY <1>1, <1>2, <1>3 DEF Relocate, HoldOK, Holding, ShutDisk
  <1>5. /\ act'[a].pc = "isolated" /\ act'[a].job = act[a].job /\ act'[a].pin = act[a].pin
        /\ act'[a].stage = act[a].stage /\ act'[a].fresh
    BY <1>1, <1>4, GotoShape DEF Elsewhere
  <1>6. CleanDisk'
    BY <1>1 DEF CleanDisk, Gone, disk, durable
  <1>7. OpenOK(a)' /\ TakeOK(a)'
    BY <1>5 DEF OpenOK, TakeOK, Taking
  <1>8. HoldOK(a)'
    BY <1>1, <1>2, <1>3, <1>5 DEF HoldOK, disk
  <1>9. EndOK(a)'
    BY <1>1, <1>5 DEF EndOK, memory, disk
  <1>10. QED
    BY <1>6, <1>7, <1>8, <1>9 DEF RemoverOK

LEMMA ErrorClean ==
  ASSUME Control, Disk, CleanDisk, NEW a \in Actors, Remover(a), RemoverOK(a), IOError(a),
         UNCHANGED <<memory, durable>>
  PROVE  /\ CleanDisk' /\ RemoverOK(a)' /\ UNCHANGED <<record, loc, link, sock>>
         /\ act[a].pc \in Approach \cup (Taking \ {"dirRetire"})
  <1>1. OpenOK(a) /\ HoldOK(a) /\ TakeOK(a) /\ EndOK(a) /\ StageOK(a) /\ act \in [Actors -> Acts] /\ ~Builder(a)
    BY DEF RemoverOK, Control, Typed, Remover, Builder, Disk
  <1>2. /\ \/ act[a].pc \in {"sockIsolate", "linkIsolate", "stageDir", "dirIsolate"}
           \/ act[a].pc \in Approach /\ ~Closing(a)
        /\ Goto(a, "failed") /\ UNCHANGED disk
    BY <1>1, MakingIsBuilding DEF IOError, Building, Making, Approach, Fail
  <1>3. act'[a].pc = "failed" /\ act'[a].job = act[a].job
    BY <1>1, <1>2, GotoShape DEF Ended
  <1>4. CleanDisk'
    BY <1>2 DEF CleanDisk, Gone, disk, durable
  <1>5. OpenOK(a)' /\ TakeOK(a)' /\ HoldOK(a)'
    BY <1>3 DEF OpenOK, TakeOK, HoldOK, Holding, Approach, Taking
  <1>6. EndOK(a)'
    <2>1. act[a].job = "shutdown" => ShutDisk /\ act[a].pc = "stageDir" /\ entry # "releasing"
      <3>1. SUFFICES ASSUME act[a].job = "shutdown" PROVE ShutDisk /\ act[a].pc = "stageDir" /\ entry # "releasing"
        OBVIOUS
      <3>2. a = Run
        BY <3>1 DEF Actors, Control, CallerOK
      <3>3. act[a].pc = "stageDir"
        BY <1>2, <3>1, <3>2 DEF Control, RunOK, ShutdownOK, Approach, Ended, Closing
      <3>4. QED
        BY <1>1, <3>1, <3>3 DEF EndOK
    <2>2. /\ Closing(a) => record = "releasing" /\ link # "isolated"
          /\ act[a].job = "sweep" => Leftover
      <3>1. CASE act[a].pc \in {"sockIsolate", "linkIsolate", "stageDir", "dirIsolate"}
        BY <1>1, <2>1, <3>1 DEF TakeOK, Taking, ShutDisk, Leftover, Closing
      <3>2. CASE act[a].pc \in Approach /\ ~Closing(a)
        BY <1>1, <3>2 DEF OpenOK, HoldOK, Holding, Approach, StageOK, StageAt, Leftover
      <3>3. QED
        BY <1>2, <3>1, <3>2
    <2>3. (ShutDisk' <=> ShutDisk) /\ (Leftover' <=> Leftover)
      BY <1>2 DEF ShutDisk, Leftover, Gone, disk
    <2>4. QED
      BY <1>2, <1>3, <2>1, <2>2, <2>3 DEF EndOK, Closing, memory, disk, Approach
  <1>7. QED
    BY <1>2, <1>4, <1>5, <1>6 DEF RemoverOK, disk, Approach, Taking

LEMMA RemovingFine ==
  ASSUME Control, Disk, Fine, NEW a \in Actors, Remover(a),
         act[a].pc \in Approach \cup Taking \cup {"relocate"},
         Removal(a) \/ Relocate(a) \/ IOError(a), 
         Moved(a), UNCHANGED <<memory, durable>>, Clean'
  PROVE  Fine'
  <1> USE DEF Fine
  <1>1. /\ CleanDisk /\ RemoverOK(a) /\ Claiming(a) /\ act \in [Actors -> Acts] /\ Run \in Actors
        /\ \A b \in Actors : StageOK(b)
    BY DEF Claiming, Control, Typed, Actors, Disk
  <1>2. /\ run' = run /\ mu' = mu /\ entry' = entry /\ server' = server /\ phase' = phase
        /\ \A b \in Actors \ {a} : Peer(b)
        /\ \A b \in Actors : act'[b].job = act[b].job
    BY DEF memory, durable, Moved, Peer
  <1>3. CleanDisk' /\ RemoverOK(a)' /\ (record = "releasing" => record' = "releasing")
    <2>1. CASE Removal(a)
      BY <1>1, <2>1, RemovalClean
    <2>2. CASE Relocate(a)
      BY <1>1, <2>2, RelocateClean DEF Relocate, disk
    <2>3. CASE IOError(a)
      BY <1>1, <2>3, ErrorClean
    <2>4. QED
      BY <2>1, <2>2, <2>3
  <1>4. ASSUME NEW b \in Actors \ {a}
        PROVE  BuilderOK(b)' /\ RemoverOK(b)'
    <2>1. BuilderOK(b)'
      <3>1. act[b].pc \notin Making
        <4>1. CASE Building(b)
          <5>1. act[a].job \in {"idle", "prepare"}
            BY <4>1, BuildingAlone
          <5>2. QED
            BY <5>1 DEF Remover
        <4>2. QED
          BY <4>1, MakingIsBuilding
      <3>2. QED
        BY <1>2, <3>1 DEF BuilderOK, Peer, Making
    <2>2. CASE ~Claiming(b)
      BY <1>2, <2>1, <2>2, BystanderClean
    <2>3. CASE a = Run /\ b \in Callers /\ Overtaken(b)
      <3>1. UNCHANGED <<record, loc, link, sock>>
        <4>1. act[Run].job = "shutdown" /\ act[Run].pc = "stageDir"
          BY <2>3 DEF Overtaken, Approach, Taking
        <4>2. CASE Removal(Run)
          BY <1>1, <2>3, <4>1, <4>2, ShutdownStep
        <4>3. CASE IOError(Run)
          BY <1>1, <2>3, <4>3, ErrorClean
        <4>4. QED
          BY <2>3, <4>1, <4>2, <4>3 DEF Relocate, At
      <3>2. QED
        BY <1>1, <1>2, <2>1, <2>3, <3>1, OvertakenClean
    <2>4. CASE b = Run /\ a \in Callers /\ Overtaken(a)
      <3>1. ~IOError(a)
        BY <2>4 DEF IOError, Overtaken, Approach, Closing
      <3>2. Others(a) /\ UNCHANGED disk
        BY <1>1, <2>4, <3>1, OvertakenStep
      <3>3. act'[Run] = act[Run]
        BY <1>1, <2>4, <3>2 DEF Others
      <3>4. RemoverOK(Run)
        BY <1>1
      <3>5. RemoverOK(Run)'
        BY <1>2, <3>2, <3>3, <3>4
        DEF RemoverOK, Remover, OpenOK, HoldOK, TakeOK, EndOK, Unrecoverable, Whole, ShutDisk,
            Leftover, Gone, Closing, disk
      <3>6. QED
        BY <2>1, <2>4, <3>5
    <2>5. QED
      BY <1>1, <2>1, <2>2, <2>3, <2>4, ClaimsExclude DEF Actors, Overtaken
  <1>5. BuilderOK(a)'
    BY <1>2 DEF BuilderOK, Builder, Remover
  <1>6. CASE a = Run
    <2>1. act[Run].job = "recover" => run = "recovering" /\ mu = Run /\ entry = "none"
      BY DEF Control, RunOK, RecoverOK, ModeOK
    <2>2. act[Run].job = "shutdown" => /\ run = "stopping" /\ entry # "none"
                                       /\ mu = "free" => act[Run].pc = "stageDir"
      <3>1. Run # "free"
        BY <1>1, FreeAssumption
      <3>2. QED
        BY <1>6, <3>1 DEF Control, RunOK, ShutdownOK, Approach, Taking, Ended
    <2>3. act[Run].job \in {"recover", "shutdown"}
      BY <1>6 DEF Remover, Control, RunOK
    <2>4. mu = "free" => ShutDisk' /\ act[Run].job = "shutdown" /\ act'[Run].pc # "lock"
      <3>1. SUFFICES ASSUME mu = "free" PROVE ShutDisk' /\ act[Run].job = "shutdown" /\ act'[Run].pc # "lock"
        OBVIOUS
      <3>2. act[Run].job = "shutdown" /\ act[Run].pc = "stageDir"
        BY <1>1, <2>1, <2>2, <2>3, <3>1, FreeAssumption
      <3>3. ShutDisk
        BY <1>1, <1>6, <3>2 DEF RemoverOK, EndOK
      <3>4. UNCHANGED <<record, loc, link, sock>>
        <4>1. CASE Removal(Run)
          BY <1>1, <1>6, <3>2, <4>1, ShutdownStep
        <4>2. CASE IOError(Run)
          BY <1>1, <1>6, <4>2, ErrorClean
        <4>3. QED
          BY <1>6, <3>2, <4>1, <4>2 DEF Relocate, At
      <3>5. act'[Run].pc # "lock"
        <4>1. CASE IOError(Run)
          <5>1. Goto(Run, "failed")
            BY <3>2, <4>1 DEF IOError, Fail
          <5>2. QED
            BY <1>1, <5>1, GotoShape DEF Ended
        <4>2. CASE StageDir(Run)
          <5>1. act[Run].stage \in Stages
            BY <1>1 DEF Acts
          <5>2. Publish(Run, act[Run].stage, TRUE, "done")
            BY <3>2, <4>2 DEF StageDir
          <5>3. Published(Run, act[Run].stage, TRUE, "done") \/ NotPublished(Run)
            BY <1>1, <5>1, <5>2, PublishShape DEF Ended
          <5>4. QED
            BY <5>3 DEF Published, NotPublished
        <4>3. QED
          BY <1>6, <3>2, <4>1, <4>2
          DEF Removal, Open, PublishReleaseIntent, InspectMove, Move, StageMoved, InspectSocket,
              SockIsolate, SockRetire, InspectLink, LinkIsolate, LinkRetire, InspectDirectory,
              DirIsolate, DirRetire, Inspecting, Renaming, At, Relocate
      <3>6. QED
        BY <3>2, <3>3, <3>4, <3>5 DEF ShutDisk
    <2>5. AttachedOK'
      BY <1>2, <2>2, <2>4 DEF AttachedOK, Attached, Serving
    <2>6. LeftOK'
      BY <1>2, <2>1, <2>2, <2>3 DEF LeftOK, Vacated
    <2>7. RestartOK'
      BY <1>1, <1>2, <2>1, <2>2, <2>3 DEF RestartOK
    <2>8. ReleasingOK' /\ OneSweep'
      BY <1>2, <1>3, <1>1 DEF ReleasingOK, OneSweep, Actors
    <2>9. QED
      BY <1>3, <1>4, <1>5, <2>5, <2>6, <2>7, <2>8
  <1>7. CASE a \in Callers
    <2>1. /\ CallerOK(a) /\ act[a].job \in {"unregister", "release", "sweep"}
          /\ a # "free" /\ run \notin {"down", "recovering", "failed"}
      BY <1>1, <1>7, IdleIsTyped, FreeAssumption DEF Remover, Control, CallerOK, ModeOK
    <2>2. \/ act[a].job = "unregister"
          \/ act[a].job = "release" /\ (mu = a \/ entry = "releasing") /\ entry # "none"
          \/ act[a].job = "sweep" /\ entry = "none"
      BY <1>1, <1>7, <2>1, ClaimOfCall
    <2>3. AttachedOK'
      BY <1>2, <1>7, <2>1, <2>2 DEF AttachedOK, Attached, Actors
    <2>4. act[a].job = "unregister" => entry = "pending"
      BY <2>1 DEF CallerOK, UnregisterOK
    <2>5. LeftOK'
      BY <1>2, <1>7, <2>2, <2>4 DEF LeftOK, Vacated, Actors
    <2>6. RestartOK'
      BY <1>2, <2>1 DEF RestartOK
    <2>7. ReleasingOK' /\ OneSweep'
      BY <1>2, <1>3, <1>1 DEF ReleasingOK, OneSweep, Actors
    <2>8. QED
      BY <1>3, <1>4, <1>5, <2>3, <2>5, <2>6, <2>7
  <1>8. QED
    BY <1>6, <1>7 DEF Actors

-----------------------------------------------------------------------------
(* Building under CleanDisk.                                               *)

\* A step that only moves a builder along.
LEMMA GotoBuilds ==
  ASSUME act \in [Actors -> Acts], CleanDisk, NEW a \in Actors, Builder(a), 
         NEW p \in Making \cup Ended, Goto(a, p), UNCHANGED <<disk, refused>>,
         p \in {"bind", "linkIn"} => loc = "creation",
         p \in {"bindLink", "listen"} => link = "linked"
  PROVE  CleanDisk' /\ BuilderOK(a)'
  <1>1. act'[a].pc = p
    BY GotoShape
  <1>2. CleanDisk'
    BY DEF CleanDisk, Gone, disk
  <1>3. BuilderOK(a)'
    BY <1>1 DEF BuilderOK, disk
  <1>4. QED
    BY <1>2, <1>3

LEMMA FailListeningClean ==
  ASSUME act \in [Actors -> Acts], CleanDisk, NEW a \in Actors, Builder(a), FailListening(a),
         record \in {"creating", "listening"}, refused' = refused
  PROVE  CleanDisk' /\ BuilderOK(a)'
  <1>1. act'[a].pc = "failed"
    BY GotoShape DEF FailListening, Ended
  <1>2. CleanDisk'
    BY DEF FailListening, CleanDisk, Gone
  <1>3. BuilderOK(a)'
    BY <1>1 DEF BuilderOK
  <1>4. QED
    BY <1>2, <1>3

LEMMA CreationClean ==
  ASSUME Control, Disk, CleanDisk, NEW a \in Actors, Builder(a), BuilderOK(a), Creation(a),
         UNCHANGED <<memory, durable>>, Clean'
  PROVE  CleanDisk' /\ BuilderOK(a)'
  <1> USE DEF Making, Ended
  <1>1. /\ DiskTyped /\ act \in [Actors -> Acts] /\ StageOK(a) /\ RecordOK
        /\ refused' = refused /\ record # "damaged"
    BY DEF Control, Typed, TypeOK, DiskTyped, Disk, durable, CleanDisk
  <1>2. ASSUME NEW p \in Making \cup Ended, Goto(a, p), UNCHANGED disk,
               p \in {"bind", "linkIn"} => loc = "creation",
               p \in {"bindLink", "listen"} => link = "linked"
        PROVE  CleanDisk' /\ BuilderOK(a)'
    BY <1>1, <1>2, GotoBuilds
  <1>3. ASSUME NEW stage \in Stages, NEW restamp, NEW p \in Making \cup Ended, Publish(a, stage, restamp, p)
        PROVE  \/ /\ record' = stage /\ act'[a].pc = p
                  /\ UNCHANGED <<anchor, loc, link, sock, foreign>>
               \/ CleanDisk' /\ BuilderOK(a)'
    <2>1. CASE Published(a, stage, restamp, p)
      BY <2>1 DEF Published
    <2>2. CASE NotPublished(a)
      <3>1. CleanDisk'
        BY <1>1, <2>2 DEF NotPublished, CleanDisk, Gone, disk
      <3>2. BuilderOK(a)'
        BY <2>2 DEF NotPublished, BuilderOK
      <3>3. QED
        BY <3>1, <3>2
    <2>3. QED
      BY <1>1, <1>3, <2>1, <2>2, PublishShape
  <1>4. act[a].pc \in Making \ {"create"} =>
           /\ act[a].pc \in {"mkdir", "bind"} => record = "intent"
           /\ act[a].pc \in {"linkIn", "bindLink"} => record = "bound"
           /\ act[a].pc \in {"listen", "secure", "bindSocket"} => record = "creating"
           /\ act[a].pc \in {"publishDir", "activate"} => record = "listening"
    BY <1>1 DEF StageOK, StageAt, Names
  <1>5. /\ act[a].pc \in {"bind", "linkIn"} => loc = "creation"
        /\ act[a].pc \in {"bindLink", "listen"} => link = "linked"
    BY DEF BuilderOK
  <1>6. CASE Begin(a)
    <2>1. ASSUME NEW p \in {"intent", "linkIn", "listen"},
                 act' = [act EXCEPT ![a] = [@ EXCEPT !.stage = record, !.fresh = TRUE,
                                                     !.pin = "creation", !.pc = p]],
                 UNCHANGED disk,
                 p = "linkIn" => loc = "creation", p = "listen" => link = "linked"
          PROVE  CleanDisk' /\ BuilderOK(a)'
      <3>1. PICK h : h = act[a]
        OBVIOUS
      <3>2. PICK r : r = [h EXCEPT !.stage = record, !.fresh = TRUE, !.pin = "creation", !.pc = p]
        OBVIOUS
      <3>3. h \in Acts /\ r.pc = p
        BY <1>1, <3>1, <3>2 DEF Acts
      <3>4. act'[a] = r
        BY <1>1, <2>1, <3>1, <3>2
      <3>5. CleanDisk'
        BY <1>1, <2>1 DEF CleanDisk, Gone, disk
      <3>6. BuilderOK(a)'
        BY <2>1, <3>3, <3>4 DEF BuilderOK, disk
      <3>7. QED
        BY <3>5, <3>6
    <2>2. Occupied("creation") => loc = "creation"
      BY DEF Occupied, CleanDisk
    <2>3. QED
      BY <1>2, <1>6, <2>1, <2>2 DEF Begin, Fail, GenerationMatches
  <1>7. CASE PublishIntent(a)
    <2>1. Publish(a, "intent", FALSE, "mkdir") /\ act[a].pc = "intent"
      BY <1>7 DEF PublishIntent, At
    <2>2. loc \notin {"creation", "canonical"}
      BY <1>1, <2>1 DEF StageOK
    <2>3. sock # "unsafe"
      BY <1>1, <2>2 DEF CleanDisk, RecordOK, Gone, Names
    <2>4. CASE record' = "intent" /\ act'[a].pc = "mkdir" /\ UNCHANGED <<anchor, loc, link, sock, foreign>>
      BY <1>1, <2>2, <2>3, <2>4 DEF CleanDisk, BuilderOK, Gone
    <2>5. QED
      BY <1>3, <2>1, <2>4 DEF Stages
  <1>8. CASE MakeDirectory(a)
    <2>1. act[a].pc = "mkdir" /\ record = "intent"
      BY <1>4, <1>8 DEF MakeDirectory, At
    <2>2. CASE Fail(a)
      BY <1>2, <2>2 DEF Fail
    <2>3. CASE /\ loc' = "creation" /\ link' = "none" /\ sock' = "none"
               /\ foreign' = foreign \cup ({loc} \cap Names)
               /\ Goto(a, "bind") /\ UNCHANGED <<record, anchor>>
      <3>1. loc \notin Names
        BY <1>8 DEF MakeDirectory, Clean
      <3>2. foreign' = foreign
        BY <2>3, <3>1
      <3>3. act'[a].pc = "bind"
        BY <1>1, <2>3, GotoShape
      <3>4. CleanDisk'
        BY <1>1, <2>1, <2>3, <3>2 DEF CleanDisk, Gone, Names
      <3>5. BuilderOK(a)'
        BY <2>3, <3>3 DEF BuilderOK
      <3>6. QED
        BY <3>4, <3>5
    <2>4. QED
      BY <1>8, <2>2, <2>3 DEF MakeDirectory
  <1>9. CASE BindDirectory(a)
    <2>1. Publish(a, "bound", TRUE, "linkIn") /\ act[a].pc = "bind"
      BY <1>9 DEF BindDirectory, At
    <2>2. record = "intent" /\ loc = "creation" /\ link = "none" /\ sock = "none"
      BY <1>4, <1>5, <2>1 DEF CleanDisk
    <2>3. CASE record' = "bound" /\ act'[a].pc = "linkIn" /\ UNCHANGED <<anchor, loc, link, sock, foreign>>
      BY <1>1, <2>2, <2>3 DEF CleanDisk, BuilderOK, Gone
    <2>4. QED
      BY <1>3, <2>1, <2>3 DEF Stages
  <1>10. CASE LinkGeneration(a)
    <2>1. act[a].pc = "linkIn" /\ record = "bound" /\ loc = "creation"
      BY <1>4, <1>5, <1>10 DEF LinkGeneration, At
    <2>2. CASE Fail(a)
      BY <1>2, <2>2 DEF Fail
    <2>3. CASE link' = "linked" /\ Goto(a, "bindLink") /\ UNCHANGED <<anchor, record, loc, sock, foreign>>
      <3>1. act'[a].pc = "bindLink"
        BY <1>1, <2>3, GotoShape
      <3>2. QED
        BY <1>1, <2>1, <2>3, <3>1 DEF CleanDisk, BuilderOK, Gone, Names
    <2>4. QED
      BY <1>10, <2>2, <2>3 DEF LinkGeneration
  <1>11. CASE PublishCreating(a)
    <2>1. Publish(a, "creating", TRUE, "listen") /\ act[a].pc = "bindLink"
      BY <1>11 DEF PublishCreating, At
    <2>2. record = "bound" /\ link = "linked"
      BY <1>4, <1>5, <2>1
    <2>3. CASE record' = "creating" /\ act'[a].pc = "listen" /\ UNCHANGED <<anchor, loc, link, sock, foreign>>
      BY <1>1, <2>2, <2>3 DEF CleanDisk, BuilderOK, Gone
    <2>4. QED
      BY <1>3, <2>1, <2>3 DEF Stages
  <1>12. CASE Listen(a)
    <2>1. act[a].pc = "listen" /\ record = "creating" /\ link = "linked"
      BY <1>4, <1>5, <1>12 DEF Listen, At
    <2>2. CASE Fail(a)
      BY <1>2, <2>2 DEF Fail
    <2>3. CASE loc = "creation" /\ sock' = "unsafe" /\ Goto(a, "secure") /\ UNCHANGED <<anchor, record, loc, link, foreign>>
      <3>1. act'[a].pc = "secure"
        BY <1>1, <2>3, GotoShape
      <3>2. QED
        BY <1>1, <2>1, <2>3, <3>1 DEF CleanDisk, BuilderOK, Gone, Names
    <2>4. QED
      BY <1>12, <2>2, <2>3 DEF Listen
  <1>13. CASE SecureSocket(a)
    <2>1. act[a].pc = "secure" /\ record = "creating"
      BY <1>4, <1>13 DEF SecureSocket, At
    <2>2. CASE Fail(a)
      BY <1>2, <2>2 DEF Fail
    <2>3. CASE /\ sock = "unsafe" /\ sock' = "held" /\ Goto(a, "bindSocket")
               /\ UNCHANGED <<anchor, record, loc, link, foreign>>
      <3>1. act'[a].pc = "bindSocket"
        BY <1>1, <2>3, GotoShape
      <3>2. QED
        BY <1>1, <2>1, <2>3, <3>1 DEF CleanDisk, BuilderOK, Gone, Names
    <2>4. QED
      BY <1>13, <2>2, <2>3 DEF SecureSocket
  <1>14. CASE PublishListening(a)
    <2>1. act[a].pc = "bindSocket" /\ record = "creating"
      BY <1>4, <1>14 DEF PublishListening, At
    <2>2. CASE FailListening(a)
      BY <1>1, <2>1, <2>2, FailListeningClean
    <2>3. CASE /\ loc = "creation" /\ sock = "held" /\ link = "linked" 
               /\ Publish(a, "listening", TRUE, "publishDir")
      <3>1. CASE record' = "listening" /\ act'[a].pc = "publishDir" /\ UNCHANGED <<anchor, loc, link, sock, foreign>>
        BY <1>1, <2>1, <2>3, <3>1 DEF CleanDisk, BuilderOK, Gone
      <3>2. QED
        BY <1>3, <2>3, <3>1 DEF Stages
    <2>4. QED
      BY <1>14, <2>2, <2>3 DEF PublishListening, GenerationMatches
  <1>15. CASE InspectStaged(a) \/ PublishDirectory(a)
    <2>1. act[a].pc = "publishDir" /\ record = "listening"
      BY <1>4, <1>15 DEF InspectStaged, PublishDirectory, Inspecting, Renaming, At
    <2>2. CASE FailListening(a)
      BY <1>1, <2>1, <2>2, FailListeningClean
    <2>3. CASE loc = "creation" /\ loc' = "canonical" /\ Goto(a, "activate") /\ UNCHANGED <<anchor, record, link, sock, foreign>>
      <3>1. act'[a].pc = "activate"
        BY <1>1, <2>3, GotoShape
      <3>2. QED
        BY <1>1, <2>1, <2>3, <3>1 DEF CleanDisk, BuilderOK, Gone, Names
    <2>4. CASE Hold(a, "own")
      <3>1. act'[a].pc = "publishDir" /\ UNCHANGED disk
        BY <1>1, <2>1, <2>4, HoldShape
      <3>2. QED
        BY <1>1, <3>1 DEF CleanDisk, BuilderOK, Gone, disk
    <2>5. CASE InspectStaged(a)
      BY <2>2, <2>4, <2>5 DEF InspectStaged
    <2>6. CASE PublishDirectory(a)
      BY <2>2, <2>3, <2>6 DEF PublishDirectory, Occupied, CleanDisk
    <2>7. QED
      BY <1>15, <2>5, <2>6
  <1>16. CASE PublishActive(a)
    <2>1. act[a].pc = "activate" /\ record = "listening"
      BY <1>4, <1>16 DEF PublishActive, At
    <2>2. CASE FailListening(a)
      BY <1>1, <2>1, <2>2, FailListeningClean
    <2>3. CASE /\ loc = "canonical" /\ sock = "held" /\ link = "linked" 
               /\ Publish(a, "active", TRUE, "done")
      <3>1. CASE record' = "active" /\ act'[a].pc = "done" /\ UNCHANGED <<anchor, loc, link, sock, foreign>>
        BY <1>1, <2>1, <2>3, <3>1 DEF CleanDisk, BuilderOK, Gone
      <3>2. QED
        BY <1>3, <2>3, <3>1 DEF Stages
    <2>4. QED
      BY <1>16, <2>2, <2>3 DEF PublishActive, GenerationMatches
  <1>17. QED
    BY <1>6, <1>7, <1>8, <1>9, <1>10, <1>11, <1>12, <1>13, <1>14, <1>15, <1>16 DEF Creation

LEMMA BuildingFine ==
  ASSUME Control, Disk, Fine, NEW a \in Actors, act[a].pc \in Making,
         Creation(a) \/ IOError(a), Moved(a), UNCHANGED <<memory, durable>>, Clean'
  PROVE  Fine'
  <1> USE DEF Fine
  <1>1. /\ CleanDisk /\ BuilderOK(a) /\ Building(a) /\ Builder(a) /\ act \in [Actors -> Acts] /\ StageOK(a)
    BY MakingIsBuilding DEF Control, Typed, Disk, Building
  <1>2. /\ run' = run /\ mu' = mu /\ entry' = entry /\ server' = server /\ phase' = phase /\ refused' = refused
        /\ \A b \in Actors \ {a} : Peer(b)
        /\ \A b \in Actors : act'[b].job = act[b].job
    BY DEF memory, durable, Moved, Peer
  <1>3. CleanDisk' /\ BuilderOK(a)'
    <2>1. CASE Creation(a)
      BY <1>1, <2>1, CreationClean
    <2>2. CASE IOError(a) /\ Fail(a)
      BY <1>1, <1>2, <2>2, GotoBuilds DEF Fail, Ended
    <2>3. CASE IOError(a) /\ ~Fail(a)
      <3>1. FailListening(a) /\ act[a].pc \in {"bindSocket", "publishDir", "activate"}
        BY <2>3 DEF IOError
      <3>2. record \in {"creating", "listening"}
        BY <1>1, <3>1 DEF StageOK, StageAt, Making, Names, CleanDisk
      <3>3. QED
        BY <1>1, <1>2, <3>1, <3>2, FailListeningClean
    <2>4. QED
      BY <2>1, <2>2, <2>3
  <1>4. RemoverOK(a)'
    BY <1>1, <1>2 DEF RemoverOK, Remover, Builder
  <1>5. ASSUME NEW b \in Actors \ {a}
        PROVE  BuilderOK(b)' /\ RemoverOK(b)'
    <2>1. act[b].job \in {"idle", "prepare"} /\ act[b].pc \in {"idle", "lock", "join", "failed", "refuse"}
      BY <1>1, BuildingAlone
    <2>2. QED
      BY <1>2, <2>1 DEF BuilderOK, RemoverOK, Remover, Peer
  <1>6. \/ a \in Callers /\ mu = a /\ a # "free" /\ entry = "none" /\ phase = "intent" /\ run \notin {"down", "recovering"}
        \/ a = Run /\ act[Run].job = "restore" /\ run = "recovering" /\ mu = Run /\ Run # "free" /\ entry = "none"
    <2>1. CASE a \in Callers
      BY <1>1, <2>1, IdleIsTyped, FreeAssumption
      DEF Building, Builder, Control, CallerOK, PrepareOK, ModeOK, Making, Actors
    <2>2. CASE a = Run
      BY <1>1, <2>2, FreeAssumption DEF Building, Builder, Control, RunOK, RecoverOK, ModeOK, Actors
    <2>3. QED
      BY <2>1, <2>2 DEF Actors
  <1>7. AttachedOK' /\ LeftOK' /\ ReleasingOK' /\ RestartOK'
    BY <1>2, <1>6 DEF AttachedOK, Attached, LeftOK, Vacated, ReleasingOK, RestartOK, Retiring
  <1>8. OneSweep'
    BY <1>2 DEF OneSweep, Actors
  <1>9. QED
    BY <1>3, <1>4, <1>5, <1>7, <1>8

LEMMA DirectoryFine ==
  ASSUME Control, Disk, Fine, NEW a \in Actors,
         DirectoryStep(a) \/ Relocate(a) \/ Failing(a), Clean'
  PROVE  Fine'
  <1>1. Moved(a) /\ Forward(a) /\ UNCHANGED <<memory, durable>>
    BY DirectoryWorks
  <1>2. Removal(a) \/ Creation(a) \/ Relocate(a) \/ IOError(a)
    BY DEF DirectoryStep, Failing, UnprovenError, Clean
  <1>3. CASE act[a].pc \in Making
    <2>1. ~Removal(a) /\ ~Relocate(a)
      BY <1>3
      DEF Removal, Open, PublishReleaseIntent, InspectMove, Move, StageMoved, InspectSocket,
          SockIsolate, SockRetire, InspectLink, LinkIsolate, LinkRetire, StageDir,
          InspectDirectory, DirIsolate, DirRetire, Inspecting, Renaming, At, Making, Relocate
    <2>2. QED
      BY <1>1, <1>2, <1>3, <2>1, BuildingFine
  <1>4. CASE act[a].pc \notin Making
    <2>1. act[a].pc \in Approach \cup Taking \cup {"relocate"}
      BY <1>1, <1>4 DEF Forward
    <2>2. ~Creation(a)
      BY <1>4
      DEF Creation, Begin, PublishIntent, MakeDirectory, BindDirectory, LinkGeneration,
          PublishCreating, Listen, SecureSocket, PublishListening, InspectStaged, PublishDirectory,
          PublishActive, Inspecting, Renaming, At, Making
    <2>3. Remover(a)
      <3>1. ~Builder(a)
        BY <2>1, MakingIsBuilding
      <3>2. QED
        BY <2>1, <3>1, IdleIsTyped DEF Remover, Builder, Control, CallerOK, RunOK, Actors, Approach, Taking
    <2>4. QED
      BY <1>1, <1>2, <2>1, <2>2, <2>3, RemovingFine
  <1>5. QED
    BY <1>3, <1>4

-----------------------------------------------------------------------------
(* A pending entry has a call that is registering it.                      *)

LEMMA PendingKept ==
  ASSUME Control, PendingOK, entry' = entry, NEW a \in Actors, Others(a),
         Registering(a) => Registering(a)'
  PROVE  PendingOK'
  <1>1. ASSUME NEW c \in Callers, Registering(c)
        PROVE  Registering(c)'
    BY <1>1 DEF Others, Actors, Registering
  <1>2. QED
    BY <1>1 DEF PendingOK

LEMMA PendingDropped ==
  ASSUME entry' # "pending"
  PROVE  PendingOK'
  BY DEF PendingOK

LEMMA DirectoryPending ==
  ASSUME Control, PendingOK, NEW a \in Actors,
         DirectoryStep(a) \/ Relocate(a) \/ Failing(a)
  PROVE  PendingOK'
  <1>1. Moved(a) /\ Forward(a) /\ UNCHANGED <<memory, durable>>
    BY DirectoryWorks
  <1>2. ASSUME NEW c \in Callers, Registering(c)
        PROVE  Registering(c)'
    <2>1. c \in Actors
      BY DEF Actors
    <2>2. CASE c # a
      BY <1>1, <1>2, <2>1, <2>2 DEF Moved, Peer, Registering
    <2>3. CASE c = a
      BY <1>1, <1>2, <2>3 DEF Moved, Forward, Registering, Approach, Taking, Making
    <2>4. QED
      BY <2>2, <2>3
  <1>3. QED
    BY <1>1, <1>2 DEF PendingOK, memory

LEMMA CallerActs ==
  ASSUME Control, NEW c \in Callers,
         \/ PrepareCall(c) \/ PrepareLock(c) \/ PrepareListening(c) \/ Register(c)
         \/ Registered(c) \/ PrepareJoin(c) \/ CommitPreparedTask(c) \/ PrepareFailed(c)
         \/ UnregisterClose(c) \/ UnregisterEnd(c)
         \/ ReleaseCall(c) \/ ReleaseLock(c) \/ ReleaseJoin(c) \/ ReleasePinned(c)
         \/ ReleaseSend(c) \/ ReleaseClose(c) \/ ReleaseUnproven(c) \/ ReleaseEnd(c)
         \/ SweepEnd(c) \/ AuthorizeRemoval(c)
  PROVE  Others(c)
  <1>1. act \in [Actors -> Acts] /\ c \in Actors
    BY DEF Control, Typed, Actors
  <1>2. CASE \/ Return(c)
             \/ \E p \in {"create", "commit", "join", "failed", "register", "registered", "sockIsolate", "open", "authorize",
                          "send", "unproven", "close"} : Goto(c, p)
             \/ \E j \in {"prepare", "unregister", "release", "sweep"}, p \in {"lock", "open", "authorize"} : Start(c, j, p)
    BY <1>1, <1>2, ReturnShape, GotoShape, StartShape DEF Making, Approach, Taking, Ended, Elsewhere
  <1>3. CASE \/ PrepareCall(c) \/ PrepareLock(c) \/ PrepareListening(c) \/ Register(c)
             \/ Registered(c) \/ PrepareJoin(c) \/ CommitPreparedTask(c) \/ PrepareFailed(c)
    BY <1>2, <1>3
    DEF PrepareCall, PrepareLock, PrepareListening, Register, Registered, PrepareJoin,
        CommitPreparedTask, PrepareFailed
  <1>4. CASE \/ UnregisterClose(c) \/ UnregisterEnd(c) \/ ReleaseCall(c) \/ ReleaseLock(c) \/ ReleaseJoin(c)
             \/ ReleasePinned(c)
    BY <1>2, <1>4 DEF UnregisterClose, UnregisterEnd, ReleaseCall, ReleaseLock, ReleaseJoin, ReleasePinned
  <1>5. CASE \/ ReleaseSend(c) \/ ReleaseClose(c) \/ ReleaseUnproven(c) \/ ReleaseEnd(c)
             \/ SweepEnd(c) \/ AuthorizeRemoval(c)
    BY <1>2, <1>5 DEF ReleaseSend, ReleaseClose, ReleaseUnproven, ReleaseEnd, SweepEnd, AuthorizeRemoval
  <1>6. QED
    BY <1>3, <1>4, <1>5

LEMMA CallerPending ==
  ASSUME Control, PendingOK, NEW c \in Callers,
         \/ PrepareCall(c) \/ PrepareLock(c) \/ PrepareListening(c) \/ Register(c)
         \/ Registered(c) \/ PrepareJoin(c) \/ CommitPreparedTask(c) \/ PrepareFailed(c)
         \/ UnregisterClose(c) \/ UnregisterEnd(c)
         \/ ReleaseCall(c) \/ ReleaseLock(c) \/ ReleaseJoin(c) \/ ReleasePinned(c)
         \/ ReleaseSend(c) \/ ReleaseClose(c) \/ ReleaseUnproven(c) \/ ReleaseEnd(c)
         \/ SweepEnd(c) \/ AuthorizeRemoval(c)
  PROVE  PendingOK'
  <1> USE DEF memory, Doing
  <1>1. act \in [Actors -> Acts] /\ c \in Actors /\ Others(c)
    BY CallerActs DEF Control, Typed, Actors
  <1>2. CASE UnregisterEnd(c) \/ ReleasePinned(c) \/ ReleaseUnproven(c) \/ ReleaseEnd(c)
    <2>1. entry' # "pending"
      BY <1>2 DEF UnregisterEnd, ReleasePinned, ReleaseUnproven, ReleaseEnd
    <2>2. QED
      BY <2>1, PendingDropped
  <1>3. CASE PrepareListening(c)
    <2>1. act'[c].pc = "register" /\ act'[c].job = "prepare"
      BY <1>1, <1>3, GotoShape DEF PrepareListening, Elsewhere
    <2>2. QED
      BY <2>1 DEF PendingOK, Registering
  <1>4. CASE Start(c, "unregister", "open") /\ entry' = entry
    <2>1. act'[c].job = "unregister"
      BY <1>1, <1>4, StartShape DEF Approach
    <2>2. QED
      BY <1>1, <1>4, <2>1, PendingKept DEF Registering
  <1>5. CASE Register(c) \/ Registered(c)
    <2>1. CASE Goto(c, "registered") /\ entry' = entry /\ act[c].job = "prepare"
      <3>1. act'[c].job = "prepare" /\ act'[c].pc = "registered"
        BY <1>1, <2>1, GotoShape DEF Elsewhere
      <3>2. QED
        BY <1>1, <2>1, <3>1, PendingKept DEF Registering
    <2>2. CASE entry' = "ready"
      BY <2>2, PendingDropped
    <2>3. QED
      BY <1>4, <1>5, <2>1, <2>2 DEF Register, Registered
  <1>6. CASE UnregisterClose(c)
    <2>1. act'[c].job = "unregister" /\ entry' = entry
      BY <1>1, <1>6, GotoShape DEF UnregisterClose, Taking
    <2>2. QED
      BY <1>1, <2>1, PendingKept DEF Registering
  <1>7. CASE entry' = entry /\ ~Registering(c)
    BY <1>1, <1>7, PendingKept
  <1>8. CASE \/ PrepareCall(c) \/ PrepareLock(c) \/ PrepareJoin(c) \/ CommitPreparedTask(c) \/ PrepareFailed(c)
             \/ ReleaseCall(c) \/ ReleaseLock(c) \/ ReleaseJoin(c) \/ ReleaseSend(c) \/ ReleaseClose(c)
             \/ SweepEnd(c) \/ AuthorizeRemoval(c)
    <2>1. ~Registering(c)
      BY <1>8, IdleIsTyped
      DEF Registering, PrepareCall, PrepareLock, PrepareJoin, CommitPreparedTask, PrepareFailed,
          ReleaseCall, ReleaseLock, ReleaseJoin, ReleaseSend, ReleaseClose, SweepEnd,
          AuthorizeRemoval
    <2>2. entry' = entry \/ entry' = "none"
      BY <1>8
      DEF PrepareCall, PrepareLock, PrepareJoin, CommitPreparedTask, PrepareFailed, ReleaseCall, ReleaseLock,
          ReleaseJoin, ReleaseSend, ReleaseClose, SweepEnd, AuthorizeRemoval
    <2>3. CASE entry' = "none"
      BY <2>3, PendingDropped
    <2>4. QED
      BY <1>7, <2>1, <2>2, <2>3
  <1>9. QED
    BY <1>2, <1>3, <1>5, <1>6, <1>8

LEMMA CoordinatorActs ==
  ASSUME Control,
         \/ Boot \/ UpgradeRelayIdentity \/ BeginRecovery \/ RecoveryRemoved \/ RecoveryRestored \/ RecoveryRefused
         \/ RecoveryFailed \/ Shutdown \/ ServerResult \/ Stop \/ CleanupAdvances
  PROVE  /\ Others(Run) /\ (entry' = entry \/ entry' = "recovered")
         /\ \A c \in Callers : act'[c] = act[c]
  <1> USE DEF memory
  <1>1. act \in [Actors -> Acts] /\ Run \in Actors
    BY DEF Control, Typed, Actors
  <1>2. /\ \/ act' = act
           \/ Return(Run)
           \/ \E p \in {"refuse", "open", "stageDir"} : Goto(Run, p)
           \/ \E j \in {"recover", "restore", "shutdown"}, p \in {"open", "create", "lock"} : Start(Run, j, p)
        /\ entry' = entry \/ entry' = "recovered"
    BY DEF Boot, UpgradeRelayIdentity, BeginRecovery, RecoveryRemoved, RecoveryRestored,
           RecoveryRefused, RecoveryFailed, Shutdown, ShutdownLock, ShutdownPinned,
           ShutdownUnproven, ShutdownStaged, Stopped, ServerResult, Stop, CleanupAdvances
  <1>3. Others(Run)
    BY <1>1, <1>2, ReturnShape, GotoShape, StartShape DEF Making, Approach, Taking, Ended, Elsewhere, Others
  <1>4. QED
    BY <1>2, <1>3, RunAssumption DEF Others, Actors

LEMMA NextPending ==
  ASSUME Control, PendingOK, [Next]_vars
  PROVE  PendingOK'
  <1>1. ASSUME NEW a \in Actors,
               DirectoryStep(a) \/ Relocate(a) \/ Failing(a)
        PROVE  PendingOK'
    BY <1>1, DirectoryPending
  <1>2. CASE \/ Boot \/ UpgradeRelayIdentity \/ BeginRecovery \/ RecoveryRemoved \/ RecoveryRestored \/ RecoveryRefused
             \/ RecoveryFailed \/ Shutdown \/ ServerResult \/ Stop \/ CleanupAdvances
    <2>1. (entry' = entry \/ entry' = "recovered") /\ \A c \in Callers : act'[c] = act[c]
      BY <1>2, CoordinatorActs
    <2>2. QED
      BY <2>1 DEF PendingOK, Registering
  <1>3. CASE RunStep
    BY <1>1, <1>2, <1>3 DEF RunStep, Recovery, Actors
  <1>4. CASE Exit \/ Crash
    BY <1>4, PendingDropped DEF Exit, Crash, ProcessEnds
  <1>5. ASSUME NEW c \in Callers, CallerStep(c) \/ PrepareCall(c) \/ ReleaseCall(c)
        PROVE  PendingOK'
    BY <1>1, <1>5, CallerPending DEF CallerStep, Actors
  <1>6. CASE Interference \/ UNCHANGED vars
    <2>1. act' = act /\ entry' = entry
      BY <1>6
      DEF vars, memory, Interference, ReplaceDirectory, ReplaceSocket, ReplaceLink, DamageRecord,
          LoseGeneration, Plant
    <2>2. QED
      BY <2>1 DEF PendingOK, Registering
  <1>7. QED
    BY <1>1, <1>2, <1>3, <1>4, <1>5, <1>6 DEF Next, Failing

-----------------------------------------------------------------------------
(* The other steps leave the disk as it is, or close a socket that nobody   *)
(* else needs.                                                             *)

Resting(a) == act[a].pc \in {"idle", "lock", "register", "registered", "join", "commit", "authorize", "create"}

LEMMA RestingFine ==
  ASSUME NEW a \in Actors, Resting(a)
  PROVE  BuilderOK(a) /\ RemoverOK(a)
  BY DEF Resting, BuilderOK, RemoverOK, OpenOK, HoldOK, TakeOK, EndOK, Holding, Approach, Taking

StillDisk == UNCHANGED <<record, loc, link, sock, anchor, foreign, refused>>

\* What a call does elsewhere leaves the coordinator's claim alone.
OthersKept(a) ==
    a # Run /\ act[Run].job = "shutdown" /\ act[Run].pc # "lock"
    => /\ entry' = "releasing" <=> entry = "releasing"
       /\ mu' = Run => mu = Run

LEMMA StillActor ==
  ASSUME Control, Fine, StillDisk, NEW b \in Actors, act'[b] = act[b],
         b = Run /\ act[Run].job = "shutdown" /\ act[Run].pc # "lock"
         => /\ entry' = "releasing" <=> entry = "releasing"
            /\ mu' = Run => mu = Run
  PROVE  BuilderOK(b)' /\ RemoverOK(b)'
  <1>1. /\ BuilderOK(b) /\ RemoverOK(b)
        /\ act[b].job = "shutdown" => b = Run
    BY DEF Fine, Actors, Control, CallerOK
  <1>2. BuilderOK(b)'
    BY <1>1 DEF BuilderOK, Builder, StillDisk
  <1>3. Remover(b)' <=> Remover(b)
    BY <1>1 DEF Remover
  <1>4. ASSUME Remover(b)
        PROVE  (OpenOK(b) /\ HoldOK(b) /\ TakeOK(b) /\ EndOK(b))'
    <2>1. OpenOK(b) /\ HoldOK(b) /\ TakeOK(b) /\ EndOK(b)
      BY <1>1, <1>4 DEF RemoverOK
    <2>2. OpenOK(b)'
      BY <1>1, <2>1 DEF OpenOK, StillDisk, Unrecoverable, Closing, Whole, ShutDisk, Leftover, Gone
    <2>3. HoldOK(b)' /\ TakeOK(b)'
      BY <1>1, <2>1 DEF HoldOK, TakeOK, StillDisk, Closing, ShutDisk
    <2>4. EndOK(b)'
      BY <1>1, <2>1 DEF EndOK, Closing, StillDisk, ShutDisk, Whole, Leftover, Gone, Approach
    <2>5. QED
      BY <2>2, <2>3, <2>4
  <1>5. QED
    BY <1>2, <1>3, <1>4 DEF RemoverOK

LEMMA StillOthers ==
  ASSUME Control, Fine, NEW a \in Actors, Others(a), StillDisk, OthersKept(a), NEW b \in Actors \ {a}
  PROVE  BuilderOK(b)' /\ RemoverOK(b)'
  BY StillActor DEF Others, OthersKept

\* Closing the socket of a directory that is being released.
LEMMA ClosedActor ==
  ASSUME Fine, UNCHANGED <<record, loc, link, anchor, foreign, refused>>,
         NEW b \in Actors, act'[b] = act[b], act[b].job # "shutdown",
         ~Claiming(b) \/ act[b].pc = "send"
  PROVE  BuilderOK(b)' /\ RemoverOK(b)'
  <1>1. BuilderOK(b) /\ RemoverOK(b)
    BY DEF Fine
  <1>2. BuilderOK(b)'
    BY <1>1 DEF BuilderOK, Builder
  <1>3. ASSUME Remover(b)
        PROVE  (OpenOK(b) /\ HoldOK(b) /\ TakeOK(b) /\ EndOK(b))'
    <2>1. act[b].pc \notin Approach \cup Taking \cup {"relocate", "isolated", "close", "failed"}
      BY <1>3 DEF Claiming, Approach, Taking
    <2>2. OpenOK(b)' /\ TakeOK(b)'
      BY <2>1 DEF OpenOK, TakeOK, Approach, Taking
    <2>3. HoldOK(b)'
      BY <1>1, <1>3, <2>1 DEF RemoverOK, HoldOK, Holding, Approach, Taking, Claiming
    <2>4. EndOK(b)'
      BY <1>1, <1>3, <2>1 DEF RemoverOK, EndOK
    <2>5. QED
      BY <2>2, <2>3, <2>4
  <1>4. QED
    BY <1>2, <1>3 DEF RemoverOK, Remover

LEMMA ClosedClean ==
  ASSUME CleanDisk, UNCHANGED <<record, loc, link, anchor, foreign, refused>>, CloseSocket,
         record = "releasing", link # "isolated"
  PROVE  CleanDisk' /\ Leftover'
  BY DEF CloseSocket, CleanDisk, Gone, Leftover

LEMMA StillClean ==
  ASSUME CleanDisk, StillDisk
  PROVE  CleanDisk' /\ (Whole' <=> Whole) /\ (ShutDisk' <=> ShutDisk) /\ (Leftover' <=> Leftover)
         /\ (Unrecoverable' <=> Unrecoverable)
  BY DEF CleanDisk, StillDisk, Gone, Whole, ShutDisk, Leftover, Unrecoverable

\* A step of a call that leaves the disk as it is.
LEMMA CallFine ==
  ASSUME Control, Fine, NEW c \in Callers, Others(c), StillDisk, OthersKept(c), run' = run,
         run \notin {"down", "recovering"}, BuilderOK(c)', RemoverOK(c)',
         (Attached' /\ ~Attached) => (Serving => Whole) /\ (Shut => ShutDisk),
         Vacated' => Vacated \/ Leftover,
         entry' = "releasing" => record = "releasing",
         OneSweep'
  PROVE  Fine'
  <1>1. c \in Actors /\ Run \in Actors /\ c # Run
    BY RunAssumption DEF Actors
  <1>2. \A a \in Actors : BuilderOK(a)' /\ RemoverOK(a)'
    BY <1>1, StillOthers
  <1>3. act'[Run] = act[Run]
    BY <1>1 DEF Others
  <1>4. CleanDisk' /\ (Whole' <=> Whole) /\ (ShutDisk' <=> ShutDisk) /\ (Leftover' <=> Leftover)
    BY StillClean DEF Fine
  <1>5. (Serving' <=> Serving) /\ (Shut' <=> Shut)
    BY <1>3 DEF Serving, Shut
  <1>6. AttachedOK'
    BY <1>4, <1>5 DEF Fine, AttachedOK
  <1>7. LeftOK'
    BY <1>4 DEF Fine, LeftOK
  <1>8. ReleasingOK' /\ RestartOK'
    BY DEF ReleasingOK, RestartOK, StillDisk
  <1>9. QED
    BY <1>2, <1>4, <1>6, <1>7, <1>8 DEF Fine

LEMMA SweepKept ==
  ASSUME Fine, NEW c \in Callers, Others(c), act'[c].job = "sweep" => act[c].job = "sweep"
  PROVE  OneSweep'
  BY DEF Fine, OneSweep, Others, Actors

LEMMA WholeIsRecoverable ==
  ASSUME CleanDisk, Whole \/ ShutDisk
  PROVE  ~Unrecoverable
  BY DEF Unrecoverable, Whole, ShutDisk, CleanDisk

\* A registration that is given up starts from a whole attachment, or from
\* the one a shutdown has closed.
LEMMA UnregisterFine ==
  ASSUME Control, Fine, NEW c \in Callers, Start(c, "unregister", "open"), Whole \/ ShutDisk, UNCHANGED disk
  PROVE  BuilderOK(c)' /\ RemoverOK(c)'
  <1>1. act'[c].job = "unregister" /\ act'[c].pc = "open"
    BY StartShape DEF Control, Typed, Actors, Approach
  <1>2. CleanDisk /\ ~Unrecoverable
    BY WholeIsRecoverable DEF Fine
  <1>3. OpenOK(c)'
    BY <1>1, <1>2 DEF OpenOK, disk, Unrecoverable, Whole, ShutDisk, Closing
  <1>4. QED
    BY <1>1, <1>3 DEF BuilderOK, RemoverOK, HoldOK, TakeOK, EndOK, Holding, Approach, Taking

LEMMA PreparationFine ==
  ASSUME Control, Disk, Served, Fine, Clean, NEW c \in Callers,
         \/ PrepareCall(c) \/ PrepareLock(c) \/ PrepareListening(c) \/ Register(c)
         \/ Registered(c) \/ PrepareJoin(c) \/ CommitPreparedTask(c) \/ PrepareFailed(c)
  PROVE  Fine'
  <1> USE DEF memory, durable, Doing
  <1>1. /\ c \in Actors /\ Run \in Actors /\ c # Run /\ c # "free" /\ Run # "free"
        /\ act \in [Actors -> Acts] /\ CleanDisk
        /\ CallerOK(c) /\ PrepareOK(c) /\ RunOK /\ ShutdownOK /\ EntryOK /\ ModeOK /\ AttachedOK
    BY RunAssumption, FreeAssumption DEF Actors, Control, Typed, Fine, CallerOK, RunOK
  <1>2. Others(c)
    BY CallerActs
  <1>3. run' = run /\ run \notin {"down", "recovering"} /\ StillDisk /\ UNCHANGED disk
    BY <1>1, IdleIsTyped
    DEF PrepareCall, PrepareLock, PrepareListening, Register, Registered, PrepareJoin,
        CommitPreparedTask, PrepareFailed, ModeOK, disk, StillDisk
  <1>4. /\ act[c].job \in {"idle", "prepare"} /\ ~Remover(c)
        /\ entry' = "releasing" => entry = "releasing"
    BY <1>1, IdleIsTyped
    DEF PrepareCall, PrepareLock, PrepareListening, Register, Registered, PrepareJoin,
        CommitPreparedTask, PrepareFailed, Remover
  <1>5. OthersKept(c)
    <2>1. mu' = Run => mu = Run
      BY <1>1
      DEF PrepareCall, PrepareLock, PrepareListening, Register, Registered, PrepareJoin,
          CommitPreparedTask, PrepareFailed
    <2>2. entry' = "releasing" <=> entry = "releasing"
      BY <1>1
      DEF PrepareCall, PrepareLock, PrepareListening, Register, Registered, PrepareJoin,
          CommitPreparedTask, PrepareFailed, PrepareOK
    <2>3. QED
      BY <2>1, <2>2 DEF OthersKept
  <1>6. entry' = "releasing" => record = "releasing"
    BY <1>4 DEF Fine, ReleasingOK
  \* A call that goes on preparing, or returns.
  <1>7. ASSUME act'[c] = Idle \/ (act'[c].job = "prepare" /\ (Resting(c)' \/ act'[c].pc = "failed")),
               (Attached' /\ ~Attached) => (Serving => Whole) /\ (Shut => ShutDisk),
               Vacated' => Vacated
        PROVE  Fine'
    <2>1. BuilderOK(c)' /\ RemoverOK(c)'
      <3>1. CASE Resting(c)'
        BY <3>1, RestingFine
        DEF Resting, BuilderOK, RemoverOK, OpenOK, HoldOK, TakeOK, EndOK, Holding, Approach, Taking
      <3>2. CASE act'[c].job = "prepare" /\ act'[c].pc = "failed"
        BY <3>2 DEF BuilderOK, RemoverOK, Remover
      <3>3. CASE act'[c] = Idle
        BY <3>3, IdleIsTyped DEF BuilderOK, Builder, RemoverOK, Remover
      <3>4. QED
        BY <1>7, <3>1, <3>2, <3>3
    <2>2. act'[c].job # "sweep"
      BY <1>7, IdleIsTyped
    <2>3. QED
      BY <1>2, <1>3, <1>5, <1>6, <1>7, <2>1, <2>2, SweepKept, CallFine
  \* A call that gives its registration up.
  <1>8. ASSUME Start(c, "unregister", "open"), Whole \/ ShutDisk, entry' = "pending"
        PROVE  Fine'
    <2>1. act'[c].job = "unregister"
      BY <1>1, <1>8, StartShape DEF Approach
    <2>2. ~Attached' /\ ~Vacated'
      BY <1>8, <2>1 DEF Attached, Vacated
    <2>3. QED
      BY <1>2, <1>3, <1>5, <1>6, <1>8, <2>1, <2>2, SweepKept, CallFine, UnregisterFine
  <1>9. (\A d \in Callers : act'[d].job # "unregister") => (\A d \in Callers : act[d].job # "unregister")
    BY <1>2, <1>4 DEF Others, Actors
  <1>10. act'[c].job # "sweep" /\ (\A d \in Callers : act'[d].job # "sweep") => (\A d \in Callers : act[d].job # "sweep")
    BY <1>2, <1>4 DEF Others, Actors
  <1>11. CASE PrepareCall(c)
    <2>1. act'[c].job = "prepare" /\ act'[c].pc = "lock"
      BY <1>1, <1>11, StartShape DEF PrepareCall, Elsewhere
    <2>2. Attached' => Attached
      BY <1>9, <1>11 DEF PrepareCall, Attached
    <2>3. ~Vacated'
      BY <1>11 DEF PrepareCall, Vacated, Retiring
    <2>4. QED
      BY <1>7, <2>1, <2>2, <2>3 DEF Resting
  <1>12. CASE PrepareLock(c)
    <2>1. act'[c] = Idle \/ (act'[c].job = "prepare" /\ act'[c].pc \in {"create", "commit", "join", "failed"})
      <3>1. act[c].job = "prepare" /\ (Return(c) \/ \E p \in {"create", "commit", "join", "failed"} : Goto(c, p))
        BY <1>12 DEF PrepareLock
      <3>2. QED
        BY <1>1, <3>1, ReturnShape, GotoShape DEF Making, Ended, Elsewhere
    <2>2. UNCHANGED <<entry, server, phase, run>> /\ mu' \in {mu, c}
      BY <1>12 DEF PrepareLock
    <2>3. Attached' => Attached
      BY <1>1, <1>9, <2>2 DEF Attached
    <2>4. Vacated' => Vacated
      BY <1>10, <2>1, <2>2, IdleIsTyped DEF Vacated
    <2>5. QED
      BY <1>7, <2>1, <2>3, <2>4 DEF Resting
  <1>13. CASE PrepareListening(c)
    <2>1. act'[c].job = "prepare" /\ act'[c].pc = "register"
      BY <1>1, <1>13, GotoShape DEF PrepareListening, Elsewhere
    <2>2. ~Attached' /\ ~Vacated'
      BY <1>13 DEF PrepareListening, Attached, Vacated
    <2>3. QED
      BY <1>7, <2>1, <2>2 DEF Resting
  <1>14. CASE Register(c)
    <2>1. Whole
      <3>1. Handed(c)
        BY <1>14 DEF Handed, Builder, Register
      <3>2. "interference" \notin cause
        BY DEF Clean
      <3>3. QED
        BY <1>1, <3>1, <3>2 DEF Served
    <2>2. entry' = "pending"
      BY <1>1, <1>14 DEF Register, PrepareOK
    <2>3. CASE Start(c, "unregister", "open")
      BY <1>8, <2>1, <2>2, <2>3
    <2>4. CASE run = "running" /\ Goto(c, "registered")
      <3>1. act'[c].job = "prepare" /\ act'[c].pc = "registered"
        BY <1>1, <1>14, <2>4, GotoShape DEF Register, Elsewhere
      <3>2. ~Vacated' /\ ~Shut
        BY <1>1, <2>2, <2>4 DEF Vacated, Shut
      <3>3. QED
        BY <1>7, <2>1, <3>1, <3>2 DEF Resting
    <2>5. QED
      BY <1>14, <2>3, <2>4 DEF Register
  <1>15. CASE Registered(c)
    <2>1. entry = "pending" /\ server # "listening" /\ act[c].job = "prepare"
      BY <1>1, <1>15 DEF Registered, PrepareOK
    <2>2. CASE entry' = "ready" /\ Goto(c, "commit") /\ UNCHANGED <<mu, server>>
      <3>1. act'[c].job = "prepare" /\ act'[c].pc = "commit"
        BY <1>1, <2>1, <2>2, GotoShape DEF Elsewhere
      <3>2. ~Vacated' /\ (Attached' => Attached)
        BY <1>9, <2>1, <2>2 DEF Vacated, Attached
      <3>3. QED
        BY <1>7, <3>1, <3>2 DEF Resting
    <2>3. CASE run = "stopped" /\ Start(c, "unregister", "open") /\ entry' = entry
      <3>1. Attached
        <4>1. \A d \in Callers : mu # d
          BY <1>1, <2>1 DEF Control, CallerOK, PrepareOK, UnregisterOK, ReleaseOK, SweepOK
        <4>2. mu # Run
          BY <1>1, <2>3 DEF RunOK, ShutdownOK
        <4>3. mu = "free"
          BY <4>1, <4>2 DEF Control, Typed, TypeOK, Actors
        <4>4. \A d \in Callers : act[d].job # "unregister"
          BY <1>15, <2>1 DEF Registered, Control, OneAtATime, Registering
        <4>5. QED
          BY <2>1, <4>3, <4>4 DEF Attached
      <3>2. ShutDisk
        BY <1>1, <2>3, <3>1 DEF AttachedOK, Shut
      <3>3. QED
        BY <1>8, <2>1, <2>3, <3>2
    <2>4. QED
      BY <1>15, <2>2, <2>3 DEF Registered
  <1>16. CASE PrepareJoin(c) \/ CommitPreparedTask(c)
    <2>1. act'[c] = Idle \/ (act'[c].job = "prepare" /\ act'[c].pc = "commit")
      <3>1. act[c].job = "prepare" /\ (Return(c) \/ Goto(c, "commit"))
        BY <1>16 DEF PrepareJoin, CommitPreparedTask
      <3>2. QED
        BY <1>1, <3>1, ReturnShape, GotoShape DEF Elsewhere
    <2>2. UNCHANGED <<mu, entry, server, run>> /\ (phase' \in Retiring => phase \in Retiring)
      BY <1>16 DEF PrepareJoin, CommitPreparedTask, Retiring
    <2>3. (Attached' => Attached) /\ (Vacated' => Vacated)
      BY <1>9, <1>10, <2>1, <2>2, IdleIsTyped DEF Attached, Vacated
    <2>4. QED
      BY <1>7, <2>1, <2>3 DEF Resting
  <1>17. CASE PrepareFailed(c)
    <2>1. act'[c] = Idle
      BY <1>1, <1>17, ReturnShape DEF PrepareFailed
    <2>2. UNCHANGED <<entry, server, phase, run>> /\ (mu = c => entry = "none") /\ (mu # c => mu' = mu)
      BY <1>1, <1>17 DEF PrepareFailed, PrepareOK
    <2>3. (Attached' => Attached) /\ (Vacated' => Vacated)
      BY <1>9, <1>10, <2>1, <2>2, IdleIsTyped DEF Attached, Vacated
    <2>4. QED
      BY <1>7, <2>1, <2>3
  <1>18. QED
    BY <1>11, <1>12, <1>13, <1>14, <1>15, <1>16, <1>17

\* What every step of a release or of a registration that is given up rests on.
LEMMA CallFacts ==
  ASSUME Control, Fine, NEW c \in Callers, act[c].job \in {"unregister", "release", "sweep"}
  PROVE  /\ c \in Actors /\ Run \in Actors /\ c # Run /\ c # "free" /\ Run # "free"
         /\ act \in [Actors -> Acts] /\ CleanDisk /\ ~refused
         /\ UnregisterOK(c) /\ ReleaseOK(c) /\ SweepOK(c)
         /\ RunOK /\ ShutdownOK /\ EntryOK /\ ModeOK
         /\ OpenOK(c) /\ HoldOK(c) /\ TakeOK(c) /\ EndOK(c) /\ Remover(c)
         /\ run \in {"running", "stopping", "stopped"}
  <1>1. CallerOK(c) /\ RunOK /\ ModeOK /\ c \in Actors /\ TypeOK
    BY DEF Actors, Control, Typed
  <1>2. run \in {"running", "stopping", "stopped"}
    BY <1>1, IdleIsTyped DEF ModeOK, TypeOK
  <1>3. RemoverOK(c) /\ Remover(c)
    BY <1>1 DEF Fine, Remover
  <1>4. QED
    BY <1>1, <1>2, <1>3, RunAssumption, FreeAssumption
    DEF Actors, Control, Typed, Fine, CleanDisk, CallerOK, RunOK, RemoverOK

LEMMA ReleaseTurnsFine ==
  ASSUME Control, Fine, NEW c \in Callers, ReleaseCall(c) \/ ReleaseJoin(c) \/ AuthorizeRemoval(c)
  PROVE  Fine'
  <1> USE DEF memory, durable, Doing
  <1>1. /\ c \in Actors /\ act \in [Actors -> Acts] /\ ModeOK /\ Others(c)
    BY CallerActs DEF Actors, Control, Typed
  <1>2. StillDisk /\ run' = run /\ run \notin {"down", "recovering"} /\ UNCHANGED <<mu, entry, server>>
    BY <1>1, IdleIsTyped DEF ReleaseCall, ReleaseJoin, AuthorizeRemoval, ModeOK, disk, StillDisk
  <1>3. act[c].job \in {"idle", "release"}
    BY IdleIsTyped DEF ReleaseCall, ReleaseJoin, AuthorizeRemoval
  <1>4. act'[c].pc \in {"idle", "lock", "authorize"} /\ act'[c].job \in {"idle", "release"}
    <2>1. Start(c, "release", "lock") \/ Return(c) \/ (Goto(c, "authorize") /\ act[c].job = "release")
      BY DEF ReleaseCall, ReleaseJoin, AuthorizeRemoval
    <2>2. CASE Start(c, "release", "lock")
      <3>1. "lock" \in Making \cup Approach \cup Taking \cup Ended \cup Elsewhere
        BY DEF Elsewhere
      <3>2. QED
        BY <1>1, <2>2, <3>1, StartShape
    <2>3. CASE Return(c)
      BY <1>1, <2>3, ReturnShape, IdleIsTyped
    <2>4. CASE Goto(c, "authorize") /\ act[c].job = "release"
      BY <1>1, <2>4, GotoShape DEF Elsewhere
    <2>5. QED
      BY <2>1, <2>2, <2>3, <2>4
  <1>5. Attached' => Attached
    BY <1>1, <1>2, <1>3 DEF Attached, Others, Actors
  <1>6. Vacated' => Vacated
    <2>1. phase' \in Retiring => phase \in Retiring
      BY DEF ReleaseCall, ReleaseJoin, AuthorizeRemoval, Releasable, Retiring
    <2>2. QED
      BY <1>1, <1>2, <1>3, <2>1 DEF Vacated, Others, Actors
  <1>7. BuilderOK(c)' /\ RemoverOK(c)'
    BY <1>4 DEF BuilderOK, RemoverOK, OpenOK, HoldOK, TakeOK, EndOK, Holding, Approach, Taking
  <1>8. OthersKept(c) /\ (entry' = "releasing" => record = "releasing")
    BY <1>2 DEF OthersKept, Fine, ReleasingOK
  <1>9. QED
    BY <1>1, <1>2, <1>4, <1>5, <1>6, <1>7, <1>8, SweepKept, CallFine

\* The socket is relocated: its server closes and the removal begins.
LEMMA CloseFine ==
  ASSUME Control, Fine, NEW c \in Callers, UnregisterClose(c) \/ ReleaseClose(c)
  PROVE  Fine'
  <1> USE DEF memory, durable, Doing
  <1>1. act[c].job \in {"unregister", "release"} /\ act[c].pc \in {"isolated", "close"} /\ act[c].job # "sweep"
    BY DEF UnregisterClose, ReleaseClose
  <1>2. Others(c)
    BY CallerActs
  <1>3. StillDisk /\ run' = run /\ UNCHANGED <<mu, entry>> /\ Goto(c, "sockIsolate")
    BY DEF UnregisterClose, ReleaseClose, disk, StillDisk
  <1>4. /\ act'[c].pc = "sockIsolate" /\ act'[c].job = act[c].job /\ act'[c].pin = act[c].pin
        /\ act'[c].stage = act[c].stage /\ act'[c].fresh = act[c].fresh /\ act'[c].held = "none"
    BY <1>1, <1>3, CallFacts, GotoShape DEF Taking
  <1>5. /\ loc = act[c].pin /\ record = act[c].stage /\ act[c].fresh /\ record = "releasing" /\ link = "linked"
        /\ sock # "unsafe"
    BY <1>1, CallFacts DEF HoldOK, Holding, CleanDisk
  <1>6. BuilderOK(c)' /\ RemoverOK(c)'
    <2>1. BuilderOK(c)' /\ OpenOK(c)' /\ EndOK(c)'
      BY <1>1, <1>4 DEF BuilderOK, OpenOK, EndOK
    <2>2. HoldOK(c)' /\ TakeOK(c)'
      BY <1>1, <1>3, <1>4, <1>5 DEF HoldOK, TakeOK, StillDisk, Holding
    <2>3. QED
      BY <2>1, <2>2 DEF RemoverOK
  <1>7. entry \in {"pending", "releasing"} /\ (entry = "pending" => act[c].job = "unregister")
    BY <1>1, CallFacts DEF UnregisterOK, ReleaseOK, Finishing, Past, UnregisterClose, ReleaseClose
  <1>8. ~Attached' /\ ~Vacated'
    BY <1>3, <1>4, <1>7 DEF Attached, Vacated
  <1>9. OthersKept(c)
    BY <1>3 DEF OthersKept
  <1>10. QED
    BY <1>1, <1>2, <1>3, <1>4, <1>5, <1>6, <1>8, <1>9, CallFacts, SweepKept, CallFine

\* A call that closes the socket itself, after the record has said that the
\* directory is being released, and returns.
LEMMA GivenUpFine ==
  ASSUME Control, Fine, NEW c \in Callers, act[c].job \in {"unregister", "release"}, Claiming(c), ~Overtaken(c),
         Return(c), UNCHANGED <<record, loc, link, anchor, foreign, refused, run>>, CloseSocket,
         record = "releasing", link # "isolated", OthersKept(c), entry' = "none"
  PROVE  Fine'
  <1>1. /\ c \in Actors /\ Run \in Actors /\ c # Run /\ act \in [Actors -> Acts] /\ CleanDisk
        /\ run \notin {"down", "recovering"}
    BY CallFacts
  <1>2. Others(c) /\ act'[c] = Idle
    BY <1>1, ReturnShape
  <1>3. CleanDisk' /\ Leftover'
    BY <1>1, ClosedClean
  <1>4. ASSUME NEW b \in Actors \ {c}
        PROVE  BuilderOK(b)' /\ RemoverOK(b)'
    <2>1. act'[b] = act[b] /\ ~Claiming(b)
      BY <1>1, <1>2, ClaimsExclude DEF Others
    <2>2. CASE act[b].job # "shutdown"
      BY <2>1, <2>2, ClosedActor
    <2>3. CASE act[b].job = "shutdown"
      <3>1. b = Run /\ BuilderOK(b) /\ RemoverOK(b) /\ EndOK(b)
        BY <2>3 DEF Control, CallerOK, Actors, Fine, RemoverOK, Remover
      <3>2. act[b].pc \in {"lock", "refuse"}
        BY <1>1, <2>1, <2>3, <3>1 DEF Claiming, Remover, Control, RunOK, ShutdownOK, Approach, Taking, Ended
      <3>3. EndOK(b)'
        BY <2>1, <2>3, <3>1, <3>2 DEF EndOK, OthersKept, Approach
      <3>4. QED
        BY <2>1, <2>3, <3>2, <3>3 DEF BuilderOK, RemoverOK, OpenOK, HoldOK, TakeOK, Holding, Approach, Taking
    <2>4. QED
      BY <2>2, <2>3
  <1>5. BuilderOK(c)' /\ RemoverOK(c)'
    BY <1>2, IdleIsTyped DEF BuilderOK, Builder, RemoverOK, Remover
  <1>6. AttachedOK' /\ LeftOK' /\ ReleasingOK' /\ RestartOK'
    BY <1>1, <1>3 DEF AttachedOK, Attached, LeftOK, ReleasingOK, RestartOK
  <1>7. OneSweep'
    BY <1>2, IdleIsTyped, SweepKept
  <1>8. QED
    BY <1>3, <1>4, <1>5, <1>6, <1>7 DEF Fine

LEMMA UnregisterEndFine ==
  ASSUME Control, Fine, NEW c \in Callers, UnregisterEnd(c)
  PROVE  Fine'
  <1>1. act[c].job = "unregister" /\ act[c].pc \in {"done", "failed"}
    BY CallFacts DEF UnregisterEnd, EndOK
  <1>2. act[Run].job # "shutdown" /\ entry = "pending" /\ phase = "intent"
    BY <1>1, CallFacts DEF ShutdownOK, UnregisterOK, EntryOK
  <1>3. OthersKept(c) /\ Others(c)
    BY <1>2, CallerActs DEF OthersKept
  <1>4. act'[c] = Idle
    BY <1>1, CallFacts, ReturnShape DEF UnregisterEnd
  <1>5. CASE act[c].pc = "done"
    <2>1. StillDisk
      BY <1>5 DEF UnregisterEnd, StillDisk, durable
    <2>2. BuilderOK(c)' /\ RemoverOK(c)'
      BY <1>4, IdleIsTyped DEF BuilderOK, Builder, RemoverOK, Remover
    <2>3. ~Attached' /\ ~Vacated' /\ entry' # "releasing" /\ run' = run
      BY <1>2 DEF UnregisterEnd, Attached, Vacated, durable, Retiring
    <2>4. QED
      BY <1>1, <1>3, <1>4, <2>1, <2>2, <2>3, IdleIsTyped, CallFacts, SweepKept, CallFine
  <1>6. CASE act[c].pc = "failed"
    <2>1. Claiming(c) /\ ~Overtaken(c)
      BY <1>1, <1>6, CallFacts DEF Claiming, Overtaken
    <2>2. record = "releasing" /\ link # "isolated"
      BY <1>1, <1>6, CallFacts DEF EndOK, Closing
    <2>3. /\ Return(c) /\ UNCHANGED <<record, loc, link, anchor, foreign, refused, run>> /\ CloseSocket
          /\ entry' = "none"
      BY <1>6 DEF UnregisterEnd, durable
    <2>4. QED
      BY <1>1, <1>3, <2>1, <2>2, <2>3, GivenUpFine
  <1>7. QED
    BY <1>1, <1>5, <1>6

LEMMA ReleaseSendFine ==
  ASSUME Control, Fine, NEW c \in Callers, ReleaseSend(c)
  PROVE  Fine'
  <1>1. act[c].job = "release" /\ act[c].pc = "send"
    BY DEF ReleaseSend, Doing
  <1>2. /\ record = "releasing" /\ link = "linked" /\ loc = "release" /\ entry = "releasing"
        /\ loc = act[c].pin /\ record = act[c].stage /\ act[c].fresh
    BY <1>1, CallFacts DEF HoldOK, Holding, ReleaseOK, Finishing
  <1>3. CASE /\ server' = "releasing" /\ Goto(c, "close") /\ UNCHANGED <<sock, touched, entry, releaseErr>>
    <2>1. /\ act'[c].pc = "close" /\ act'[c].job = "release" /\ act'[c].pin = act[c].pin
          /\ act'[c].stage = act[c].stage /\ act'[c].fresh = act[c].fresh
      BY <1>1, <1>3, CallFacts, GotoShape DEF Elsewhere
    <2>2. Others(c)
      BY CallerActs
    <2>3. StillDisk /\ run' = run /\ mu' = mu
      BY <1>3 DEF ReleaseSend, StillDisk, durable
    <2>4. BuilderOK(c)' /\ OpenOK(c)' /\ TakeOK(c)' /\ EndOK(c)'
      BY <2>1 DEF BuilderOK, OpenOK, TakeOK, EndOK, Taking
    <2>5. HoldOK(c)'
      BY <1>2, <2>1, <2>3 DEF HoldOK, StillDisk
    <2>6. ~Attached' /\ ~Vacated' /\ OthersKept(c)
      BY <1>2, <1>3, <2>3 DEF Attached, Vacated, OthersKept
    <2>7. QED
      BY <1>1, <1>2, <2>1, <2>2, <2>3, <2>4, <2>5, <2>6, CallFacts, SweepKept, CallFine DEF RemoverOK
  <1>4. CASE run = "stopped" /\ CloseSocket /\ entry' = "none" /\ Return(c)
    <2>1. Claiming(c) /\ ~Overtaken(c)
      BY <1>1, CallFacts DEF Claiming, Overtaken, Approach
    <2>2. OthersKept(c)
      BY <1>1, <1>4, CallFacts DEF OthersKept, ShutdownOK
    <2>3. UNCHANGED <<record, loc, link, anchor, foreign, refused, run>>
      BY DEF ReleaseSend, durable
    <2>4. QED
      BY <1>1, <1>2, <1>4, <2>1, <2>2, <2>3, GivenUpFine
  <1>5. QED
    BY <1>3, <1>4 DEF ReleaseSend

LEMMA LeftoverIsRecoverable ==
  ASSUME CleanDisk, Leftover
  PROVE  ~Unrecoverable
  BY DEF Unrecoverable, Leftover, CleanDisk, Gone, Names

LEMMA ReleaseLockFine ==
  ASSUME Control, Fine, NEW c \in Callers, ReleaseLock(c), Clean'
  PROVE  Fine'
  <1> USE DEF memory, durable
  <1>1. act[c].job = "release" /\ act[c].pc = "lock" /\ mu = "free"
    BY DEF ReleaseLock, Doing
  <1>2. Others(c)
    BY CallerActs
  <1>3. StillDisk /\ UNCHANGED <<run, entry, server, phase>>
    BY DEF ReleaseLock, disk, StillDisk
  <1>4. phase \in Retiring /\ entry # "pending" /\ server # "listening"
    BY <1>1, CallFacts DEF ReleaseOK, EntryOK, Retiring
  <1>5. entry' = "releasing" => record = "releasing"
    BY <1>3 DEF Fine, ReleasingOK
  <1>6. CASE entry = "none" /\ Start(c, "sweep", "open") /\ mu' = mu
    <2>1. act'[c].job = "sweep" /\ act'[c].pc = "open"
      BY <1>1, <1>6, CallFacts, StartShape DEF Approach
    <2>2. \A d \in Callers : act[d].job # "sweep"
      BY <1>6 DEF ReleaseLock, Clean
    <2>3. Leftover
      BY <1>1, <1>4, <1>6, <2>2, CallFacts DEF Fine, LeftOK, Vacated
    <2>4. BuilderOK(c)' /\ RemoverOK(c)'
      <3>1. ~Unrecoverable
        BY <1>1, <2>3, CallFacts, LeftoverIsRecoverable
      <3>2. OpenOK(c)'
        BY <1>3, <2>1, <2>3, <3>1 DEF OpenOK, StillDisk, Unrecoverable, Leftover, Gone, Closing
      <3>3. QED
        BY <2>1, <3>2 DEF BuilderOK, RemoverOK, HoldOK, TakeOK, EndOK, Holding, Approach, Taking
    <2>5. OneSweep'
      BY <1>2, <2>1, <2>2 DEF OneSweep, Others, Actors
    <2>6. ~Vacated' /\ ~Attached'
      BY <1>3, <1>6, <2>1 DEF Vacated, Attached
    <2>7. OthersKept(c)
      BY <1>3, <1>6 DEF OthersKept
    <2>8. QED
      BY <1>1, <1>2, <1>3, <1>5, <2>4, <2>5, <2>6, <2>7, CallFacts, CallFine
  <1>7. CASE entry = "releasing" /\ Goto(c, "join") /\ mu' = mu
    <2>1. act'[c].job = "release" /\ act'[c].pc = "join"
      BY <1>1, <1>7, CallFacts, GotoShape DEF Elsewhere
    <2>2. BuilderOK(c)' /\ RemoverOK(c)'
      BY <1>1, <2>1, CallFacts
      DEF BuilderOK, RemoverOK, OpenOK, HoldOK, TakeOK, EndOK, Holding, Approach, Taking
    <2>3. ~Vacated' /\ ~Attached' /\ OthersKept(c)
      BY <1>3, <1>7 DEF Vacated, Attached, OthersKept
    <2>4. QED
      BY <1>1, <1>2, <1>3, <1>5, <2>1, <2>2, <2>3, CallFacts, SweepKept, CallFine
  <1>8. CASE entry \in {"ready", "recovered"} /\ Goto(c, "open") /\ mu' = c
    <2>1. act'[c].job = "release" /\ act'[c].pc = "open"
      BY <1>1, <1>8, CallFacts, GotoShape DEF Approach
    <2>2. Whole \/ ShutDisk
      <3>1. \A d \in Callers : act[d].job # "unregister"
        BY <1>4 DEF Control, CallerOK, UnregisterOK
      <3>2. (Serving => Whole) /\ (Shut => ShutDisk)
        BY <1>1, <1>4, <1>8, <3>1 DEF Fine, AttachedOK, Attached
      <3>3. Serving \/ Shut
        <4>1. CASE run = "stopping" /\ act[Run].job = "shutdown"
          <5>1. act[Run].pc \in {"lock", "stageDir", "done", "failed", "refuse"}
            BY <1>1, <4>1, CallFacts DEF ShutdownOK, Ended
          <5>2. act[Run].pc # "refuse"
            BY <1>8, <4>1 DEF Fine, RemoverOK, Remover, EndOK, Actors
          <5>3. QED
            BY <4>1, <5>1, <5>2 DEF Serving, Shut
        <4>2. run = "stopping" => act[Run].job \in {"idle", "shutdown"}
          BY <1>1, CallFacts DEF RunOK, RecoverOK
        <4>3. QED
          BY <1>1, <4>1, <4>2, CallFacts DEF Serving, Shut
      <3>4. QED
        BY <3>2, <3>3
    <2>3. BuilderOK(c)' /\ RemoverOK(c)'
      <3>1. ~Unrecoverable
        BY <1>1, <2>2, CallFacts, WholeIsRecoverable
      <3>2. OpenOK(c)'
        BY <1>3, <2>1, <2>2, <3>1 DEF OpenOK, StillDisk, Unrecoverable, Whole, ShutDisk, Closing
      <3>3. QED
        BY <2>1, <3>2 DEF BuilderOK, RemoverOK, HoldOK, TakeOK, EndOK, Holding, Approach, Taking
    <2>4. ~Vacated' /\ ~Attached' /\ OthersKept(c)
      BY <1>1, <1>3, <1>8, CallFacts DEF Vacated, Attached, OthersKept
    <2>5. QED
      BY <1>1, <1>2, <1>3, <1>5, <2>1, <2>3, <2>4, CallFacts, SweepKept, CallFine
  <1>9. ~refused /\ entry \in {"none", "releasing", "ready", "recovered"}
    BY <1>1, <1>4, CallFacts DEF Control, Typed, TypeOK
  <1>10. QED
    BY <1>6, <1>7, <1>8, <1>9 DEF ReleaseLock

LEMMA ReleasePinnedFine ==
  ASSUME Control, Fine, NEW c \in Callers, ReleasePinned(c)
  PROVE  Fine'
  <1> USE DEF memory, durable
  <1>1. act[c].job = "release" /\ act[c].pc = "isolated" /\ mu = c /\ entry \in {"ready", "recovered"}
    <2>1. act[c].job = "release" /\ mu = c /\ act[c].pc \in {"isolated", "refuse", "failed"}
      BY DEF ReleasePinned
    <2>2. EndOK(c) /\ ReleaseOK(c)
      BY <2>1, CallFacts
    <2>3. QED
      BY <2>1, <2>2 DEF EndOK, ReleaseOK, Approach
  <1>2. Others(c)
    BY CallerActs
  <1>3. StillDisk /\ run' = run /\ entry' = "releasing" /\ mu' = "free" /\ Goto(c, "send")
    BY <1>1 DEF ReleasePinned, disk, StillDisk
  <1>4. /\ act'[c].pc = "send" /\ act'[c].job = "release" /\ act'[c].pin = act[c].pin
        /\ act'[c].stage = act[c].stage /\ act'[c].fresh = act[c].fresh
    BY <1>1, <1>3, CallFacts, GotoShape DEF Elsewhere
  <1>5. /\ loc = act[c].pin /\ record = act[c].stage /\ act[c].fresh /\ record = "releasing" /\ link = "linked"
        /\ loc = "release" /\ sock = "held"
    BY <1>1, CallFacts DEF HoldOK, Holding
  <1>6. BuilderOK(c)' /\ RemoverOK(c)'
    <2>1. BuilderOK(c)' /\ OpenOK(c)' /\ EndOK(c)' /\ TakeOK(c)'
      BY <1>4 DEF BuilderOK, OpenOK, EndOK, TakeOK, Taking
    <2>2. HoldOK(c)'
      BY <1>3, <1>4, <1>5 DEF HoldOK, StillDisk
    <2>3. QED
      BY <2>1, <2>2 DEF RemoverOK
  <1>7. ~Attached' /\ ~Vacated'
    BY <1>3 DEF Attached, Vacated
  \* A shutdown that is past the mutex would have closed the socket.
  <1>8. OthersKept(c)
    <2>1. SUFFICES ASSUME act[Run].job = "shutdown", act[Run].pc # "lock" PROVE FALSE
      BY DEF OthersKept
    <2>2. EndOK(Run) /\ mu # Run
      BY <1>1, <2>1, CallFacts DEF Fine, RemoverOK, Remover, Actors
    <2>3. act[Run].pc \in Ended \cup {"stageDir"}
      BY <1>1, <2>1, <2>2, CallFacts DEF ShutdownOK
    <2>4. QED
      BY <1>1, <1>5, <2>1, <2>2, <2>3 DEF EndOK, ShutDisk, Ended
  <1>9. QED
    BY <1>1, <1>2, <1>3, <1>4, <1>5, <1>6, <1>7, <1>8, CallFacts, SweepKept, CallFine

LEMMA ReleaseUnprovenNever ==
  ASSUME Control, Fine, NEW c \in Callers
  PROVE  ~ReleaseUnproven(c)
  BY CallFacts DEF ReleaseUnproven, Doing, EndOK

LEMMA RemovalEndFine ==
  ASSUME Control, Disk, Fine, NEW c \in Callers, ReleaseEnd(c) \/ SweepEnd(c)
  PROVE  Fine'
  <1> USE DEF memory, durable
  <1>1. act[c].job \in {"release", "sweep"} /\ act[c].pc \in {"done", "failed"}
    BY CallFacts DEF ReleaseEnd, SweepEnd, EndOK
  <1>2. Others(c)
    BY CallerActs
  <1>3. StillDisk /\ UNCHANGED <<run, mu>> /\ entry' \in {entry, "none"}
    <2>1. ~refused /\ refused \in BOOLEAN
      BY <1>1, CallFacts DEF Control, Typed
    <2>2. CASE ReleaseEnd(c)
      BY <2>2 DEF ReleaseEnd, disk, StillDisk
    <2>3. CASE SweepEnd(c)
      <3>1. refused' = refused
        BY <1>1, <2>1, <2>3 DEF SweepEnd
      <3>2. QED
        BY <2>3, <3>1 DEF SweepEnd, disk, StillDisk
    <2>4. QED
      BY <2>2, <2>3
  <1>4. Leftover
    <2>1. CASE act[c].pc = "done"
      <3>1. phase # "intent"
        BY <1>1, CallFacts DEF ReleaseOK, SweepOK, Retiring
      <3>2. QED
        BY <1>1, <2>1, <3>1, CallFacts DEF Disk, GoneOK, Leftover
    <2>2. CASE act[c].pc = "failed"
      BY <1>1, <2>2, CallFacts DEF EndOK, Closing, Leftover
    <2>3. QED
      BY <1>1, <2>1, <2>2
  <1>5. act'[c].pc \in {"idle", "authorize"} /\ act'[c].job # "sweep"
    <2>1. Return(c) \/ (Goto(c, "authorize") /\ act[c].job = "release") \/ Start(c, "release", "authorize")
      BY DEF ReleaseEnd, SweepEnd
    <2>2. act \in [Actors -> Acts] /\ c \in Actors
      BY <1>1, CallFacts
    <2>3. CASE Return(c)
      BY <2>2, <2>3, ReturnShape, IdleIsTyped
    <2>4. CASE Goto(c, "authorize") /\ act[c].job = "release"
      BY <2>2, <2>4, GotoShape DEF Elsewhere
    <2>5. CASE Start(c, "release", "authorize")
      <3>1. "authorize" \in Making \cup Approach \cup Taking \cup Ended \cup Elsewhere
        BY DEF Elsewhere
      <3>2. act'[c].pc = "authorize" /\ act'[c].job = "release"
        BY <2>2, <2>5, <3>1, StartShape
      <3>3. QED
        BY <3>2
    <2>6. QED
      BY <2>1, <2>3, <2>4, <2>5
  <1>6. BuilderOK(c)' /\ RemoverOK(c)'
    BY <1>5 DEF BuilderOK, RemoverOK, OpenOK, HoldOK, TakeOK, EndOK, Holding, Approach, Taking
  <1>7. entry \in {"none", "releasing"}
    BY <1>1, CallFacts DEF ReleaseEnd, SweepEnd, ReleaseOK, SweepOK, Finishing, Past
  <1>8. ~Attached' /\ (entry' = "releasing" => record = "releasing")
    BY <1>3, <1>7 DEF Attached, Fine, ReleasingOK
  <1>9. OthersKept(c)
    <2>1. CASE act[c].job = "sweep"
      BY <1>1, <1>3, <2>1 DEF OthersKept, ReleaseEnd, SweepEnd
    <2>2. CASE act[c].job = "release"
      BY <1>1, <2>2, CallFacts DEF OthersKept, ShutdownOK, Past
    <2>3. QED
      BY <1>1, <2>1, <2>2
  <1>10. QED
    BY <1>1, <1>2, <1>3, <1>4, <1>5, <1>6, <1>8, <1>9, CallFacts, SweepKept, CallFine

LEMMA CallerFine ==
  ASSUME Control, Disk, Served, Fine, Clean, Clean', NEW c \in Callers,
         \/ PrepareCall(c) \/ PrepareLock(c) \/ PrepareListening(c) \/ Register(c)
         \/ Registered(c) \/ PrepareJoin(c) \/ CommitPreparedTask(c) \/ PrepareFailed(c)
         \/ UnregisterClose(c) \/ UnregisterEnd(c)
         \/ ReleaseCall(c) \/ ReleaseLock(c) \/ ReleaseJoin(c) \/ ReleasePinned(c)
         \/ ReleaseSend(c) \/ ReleaseClose(c) \/ ReleaseUnproven(c) \/ ReleaseEnd(c)
         \/ SweepEnd(c) \/ AuthorizeRemoval(c)
  PROVE  Fine'
  BY PreparationFine, CloseFine, UnregisterEndFine, ReleaseTurnsFine, ReleaseLockFine,
     ReleasePinnedFine, ReleaseSendFine, ReleaseUnprovenNever, RemovalEndFine

-----------------------------------------------------------------------------
(* The coordinator's own steps.                                            *)

LEMMA RecoveringFine ==
  ASSUME Control, Fine, \A c \in Callers : act'[c] = Idle, entry' \in {"none", "recovered"},
         CleanDisk', BuilderOK(Run)', RemoverOK(Run)', AttachedOK', LeftOK', RestartOK'
  PROVE  Fine'
  <1>1. \A c \in Callers : BuilderOK(c)' /\ RemoverOK(c)'
    BY IdleIsTyped DEF BuilderOK, Builder, RemoverOK, Remover
  <1>2. OneSweep' /\ ReleasingOK'
    BY IdleIsTyped DEF OneSweep, ReleasingOK
  <1>3. QED
    BY <1>1, <1>2 DEF Fine, Actors

LEMMA RecoveryFine ==
  ASSUME Control, Disk, Served, Fine, Clean, Recovery
  PROVE  Fine'
  <1> USE DEF memory, durable, Doing
  <1>1. /\ Run \in Actors /\ Run # "free" /\ act \in [Actors -> Acts] /\ CleanDisk /\ ~refused
        /\ RunOK /\ RecoverOK /\ ModeOK /\ RestartOK /\ RemoverOK(Run)
    BY FreeAssumption DEF Actors, Control, Typed, Fine, CleanDisk, RunOK
  <1>2. /\ run \in {"down", "recovering"} /\ entry = "none"
        /\ \A c \in Callers : act[c] = Idle
    <2>1. run \in {"down", "recovering"}
      BY <1>1
      DEF Recovery, Boot, UpgradeRelayIdentity, BeginRecovery, RecoveryRemoved, RecoveryRestored,
          RecoveryRefused, RecoveryFailed, RecoverOK
    <2>2. QED
      BY <1>1, <2>1 DEF ModeOK
  <1>3. \A c \in Callers : act'[c] = Idle
    BY <1>2, CoordinatorActs DEF Recovery
  <1>4. ASSUME StillDisk
        PROVE  CleanDisk' /\ (Whole' <=> Whole) /\ (Leftover' <=> Leftover) /\ (Unrecoverable' <=> Unrecoverable)
    BY <1>1, <1>4, StillClean
  <1>5. CASE Boot
    <2>1. StillDisk /\ act' = act /\ run = "down" /\ run' = "recovering" /\ mu' = Run /\ entry' = entry
      BY <1>5 DEF Boot, disk, StillDisk
    <2>2. act[Run] = Idle
      BY <1>1, <2>1 DEF RunOK, RecoverOK, ShutdownOK
    <2>3. BuilderOK(Run)' /\ RemoverOK(Run)'
      BY <2>1, <2>2, IdleIsTyped DEF BuilderOK, Builder, RemoverOK, Remover
    <2>4. AttachedOK' /\ LeftOK' /\ RestartOK'
      BY <1>1, <1>4, <2>1 DEF AttachedOK, Attached, LeftOK, Vacated, RestartOK
    <2>5. QED
      BY <1>2, <1>3, <1>4, <2>1, <2>3, <2>4, RecoveringFine
  <1>6. CASE UpgradeRelayIdentity
    <2>1. ~RelayUpgradeUnproven
      BY <1>1 DEF RelayUpgradeUnproven, RecordReadable, Occupied, CleanDisk
    <2>2. /\ record' = (IF record = "none" THEN "intent" ELSE record) /\ refused' = refused
          /\ UNCHANGED <<loc, link, anchor, sock, foreign, act, memory>> /\ run = "recovering"
      BY <1>6, <2>1 DEF UpgradeRelayIdentity, CompleteRelayUpgrade, RefuseRelayUpgrade
    <2>3. act[Run] = Idle
      BY <1>1, <1>6 DEF UpgradeRelayIdentity, ModeOK
    <2>4. CleanDisk'
      BY <1>1, <2>2 DEF CleanDisk, Gone, Names
    <2>5. BuilderOK(Run)' /\ RemoverOK(Run)'
      BY <2>2, <2>3, IdleIsTyped DEF BuilderOK, Builder, RemoverOK, Remover
    <2>6. RestartOK'
      BY <1>1, <2>2, <2>3, IdleIsTyped DEF RestartOK, Unrecoverable, CleanDisk
    <2>7. AttachedOK' /\ LeftOK'
      BY <1>2, <2>2 DEF AttachedOK, Attached, LeftOK, Vacated
    <2>8. QED
      BY <1>2, <1>3, <2>2, <2>4, <2>5, <2>6, <2>7, RecoveringFine
  <1>7. CASE BeginRecovery
    <2>1. StillDisk /\ run = "recovering" /\ act[Run] = Idle /\ entry' = entry /\ phase' = phase
      BY <1>7 DEF BeginRecovery, disk, StillDisk
    <2>2. CASE phase = "none" /\ run' = "running" /\ act' = act
      <3>1. BuilderOK(Run)' /\ RemoverOK(Run)'
        BY <2>1, <2>2, IdleIsTyped DEF BuilderOK, Builder, RemoverOK, Remover
      <3>2. AttachedOK' /\ LeftOK' /\ RestartOK'
        BY <1>2, <2>1, <2>2 DEF AttachedOK, Attached, LeftOK, Vacated, RestartOK, Retiring
      <3>3. QED
        BY <1>2, <1>3, <1>4, <2>1, <3>1, <3>2, RecoveringFine
    <2>3. CASE Start(Run, "recover", "open") /\ run' = run
      <3>1. act'[Run].job = "recover" /\ act'[Run].pc = "open"
        BY <1>1, <2>3, StartShape DEF Approach
      <3>2. ~Unrecoverable
        BY <1>1, <2>1, IdleIsTyped DEF RestartOK
      <3>3. OpenOK(Run)'
        BY <1>4, <2>1, <3>1, <3>2 DEF OpenOK, Closing
      <3>4. BuilderOK(Run)' /\ RemoverOK(Run)'
        BY <3>1, <3>3 DEF BuilderOK, RemoverOK, HoldOK, TakeOK, EndOK, Holding, Approach, Taking
      <3>5. AttachedOK' /\ LeftOK' /\ RestartOK'
        BY <1>2, <2>1, <2>3, <3>1 DEF AttachedOK, Attached, LeftOK, Vacated, RestartOK
      <3>6. QED
        BY <1>2, <1>3, <1>4, <2>1, <3>4, <3>5, RecoveringFine
    <2>4. QED
      BY <1>1, <1>7, <2>2, <2>3 DEF BeginRecovery
  <1>8. CASE RecoveryRemoved
    <2>1. StillDisk /\ act[Run].job = "recover" /\ act[Run].pc = "done" /\ entry' = entry /\ phase' = phase
      BY <1>8 DEF RecoveryRemoved, disk, StillDisk
    <2>2. run = "recovering"
      BY <1>1, <2>1 DEF RecoverOK
    <2>3. phase # "intent" => Leftover
      BY <1>1, <2>1 DEF Disk, GoneOK, Leftover
    <2>4. \/ act'[Run].pc = "create" /\ act'[Run].job = "restore"
          \/ act'[Run] = Idle /\ run' = "running"
      <3>1. "create" \in Making \cup Approach \cup Taking \cup Ended \cup Elsewhere
        BY DEF Making
      <3>2. CASE Start(Run, "restore", "create")
        BY <1>1, <3>1, <3>2, StartShape
      <3>3. CASE Return(Run) /\ run' = "running"
        BY <1>1, <3>3, ReturnShape
      <3>4. QED
        BY <1>8, <3>2, <3>3 DEF RecoveryRemoved
    <2>5. act'[Run].pc \in {"create", "idle"}
      BY <2>4, IdleIsTyped
    <2>6. BuilderOK(Run)' /\ RemoverOK(Run)'
      BY <2>5 DEF BuilderOK, RemoverOK, OpenOK, HoldOK, TakeOK, EndOK, Holding, Approach, Taking
    <2>7. run' # "down"
      BY <1>8, <2>2 DEF RecoveryRemoved
    <2>8. AttachedOK' /\ LeftOK' /\ RestartOK'
      BY <1>2, <1>4, <2>1, <2>3, <2>4, <2>7 DEF AttachedOK, Attached, LeftOK, Vacated, RestartOK, Retiring
    <2>9. QED
      BY <1>2, <1>3, <1>4, <2>1, <2>6, <2>8, RecoveringFine
  <1>9. CASE RecoveryRestored
    <2>1. StillDisk /\ act[Run].job = "restore" /\ act[Run].pc = "done" /\ entry' = "recovered" /\ run' = "running"
      BY <1>9 DEF RecoveryRestored, disk, StillDisk
    <2>2. Whole
      <3>1. Handed(Run)
        BY <2>1 DEF Handed, Builder
      <3>2. "interference" \notin cause
        BY DEF Clean
      <3>3. QED
        BY <1>1, <3>1, <3>2 DEF Served
    <2>3. act'[Run] = Idle
      BY <1>1, <1>9, ReturnShape DEF RecoveryRestored
    <2>4. BuilderOK(Run)' /\ RemoverOK(Run)'
      BY <2>3, IdleIsTyped DEF BuilderOK, Builder, RemoverOK, Remover
    <2>5. AttachedOK' /\ LeftOK' /\ RestartOK'
      BY <1>4, <2>1, <2>2 DEF AttachedOK, Shut, LeftOK, Vacated, RestartOK
    <2>6. QED
      BY <1>3, <1>4, <2>1, <2>4, <2>5, RecoveringFine
  <1>10. ~RecoveryRefused
    BY <1>1 DEF RecoveryRefused, RemoverOK, Remover, EndOK
  <1>11. CASE RecoveryFailed
    <2>1. StillDisk /\ entry' = entry /\ run' = "failed"
      BY <1>11 DEF RecoveryFailed, disk, StillDisk
    <2>2. act'[Run] = Idle
      BY <1>1, <1>11, ReturnShape DEF RecoveryFailed
    <2>3. BuilderOK(Run)' /\ RemoverOK(Run)'
      BY <2>2, IdleIsTyped DEF BuilderOK, Builder, RemoverOK, Remover
    <2>4. AttachedOK' /\ LeftOK' /\ RestartOK'
      BY <1>2, <2>1 DEF AttachedOK, Attached, LeftOK, Vacated, RestartOK
    <2>5. QED
      BY <1>2, <1>3, <1>4, <2>1, <2>3, <2>4, RecoveringFine
  <1>12. QED
    BY <1>5, <1>6, <1>7, <1>8, <1>9, <1>10, <1>11 DEF Recovery

\* A step of the goroutine after recovery that leaves the disk as it is.
LEMMA GoroutineFine ==
  ASSUME Control, Fine, Others(Run), StillDisk, BuilderOK(Run)', RemoverOK(Run)',
         AttachedOK', LeftOK', run' \notin {"down", "recovering"}, entry' = entry
  PROVE  Fine'
  <1>1. Run \in Actors /\ \A c \in Callers : c # Run /\ c \in Actors /\ act'[c] = act[c]
    BY RunAssumption DEF Actors, Others
  <1>2. \A c \in Callers : BuilderOK(c)' /\ RemoverOK(c)'
    BY <1>1, StillActor
  <1>3. CleanDisk' /\ RestartOK' /\ ReleasingOK' /\ OneSweep'
    BY <1>1, StillClean DEF Fine, RestartOK, ReleasingOK, OneSweep, StillDisk
  <1>4. QED
    BY <1>2, <1>3 DEF Fine, Actors

LEMMA StopFine ==
  ASSUME Control, PendingOK, Fine, Stop
  PROVE  Fine'
  <1> USE DEF memory, durable
  <1>1. /\ Run \in Actors /\ act \in [Actors -> Acts] /\ CleanDisk /\ AttachedOK /\ LeftOK /\ RunOK /\ EntryOK
        /\ act[Run] = Idle /\ run = "running"
    BY DEF Actors, Control, Typed, Fine, Stop, RunOK, RecoverOK, ShutdownOK
  <1>2. /\ Others(Run) /\ StillDisk /\ UNCHANGED <<mu, entry, server, phase>> /\ run' = "stopping"
        /\ \A c \in Callers : act'[c] = act[c]
    BY CoordinatorActs DEF Stop, StillDisk, disk
  <1>3. (Whole' <=> Whole) /\ (ShutDisk' <=> ShutDisk) /\ (Leftover' <=> Leftover)
    BY <1>1, <1>2, StillClean
  <1>4. (Attached' => Attached) /\ (Vacated' => Vacated)
    BY <1>1, <1>2 DEF Attached, Vacated
  <1>5. LeftOK'
    BY <1>1, <1>3, <1>4 DEF LeftOK
  <1>6. CASE server = "active"
    <2>1. act'[Run].job = "shutdown" /\ act'[Run].pc = "lock"
      BY <1>1, <1>6, StartShape DEF Stop, Elsewhere
    <2>2. BuilderOK(Run)' /\ RemoverOK(Run)'
      BY <2>1 DEF BuilderOK, RemoverOK, OpenOK, HoldOK, TakeOK, EndOK, Holding, Approach, Taking
    <2>3. AttachedOK'
      BY <1>1, <1>2, <1>3, <1>4, <2>1 DEF AttachedOK, Serving, Shut
    <2>4. QED
      BY <1>2, <1>5, <2>2, <2>3, GoroutineFine
  <1>7. CASE server # "active"
    <2>1. act' = act
      BY <1>7 DEF Stop
    <2>2. BuilderOK(Run)' /\ RemoverOK(Run)'
      BY <1>1, <2>1, IdleIsTyped DEF BuilderOK, Builder, RemoverOK, Remover
    \* An attachment that is not served is either still being registered, or
    \* somebody is busy with it.
    <2>3. ~Attached
      <3>1. SUFFICES ASSUME Attached PROVE FALSE
        OBVIOUS
      <3>2. entry = "pending"
        BY <1>1, <1>7, <3>1 DEF Attached, EntryOK
      <3>3. PICK c \in Callers : Registering(c)
        BY <3>2 DEF PendingOK
      <3>4. PrepareOK(c) /\ act[c].job = "prepare" /\ act[c].pc \in {"register", "registered"}
        BY <3>1, <3>3 DEF Attached, Registering, Control, CallerOK
      <3>5. QED
        BY <1>1, <1>7, <3>1, <3>4 DEF PrepareOK, Attached
    <2>4. AttachedOK'
      BY <1>4, <2>3 DEF AttachedOK
    <2>5. QED
      BY <1>2, <1>5, <2>2, <2>4, GoroutineFine
  <1>8. QED
    BY <1>6, <1>7

LEMMA QuietRunFine ==
  ASSUME Control, Fine, ServerResult \/ Stopped \/ CleanupAdvances \/ ShutdownStaged
  PROVE  Fine'
  <1> USE DEF memory, durable
  <1>1. /\ Run \in Actors /\ act \in [Actors -> Acts] /\ CleanDisk /\ AttachedOK /\ LeftOK /\ RunOK /\ ShutdownOK /\ EntryOK
        /\ ~refused /\ RemoverOK(Run) /\ BuilderOK(Run)
    BY DEF Actors, Control, Typed, Fine, RunOK, CleanDisk
  <1>2. /\ Others(Run) /\ StillDisk /\ UNCHANGED <<mu, entry>>
        /\ \A c \in Callers : act'[c] = act[c]
    BY CoordinatorActs DEF ServerResult, Stopped, CleanupAdvances, ShutdownStaged, Shutdown, StillDisk, disk
  <1>3. (Whole' <=> Whole) /\ (ShutDisk' <=> ShutDisk) /\ (Leftover' <=> Leftover)
    BY <1>1, <1>2, StillClean
  <1>4. CASE ServerResult \/ Stopped \/ CleanupAdvances
    <2>1. act' = act
      BY <1>4 DEF ServerResult, Stopped, CleanupAdvances
    <2>2. BuilderOK(Run)' /\ RemoverOK(Run)'
      BY <1>1, <1>2, <2>1, StillActor
    <2>3. CASE ServerResult
      <3>1. run' = run /\ run \in {"running", "stopping"} /\ phase' = phase /\ server # "listening"
        BY <2>3 DEF ServerResult
      <3>2. AttachedOK'
        BY <1>1, <1>2, <1>3, <2>1, <3>1 DEF AttachedOK, Attached, Serving, Shut
      <3>3. LeftOK'
        BY <1>1, <1>2, <1>3, <2>1, <3>1 DEF LeftOK, Vacated
      <3>4. QED
        BY <1>2, <2>2, <3>1, <3>2, <3>3, GoroutineFine
    <2>4. CASE Stopped
      <3>1. run = "stopping" /\ run' = "stopped" /\ act[Run] = Idle /\ phase' = phase /\ server' = server
        BY <2>4 DEF Stopped
      <3>2. AttachedOK'
        BY <1>1, <1>2, <1>3, <2>1, <3>1, IdleIsTyped DEF AttachedOK, Attached, Serving, Shut
      <3>3. LeftOK'
        BY <1>1, <1>2, <1>3, <2>1, <3>1 DEF LeftOK, Vacated
      <3>4. QED
        BY <1>2, <2>2, <3>1, <3>2, <3>3, GoroutineFine
    <2>5. CASE CleanupAdvances
      <3>1. run = "running" /\ run' = run /\ server' = server
        BY <2>5 DEF CleanupAdvances
      <3>2. AttachedOK'
        BY <1>1, <1>2, <1>3, <2>1, <3>1 DEF AttachedOK, Attached, Serving, Shut
      <3>3. LeftOK'
        <4>1. CASE phase = "task"
          BY <1>1, <1>2, <3>1, <4>1 DEF EntryOK, LeftOK, Vacated
        <4>2. CASE phase = "removal"
          BY <1>1, <1>2, <1>3, <2>1, <3>1, <4>2 DEF LeftOK, Vacated, Retiring
        <4>3. QED
          BY <2>5, <4>1, <4>2 DEF CleanupAdvances
      <3>4. QED
        BY <1>2, <2>2, <3>1, <3>2, <3>3, GoroutineFine
    <2>6. QED
      BY <1>4, <2>3, <2>4, <2>5
  <1>5. CASE ShutdownStaged
    <2>1. act[Run].job = "shutdown" /\ act[Run].pc = "done" /\ UNCHANGED <<run, server, phase>>
      BY <1>5 DEF ShutdownStaged, Doing
    <2>2. run = "stopping" /\ entry # "none" /\ ShutDisk
      BY <1>1, <2>1 DEF ShutdownOK, RemoverOK, Remover, EndOK
    <2>3. act'[Run] = Idle
      BY <1>1, <1>5, ReturnShape DEF ShutdownStaged
    <2>4. BuilderOK(Run)' /\ RemoverOK(Run)'
      BY <2>3, IdleIsTyped DEF BuilderOK, Builder, RemoverOK, Remover
    <2>5. AttachedOK' /\ LeftOK'
      BY <1>2, <1>3, <2>1, <2>2, <2>3, IdleIsTyped DEF AttachedOK, Serving, LeftOK, Vacated
    <2>6. QED
      BY <1>2, <2>1, <2>2, <2>4, <2>5, GoroutineFine
  <1>6. QED
    BY <1>4, <1>5

LEMMA ShutdownLockFine ==
  ASSUME Control, Fine, ShutdownLock
  PROVE  Fine'
  <1> USE DEF memory, durable
  <1>1. /\ Run \in Actors /\ Run # "free" /\ act \in [Actors -> Acts] /\ CleanDisk /\ AttachedOK /\ LeftOK
        /\ RunOK /\ ShutdownOK
    BY FreeAssumption DEF Actors, Control, Typed, Fine, RunOK
  <1>2. act[Run].job = "shutdown" /\ act[Run].pc = "lock" /\ mu = "free" /\ UNCHANGED <<run, server, phase, entry>>
    BY DEF ShutdownLock, Doing
  <1>3. /\ run = "stopping" /\ entry # "none" /\ server # "listening"
        /\ \A c \in Callers : act[c].job # "unregister"
    BY <1>1, <1>2 DEF ShutdownOK
  <1>4. Others(Run) /\ StillDisk
    BY CoordinatorActs DEF ShutdownLock, Shutdown, StillDisk, disk
  <1>5. (Whole' <=> Whole) /\ (Unrecoverable' <=> Unrecoverable)
    BY <1>1, <1>4, StillClean
  <1>6. LeftOK'
    BY <1>2, <1>3 DEF LeftOK, Vacated
  <1>7. CASE entry = "releasing" /\ Goto(Run, "refuse") /\ mu' = mu
    <2>1. act'[Run].pc = "refuse" /\ act'[Run].job = "shutdown"
      BY <1>1, <1>2, <1>7, GotoShape DEF Ended
    <2>2. BuilderOK(Run)' /\ RemoverOK(Run)'
      BY <1>1, <1>2, <1>7, <2>1
      DEF BuilderOK, RemoverOK, OpenOK, HoldOK, TakeOK, EndOK, Holding, Approach, Taking
    <2>3. AttachedOK'
      BY <1>2, <1>7 DEF AttachedOK, Attached
    <2>4. QED
      BY <1>2, <1>3, <1>4, <1>6, <2>2, <2>3, GoroutineFine
  <1>8. CASE entry \notin {"none", "releasing"} /\ Goto(Run, "open") /\ mu' = Run
    <2>1. act'[Run].pc = "open" /\ act'[Run].job = "shutdown"
      BY <1>1, <1>2, <1>8, GotoShape DEF Approach
    <2>2. Whole
      <3>1. Attached
        BY <1>2, <1>3, <1>8 DEF Attached, Control, Typed, TypeOK
      <3>2. QED
        BY <1>1, <1>2, <3>1 DEF AttachedOK, Serving
    <2>3. ~Unrecoverable
      BY <1>1, <2>2, WholeIsRecoverable
    <2>4. OpenOK(Run)' /\ EndOK(Run)'
      BY <1>2, <1>5, <1>8, <2>1, <2>2, <2>3 DEF OpenOK, EndOK, Approach
    <2>5. BuilderOK(Run)' /\ RemoverOK(Run)'
      BY <2>1, <2>4 DEF BuilderOK, RemoverOK, HoldOK, TakeOK, Holding, Approach, Taking
    <2>6. AttachedOK'
      BY <1>1, <1>8 DEF AttachedOK, Attached
    <2>7. QED
      BY <1>2, <1>3, <1>4, <1>6, <2>5, <2>6, GoroutineFine
  <1>9. QED
    BY <1>3, <1>7, <1>8 DEF ShutdownLock

\* Shutdown closes the socket of the attachment it has relocated, or of one
\* that a release has taken over and not yet begun to remove.
LEMMA ShutdownClosesFine ==
  ASSUME Control, Fine, act[Run].job = "shutdown", Others(Run), CloseSocket,
         UNCHANGED <<record, loc, link, anchor, foreign, refused, run, phase, entry>>,
         record = "releasing", BuilderOK(Run)', RemoverOK(Run)', AttachedOK',
         \A c \in Callers : ~Claiming(c) \/ act[c].pc = "send"
  PROVE  Fine'
  <1>1. /\ \A c \in Callers : c # Run /\ c \in Actors /\ act'[c] = act[c] /\ act[c].job # "shutdown"
        /\ CleanDisk /\ run = "stopping" /\ entry # "none"
    BY RunAssumption DEF Actors, Others, Control, CallerOK, Fine, RunOK, ShutdownOK
  <1>2. \A c \in Callers : BuilderOK(c)' /\ RemoverOK(c)'
    BY <1>1, ClosedActor
  <1>3. CleanDisk'
    BY <1>1 DEF CloseSocket, CleanDisk, Gone
  <1>4. LeftOK' /\ RestartOK' /\ ReleasingOK' /\ OneSweep'
    BY <1>1 DEF LeftOK, Vacated, RestartOK, ReleasingOK, OneSweep, Fine
  <1>5. QED
    BY <1>2, <1>3, <1>4 DEF Fine, Actors

LEMMA ShutdownPinnedFine ==
  ASSUME Control, Fine, ShutdownPinned
  PROVE  Fine'
  <1> USE DEF memory, durable
  <1>1. /\ Run \in Actors /\ act \in [Actors -> Acts] /\ RunOK /\ ShutdownOK
        /\ act[Run].job = "shutdown" /\ act[Run].pc = "isolated" /\ Remover(Run) /\ HoldOK(Run) /\ EndOK(Run)
    BY DEF Actors, Control, Typed, Fine, RunOK, ShutdownPinned, Doing, RemoverOK, Remover
  <1>2. /\ loc = act[Run].pin /\ record = act[Run].stage /\ act[Run].fresh /\ record = "releasing" /\ link = "linked"
        /\ loc = "release" /\ sock = "held" /\ entry # "releasing" /\ run = "stopping"
    BY <1>1 DEF HoldOK, EndOK, ShutdownOK, Holding
  <1>3. /\ Others(Run) /\ CloseSocket /\ Goto(Run, "stageDir")
        /\ UNCHANGED <<record, loc, link, anchor, foreign, refused, run, phase, entry>>
    BY CoordinatorActs DEF ShutdownPinned, Shutdown
  <1>4. /\ act'[Run].pc = "stageDir" /\ act'[Run].job = "shutdown" /\ act'[Run].pin = act[Run].pin
        /\ act'[Run].stage = act[Run].stage /\ act'[Run].fresh = act[Run].fresh
    BY <1>1, <1>3, GotoShape DEF Taking
  <1>5. ShutDisk'
    BY <1>2, <1>3 DEF ShutDisk, CloseSocket
  <1>6. BuilderOK(Run)' /\ RemoverOK(Run)'
    <2>1. BuilderOK(Run)' /\ OpenOK(Run)' /\ TakeOK(Run)'
      BY <1>4 DEF BuilderOK, OpenOK, TakeOK
    <2>2. HoldOK(Run)'
      BY <1>2, <1>3, <1>4 DEF HoldOK
    <2>3. EndOK(Run)'
      BY <1>2, <1>3, <1>4, <1>5 DEF EndOK
    <2>4. QED
      BY <2>1, <2>2, <2>3 DEF RemoverOK
  <1>7. AttachedOK'
    BY <1>2, <1>3, <1>4, <1>5 DEF AttachedOK, Serving
  <1>8. ASSUME NEW c \in Callers
        PROVE  ~Claiming(c)
    <2>1. c \in Actors /\ c # Run /\ Claiming(Run)
      BY <1>1, RunAssumption DEF Actors, Claiming
    <2>2. ~Overtaken(c) /\ ~Overtaken(Run)
      BY <1>1, RunAssumption DEF Overtaken
    <2>3. QED
      BY <1>1, <2>1, <2>2, ClaimsExclude
  <1>9. QED
    BY <1>1, <1>2, <1>3, <1>6, <1>7, <1>8, ShutdownClosesFine

LEMMA ShutdownUnprovenFine ==
  ASSUME Control, Fine, ShutdownUnproven
  PROVE  Fine'
  <1> USE DEF memory, durable
  <1>1. /\ Run \in Actors /\ act \in [Actors -> Acts] /\ RunOK /\ ShutdownOK /\ CleanDisk
        /\ act[Run].job = "shutdown" /\ act[Run].pc \in {"refuse", "failed"} /\ EndOK(Run) /\ mu # Run
        /\ run = "stopping" /\ entry # "none" /\ server # "listening" /\ AttachedOK
    BY DEF Actors, Control, Typed, Fine, RunOK, ShutdownUnproven, RemoverOK, Remover, EndOK, ShutdownOK
  <1>2. /\ Others(Run) /\ CloseSocket /\ Return(Run) /\ mu' = mu
        /\ UNCHANGED <<record, loc, link, anchor, foreign, refused, run, phase, entry>>
    BY <1>1, CoordinatorActs DEF ShutdownUnproven, Shutdown
  <1>3. act'[Run] = Idle
    BY <1>1, <1>2, ReturnShape
  <1>4. BuilderOK(Run)' /\ RemoverOK(Run)'
    BY <1>3, IdleIsTyped DEF BuilderOK, Builder, RemoverOK, Remover
  \* The directory has been moved away and its socket is closed already.
  <1>5. CASE act[Run].pc = "failed"
    <2>1. ShutDisk
      BY <1>1, <1>5 DEF EndOK
    <2>2. StillDisk
      BY <1>2, <2>1 DEF StillDisk, ShutDisk, CloseSocket
    <2>3. AttachedOK' /\ LeftOK'
      BY <1>1, <1>2, <1>3, <2>1, <2>2, IdleIsTyped
      DEF AttachedOK, Serving, LeftOK, Vacated, ShutDisk, StillDisk
    <2>4. QED
      BY <1>1, <1>2, <1>4, <2>2, <2>3, GoroutineFine
  \* A release has taken the entry over.
  <1>6. CASE act[Run].pc = "refuse"
    <2>1. entry = "releasing" /\ record = "releasing"
      BY <1>1, <1>6 DEF EndOK, Fine, ReleasingOK
    <2>2. AttachedOK'
      BY <1>2, <2>1 DEF AttachedOK, Attached
    <2>3. ASSUME NEW c \in Callers, Claiming(c)
          PROVE  act[c].pc = "send"
      <3>1. act[c].job = "release" /\ Finishing(c)
        BY <1>1, <2>1, <2>3, ClaimOfCall DEF ShutdownOK
      <3>2. ~Past(c) /\ act[c].pc # "unproven"
        BY <1>1, <2>3, <3>1 DEF ShutdownOK, Claiming, Approach, Taking
      <3>3. QED
        BY <3>1, <3>2 DEF Finishing
    <2>4. QED
      BY <1>1, <1>2, <1>4, <2>1, <2>2, <2>3, ShutdownClosesFine
  <1>7. QED
    BY <1>1, <1>5, <1>6

-----------------------------------------------------------------------------
(* The remaining steps, and the whole.                                     *)

LEMMA ProcessEndsFine ==
  ASSUME Fine, ProcessEnds, Clean'
  PROVE  Fine'
  <1> USE DEF durable
  <1>1. /\ StillDisk /\ run' = "down" /\ mu' = "free" /\ entry' = "none" /\ \A a \in Actors : act'[a] = Idle
        /\ CleanDisk /\ Run \in Actors /\ \A c \in Callers : c \in Actors
    BY DEF ProcessEnds, StillDisk, disk, Fine, Actors
  <1>2. ~Unrecoverable
    BY DEF ProcessEnds, Clean
  <1>3. CleanDisk' /\ ~Unrecoverable'
    BY <1>1, <1>2, StillClean
  <1>4. \A a \in Actors : BuilderOK(a)' /\ RemoverOK(a)'
    BY <1>1, IdleIsTyped DEF BuilderOK, Builder, RemoverOK, Remover
  <1>5. AttachedOK' /\ LeftOK' /\ ReleasingOK' /\ RestartOK' /\ OneSweep'
    BY <1>1, <1>3, IdleIsTyped DEF AttachedOK, Attached, LeftOK, Vacated, ReleasingOK, RestartOK, OneSweep
  <1>6. QED
    BY <1>3, <1>4, <1>5 DEF Fine

\* A cause that was recorded stays recorded.
LEMMA CauseGrows ==
  ASSUME [Next]_vars
  PROVE  Clean' => Clean
  <1> SUFFICES cause \subseteq cause'
    BY DEF Clean
  <1>1. ASSUME NEW a \in Actors, Removal(a)
        PROVE  cause \subseteq cause'
    BY <1>1
    DEF Removal, Open, PublishReleaseIntent, InspectMove, Move, StageMoved, InspectSocket,
        SockIsolate, SockRetire, InspectLink, LinkIsolate, LinkRetire, StageDir,
        InspectDirectory, DirIsolate, DirRetire
  <1>2. ASSUME NEW a \in Actors, Creation(a)
        PROVE  cause \subseteq cause'
    BY <1>2
    DEF Creation, Begin, PublishIntent, MakeDirectory, BindDirectory, LinkGeneration,
        PublishCreating, Listen, SecureSocket, PublishListening, InspectStaged, PublishDirectory,
        PublishActive
  <1>3. ASSUME NEW a \in Actors, DirectoryStep(a) \/ Relocate(a) \/ Failing(a)
        PROVE  cause \subseteq cause'
    BY <1>1, <1>2, <1>3 DEF DirectoryStep, Relocate, Failing, IOError, UnprovenError
  <1>4. CASE RunStep \/ Stop \/ CleanupAdvances
    <2>1. CASE Recovery
      BY <2>1
      DEF Recovery, Boot, UpgradeRelayIdentity, BeginRecovery, RecoveryRemoved, RecoveryRestored,
          RecoveryRefused, RecoveryFailed
    <2>2. CASE Shutdown \/ ServerResult \/ Stop \/ CleanupAdvances
      BY <2>2
      DEF Shutdown, ShutdownLock, ShutdownPinned, ShutdownUnproven, ShutdownStaged, Stopped,
          ServerResult, Stop, CleanupAdvances
    <2>3. QED
      BY <1>3, <1>4, <2>1, <2>2 DEF RunStep, Actors
  <1>5. CASE Exit \/ Crash \/ Interference
    <2>1. CASE Exit \/ Crash
      <3>1. PICK window : window = IF Unrecoverable THEN {"window"} ELSE {}
        OBVIOUS
      <3>2. cause' = cause \cup window
        BY <2>1, <3>1 DEF Exit, Crash, ProcessEnds
      <3>3. QED
        BY <3>2
    <2>2. CASE Interference
      BY <2>2 DEF Interference, ReplaceDirectory, ReplaceSocket, ReplaceLink, DamageRecord,
                  LoseGeneration, Plant
    <2>3. QED
      BY <1>5, <2>1, <2>2
  <1>6. ASSUME NEW c \in Callers, CallerStep(c) \/ PrepareCall(c) \/ ReleaseCall(c)
        PROVE  cause \subseteq cause'
    <2>1. CASE \/ PrepareCall(c) \/ PrepareLock(c) \/ PrepareListening(c) \/ Register(c)
               \/ Registered(c) \/ PrepareJoin(c) \/ CommitPreparedTask(c) \/ PrepareFailed(c)
               \/ UnregisterClose(c) \/ UnregisterEnd(c)
      BY <2>1
      DEF PrepareCall, PrepareLock, PrepareListening, Register, Registered, PrepareJoin,
          CommitPreparedTask, PrepareFailed, UnregisterClose, UnregisterEnd
    <2>2. CASE \/ ReleaseCall(c) \/ ReleaseLock(c) \/ ReleaseJoin(c) \/ ReleasePinned(c)
               \/ ReleaseSend(c) \/ ReleaseClose(c) \/ ReleaseUnproven(c) \/ ReleaseEnd(c)
               \/ SweepEnd(c) \/ AuthorizeRemoval(c)
      BY <2>2
      DEF ReleaseCall, ReleaseLock, ReleaseJoin, ReleasePinned, ReleaseSend, ReleaseClose,
          ReleaseUnproven, ReleaseEnd, SweepEnd, AuthorizeRemoval
    <2>3. QED
      BY <1>3, <1>6, <2>1, <2>2 DEF CallerStep, Actors
  <1>7. CASE UNCHANGED vars
    BY <1>7 DEF vars
  <1>8. QED
    BY <1>3, <1>4, <1>5, <1>6, <1>7 DEF Next, Failing

LEMMA NextFine ==
  ASSUME Control, Disk, Served, PendingOK, Clean => Fine, [Next]_vars
  PROVE  Clean' => Fine'
  <1> SUFFICES ASSUME Clean' PROVE Fine'
    OBVIOUS
  <1>1. Clean /\ Fine
    BY CauseGrows
  <1>2. ASSUME NEW a \in Actors,
               DirectoryStep(a) \/ Relocate(a) \/ Failing(a)
        PROVE  Fine'
    BY <1>1, <1>2, DirectoryFine
  <1>3. CASE RunStep
    BY <1>1, <1>2, <1>3, RecoveryFine, QuietRunFine, ShutdownLockFine, ShutdownPinnedFine,
       ShutdownUnprovenFine DEF RunStep, Shutdown, Actors
  <1>4. CASE Stop \/ CleanupAdvances
    BY <1>1, <1>4, StopFine, QuietRunFine
  <1>5. CASE Exit \/ Crash
    BY <1>1, <1>5, ProcessEndsFine DEF Exit, Crash
  <1>6. CASE Interference
    BY <1>6 DEF Interference, ReplaceDirectory, ReplaceSocket, ReplaceLink, DamageRecord,
                LoseGeneration, Plant, Clean
  <1>7. ASSUME NEW c \in Callers, CallerStep(c) \/ PrepareCall(c) \/ ReleaseCall(c)
        PROVE  Fine'
    BY <1>1, <1>2, <1>7, CallerFine DEF CallerStep, Actors
  <1>8. CASE UNCHANGED vars
    <2>1. /\ StillDisk /\ act' = act
          /\ UNCHANGED <<mu, entry, server, phase, run>>
      BY <1>8 DEF vars, disk, memory, durable, StillDisk
    <2>2. Run \in Actors /\ \A c \in Callers : c \in Actors /\ act'[c] = act[c]
      BY <2>1 DEF Actors
    <2>3. Others(Run)
      BY <2>1 DEF Others
    <2>4. \A a \in Actors : BuilderOK(a)' /\ RemoverOK(a)'
      BY <1>1, <2>1, StillActor
    <2>5. QED
      BY <1>1, <2>1, <2>4, StillClean
      DEF Fine, AttachedOK, Attached, Serving, Shut, LeftOK, Vacated, ReleasingOK, RestartOK,
          OneSweep, StillDisk
  <1>9. QED
    BY <1>2, <1>3, <1>4, <1>5, <1>6, <1>7, <1>8 DEF Next, Failing

LEMMA InitFine == Init => PendingOK /\ (Clean => Fine)
  <1> SUFFICES ASSUME Init, Clean PROVE Fine
    BY DEF Init, PendingOK
  <1>1. /\ foreign = {} /\ record = "none" /\ loc = "none" /\ link = "none" /\ sock = "none" /\ anchor /\ ~refused
        /\ run = "down" /\ entry = "none" /\ \A a \in Actors : act[a] = Idle
    BY DEF Init, LegacyInit, Clean
  <1>2. CleanDisk /\ ~Unrecoverable
    BY <1>1 DEF CleanDisk, Gone, Unrecoverable
  <1>3. \A a \in Actors : BuilderOK(a) /\ RemoverOK(a)
    BY <1>1, IdleIsTyped DEF BuilderOK, Builder, RemoverOK, Remover
  <1>4. AttachedOK /\ LeftOK /\ ReleasingOK /\ RestartOK /\ OneSweep
    BY <1>1, <1>2, IdleIsTyped
    DEF AttachedOK, Attached, LeftOK, Vacated, ReleasingOK, RestartOK, OneSweep, Actors
  <1>5. QED
    BY <1>2, <1>3, <1>4 DEF Fine

(* A task's filesystem ownership is refused for good (RecoveryRefused,     *)
(* ReleaseUnproven, SweepEnd) only if somebody interfered, the task        *)
(* predates relay identities, a process ended in a window recovery does    *)
(* not know, a new preparation forgot an older directory, two sweeps met,  *)
(* a release met the shutdown that closed its socket, or a call failed     *)
(* after a rename or within the pinning of a live server (UnprovenError).  *)
(* Other I/O errors, and crashes outside those windows, never do it.       *)
THEOREM RefusalExplained == Spec => []RefusalIsExplained
  <1> DEFINE IInv == Control /\ Disk /\ Served /\ PendingOK /\ (Clean => Fine)
  <1>1. Init => IInv
    BY InitControl, InitDisk, InitServed, InitFine
  <1>2. IInv /\ [Next]_vars => IInv'
    BY NextControl, NextDisk, NextServed, NextPending, NextFine
  <1>3. IInv => RefusalIsExplained
    BY DEF Fine, CleanDisk, Clean, RefusalIsExplained
  <1> HIDE DEF IInv
  <1>4. QED
    BY <1>1, <1>2, <1>3, PTL DEF Spec

-----------------------------------------------------------------------------
(***************************************************************************)
(* The service process.  The argument is one idea: whatever may write, and *)
(* whatever may touch a socket file, happens in a stage of a process that   *)
(* holds the writer lock.  The one exception, a commit that outlives the    *)
(* lock, keeps its successor from writing until it has landed.  Neither     *)
(* property says so itself; LifecycleInv ties every piece of a process's    *)
(* volatile state to the stages in which it may exist.                      *)
(***************************************************************************)

Listeners == {"operator", "mcp"}
\* The stages in which a process owns the data directory.
LockStages == {"open", "relay", "reconcile", "validation", "operator", "mcp", "composed",
            "serving", "stopping", "closing", "closed"}
MainStages == LockStages \cup {"released", "off"}
\* The stages after StartComponents.
Started == {"serving", "stopping", "closing", "closed", "released"}

LifecycleTypeOK ==
    /\ lock \in Instances \cup {None}
    /\ socket \in [Listeners -> Instances \cup {None, "stale"}]
    /\ pc \in [Instances -> MainStages]
    /\ probed \in [Instances -> Listeners \cup {None}]
    /\ running \in [Instances -> SUBSET Components]
    /\ restored \in [Instances -> BOOLEAN]
    /\ connected \in [Instances -> BOOLEAN]
    /\ readiness \in [Instances -> {"none", "waiting", "reconciling", "committing", "done"}]
    /\ wrote \subseteq Instances
    /\ announced \in [Instances -> BOOLEAN]
    /\ connections \subseteq [client: Clients, instance: Instances,
                              stage: {"handling", "committed"}]

LockIsHeld == \A i \in Instances : lock = i <=> pc[i] \in LockStages

\* What a process has in memory, by the stage it is in.
MemoryOK(i) ==
    /\ running[i] # {} => pc[i] \in {"serving", "stopping"}
    /\ readiness[i] # "none" => pc[i] \in Started
    /\ i \in wrote => pc[i] # "off"
    /\ announced[i] => pc[i] \in Started
    /\ announced[i] \/ readiness[i] \in {"reconciling", "committing", "done"} => restored[i]

(* While a commit is out nobody else has one out, and whoever has taken the  *)
(* directory over since has written nothing.                                *)
Fenced(i) ==
    readiness[i] = "committing" =>
       \A j \in Instances \ {i} :
          readiness[j] # "committing" /\ (pc[j] \in LockStages => j \notin wrote)

\* A connection lives no longer than the component that serves it.
ConnectionsServed == \A k \in connections : "endpoints" \in running[k.instance]

\* The endpoints a process has claimed so far are its own.
SocketsOK(i) ==
    /\ pc[i] \in {"mcp", "composed", "serving"} => socket["operator"] = i
    /\ pc[i] \in {"composed", "serving"} => socket["mcp"] = i

LifecycleInv ==
    /\ LifecycleTypeOK
    /\ LockIsHeld
    /\ \A i \in Instances : MemoryOK(i) /\ Fenced(i) /\ SocketsOK(i)
    /\ ConnectionsServed

LEMMA StartupList ==
    /\ Len(Startup) = 4 /\ Startup[1] = "open" /\ Startup[2] = "relay"
    /\ Startup[3] = "reconcile" /\ Startup[4] = "validation"
    /\ StartupStages = {"open", "relay", "reconcile", "validation"}
  <1>1. /\ Len(Startup) = 4 /\ Startup[1] = "open" /\ Startup[2] = "relay"
        /\ Startup[3] = "reconcile" /\ Startup[4] = "validation"
    BY DEF Startup
  <1>2. 1..4 = {1, 2, 3, 4}
    OBVIOUS
  <1>3. QED
    BY <1>1, <1>2 DEF StartupStages

LEMMA EndpointList ==
    /\ Len(Endpoints) = 2 /\ Endpoints[1] = "operator" /\ Endpoints[2] = "mcp"
    /\ \A i : Listening(i) <=> pc[i] \in Listeners
  <1>1. Len(Endpoints) = 2 /\ Endpoints[1] = "operator" /\ Endpoints[2] = "mcp"
    BY DEF Endpoints
  <1>2. 1..2 = {1, 2}
    OBVIOUS
  <1>3. QED
    BY <1>1, <1>2 DEF Listening, Listeners

\* A step of the start goes on to the next one, and then to the sockets.
LEMMA StartupStepGoes ==
  ASSUME NEW i \in Instances, StartupStep(i)
  PROVE  /\ pc[i] \in StartupStages
         /\ \E s \in StartupStages \cup {"operator"} : Go(i, s)
         /\ UNCHANGED <<lock, socket, probed, running, restored, connected, readiness, announced,
                        connections>>
         /\ (StoreFree /\ wrote' = wrote \cup {i}) \/ UNCHANGED wrote
  <1>1. PICK n \in 1..Len(Startup) :
          pc[i] = Startup[n] /\ Go(i, IF n < Len(Startup) THEN Startup[n + 1] ELSE Endpoints[1])
    BY DEF StartupStep
  <1>2. n \in {1, 2, 3, 4}
    BY StartupList
  <1>3. pc[i] \in StartupStages
    BY <1>1, <1>2, StartupList
  <1>4. \E s \in StartupStages \cup {"operator"} : Go(i, s)
    <2>1. CASE n = 4
      BY <1>1, <2>1, StartupList, EndpointList
    <2>2. CASE n \in {1, 2, 3}
      BY <1>1, <2>2, StartupList
    <2>3. QED
      BY <1>2, <2>1, <2>2
  <1>5. QED
    BY <1>3, <1>4 DEF StartupStep

LEMMA InitInv == ServiceInit => LifecycleInv
  BY LifecycleBounds
  DEF ServiceInit, LifecycleInv, LifecycleTypeOK, LockIsHeld, MemoryOK, Fenced, SocketsOK,
      ConnectionsServed, MainStages, LockStages, Started, Listeners

\* One action at a time: each changes one process, one connection or one
\* socket, and the lock tells that process from all others.
LEMMA NextInv ==
  ASSUME LifecycleInv, [ServiceNext]_serviceVars
  PROVE  LifecycleInv'
  <1> USE DEF LifecycleInv, LifecycleTypeOK, LockIsHeld, MemoryOK, Fenced, SocketsOK, ConnectionsServed,
              MainStages, LockStages, Started, Listeners, Go
  <1>1. ASSUME NEW i \in Instances, AcquireWriterAuthority(i)
        PROVE  LifecycleInv'
    BY <1>1, StartupList, LifecycleBounds DEF AcquireWriterAuthority
  <1>2. ASSUME NEW i \in Instances, StartupStep(i)
        PROVE  LifecycleInv'
    BY <1>2, StartupList, StartupStepGoes DEF StoreFree
  <1>3. ASSUME NEW i \in Instances, PrepareSocketPath(i)
        PROVE  LifecycleInv'
    BY <1>3, EndpointList, LifecycleBounds DEF PrepareSocketPath
  <1>4. ASSUME NEW i \in Instances, RemoveStaleSocket(i)
        PROVE  LifecycleInv'
    BY <1>4, EndpointList, LifecycleBounds DEF RemoveStaleSocket
  <1>5. ASSUME NEW i \in Instances, ListenEndpoint(i)
        PROVE  LifecycleInv'
    BY <1>5, EndpointList, LifecycleBounds DEF ListenEndpoint
  <1>6. ASSUME NEW i \in Instances, StartComponents(i)
        PROVE  LifecycleInv'
    BY <1>6, LifecycleBounds DEF StartComponents
  <1>7. ASSUME NEW i \in Instances, RecoverRuntimeAttachments(i)
        PROVE  LifecycleInv'
    BY <1>7, LifecycleBounds DEF RecoverRuntimeAttachments, Alive
  <1>8. ASSUME NEW i \in Instances, RunAfterRuntimeAttachmentRecovery(i)
        PROVE  LifecycleInv'
    BY <1>8, LifecycleBounds DEF RunAfterRuntimeAttachmentRecovery, Alive
  <1>9. ASSUME NEW i \in Instances, Ready(i)
        PROVE  LifecycleInv'
    BY <1>9, LifecycleBounds DEF Ready
  <1>10. ASSUME NEW i \in Instances, ComponentsJoined(i)
        PROVE  LifecycleInv'
    BY <1>10, LifecycleBounds DEF ComponentsJoined
  <1>11. ASSUME NEW i \in Instances, CloseStore(i)
        PROVE  LifecycleInv'
    BY <1>11, LifecycleBounds DEF CloseStore
  <1>12. ASSUME NEW i \in Instances, ReleaseWriterLock(i)
        PROVE  LifecycleInv'
    BY <1>12, LifecycleBounds DEF ReleaseWriterLock
  <1>13. ASSUME NEW i \in Instances, ProcessExits(i)
        PROVE  LifecycleInv'
    BY <1>13, LifecycleBounds DEF ProcessExits, Forget, ServedBy
  <1>14. ASSUME NEW i \in Instances, ReadInitiativeHostRollup(i)
        PROVE  LifecycleInv'
    BY <1>14, LifecycleBounds DEF ReadInitiativeHostRollup
  <1>15. ASSUME NEW i \in Instances, CommitInitiativeHostRecovery(i)
        PROVE  LifecycleInv'
    BY <1>15, LifecycleBounds DEF CommitInitiativeHostRecovery, StoreFree
  <1>16. ASSUME NEW i \in Instances, ReadinessEnds(i)
        PROVE  LifecycleInv'
    BY <1>16, LifecycleBounds DEF ReadinessEnds
  <1>17. ASSUME NEW i \in Instances, CommitLands(i)
        PROVE  LifecycleInv'
    BY <1>17, LifecycleBounds DEF CommitLands
  <1>18. ASSUME NEW i \in Instances, InitiativeStaysUnknown(i)
        PROVE  LifecycleInv'
    BY <1>18, LifecycleBounds DEF InitiativeStaysUnknown
  <1>19. ASSUME NEW i \in Instances, StartupFails(i)
        PROVE  LifecycleInv'
    BY <1>19, StartupList, LifecycleBounds DEF StartupFails, Unlinked
  <1>20. ASSUME NEW i \in Instances, StopService(i)
        PROVE  LifecycleInv'
    BY <1>20, LifecycleBounds DEF StopService, Unlinked
  <1>21. ASSUME NEW i \in Instances, ProcessKilled(i)
        PROVE  LifecycleInv'
    BY <1>21, LifecycleBounds DEF ProcessKilled, Forget, ServedBy
  <1>22. ASSUME NEW i \in Instances, NEW component \in Components, ComponentEnds(i, component)
        PROVE  LifecycleInv'
    BY <1>22 DEF ComponentEnds, ServedBy
  <1>23. ASSUME NEW c \in Clients, Exchange(c)
        PROVE  LifecycleInv'
    BY <1>23 DEF Exchange, Alive, process
  <1>24. ASSUME NEW k \in connections, ServeStep(k)
        PROVE  LifecycleInv'
    BY <1>24 DEF ServeStep, Dispatch, WriteOutcome, OutcomeLost, StoreFree, process
  <1>25. CASE UNCHANGED serviceVars
    BY <1>25 DEF serviceVars, process
  <1>26. QED
    BY <1>1, <1>2, <1>3, <1>4, <1>5, <1>6, <1>7, <1>8, <1>9, <1>10, <1>11, <1>12, <1>13,
       <1>14, <1>15, <1>16, <1>17, <1>18, <1>19, <1>20, <1>21, <1>22, <1>23, <1>24, <1>25
    DEF ServiceNext, Step, ReadinessStep

(* LifecycleInductive: through every start, crash and stop, a process may      *)
(* have components or connections only in a stage in which it holds the      *)
(* writer lock; a readiness commit may outlive the lock, but then whoever    *)
(* took the directory over has written nothing yet; and the endpoints a      *)
(* process claimed stay its own (Run, CommitInitiativeHostRecovery,          *)
(* prepareSocketPath, acquireWriterAuthority).                               *)
THEOREM LifecycleInductive == ServiceSpec => []LifecycleInv
  <1>1. QED
    BY InitInv, NextInv, PTL DEF ServiceSpec

\* Whoever may write holds the lock, or is the commit that outlived it.
LEMMA WriterHoldsTheLock ==
  ASSUME LifecycleInv, NEW i \in Instances, MayWrite(i)
  PROVE  (lock = i /\ pc[i] \in LockStages) \/ LateCommit(i)
  BY StartupList
  DEF MayWrite, LateCommit, ServedBy, LifecycleInv, LifecycleTypeOK, LockIsHeld, MemoryOK,
      ConnectionsServed, MainStages, LockStages, Started

(* SingleWriter: no two processes are ever in a position to write the store,  *)
(* except for a commit of the unjoined readiness goroutine, and then its     *)
(* successor has written nothing (the claim of the writer authority, the     *)
(* joins before its release, the context of CommitInitiativeHostRecovery).   *)
THEOREM SingleWriter == ServiceSpec => []OneWriter
  <1>1. ASSUME LifecycleInv, NEW i \in Instances, NEW j \in Instances, i # j, MayWrite(i), MayWrite(j)
        PROVE  (LateCommit(i) /\ j \notin wrote) \/ (LateCommit(j) /\ i \notin wrote)
    <2>1. ASSUME NEW k \in Instances, NEW l \in Instances, k # l, LateCommit(k), MayWrite(l)
          PROVE  l \notin wrote
      <3>1. ~LateCommit(l)
        BY <1>1, <2>1 DEF LateCommit, LifecycleInv, Fenced
      <3>2. pc[l] \in LockStages
        BY <1>1, <2>1, <3>1, WriterHoldsTheLock
      <3>3. QED
        BY <1>1, <2>1, <3>2 DEF LateCommit, LifecycleInv, Fenced
    <2>2. LateCommit(i) \/ LateCommit(j)
      BY <1>1, WriterHoldsTheLock
    <2>3. QED
      BY <1>1, <2>1, <2>2
  <1>2. LifecycleInv => OneWriter
    BY <1>1 DEF OneWriter
  <1>3. QED
    BY <1>2, LifecycleInductive, PTL

\* A process that announced itself and serves is the one its sockets lead to,
\* and has recovered (prepareSocketPath, removeOwnedSocket, runReadinessSteps).
THEOREM AnnouncedIsReachable == ServiceSpec => []ReadyIsReachable
  <1>1. LifecycleInv => ReadyIsReachable
    BY DEF ReadyIsReachable, LifecycleInv, LifecycleTypeOK, LockIsHeld, MemoryOK, SocketsOK,
           MainStages, LockStages, Listeners
  <1>2. QED
    BY <1>1, LifecycleInductive, PTL
=============================================================================
