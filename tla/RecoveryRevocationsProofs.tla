--------------------- MODULE RecoveryRevocationsProofs ---------------------
(* Theorems about RecoveryRevocations, for any events, accounts, processes and
   lanes, any limits on the attempts and any number of crashes. *)
EXTENDS RecoveryRevocations, FiniteSetTheorems, TLAPS

-----------------------------------------------------------------------------
(* The queue: what a lane knows of the event it works on. *)

\* The checks of the table on one row.
RowOK(r) ==
    /\ r \in Row
    /\ r.status = "processing" <=> r.owner # None /\ r.lease # "none"
    /\ r.status = "processing" => r.attempts > 0

LaneState == [pc : {"free", "claimed", "begun", "locked", "revoking", "failing"},
              event : Event \cup {None}, attempt : Nat, found : SUBSET Nat]
WorkerState == [pc : {"opening", "claiming", "draining", "closing", "dead"},
                claimed : 0..BatchSize, paging : SUBSET Event]

\* A lane works on a stored event; while its transaction holds the row, the lease is the
\* one of its claim.
LaneKnows(p, l) ==
    /\ lane[p][l].pc # "free" => lane[p][l].event \in Stored
    /\ lane[p][l].pc \in {"locked", "revoking"} =>
         Fenced(lane[p][l].event, p, lane[p][l].attempt)

\* One transaction at a time holds a row.
OneLocker ==
    \A e \in Event, p, q \in Process, k, l \in Lane :
        LockedBy(e, p, k) /\ LockedBy(e, q, l) => p = q /\ k = l

Typed ==
    /\ scenario \in Scenarios /\ accepted \subseteq Event \X Digest /\ asked \in [Event -> Nat]
    /\ version \in [Account -> Nat] /\ live \in [Account -> SUBSET Nat]
    /\ issuing \in [Account -> Nat \cup {None}] /\ crashes \in 0..scenario.crashes
    /\ worker \in [Process -> WorkerState]
    /\ lane \in [Process -> [Lane -> LaneState]]
    /\ event \in [Event -> Row \cup {None}]
    /\ \A e \in Stored : RowOK(event[e])

QueueInv ==
    /\ Typed
    /\ \A p \in Process : worker[p].paging \subseteq Stored
    /\ \A p \in Process, l \in Lane : LaneKnows(p, l)
    /\ OneLocker

LEMMA QueueTypes == ASSUME QueueInv PROVE TypeOK
BY DEF QueueInv, Typed, TypeOK, RowOK, WorkerState, LaneState

-----------------------------------------------------------------------------
(* The rows. *)

\* What the statements write is a row that passes the checks.
LEMMA RowsWritten ==
    ASSUME RecoveryAssumption, QueueInv, NEW e \in Stored
    PROVE  /\ event[e] \in Row /\ event[e] # None /\ RowOK(event[e])
           /\ \A s \in Status \ {"processing"} :
                RowOK(Released(e, s)) /\ Released(e, s).status = s
           /\ \A p \in Process :
                /\ RowOK(Claimed(e, p)) /\ Claimed(e, p).status = "processing"
                /\ Claimed(e, p).attempts \in Nat
           /\ \A s \in Status \ {"processing"} :
                /\ RowOK([Released(e, s) EXCEPT !.due = "later"])
                /\ [Released(e, s) EXCEPT !.due = "later"].status = s
<1>1. event[e] \in Row /\ RowOK(event[e]) /\ e \in Event
  BY DEF QueueInv, Typed, Stored, RowOK
<1>2. event[e] # None /\ None \notin Process
  BY DEF Stored, RecoveryAssumption
<1>3. ASSUME NEW s \in Status \ {"processing"}
      PROVE  /\ RowOK(Released(e, s)) /\ Released(e, s).status = s
             /\ RowOK([Released(e, s) EXCEPT !.due = "later"])
             /\ [Released(e, s) EXCEPT !.due = "later"].status = s
  BY <1>1 DEF Released, RowOK, Row
<1>4. ASSUME NEW p \in Process
      PROVE  /\ RowOK(Claimed(e, p)) /\ Claimed(e, p).status = "processing"
             /\ Claimed(e, p).attempts \in Nat
  <2>. DEFINE n == event[e].attempts + 1
  <2>1. n \in Nat /\ n > 0 /\ "processing" \in Status
    BY <1>1 DEF Row, Status, Open
  <2>2. Claimed(e, p) = [event[e] EXCEPT !.status = "processing", !.attempts = n,
                                         !.owner = p, !.lease = "held"]
    BY DEF Claimed
  <2>. HIDE DEF n
  <2>3. /\ Claimed(e, p) \in Row
        /\ Claimed(e, p).status = "processing" /\ Claimed(e, p).attempts = n
        /\ Claimed(e, p).owner = p /\ Claimed(e, p).lease = "held"
    BY <1>1, <2>1, <2>2 DEF Row
  <2>. QED  BY <1>2, <2>1, <2>3 DEF RowOK
<1>. QED  BY <1>1, <1>2, <1>3, <1>4

\* The clock and the alert change neither the claim of a row nor its place in the queue.
SameClaim(r, s) ==
    r.status = s.status /\ r.owner = s.owner /\ r.attempts = s.attempts

LEMMA RowsTick ==
    ASSUME NEW r, RowOK(r)
    PROVE  /\ RowOK([r EXCEPT !.alerted = "yes"]) /\ SameClaim([r EXCEPT !.alerted = "yes"], r)
           /\ RowOK([r EXCEPT !.due = "now"]) /\ SameClaim([r EXCEPT !.due = "now"], r)
           /\ r.lease = "held" => /\ RowOK([r EXCEPT !.lease = "over"])
                                  /\ SameClaim([r EXCEPT !.lease = "over"], r)
           /\ \A age \in {"young", "overdue", "over"} :
                RowOK([r EXCEPT !.age = age]) /\ SameClaim([r EXCEPT !.age = age], r)
BY DEF RowOK, Row, SameClaim

\* The rows written one by one make up the table.
LEMMA TableTyped ==
    ASSUME RecoveryAssumption, QueueInv, NEW f, event' = [e \in Event |-> f[e]],
           \A e \in Event : f[e] = event[e] \/ RowOK(f[e])
    PROVE  /\ event' \in [Event -> Row \cup {None}]
           /\ \A e \in Stored' : RowOK(event'[e])
           /\ Stored \subseteq Stored'
<1>1. \A e \in Event : event[e] \in Row \cup {None}
  BY DEF QueueInv, Typed
<1>2. \A e \in Event : RowOK(f[e]) => f[e] \in Row /\ f[e] # None
  BY DEF RowOK, RecoveryAssumption
<1>3. \A e \in Event : event[e] # None => RowOK(event[e])
  BY DEF QueueInv, Typed, Stored
<1>. QED  BY <1>1, <1>2, <1>3 DEF Stored

-----------------------------------------------------------------------------
(* The lanes. *)

\* The lane of a step moves; what the other lanes hold stays as they know it.
LEMMA LanesMove ==
    ASSUME QueueInv, NEW p \in Process, NEW l \in Lane, NEW rec \in LaneState,
           lane' = [lane EXCEPT ![p][l] = rec],
           Stored \subseteq Stored',
           rec.pc # "free" => rec.event \in Stored',
           rec.pc \in {"locked", "revoking"} =>
             /\ Fenced(rec.event, p, rec.attempt)'
             /\ LockedBy(rec.event, p, l) \/ ~EventLocked(rec.event),
           \A q \in Process, k \in Lane : \A e \in Event :
             (q # p \/ k # l) /\ LockedBy(e, q, k) => SameClaim(event'[e], event[e])
    PROVE  /\ lane' \in [Process -> [Lane -> LaneState]]
           /\ \A q \in Process, k \in Lane : LaneKnows(q, k)'
           /\ OneLocker'
<1>1. lane \in [Process -> [Lane -> LaneState]]
  BY DEF QueueInv, Typed
<1>2. /\ lane' \in [Process -> [Lane -> LaneState]]
      /\ lane'[p][l] = rec
      /\ \A q \in Process, k \in Lane : q # p \/ k # l => lane'[q][k] = lane[q][k]
  BY <1>1
<1>3. ASSUME NEW q \in Process, NEW k \in Lane PROVE LaneKnows(q, k)'
  <2>1. CASE q = p /\ k = l
    BY <2>1, <1>2 DEF LaneKnows
  <2>2. CASE q # p \/ k # l
    <3>1. lane'[q][k] = lane[q][k] /\ LaneKnows(q, k)
      BY <2>2, <1>2 DEF QueueInv
    <3>2. lane[q][k].pc \in {"locked", "revoking"} => lane[q][k].event \in Event
      BY <3>1 DEF LaneKnows, Stored
    <3>3. lane[q][k].pc \in {"locked", "revoking"} =>
            SameClaim(event'[lane[q][k].event], event[lane[q][k].event])
      BY <2>2, <3>2 DEF LockedBy
    <3>. QED  BY <3>1, <3>3 DEF LaneKnows, Fenced, SameClaim
  <2>. QED  BY <2>1, <2>2
<1>4. OneLocker'
  <2>. SUFFICES ASSUME NEW e \in Event, NEW q \in Process, NEW k \in Lane,
                       NEW r \in Process, NEW m \in Lane,
                       LockedBy(e, q, k)', LockedBy(e, r, m)'
                PROVE  q = r /\ k = m
    BY DEF OneLocker
  <2>1. /\ (q # p \/ k # l) => LockedBy(e, q, k)
        /\ (r # p \/ m # l) => LockedBy(e, r, m)
    BY <1>2 DEF LockedBy
  <2>2. (q = p /\ k = l) \/ (r = p /\ m = l) => LockedBy(e, p, l) \/ ~EventLocked(e)
    BY <1>2 DEF LockedBy
  <2>3. LockedBy(e, q, k) \/ LockedBy(e, r, m) => EventLocked(e)
    BY DEF EventLocked
  <2>. QED  BY <2>1, <2>2, <2>3 DEF QueueInv, OneLocker
<1>. QED  BY <1>2, <1>3, <1>4

\* Steps that move no lane.
LEMMA LanesStay ==
    ASSUME QueueInv, lane' = lane, Stored \subseteq Stored',
           \A e \in Event : EventLocked(e) => SameClaim(event'[e], event[e])
    PROVE  /\ \A q \in Process, k \in Lane : LaneKnows(q, k)'
           /\ OneLocker'
<1>1. ASSUME NEW q \in Process, NEW k \in Lane PROVE LaneKnows(q, k)'
  <2>1. LaneKnows(q, k)
    BY DEF QueueInv
  <2>2. lane[q][k].pc \in {"locked", "revoking"} =>
          SameClaim(event'[lane[q][k].event], event[lane[q][k].event])
    BY <2>1 DEF LaneKnows, Stored, EventLocked, LockedBy
  <2>. QED  BY <2>1, <2>2 DEF LaneKnows, Fenced, SameClaim
<1>2. OneLocker'
  BY DEF QueueInv, OneLocker, LockedBy
<1>. QED  BY <1>1, <1>2

-----------------------------------------------------------------------------
(* Every step preserves the queue's invariant.                              *)

\* Steps of the logins and of a process's loop, which touch no row.
LEMMA RowsStay ==
    ASSUME QueueInv, event' = event, UNCHANGED <<scenario, accepted, asked, crashes, lane>>,
           version' = version, live' \in [Account -> SUBSET Nat],
           issuing' \in [Account -> Nat \cup {None}],
           worker' \in [Process -> WorkerState],
           \A p \in Process : worker'[p].paging \subseteq Stored
    PROVE  QueueInv'
<1>1. Stored' = Stored
  BY DEF Stored
<1>2. Typed'
  BY <1>1 DEF QueueInv, Typed
<1>3. \A e \in Event : SameClaim(event'[e], event[e])
  BY DEF SameClaim
<1>4. (\A q \in Process, k \in Lane : LaneKnows(q, k)') /\ OneLocker'
  BY <1>1, <1>3, LanesStay
<1>. QED  BY <1>1, <1>2, <1>4 DEF QueueInv

\* A lane goes on, or lets its event go, and touches no row.
LEMMA LaneGoes ==
    ASSUME RecoveryAssumption, QueueInv, NEW p \in Process, NEW l \in Lane,
           NEW rec \in LaneState, Goes(p, l, rec), event' = event,
           UNCHANGED <<scenario, queue, sessions, issuing, worker, crashes>>,
           lane[p][l].pc # "free",
           rec.pc # "free" => rec.event = lane[p][l].event,
           rec.pc \in {"locked", "revoking"} =>
             /\ Fenced(rec.event, p, rec.attempt)
             /\ lane[p][l].pc \in {"locked", "revoking"} \/ ~EventLocked(rec.event)
    PROVE  QueueInv'
<1>1. Stored' = Stored
  BY DEF Stored
<1>2. \A e \in Event : SameClaim(event'[e], event[e])
  BY DEF SameClaim
<1>3. lane[p][l].event \in Stored
  BY DEF QueueInv, LaneKnows
<1>4. rec.pc \in {"locked", "revoking"} =>
        /\ Fenced(rec.event, p, rec.attempt)'
        /\ LockedBy(rec.event, p, l) \/ ~EventLocked(rec.event)
  BY DEF Fenced, LockedBy
<1>5. lane' = [lane EXCEPT ![p][l] = rec]
  BY DEF Goes
<1>6. /\ lane' \in [Process -> [Lane -> LaneState]]
      /\ \A q \in Process, k \in Lane : LaneKnows(q, k)'
      /\ OneLocker'
  BY <1>1, <1>2, <1>3, <1>4, <1>5, LanesMove
<1>7. Typed'
  BY <1>1, <1>6 DEF QueueInv, Typed, queue, sessions
<1>. QED  BY <1>1, <1>6, <1>7 DEF QueueInv

\* The states a lane moves to.
LEMMA LaneTyped ==
    ASSUME QueueInv, NEW p \in Process, NEW l \in Lane
    PROVE  /\ lane[p][l] \in LaneState /\ Free \in LaneState /\ Free.pc = "free"
           /\ \A pc \in {"begun", "locked", "revoking", "failing"} :
                LET rec == [lane[p][l] EXCEPT !.pc = pc] IN
                /\ rec \in LaneState /\ rec.pc = pc /\ rec.event = lane[p][l].event
                /\ rec.attempt = lane[p][l].attempt
<1>1. lane[p][l] \in LaneState
  BY DEF QueueInv, Typed
<1>. QED  BY <1>1 DEF LaneState, Free

\* Where a process goes after an alert.
LEMMA OnwardTyped ==
    ASSUME RecoveryAssumption, NEW p
    PROVE  /\ Onward(p) \in WorkerState /\ Onward(p).paging = {}
           /\ Started \in WorkerState /\ Started.paging = {}
           /\ Dead \in WorkerState /\ Dead.paging = {}
<1>1. 0 \in 0..BatchSize
  BY DEF RecoveryAssumption
<1>. QED  BY <1>1 DEF Onward, Started, Dead, WorkerState

LEMMA QueueStep ==
    ASSUME RecoveryAssumption, QueueInv, [Next]_vars
    PROVE  QueueInv'
<1>. USE RecoveryAssumption
<1>a. /\ scenario \in Scenarios /\ accepted \subseteq Event \X Digest
      /\ asked \in [Event -> Nat] /\ version \in [Account -> Nat]
      /\ live \in [Account -> SUBSET Nat] /\ issuing \in [Account -> Nat \cup {None}]
      /\ crashes \in 0..scenario.crashes
      /\ worker \in [Process -> WorkerState]
      /\ lane \in [Process -> [Lane -> LaneState]]
      /\ event \in [Event -> Row \cup {None}]
      /\ \A e \in Stored : RowOK(event[e])
  BY DEF QueueInv, Typed
<1>b. /\ \A p \in Process : worker[p] \in WorkerState /\ worker[p].paging \subseteq Stored
      /\ \A p \in Process, l \in Lane : lane[p][l] \in LaneState /\ LaneKnows(p, l)
  BY <1>a DEF QueueInv
<1>c. /\ \A e \in Event : AccountOf(e) \in Account \cup {None}
      /\ scenario.events \subseteq Event /\ scenario.digests \subseteq Digest
      /\ scenario.crashes \in Nat
  BY <1>a DEF AccountOf, RecoveryAssumption
<1>1. ASSUME NEW e \in scenario.events, NEW d \in scenario.digests, Webhook(e, d) PROVE QueueInv'
  <2>0. e \in Event /\ d \in Digest
    BY <1>c
  <2>1. RowOK(Fresh(d))
    BY <2>0 DEF Fresh, RowOK, Row, Status, Open, RecoveryAssumption
  <2>2. /\ UNCHANGED <<scenario, sessions, issuing, worker, lane, crashes>>
        /\ accepted' = accepted \cup {<<e, d>>}
        /\ \/ event[e] = None /\ event' = [event EXCEPT ![e] = Fresh(d)]
           \/ event' = event
    BY <1>1 DEF Webhook
  <2>3. asked' \in [Event -> Nat]
    <3>1. AccountOf(e) # None => version[AccountOf(e)] \in Nat
      BY <2>0, <1>a, <1>c
    <3>2. asked' = asked \/ asked' = [asked EXCEPT ![e] = IF AccountOf(e) = None THEN 0
                                                       ELSE version[AccountOf(e)]]
      BY <1>1 DEF Webhook
    <3>. QED  BY <3>1, <3>2, <1>a
  <2>4. /\ event' \in [Event -> Row \cup {None}]
        /\ \A f \in Stored' : RowOK(event'[f])
        /\ Stored \subseteq Stored'
    <3>1. CASE event' = event
      BY <3>1, <1>a DEF Stored
    <3>2. CASE event[e] = None /\ event' = [event EXCEPT ![e] = Fresh(d)]
      <4>1. Fresh(d) \in Row
        BY <2>1 DEF RowOK
      <4>2. event' \in [Event -> Row \cup {None}]
        BY <3>2, <4>1, <1>a
      <4>3. \A f \in Event : event'[f] = IF f = e THEN Fresh(d) ELSE event[f]
        BY <3>2, <1>a
      <4>. QED  BY <2>0, <2>1, <3>2, <4>2, <4>3, <1>a DEF Stored
    <3>. QED  BY <2>2, <3>1, <3>2
  <2>5. Typed'
    BY <2>0, <2>2, <2>3, <2>4, <1>a DEF Typed, sessions
  <2>6. ASSUME NEW f \in Event, EventLocked(f) PROVE SameClaim(event'[f], event[f])
    <3>1. f \in Stored
      BY <2>6, <1>b DEF EventLocked, LockedBy, LaneKnows
    <3>. QED  BY <3>1, <2>0, <2>2, <1>a DEF Stored, SameClaim
  <2>7. (\A q \in Process, k \in Lane : LaneKnows(q, k)') /\ OneLocker'
    BY <2>2, <2>4, <2>6, LanesStay
  <2>. QED  BY <2>2, <2>4, <2>5, <2>7, <1>b DEF QueueInv
<1>2. ASSUME NEW a \in Account, BeginLogin(a) \/ Login(a) PROVE QueueInv'
  <2>1. /\ UNCHANGED <<scenario, queue, worker, lane, crashes>> /\ version' = version
        /\ live' \in [Account -> SUBSET Nat]
        /\ issuing' \in [Account -> Nat \cup {None}]
    <3>1. CASE BeginLogin(a)
      BY <3>1, <1>a DEF BeginLogin, sessions
    <3>2. CASE Login(a)
      <4>1. issuing[a] \in Nat
        BY <3>2, <1>a DEF Login
      <4>. QED  BY <3>2, <4>1, <1>a DEF Login
    <3>. QED  BY <1>2, <3>1, <3>2
  <2>. QED  BY <2>1, <1>a, <1>b, RowsStay DEF queue
<1>3. ASSUME NEW p \in Process, AlertRead(p) \/ PageFails(p) \/ Drain(p) \/ Restart(p)
      PROVE  QueueInv'
  <2>1. /\ UNCHANGED <<scenario, queue, sessions, issuing, lane, crashes>>
        /\ \E w \in WorkerState : worker' = [worker EXCEPT ![p] = w] /\ w.paging \subseteq Stored
    <3>1. CASE AlertRead(p)
      <4>. DEFINE found == IF \E q \in Process : worker[q].paging # {} THEN {} ELSE Overdue
                  w == IF found = {} THEN Onward(p) ELSE [worker[p] EXCEPT !.paging = found]
      <4>1. found \subseteq Stored /\ found \subseteq Event
        BY DEF Overdue, Stored
      <4>2. worker' = [worker EXCEPT ![p] =
                         IF found = {} THEN Onward(p) ELSE [@ EXCEPT !.paging = found]]
        BY <3>1 DEF AlertRead
      <4>. HIDE DEF found
      <4>3. w \in WorkerState /\ w.paging \subseteq Stored
        BY <4>1, <1>b, OnwardTyped DEF WorkerState
      <4>4. worker' = [worker EXCEPT ![p] = w]
        BY <4>2, <1>a
      <4>. QED  BY <3>1, <4>3, <4>4 DEF AlertRead
    <3>2. CASE PageFails(p)
      BY <3>2, OnwardTyped DEF PageFails
    <3>3. CASE Drain(p)
      <4>1. [worker[p] EXCEPT !.pc = "closing"] \in WorkerState
        BY <1>b DEF WorkerState
      <4>2. [worker[p] EXCEPT !.pc = "closing"].paging = worker[p].paging
        BY <1>b DEF WorkerState
      <4>. QED  BY <3>3, <4>1, <4>2, <1>b DEF Drain
    <3>4. CASE Restart(p)
      BY <3>4, OnwardTyped DEF Restart
    <3>. QED  BY <1>3, <3>1, <3>2, <3>3, <3>4
  <2>2. worker' \in [Process -> WorkerState] /\ \A q \in Process : worker'[q].paging \subseteq Stored
    BY <2>1, <1>a, <1>b
  <2>. QED  BY <2>1, <2>2, <1>a, RowsStay DEF queue, sessions
<1>4. ASSUME NEW p \in Process, Paged(p) PROVE QueueInv'
  <2>. DEFINE f == [e \in Event |-> IF e \in worker[p].paging
                                   THEN [event[e] EXCEPT !.alerted = "yes"] ELSE event[e]]
  <2>1. /\ UNCHANGED <<scenario, accepted, asked, sessions, issuing, lane, crashes>>
        /\ event' = f /\ worker' = [worker EXCEPT ![p] = Onward(p)]
    BY <1>4 DEF Paged
  <2>2. \A e \in Event : /\ f[e] = event[e] \/ RowOK(f[e])
                         /\ SameClaim(f[e], event[e])
    BY <1>a, <1>b, RowsTick DEF SameClaim
  <2>3. event' = [e \in Event |-> f[e]]
    BY <2>1
  <2>. HIDE DEF f
  <2>4. /\ event' \in [Event -> Row \cup {None}]
        /\ \A e \in Stored' : RowOK(event'[e])
        /\ Stored \subseteq Stored'
    BY <2>2, <2>3, TableTyped
  <2>5. /\ worker' \in [Process -> WorkerState]
        /\ \A q \in Process : worker'[q].paging \subseteq Stored
    BY <2>1, <1>a, <1>b, OnwardTyped
  <2>6. Typed'
    BY <2>1, <2>4, <2>5, <1>a DEF Typed, sessions
  <2>7. (\A q \in Process, k \in Lane : LaneKnows(q, k)') /\ OneLocker'
    BY <2>1, <2>2, <2>4, LanesStay
  <2>. QED  BY <2>4, <2>5, <2>6, <2>7 DEF QueueInv
<1>6. ASSUME NEW p \in Process, NEW l \in Lane,
             Begin(p, l) \/ LockEvent(p, l) \/ Revoke(p, l) \/ Fault(p, l)
      PROVE  QueueInv'
  <2>0. UNCHANGED <<scenario, queue, sessions, issuing, worker, crashes>> /\ event' = event
    BY <1>6 DEF Begin, LockEvent, Revoke, Fault, queue
  <2>1. CASE Begin(p, l)
    BY <2>0, <2>1, LaneTyped, LaneGoes DEF Begin, At, Continues
  <2>2. CASE Fault(p, l)
    BY <2>0, <2>2, LaneTyped, LaneGoes DEF Fault, Continues
  <2>3. CASE LockEvent(p, l)
    <3>1. CASE Goes(p, l, Free)
      BY <2>0, <2>3, <3>1, LaneTyped, LaneGoes DEF LockEvent, At
    <3>2. CASE Continues(p, l, "locked") /\ Fenced(Target(p, l), p, lane[p][l].attempt)
      BY <2>0, <2>3, <3>2, LaneTyped, LaneGoes DEF LockEvent, At, Continues, Target
    <3>. QED  BY <2>3, <3>1, <3>2 DEF LockEvent
  <2>4. CASE Revoke(p, l)
    <3>. DEFINE a == AccountIn(p, l)
                found == IF a = None THEN {} ELSE live[a]
                rec == [lane[p][l] EXCEPT !.pc = "revoking", !.found = found]
    <3>1. lane[p][l].pc = "locked" /\ Goes(p, l, rec)
      BY <2>4 DEF Revoke, At
    <3>2. lane[p][l] \in LaneState /\ LaneKnows(p, l)
      BY <1>b
    <3>3. found \in SUBSET Nat
      <4>1. lane[p][l].event \in Event
        BY <3>1, <3>2 DEF LaneKnows, Stored
      <4>. QED  BY <4>1, <1>a, <1>c DEF AccountIn, Target
    <3>. HIDE DEF found
    <3>4. /\ rec \in LaneState /\ rec.pc = "revoking" /\ rec.event = lane[p][l].event
          /\ rec.attempt = lane[p][l].attempt
      BY <3>2, <3>3 DEF LaneState
    <3>. HIDE DEF rec
    <3>5. Fenced(rec.event, p, rec.attempt)
      BY <3>1, <3>2, <3>4 DEF LaneKnows
    <3>. QED  BY <2>0, <3>1, <3>4, <3>5, LaneGoes
  <2>. QED  BY <1>6, <2>1, <2>2, <2>3, <2>4
<1>5. ASSUME NEW p \in Process, NEW l \in Lane, Claim(p, l) PROVE QueueInv'
  <2>1. PICK x \in OneOrNone(Expirable), y \in OneOrNone(Exhausted(p)),
             z \in OneOrNone(Claimable(p)) :
         /\ event' = [e \in Event |->
              IF e \in x THEN Released(e, "expired")
              ELSE IF e \in y THEN Released(e, "failed")
              ELSE IF e \in z THEN Claimed(e, p) ELSE event[e]]
         /\ IF z = {}
            THEN worker' = [worker EXCEPT ![p].pc = "draining"] /\ UNCHANGED lane
            ELSE /\ worker' = [worker EXCEPT ![p].claimed = @ + 1]
                 /\ \E e \in z : lane' = [lane EXCEPT ![p][l] =
                      [pc |-> "claimed", event |-> e, attempt |-> event'[e].attempts, found |-> {}]]
    BY <1>5 DEF Claim
  <2>2. /\ x \subseteq Unlocked(Open) /\ y \subseteq Unlocked(Open) /\ z \subseteq Unlocked(Open)
        /\ Unlocked(Open) \subseteq Stored
        /\ \A e \in Unlocked(Open) : ~EventLocked(e)
    BY DEF OneOrNone, Expirable, Exhausted, Claimable, Unlocked, Queued
  <2>3. /\ UNCHANGED <<scenario, accepted, asked, sessions, issuing, crashes>>
        /\ worker[p].claimed < BatchSize
    BY <1>5 DEF Claim
  <2>. DEFINE f == [e \in Event |-> IF e \in x THEN Released(e, "expired")
                                   ELSE IF e \in y THEN Released(e, "failed")
                                   ELSE IF e \in z THEN Claimed(e, p) ELSE event[e]]
  <2>4. "expired" \in Status \ {"processing"} /\ "failed" \in Status \ {"processing"}
    BY DEF Status, Failed
  <2>5. \A e \in Event : /\ f[e] = event[e] \/ RowOK(f[e])
                         /\ EventLocked(e) => f[e] = event[e]
    BY <2>2, <2>4, RowsWritten
  <2>6. event' = f /\ event' = [e \in Event |-> f[e]]
    BY <2>1
  <2>. HIDE DEF f
  <2>7. /\ event' \in [Event -> Row \cup {None}]
        /\ \A e \in Stored' : RowOK(event'[e])
        /\ Stored \subseteq Stored'
    BY <2>5, <2>6, TableTyped
  <2>8. \A e \in Event : EventLocked(e) => SameClaim(event'[e], event[e])
    BY <2>5, <2>6 DEF SameClaim
  <2>9. /\ worker' \in [Process -> WorkerState]
        /\ \A q \in Process : worker'[q].paging \subseteq Stored
    <3>1. worker[p] \in WorkerState /\ worker[p].paging \subseteq Stored
      BY <1>b
    <3>2. worker[p].claimed + 1 \in 0..BatchSize
      BY <2>3, <3>1 DEF WorkerState, RecoveryAssumption
    <3>. DEFINE n == worker[p].claimed + 1
                v == [worker[p] EXCEPT !.pc = "draining"]
                w == [worker[p] EXCEPT !.claimed = n]
    <3>3. worker' = [worker EXCEPT ![p] = v] \/ worker' = [worker EXCEPT ![p] = w]
      BY <2>1
    <3>. HIDE DEF n
    <3>4. v \in WorkerState /\ v.paging = worker[p].paging
      BY <3>1 DEF WorkerState
    <3>5. w \in WorkerState /\ w.paging = worker[p].paging
      BY <3>1, <3>2 DEF WorkerState, n
    <3>. HIDE DEF v, w
    <3>6. PICK u \in WorkerState : worker' = [worker EXCEPT ![p] = u]
                                   /\ u.paging = worker[p].paging
      BY <3>3, <3>4, <3>5
    <3>. QED  BY <3>1, <3>6, <1>a, <1>b
  <2>10. /\ lane' \in [Process -> [Lane -> LaneState]]
         /\ \A q \in Process, k \in Lane : LaneKnows(q, k)'
         /\ OneLocker'
    <3>1. CASE z = {}
      BY <2>1, <2>7, <2>8, <3>1, <1>a, LanesStay
    <3>2. CASE z # {}
      <4>1. PICK e \in z : lane' = [lane EXCEPT ![p][l] =
                 [pc |-> "claimed", event |-> e, attempt |-> event'[e].attempts, found |-> {}]]
        BY <2>1, <3>2
      <4>2. e \in Stored /\ e \in Stored' /\ e \in Event
        BY <2>2, <2>7 DEF Stored
      <4>3. event'[e].attempts \in Nat
        BY <2>7, <4>2 DEF RowOK, Row
      <4>. DEFINE n == event'[e].attempts
                  rec == [pc |-> "claimed", event |-> e, attempt |-> n, found |-> {}]
      <4>4. lane' = [lane EXCEPT ![p][l] = rec]
        BY <4>1
      <4>. HIDE DEF n
      <4>5. rec \in LaneState /\ rec.pc = "claimed" /\ rec.event = e
        BY <4>2, <4>3 DEF LaneState, n
      <4>. HIDE DEF rec
      <4>6. \A q \in Process, k \in Lane : \A g \in Event :
               (q # p \/ k # l) /\ LockedBy(g, q, k) => SameClaim(event'[g], event[g])
        BY <2>8 DEF EventLocked
      <4>. QED  BY <4>2, <4>4, <4>5, <4>6, <2>7, LanesMove
    <3>. QED  BY <3>1, <3>2
  <2>11. Typed'
    BY <2>3, <2>7, <2>9, <2>10, <1>a DEF Typed, sessions
  <2>. QED  BY <2>7, <2>9, <2>10, <2>11 DEF QueueInv
<1>7. ASSUME NEW p \in Process, NEW l \in Lane, Acknowledge(p, l) \/ FailClaim(p, l)
      PROVE  QueueInv'
  <2>. DEFINE e == Target(p, l)
  <2>1. /\ UNCHANGED <<scenario, accepted, asked, issuing, worker, crashes>>
        /\ lane[p][l].pc # "free"
    BY <1>7 DEF Acknowledge, FailClaim, At
  <2>2. e \in Stored /\ e \in Event /\ lane[p][l] \in LaneState
    BY <2>1, <1>b DEF LaneKnows, Target, Stored
  <2>3. version' \in [Account -> Nat] /\ live' \in [Account -> SUBSET Nat]
    <3>1. CASE UNCHANGED sessions
      BY <3>1, <1>a DEF sessions
    <3>2. CASE /\ AccountIn(p, l) # None
               /\ version' = Bumped(AccountIn(p, l))
               /\ live' = [live EXCEPT ![AccountIn(p, l)] = @ \ lane[p][l].found]
      <4>1. AccountIn(p, l) \in Account
        BY <2>2, <3>2, <1>c DEF AccountIn
      <4>2. version[AccountIn(p, l)] + 1 \in Nat
        BY <4>1, <1>a
      <4>3. live[AccountIn(p, l)] \ lane[p][l].found \in SUBSET Nat
        BY <4>1, <1>a
      <4>. QED  BY <3>2, <4>1, <4>2, <4>3, <1>a DEF Bumped
    <3>. QED  BY <1>7, <3>1, <3>2 DEF Acknowledge, FailClaim
  <2>4. PICK r : /\ event' = event \/ (RowOK(r) /\ event' = [event EXCEPT ![e] = r])
                 /\ lane[p][l].pc = "revoking" \/ ~EventLocked(e)
    <3>1. CASE Acknowledge(p, l)
      <4>1. "acknowledged" \in Status \ {"processing"}
        BY DEF Status
      <4>2. RowOK(Released(e, "acknowledged"))
        BY <2>2, <4>1, RowsWritten
      <4>. QED  BY <3>1, <4>2 DEF Acknowledge, At
    <3>2. CASE FailClaim(p, l)
      <4>1. "failed" \in Status \ {"processing"} /\ "retry" \in Status \ {"processing"}
        BY DEF Status, Failed, Open
      <4>2. \A s \in {"failed", "retry"} : RowOK([Released(e, s) EXCEPT !.due = "later"])
        BY <2>2, <4>1, RowsWritten
      <4>3. \/ event' = event
            \/ \E s \in {"failed", "retry"} :
                 event' = [event EXCEPT ![e] = [Released(e, s) EXCEPT !.due = "later"]]
        BY <3>2 DEF FailClaim
      <4>. QED  BY <3>2, <4>2, <4>3 DEF FailClaim
    <3>. QED  BY <1>7, <3>1, <3>2
  <2>. HIDE DEF e
  <2>5. \A g \in Event : /\ g # e => event'[g] = event[g]
                         /\ event'[g] = event[g] \/ RowOK(event'[g])
    BY <2>2, <2>4, <1>a
  <2>6. event' = [g \in Event |-> event'[g]]
    BY <2>4, <1>a
  <2>7. /\ event' \in [Event -> Row \cup {None}]
        /\ \A g \in Stored' : RowOK(event'[g])
        /\ Stored \subseteq Stored'
    <3>. DEFINE f == event'
    <3>1. event' = [g \in Event |-> f[g]] /\ \A g \in Event : f[g] = event[g] \/ RowOK(f[g])
      BY <2>5, <2>6
    <3>. HIDE DEF f
    <3>. QED  BY <3>1, TableTyped
  <2>8. \A q \in Process, k \in Lane : \A g \in Event :
           (q # p \/ k # l) /\ LockedBy(g, q, k) => SameClaim(event'[g], event[g])
    <3>. SUFFICES ASSUME NEW q \in Process, NEW k \in Lane, NEW g \in Event,
                         q # p \/ k # l, LockedBy(g, q, k)
                  PROVE  event'[g] = event[g]
      BY DEF SameClaim
    <3>1. CASE lane[p][l].pc = "revoking"
      <4>1. LockedBy(e, p, l)
        BY <3>1 DEF LockedBy, e, Target
      <4>2. g # e
        BY <4>1, <2>2 DEF QueueInv, OneLocker
      <4>. QED  BY <4>2, <2>5
    <3>2. CASE ~EventLocked(e)
      BY <3>2, <2>5 DEF EventLocked
    <3>. QED  BY <2>4, <3>1, <3>2
  <2>9. /\ lane' \in [Process -> [Lane -> LaneState]]
        /\ \A q \in Process, k \in Lane : LaneKnows(q, k)'
        /\ OneLocker'
    <3>1. CASE Goes(p, l, Free)
      BY <3>1, <2>7, <2>8, LaneTyped, LanesMove DEF Goes
    <3>2. CASE Continues(p, l, "failing")
      <4>. DEFINE rec == [lane[p][l] EXCEPT !.pc = "failing"]
      <4>1. /\ rec \in LaneState /\ rec.pc = "failing" /\ rec.event = lane[p][l].event
            /\ lane' = [lane EXCEPT ![p][l] = rec]
        BY <3>2, LaneTyped DEF Continues, Goes
      <4>2. rec.event \in Stored'
        BY <4>1, <2>2, <2>7 DEF e, Target
      <4>. HIDE DEF rec
      <4>. QED  BY <4>1, <4>2, <2>7, <2>8, LanesMove
    <3>. QED  BY <1>7, <3>1, <3>2 DEF Acknowledge, FailClaim
  <2>10. Typed'
    BY <2>1, <2>3, <2>7, <2>9, <1>a DEF Typed
  <2>. QED  BY <2>1, <2>7, <2>9, <2>10, <1>b DEF QueueInv
<1>8. ASSUME NEW e \in Event, Time(e) PROVE QueueInv'
  <2>1. /\ UNCHANGED <<scenario, accepted, asked, sessions, issuing, worker, lane, crashes>>
        /\ e \in Stored /\ RowOK(event[e])
    BY <1>8, <1>a DEF Time
  <2>2. PICK r : /\ event' = [event EXCEPT ![e] = r]
                 /\ RowOK(r) /\ SameClaim(r, event[e])
    <3>1. CASE Due(e)
      <4>1. event' = [event EXCEPT ![e] = [event[e] EXCEPT !.due = "now"]]
        BY <3>1 DEF Due
      <4>. QED  BY <4>1, <2>1, RowsTick
    <3>2. CASE LeaseEnds(e)
      <4>1. event' = [event EXCEPT ![e] = [event[e] EXCEPT !.lease = "over"]]
        BY <3>2 DEF LeaseEnds
      <4>. QED  BY <3>2, <4>1, <2>1, RowsTick DEF LeaseEnds
    <3>3. CASE Ages(e)
      <4>1. PICK age \in {"young", "overdue", "over"} :
              event' = [event EXCEPT ![e] = [event[e] EXCEPT !.age = age]]
        BY <3>3 DEF Ages
      <4>. QED  BY <4>1, <2>1, RowsTick
    <3>. QED  BY <1>8, <3>1, <3>2, <3>3 DEF Time
  <2>3. /\ \A g \in Event : event'[g] = IF g = e THEN r ELSE event[g]
        /\ event' = [g \in Event |-> event'[g]]
    BY <2>2, <1>a
  <2>4. \A g \in Event : /\ event'[g] = event[g] \/ RowOK(event'[g])
                         /\ SameClaim(event'[g], event[g])
    BY <2>2, <2>3 DEF SameClaim
  <2>5. /\ event' \in [Event -> Row \cup {None}]
        /\ \A g \in Stored' : RowOK(event'[g])
        /\ Stored \subseteq Stored'
    <3>. DEFINE f == event'
    <3>1. event' = [g \in Event |-> f[g]] /\ \A g \in Event : f[g] = event[g] \/ RowOK(f[g])
      BY <2>3, <2>4
    <3>. HIDE DEF f
    <3>. QED  BY <3>1, TableTyped
  <2>6. Typed'
    BY <2>1, <2>5, <1>a DEF Typed, sessions
  <2>7. (\A q \in Process, k \in Lane : LaneKnows(q, k)') /\ OneLocker'
    BY <2>1, <2>4, <2>5, LanesStay
  <2>. QED  BY <2>1, <2>5, <2>6, <2>7, <1>b DEF QueueInv
<1>9. CASE UNCHANGED vars
  BY <1>9, <1>a, <1>b, RowsStay DEF vars, queue, sessions
<1>10. ASSUME NEW p \in Process, Crash(p) PROVE QueueInv'
  <2>1. /\ UNCHANGED <<scenario, queue, sessions, issuing>> /\ crashes' = crashes + 1
        /\ crashes < scenario.crashes
        /\ worker' = [worker EXCEPT ![p] = Dead]
        /\ lane' = [lane EXCEPT ![p] = [l \in Lane |-> Free]]
    BY <1>10 DEF Crash
  <2>2. /\ worker' \in [Process -> WorkerState]
        /\ \A q \in Process : worker'[q].paging \subseteq Stored
    BY <2>1, <1>a, <1>b, OnwardTyped
  <2>3. Free \in LaneState /\ Free.pc = "free"
    BY DEF Free, LaneState
  <2>4. /\ lane' \in [Process -> [Lane -> LaneState]]
        /\ \A q \in Process, k \in Lane : lane'[q][k] = lane[q][k] \/ lane'[q][k] = Free
    BY <2>1, <2>3, <1>a
  <2>5. Stored' = Stored /\ event' = event
    BY <2>1 DEF Stored, queue
  <2>6. Typed'
    BY <2>1, <2>2, <2>4, <2>5, <1>a, <1>c DEF Typed, queue, sessions
  <2>7. ASSUME NEW q \in Process, NEW k \in Lane PROVE LaneKnows(q, k)'
    BY <2>3, <2>4, <2>5, <1>b DEF LaneKnows, Fenced
  <2>8. OneLocker'
    <3>1. \A e \in Event, q \in Process, k \in Lane : LockedBy(e, q, k)' => LockedBy(e, q, k)
      BY <2>3, <2>4 DEF LockedBy
    <3>2. OneLocker
      BY DEF QueueInv
    <3>. QED  BY <3>1, <3>2 DEF OneLocker
  <2>. QED  BY <2>2, <2>5, <2>6, <2>7, <2>8 DEF QueueInv
<1>. QED
  BY <1>1, <1>2, <1>3, <1>4, <1>5, <1>6, <1>7, <1>8, <1>9, <1>10
     DEF Next, Runs, LoopStep, LaneStep

\* What the lanes know of their events holds in every state.
LEMMA QueueKept == ASSUME RecoveryAssumption PROVE Spec => []QueueInv
<1>. USE RecoveryAssumption
<1>1. Init => QueueInv
  <2>. SUFFICES ASSUME Init PROVE QueueInv
    OBVIOUS
  <2>1. Free \in LaneState /\ Free.pc = "free"
    BY DEF Free, LaneState
  <2>2. /\ worker \in [Process -> WorkerState]
        /\ \A p \in Process : worker[p].paging = {}
    BY OnwardTyped DEF Init
  <2>3. /\ lane \in [Process -> [Lane -> LaneState]]
        /\ \A p \in Process, l \in Lane : lane[p][l].pc = "free"
    BY <2>1 DEF Init
  <2>4. crashes \in 0..scenario.crashes
    BY DEF Init, RecoveryAssumption
  <2>5. Typed
    BY <2>2, <2>3, <2>4 DEF Init, Typed, Stored
  <2>6. OneLocker /\ \A p \in Process, l \in Lane : LaneKnows(p, l)
    BY <2>3 DEF OneLocker, LockedBy, LaneKnows
  <2>. QED  BY <2>2, <2>5, <2>6 DEF QueueInv
<1>2. QueueInv /\ [Next]_vars => QueueInv'
  BY QueueStep
<1>. QED  BY <1>1, <1>2, PTL DEF Spec

\* Every reachable state is well typed, and no row ever fails a check of its table.
THEOREM TypeCorrect == RecoveryAssumption => (Spec => []TypeOK)
<1>. SUFFICES ASSUME RecoveryAssumption PROVE Spec => []TypeOK
  OBVIOUS
<1>1. Spec => []QueueInv
  BY QueueKept
<1>2. QueueInv => TypeOK
  BY QueueTypes
<1>. QED  BY <1>1, <1>2, PTL

-----------------------------------------------------------------------------
(* Settled events.                                                          *)

\* The steps that change the table, except the acknowledgement.
TableStep ==
    \/ event' = event
    \/ \E p \in Process : Paged(p)
    \/ \E p \in Process, l \in Lane : Claim(p, l) \/ FailClaim(p, l)
    \/ \E g \in Event : Time(g)
    \/ \E d \in scenario.events, s \in scenario.digests : Webhook(d, s)

\* They change the status of an open event only, and never to acknowledged.
LEMMA TableMoves ==
    ASSUME RecoveryAssumption, QueueInv, TableStep, NEW e \in Stored
    PROVE  \/ event'[e].status = event[e].status
           \/ event[e].status \in Open /\ event'[e].status # "acknowledged"
<1>a. /\ event \in [Event -> Row \cup {None}] /\ e \in Event /\ RowOK(event[e])
      /\ \A p \in Process, l \in Lane : LaneKnows(p, l)
  BY DEF QueueInv, Typed, Stored
<1>1. CASE event' = event
  BY <1>1
<1>3. ASSUME NEW p \in Process, Paged(p) PROVE event'[e].status = event[e].status
  BY <1>3, <1>a, RowsTick DEF Paged, SameClaim
<1>4. ASSUME NEW p \in Process, NEW l \in Lane, Claim(p, l)
      PROVE  \/ event'[e] = event[e]
             \/ event[e].status \in Open /\ event'[e].status # "acknowledged"
  <2>1. PICK x \in OneOrNone(Expirable), y \in OneOrNone(Exhausted(p)),
             z \in OneOrNone(Claimable(p)) :
          event' = [g \in Event |->
              IF g \in x THEN Released(g, "expired")
              ELSE IF g \in y THEN Released(g, "failed")
              ELSE IF g \in z THEN Claimed(g, p) ELSE event[g]]
    BY <1>4 DEF Claim
  <2>2. e \in x \cup y \cup z => event[e].status \in Open
    BY DEF OneOrNone, Expirable, Exhausted, Claimable, Unlocked, Queued
  <2>3. "expired" \in Status \ {"processing"} /\ "failed" \in Status \ {"processing"}
    BY DEF Status, Failed
  <2>4. \/ event'[e] = event[e]
        \/ e \in x \cup y \cup z /\ event'[e] \in {Released(e, "expired"), Released(e, "failed"),
                                                  Claimed(e, p)}
    BY <2>1, <1>a
  <2>. QED  BY <2>2, <2>3, <2>4, RowsWritten
<1>6. ASSUME NEW p \in Process, NEW l \in Lane, FailClaim(p, l)
      PROVE  \/ event'[e] = event[e]
             \/ event[e].status \in Open /\ event'[e].status # "acknowledged"
  <2>1. "failed" \in Status \ {"processing"} /\ "retry" \in Status \ {"processing"}
    BY DEF Status, Failed, Open
  <2>2. CASE event' = event
    BY <2>2
  <2>3. CASE /\ event[Target(p, l)].status = "processing"
             /\ \E s \in {"failed", "retry"} : event' =
                  [event EXCEPT ![Target(p, l)] = [Released(Target(p, l), s) EXCEPT !.due = "later"]]
    <3>1. CASE e = Target(p, l)
      <4>1. event[e].status \in Open
        BY <2>3, <3>1 DEF Open
      <4>2. event'[e].status # "acknowledged"
        BY <2>3, <3>1, <2>1, <1>a, RowsWritten
      <4>. QED  BY <4>1, <4>2
    <3>2. CASE e # Target(p, l)
      BY <2>3, <3>2, <1>a
    <3>. QED  BY <3>1, <3>2
  <2>. QED  BY <1>6, <2>2, <2>3 DEF FailClaim, Fenced
<1>7. ASSUME NEW g \in Event, Time(g) PROVE event'[e].status = event[e].status
  <2>1. PICK r : event' = [event EXCEPT ![g] = r] /\ r.status = event[g].status
    <3>1. event[g] \in Row
      BY <1>7, <1>a DEF Time, Stored, QueueInv, Typed, RowOK
    <3>2. CASE Due(g)
      <4>1. event' = [event EXCEPT ![g] = [event[g] EXCEPT !.due = "now"]]
        BY <3>2 DEF Due
      <4>2. [event[g] EXCEPT !.due = "now"].status = event[g].status
        BY <3>1 DEF Row
      <4>. QED  BY <4>1, <4>2
    <3>3. CASE LeaseEnds(g)
      <4>1. event' = [event EXCEPT ![g] = [event[g] EXCEPT !.lease = "over"]]
        BY <3>3 DEF LeaseEnds
      <4>2. [event[g] EXCEPT !.lease = "over"].status = event[g].status
        BY <3>1 DEF Row
      <4>. QED  BY <4>1, <4>2
    <3>4. CASE Ages(g)
      <4>. DEFINE age == IF event[g].age = "young" THEN "overdue" ELSE "over"
      <4>1. event' = [event EXCEPT ![g] = [event[g] EXCEPT !.age = age]]
        BY <3>4 DEF Ages
      <4>. HIDE DEF age
      <4>2. [event[g] EXCEPT !.age = age].status = event[g].status
        BY <3>1 DEF Row
      <4>. QED  BY <4>1, <4>2
    <3>. QED  BY <1>7, <3>2, <3>3, <3>4 DEF Time
  <2>. QED  BY <2>1, <1>a
<1>8. ASSUME NEW d \in scenario.events, NEW s \in scenario.digests, Webhook(d, s)
      PROVE  event'[e].status = event[e].status
  <2>1. e \in Event /\ event[e] # None /\ event \in [Event -> Row \cup {None}]
    BY DEF QueueInv, Typed, Stored
  <2>2. CASE event' = event
    BY <2>2
  <2>3. CASE event[d] = None /\ event' = [event EXCEPT ![d] = Fresh(s)]
    <3>1. e # d
      BY <2>1, <2>3
    <3>. QED  BY <2>1, <2>3, <3>1
  <2>. QED  BY <1>8, <2>2, <2>3 DEF Webhook
<1>. QED  BY <1>1, <1>3, <1>4, <1>6, <1>7, <1>8 DEF TableStep

\* Only an open event changes its status.
LEMMA StatusMoves ==
    ASSUME RecoveryAssumption, QueueInv, Next, NEW e \in Stored
    PROVE  event'[e].status = event[e].status \/ event[e].status \in Open
<1>1. CASE TableStep
  BY <1>1, TableMoves
<1>2. ASSUME NEW p \in Process, NEW l \in Lane, Acknowledge(p, l)
      PROVE  event'[e] = event[e] \/ event[e].status \in Open
  <2>0. event \in [Event -> Row \cup {None}] /\ e \in Event /\ LaneKnows(p, l)
    BY DEF QueueInv, Typed, Stored
  <2>1. event[Target(p, l)].status = "processing"
    BY <1>2, <2>0 DEF Acknowledge, At, LaneKnows, Fenced, Target
  <2>. QED  BY <1>2, <2>0, <2>1 DEF Acknowledge, Open
<1>3. ASSUME NEW p \in Process, NEW l \in Lane,
             Begin(p, l) \/ LockEvent(p, l) \/ Revoke(p, l) \/ Fault(p, l)
      PROVE  event' = event
  BY <1>3 DEF Begin, LockEvent, Revoke, Fault, queue
<1>4. ASSUME NEW p \in Process, AlertRead(p) \/ Drain(p) \/ Restart(p) \/ PageFails(p) \/ Crash(p)
      PROVE  event' = event
  BY <1>4 DEF AlertRead, Drain, Restart, PageFails, Crash, queue
<1>5. ASSUME NEW a \in Account, BeginLogin(a) \/ Login(a) PROVE event' = event
  BY <1>5 DEF BeginLogin, Login, queue
<1>. QED  BY <1>1, <1>2, <1>3, <1>4, <1>5 DEF TableStep, Next, Runs, LoopStep, LaneStep

\* "Acknowledged, failed, and expired states are durable": not the late answer of a worker
\* whose lease was taken over, nor a claim, an alert or a repeated event changes them.
THEOREM SettledStaysSettled == RecoveryAssumption => (Spec => SettledIsFinal)
<1>. SUFFICES ASSUME RecoveryAssumption PROVE Spec => SettledIsFinal
  OBVIOUS
<1>. DEFINE Final == \A e \in Queued(Failed \cup {"acknowledged"}) :
                        event'[e].status = event[e].status
<1>1. QueueInv /\ [Next]_vars => [Final]_vars
  <2>. SUFFICES ASSUME QueueInv, Next, NEW e \in Queued(Failed \cup {"acknowledged"})
                PROVE  event'[e].status = event[e].status
    OBVIOUS
  <2>1. e \in Stored /\ event[e].status \notin Open
    BY DEF Queued, Failed, Open
  <2>. QED  BY <2>1, StatusMoves
<1>2. Spec => []QueueInv
  BY QueueKept
<1>. QED  BY <1>1, <1>2, PTL DEF Spec, SettledIsFinal

-----------------------------------------------------------------------------
(* The accounts. *)

\* The acknowledged events of an account.
Acked(a) == {e \in Queued({"acknowledged"}) : AccountOf(e) = a}

\* The lane's transaction has found the sessions of an account, and holds its lock.
Revoking(p, l) == lane[p][l].pc = "revoking" /\ AccountIn(p, l) # None

\* The version of an account counts its acknowledged events.
VersionCounts ==
    \A a \in Account : IsFiniteSet(Acked(a)) /\ version[a] = Cardinality(Acked(a))

\* No event was accepted at a later version than its account has.
AskedBefore == \A e \in Event : AccountOf(e) # None => asked[e] <= version[AccountOf(e)]

\* After the acknowledgement only later sessions are left.
AckedIsPast ==
    \A e \in Queued({"acknowledged"}) : AccountOf(e) # None =>
        /\ asked[e] < version[AccountOf(e)]
        /\ \A v \in live[AccountOf(e)] : v > asked[e]

\* What the holder of an account's lock has read is still so.
LoginHolds == \A a \in Account : issuing[a] # None => issuing[a] = version[a]
RevokerHolds ==
    \A p \in Process, l \in Lane : Revoking(p, l) =>
        issuing[AccountIn(p, l)] = None /\ lane[p][l].found = live[AccountIn(p, l)]
OneRevoker ==
    \A p, q \in Process, k, l \in Lane :
        Revoking(p, k) /\ Revoking(q, l) /\ AccountIn(p, k) = AccountIn(q, l) => p = q /\ k = l

AccountInv ==
    VersionCounts /\ AskedBefore /\ AckedIsPast /\ LoginHolds /\ RevokerHolds /\ OneRevoker

LEMMA AccountTypes ==
    ASSUME RecoveryAssumption, QueueInv
    PROVE  /\ \A e \in Event : AccountOf(e) \in Account \cup {None}
           /\ \A a \in Account : version[a] \in Nat /\ live[a] \subseteq Nat
           /\ \A e \in Event : asked[e] \in Nat
           /\ None \notin Account
           /\ \A p \in Process, l \in Lane : lane[p][l].pc = "revoking" => Target(p, l) \in Stored
           /\ \A p \in Process, l \in Lane : Revoking(p, l) => AccountIn(p, l) \in Account
<1>1. /\ \A e \in Event : AccountOf(e) \in Account \cup {None}
      /\ \A a \in Account : version[a] \in Nat /\ live[a] \subseteq Nat
      /\ \A e \in Event : asked[e] \in Nat
  BY DEF QueueInv, Typed, AccountOf, RecoveryAssumption
<1>2. None \notin Account
  BY DEF RecoveryAssumption
<1>3. \A p \in Process, l \in Lane : lane[p][l].pc = "revoking" => Target(p, l) \in Stored
  BY DEF QueueInv, LaneKnows, Target
<1>4. \A p \in Process, l \in Lane : Revoking(p, l) => AccountIn(p, l) \in Account
  BY <1>1, <1>3 DEF Revoking, AccountIn, Stored
<1>. QED  BY <1>1, <1>2, <1>3, <1>4

\* A step of the table adds pending rows and removes none.
LEMMA TableGrows ==
    ASSUME RecoveryAssumption, QueueInv, QueueInv', TableStep, NEW e \in Event
    PROVE  /\ event[e] # None => event'[e] # None
           /\ event[e] = None => event'[e] = None \/ event'[e].status = "pending"
<1>a. /\ event \in [Event -> Row \cup {None}] /\ \A g \in Stored : RowOK(event[g])
      /\ \A p \in Process, l \in Lane : LaneKnows(p, l)
      /\ \A p \in Process : worker[p].paging \subseteq Stored
  BY DEF QueueInv, Typed
<1>b. \A r : RowOK(r) => r # None
  BY DEF RowOK, RecoveryAssumption
<1>1. CASE event' = event
  BY <1>1
<1>2. ASSUME NEW p \in Process, Paged(p)
      PROVE  /\ event[e] # None => event'[e] # None
             /\ event[e] = None => event'[e] = None
  <2>1. e \in Stored => RowOK([event[e] EXCEPT !.alerted = "yes"])
    BY <1>a, RowsTick
  <2>. QED  BY <1>2, <1>a, <1>b, <2>1 DEF Paged, Stored
<1>3. ASSUME NEW p \in Process, NEW l \in Lane, Claim(p, l)
      PROVE  /\ event[e] # None => event'[e] # None
             /\ event[e] = None => event'[e] = None
  <2>1. PICK x \in OneOrNone(Expirable), y \in OneOrNone(Exhausted(p)),
             z \in OneOrNone(Claimable(p)) :
          event' = [g \in Event |->
              IF g \in x THEN Released(g, "expired")
              ELSE IF g \in y THEN Released(g, "failed")
              ELSE IF g \in z THEN Claimed(g, p) ELSE event[g]]
    BY <1>3 DEF Claim
  <2>2. e \in x \cup y \cup z => e \in Stored
    BY DEF OneOrNone, Expirable, Exhausted, Claimable, Unlocked, Queued
  <2>3. "expired" \in Status \ {"processing"} /\ "failed" \in Status \ {"processing"}
    BY DEF Status, Failed
  <2>4. \/ event'[e] = event[e]
        \/ e \in x \cup y \cup z /\ event'[e] \in {Released(e, "expired"), Released(e, "failed"),
                                                  Claimed(e, p)}
    BY <2>1, <1>a
  <2>. QED  BY <2>2, <2>3, <2>4, <1>b, RowsWritten DEF Stored
<1>4. ASSUME NEW p \in Process, NEW l \in Lane, FailClaim(p, l)
      PROVE  /\ event[e] # None => event'[e] # None
             /\ event[e] = None => event'[e] = None
  <2>1. "failed" \in Status \ {"processing"} /\ "retry" \in Status \ {"processing"}
    BY DEF Status, Failed, Open
  <2>2. Target(p, l) \in Stored
    BY <1>4, <1>a DEF FailClaim, At, LaneKnows, Target
  <2>3. CASE event' = event
    BY <2>3
  <2>4. CASE \E s \in {"failed", "retry"} : event' =
                  [event EXCEPT ![Target(p, l)] = [Released(Target(p, l), s) EXCEPT !.due = "later"]]
    <3>1. CASE e = Target(p, l)
      BY <2>1, <2>2, <2>4, <3>1, <1>a, <1>b, RowsWritten DEF Stored
    <3>2. CASE e # Target(p, l)
      BY <2>4, <3>2, <1>a
    <3>. QED  BY <3>1, <3>2
  <2>. QED  BY <1>4, <2>3, <2>4 DEF FailClaim
<1>5. ASSUME NEW g \in Event, Time(g)
      PROVE  /\ event[e] # None => event'[e] # None
             /\ event[e] = None => event'[e] = None
  <2>1. g \in Stored /\ RowOK(event[g])
    BY <1>5, <1>a DEF Time
  <2>2. PICK r : event' = [event EXCEPT ![g] = r] /\ RowOK(r)
    <3>2. CASE Due(g)
      <4>1. event' = [event EXCEPT ![g] = [event[g] EXCEPT !.due = "now"]]
        BY <3>2 DEF Due
      <4>. QED  BY <2>1, <4>1, RowsTick
    <3>3. CASE LeaseEnds(g)
      <4>1. event' = [event EXCEPT ![g] = [event[g] EXCEPT !.lease = "over"]]
        BY <3>3 DEF LeaseEnds
      <4>2. event[g].lease = "held"
        BY <3>3 DEF LeaseEnds
      <4>. QED  BY <2>1, <4>1, <4>2, RowsTick
    <3>4. CASE Ages(g)
      <4>. DEFINE age == IF event[g].age = "young" THEN "overdue" ELSE "over"
      <4>1. event' = [event EXCEPT ![g] = [event[g] EXCEPT !.age = age]]
        BY <3>4 DEF Ages
      <4>2. age \in {"young", "overdue", "over"}
        OBVIOUS
      <4>. HIDE DEF age
      <4>. QED  BY <2>1, <4>1, <4>2, RowsTick
    <3>. QED  BY <1>5, <3>2, <3>3, <3>4 DEF Time
  <2>. QED  BY <2>1, <2>2, <1>a, <1>b DEF Stored
<1>6. ASSUME NEW d \in scenario.events, NEW s \in scenario.digests, Webhook(d, s)
      PROVE  /\ event[e] # None => event'[e] # None
             /\ event[e] = None => event'[e] = None \/ event'[e].status = "pending"
  <2>1. CASE event' = event
    BY <2>1
  <2>2. CASE event[d] = None /\ event' = [event EXCEPT ![d] = Fresh(s)]
    <3>1. Fresh(s).status = "pending"
      BY DEF Fresh
    <3>. QED  BY <2>2, <3>1, <1>a
  <2>. QED  BY <1>6, <2>1, <2>2 DEF Webhook
<1>. QED  BY <1>1, <1>2, <1>3, <1>4, <1>5, <1>6 DEF TableStep

\* A step of the table leaves the accounts as they were.
LEMMA AccountsRest ==
    ASSUME RecoveryAssumption, QueueInv, QueueInv', AccountInv, TableStep,
           UNCHANGED <<scenario, version, live, issuing>>,
           \A e \in Event : \/ asked'[e] = asked[e]
                            \/ /\ event[e] = None
                               /\ AccountOf(e) # None => asked'[e] <= version[AccountOf(e)],
           \A p \in Process, l \in Lane : lane'[p][l].pc = "revoking" => lane'[p][l] = lane[p][l]
    PROVE  AccountInv'
<1>1. Queued({"acknowledged"})' = Queued({"acknowledged"})
  <2>1. ASSUME NEW e \in Stored
        PROVE  event'[e].status = "acknowledged" <=> event[e].status = "acknowledged"
    BY <2>1, TableMoves DEF Open
  <2>2. ASSUME NEW e \in Event
        PROVE  /\ event[e] # None => event'[e] # None
               /\ event[e] = None => event'[e] = None \/ event'[e].status = "pending"
    BY <2>2, TableGrows
  <2>. QED  BY <2>1, <2>2 DEF Queued, Stored
<1>2. \A e : AccountOf(e)' = AccountOf(e)
  BY DEF AccountOf
<1>3. \A a : Acked(a)' = Acked(a)
  BY <1>1, <1>2 DEF Acked
<1>4. \A p \in Process, l \in Lane : Revoking(p, l)' =>
        /\ Revoking(p, l) /\ AccountIn(p, l)' = AccountIn(p, l) /\ lane'[p][l] = lane[p][l]
  BY <1>2 DEF Revoking, AccountIn, Target, AccountOf
<1>5. VersionCounts'
  BY <1>3 DEF AccountInv, VersionCounts
<1>6. AskedBefore'
  BY <1>2 DEF AccountInv, AskedBefore, AccountOf
<1>7. AckedIsPast'
  <2>1. \A e \in Queued({"acknowledged"}) : asked'[e] = asked[e]
    BY DEF Queued, Stored
  <2>. QED  BY <1>1, <2>1 DEF AccountInv, AckedIsPast, AccountOf
<1>8. LoginHolds'
  BY DEF AccountInv, LoginHolds
<1>9. RevokerHolds'
  BY <1>4 DEF AccountInv, RevokerHolds
<1>10. OneRevoker'
  BY <1>4 DEF AccountInv, OneRevoker
<1>. QED  BY <1>5, <1>6, <1>7, <1>8, <1>9, <1>10 DEF AccountInv

\* An account that is not locked is neither read by a login nor by a revocation.
LEMMA LockExcludes ==
    ASSUME NEW a \in Account, ~AccountLocked(a)
    PROVE  /\ issuing[a] = None
           /\ \A p \in Process, l \in Lane : Revoking(p, l) => AccountIn(p, l) # a
BY DEF AccountLocked, Revoking, AccountIn, Target

LEMMA AccountStep ==
    ASSUME RecoveryAssumption, QueueInv, QueueInv', AccountInv, [Next]_vars
    PROVE  AccountInv'
<1>. USE RecoveryAssumption
<1>a. /\ \A e \in Event : AccountOf(e) \in Account \cup {None}
      /\ \A a \in Account : version[a] \in Nat /\ live[a] \subseteq Nat
      /\ \A e \in Event : asked[e] \in Nat
      /\ None \notin Account
      /\ \A p \in Process, l \in Lane : lane[p][l].pc = "revoking" => Target(p, l) \in Stored
      /\ \A p \in Process, l \in Lane : Revoking(p, l) => AccountIn(p, l) \in Account
  BY AccountTypes
<1>b. /\ event \in [Event -> Row \cup {None}] /\ asked \in [Event -> Nat]
      /\ version \in [Account -> Nat] /\ live \in [Account -> SUBSET Nat]
      /\ issuing \in [Account -> Nat \cup {None}]
      /\ lane \in [Process -> [Lane -> LaneState]]
      /\ scenario.events \subseteq Event
  BY DEF QueueInv, Typed, RecoveryAssumption
<1>c. ASSUME TableStep, UNCHANGED <<scenario, version, live, issuing, asked>>,
             \/ lane' = lane
             \/ \E p \in Process, l \in Lane : \E r :
                  lane' = [lane EXCEPT ![p][l] = r] /\ r.pc # "revoking"
      PROVE  AccountInv'
  <2>1. \A p \in Process, l \in Lane : lane'[p][l].pc = "revoking" => lane'[p][l] = lane[p][l]
    BY <1>c, <1>b
  <2>. QED  BY <1>c, <2>1, AccountsRest
<1>f. Free.pc = "free"
  BY DEF Free
<1>1. ASSUME NEW e \in scenario.events, NEW d \in scenario.digests, Webhook(e, d) PROVE AccountInv'
  <2>0. e \in Event
    BY <1>b
  <2>1. UNCHANGED <<scenario, version, live, issuing, lane>>
    BY <1>1 DEF Webhook, sessions
  <2>2. TableStep
    BY <1>1 DEF TableStep
  <2>3. \/ asked' = asked
        \/ /\ event[e] = None
           /\ asked' = [asked EXCEPT ![e] = IF AccountOf(e) = None THEN 0 ELSE version[AccountOf(e)]]
    BY <1>1 DEF Webhook
  <2>4. \A g \in Event : \/ asked'[g] = asked[g]
                         \/ /\ event[g] = None
                            /\ AccountOf(g) # None => asked'[g] <= version[AccountOf(g)]
    BY <2>0, <2>3, <1>a, <1>b
  <2>. QED  BY <2>1, <2>2, <2>4, AccountsRest
<1>2. ASSUME NEW a \in Account, BeginLogin(a) PROVE AccountInv'
  <2>1. /\ UNCHANGED <<scenario, event, asked, version, live, lane>>
        /\ issuing' = [issuing EXCEPT ![a] = version[a]] /\ ~AccountLocked(a)
    BY <1>2 DEF BeginLogin, queue, sessions
  <2>2. VersionCounts' /\ AskedBefore' /\ AckedIsPast' /\ OneRevoker'
    BY <2>1 DEF AccountInv, VersionCounts, AskedBefore, AckedIsPast, OneRevoker, Acked, Queued,
                Stored, AccountOf, Revoking, AccountIn, Target
  <2>3. LoginHolds'
    BY <2>1, <1>b DEF AccountInv, LoginHolds
  <2>4. ASSUME NEW p \in Process, NEW l \in Lane, Revoking(p, l)
        PROVE  AccountIn(p, l) # a /\ AccountIn(p, l) \in Account
    BY <2>1, <2>4, <1>a, LockExcludes
  <2>5. RevokerHolds'
    BY <2>1, <2>4, <1>b DEF AccountInv, RevokerHolds, Revoking, AccountIn, Target, AccountOf
  <2>. QED  BY <2>2, <2>3, <2>5 DEF AccountInv
<1>3. ASSUME NEW a \in Account, Login(a) PROVE AccountInv'
  <2>1. /\ UNCHANGED <<scenario, event, asked, version, lane>>
        /\ issuing' = [issuing EXCEPT ![a] = None]
        /\ live' = [live EXCEPT ![a] = live[a] \cup {issuing[a]}]
        /\ issuing[a] # None
    BY <1>3 DEF Login, queue
  <2>2. issuing[a] = version[a]
    BY <2>1 DEF AccountInv, LoginHolds
  <2>3. VersionCounts' /\ AskedBefore' /\ OneRevoker'
    <3>1. VersionCounts /\ AskedBefore /\ OneRevoker
      BY DEF AccountInv
    <3>2. VersionCounts'
      BY ONLY <2>1, <3>1 DEF VersionCounts, Acked, Queued, Stored, AccountOf
    <3>3. AskedBefore'
      BY ONLY <2>1, <3>1 DEF AskedBefore, AccountOf
    <3>4. OneRevoker'
      BY ONLY <2>1, <3>1 DEF OneRevoker, Revoking, AccountIn, Target, AccountOf
    <3>. QED  BY <3>2, <3>3, <3>4
  <2>4. AckedIsPast'
    <3>. SUFFICES ASSUME NEW e \in Queued({"acknowledged"}), AccountOf(e) # None
                  PROVE  /\ asked[e] < version[AccountOf(e)]
                         /\ \A v \in live'[AccountOf(e)] : v > asked[e]
      BY <2>1 DEF AckedIsPast, Queued, Stored, AccountOf
    <3>1. /\ asked[e] < version[AccountOf(e)] /\ AccountOf(e) \in Account
          /\ \A v \in live[AccountOf(e)] : v > asked[e]
      BY <1>a DEF AccountInv, AckedIsPast, Queued, Stored
    <3>2. asked[e] \in Nat /\ version[AccountOf(e)] \in Nat
      BY <1>a, <3>1 DEF Queued, Stored
    <3>3. live'[AccountOf(e)] \subseteq live[AccountOf(e)] \cup {version[AccountOf(e)]}
      BY <2>1, <2>2, <3>1, <1>b
    <3>4. version[AccountOf(e)] > asked[e]
      BY <3>1, <3>2
    <3>. QED  BY <3>1, <3>3, <3>4
  <2>5. LoginHolds'
    BY <2>1, <1>b DEF AccountInv, LoginHolds
  <2>6. RevokerHolds'
    <3>1. ASSUME NEW p \in Process, NEW l \in Lane, Revoking(p, l)
          PROVE  /\ AccountIn(p, l) \in Account \ {a} /\ issuing[AccountIn(p, l)] = None
                 /\ lane[p][l].found = live[AccountIn(p, l)]
      BY <2>1, <3>1, <1>a DEF AccountInv, RevokerHolds
    <3>. QED  BY <2>1, <3>1, <1>b DEF RevokerHolds, Revoking, AccountIn, Target, AccountOf
  <2>. QED  BY <2>3, <2>4, <2>5, <2>6 DEF AccountInv
<1>4. ASSUME NEW p \in Process, NEW l \in Lane, Revoke(p, l) PROVE AccountInv'
  <2>. DEFINE a == AccountIn(p, l)
              found == IF a = None THEN {} ELSE live[a]
              r == [lane[p][l] EXCEPT !.pc = "revoking", !.found = found]
  <2>1. /\ UNCHANGED <<scenario, event, asked, version, live, issuing>>
        /\ lane' = [lane EXCEPT ![p][l] = r]
        /\ a # None => ~AccountLocked(a)
        /\ lane[p][l].pc = "locked"
    BY <1>4 DEF Revoke, queue, sessions, Goes, At, AccountFree
  <2>2. lane[p][l] \in LaneState
    BY <1>b
  <2>. HIDE DEF found
  <2>3. r.pc = "revoking" /\ r.found = found /\ r.event = lane[p][l].event
    BY <2>2 DEF LaneState
  <2>. HIDE DEF r
  <2>4. a \in Account \cup {None}
    <3>1. lane[p][l].event \in Event
      BY <2>1 DEF QueueInv, LaneKnows, Stored
    <3>. QED  BY <3>1, <1>a DEF AccountIn, Target
  <2>5. lane'[p][l] = r /\ \A q \in Process, k \in Lane : q # p \/ k # l => lane'[q][k] = lane[q][k]
    BY <2>1, <1>b
  <2>6. VersionCounts' /\ AskedBefore' /\ AckedIsPast' /\ LoginHolds'
    BY <2>1 DEF AccountInv, VersionCounts, AskedBefore, AckedIsPast, LoginHolds, Acked, Queued,
                Stored, AccountOf
  <2>7. \A e : AccountOf(e)' = AccountOf(e)
    BY <2>1 DEF AccountOf
  <2>8. AccountIn(p, l)' = a
    BY <2>3, <2>5, <2>7 DEF AccountIn, Target, AccountOf
  <2>9. \A q \in Process, k \in Lane : q # p \/ k # l =>
          AccountIn(q, k)' = AccountIn(q, k) /\ (Revoking(q, k)' <=> Revoking(q, k))
    BY <2>5, <2>7 DEF AccountIn, Target, AccountOf, Revoking
  <2>10. a # None => /\ issuing[a] = None
                     /\ \A q \in Process, k \in Lane : Revoking(q, k) => AccountIn(q, k) # a
    BY <2>1 DEF AccountLocked, Revoking, AccountIn, Target
  <2>11. RevokerHolds'
    <3>. SUFFICES ASSUME NEW q \in Process, NEW k \in Lane, Revoking(q, k)'
                  PROVE  /\ issuing'[AccountIn(q, k)'] = None
                         /\ lane'[q][k].found = live'[AccountIn(q, k)']
      BY DEF RevokerHolds
    <3>1. CASE q = p /\ k = l
      <4>1. a # None
        BY <2>8, <3>1 DEF Revoking
      <4>2. found = live[a]
        BY <4>1 DEF found
      <4>3. lane'[q][k].found = found
        BY <2>3, <2>5, <3>1
      <4>4. AccountIn(q, k)' = a
        BY <2>8, <3>1
      <4>. QED  BY <2>1, <2>10, <4>1, <4>2, <4>3, <4>4
    <3>2. CASE q # p \/ k # l
      BY <2>1, <2>5, <2>9, <3>2 DEF AccountInv, RevokerHolds
    <3>. QED  BY <3>1, <3>2
  <2>12. OneRevoker'
    <3>. SUFFICES ASSUME NEW q1 \in Process, NEW q2 \in Process, NEW k1 \in Lane, NEW k2 \in Lane,
                         Revoking(q1, k1)', Revoking(q2, k2)', AccountIn(q1, k1)' = AccountIn(q2, k2)'
                  PROVE  q1 = q2 /\ k1 = k2
      BY DEF OneRevoker
    <3>0. AccountIn(q1, k1)' # None /\ AccountIn(q2, k2)' # None
      BY DEF Revoking
    <3>1. CASE q1 = p /\ k1 = l
      <4>1. AccountIn(q2, k2)' = a /\ a # None
        BY <2>8, <3>0, <3>1
      <4>. QED  BY <2>9, <2>10, <3>1, <4>1
    <3>2. CASE q2 = p /\ k2 = l
      <4>1. AccountIn(q1, k1)' = a /\ a # None
        BY <2>8, <3>0, <3>2
      <4>. QED  BY <2>9, <2>10, <3>2, <4>1
    <3>3. CASE (q1 # p \/ k1 # l) /\ (q2 # p \/ k2 # l)
      BY <2>9, <3>3 DEF AccountInv, OneRevoker
    <3>. QED  BY <3>1, <3>2, <3>3
  <2>. QED  BY <2>6, <2>11, <2>12 DEF AccountInv
<1>5. ASSUME NEW p \in Process, NEW l \in Lane, Acknowledge(p, l) PROVE AccountInv'
  <2>. DEFINE e == Target(p, l)
              a == AccountIn(p, l)
  <2>1. /\ UNCHANGED <<scenario, asked, issuing>> /\ lane[p][l].pc = "revoking"
        /\ event' = [event EXCEPT ![e] = Released(e, "acknowledged")]
        /\ IF a = None
           THEN version' = version /\ live' = live
           ELSE /\ version' = [version EXCEPT ![a] = version[a] + 1]
                /\ live' = [live EXCEPT ![a] = live[a] \ lane[p][l].found]
    BY <1>5 DEF Acknowledge, At, sessions, Bumped
  <2>2. /\ lane'[p][l].pc # "revoking"
        /\ \A q \in Process, k \in Lane : q # p \/ k # l => lane'[q][k] = lane[q][k]
    <3>1. lane[p][l] \in LaneState
      BY <1>b
    <3>2. [lane[p][l] EXCEPT !.pc = "failing"].pc = "failing"
      BY <3>1 DEF LaneState
    <3>3. CASE lane' = [lane EXCEPT ![p][l] = Free]
      BY <3>3, <1>b, <1>f
    <3>4. CASE lane' = [lane EXCEPT ![p][l] = [lane[p][l] EXCEPT !.pc = "failing"]]
      <4>. DEFINE r == [lane[p][l] EXCEPT !.pc = "failing"]
      <4>1. lane' = [lane EXCEPT ![p][l] = r] /\ r.pc = "failing"
        BY <3>2, <3>4
      <4>. HIDE DEF r
      <4>. QED  BY <4>1, <1>b
    <3>. QED  BY <1>5, <3>3, <3>4 DEF Acknowledge, Goes, Continues
  <2>3. e \in Stored /\ event[e].status = "processing" /\ e \in Event /\ a = AccountOf(e)
    BY <2>1, <1>a DEF QueueInv, LaneKnows, Fenced, Target, Stored, AccountIn
  <2>4. Released(e, "acknowledged").status = "acknowledged" /\ Released(e, "acknowledged") # None
    <3>1. "acknowledged" \in Status \ {"processing"}
      BY DEF Status
    <3>2. RowOK(Released(e, "acknowledged")) /\ Released(e, "acknowledged").status = "acknowledged"
      BY <2>3, <3>1, RowsWritten
    <3>. QED  BY <3>2 DEF RowOK, RecoveryAssumption
  <2>5. /\ Queued({"acknowledged"})' = Queued({"acknowledged"}) \cup {e}
        /\ e \notin Queued({"acknowledged"}) /\ Stored' = Stored
    BY <2>1, <2>3, <2>4, <1>b DEF Queued, Stored
  <2>6. \A g : AccountOf(g)' = AccountOf(g)
    BY <2>1 DEF AccountOf
  <2>7. a \in Account \cup {None}
    BY <2>3, <1>a
  <2>8. a # None => Revoking(p, l) /\ issuing[a] = None /\ lane[p][l].found = live[a]
    BY <2>1 DEF Revoking, AccountInv, RevokerHolds
  <2>9. \A b \in Account : /\ b # a => version'[b] = version[b] /\ live'[b] = live[b]
                           /\ b = a => version'[b] = version[b] + 1 /\ live'[b] = {}
    BY <2>1, <2>7, <2>8, <1>a, <1>b
  <2>10. VersionCounts'
    <3>. SUFFICES ASSUME NEW b \in Account
                  PROVE  IsFiniteSet(Acked(b)') /\ version'[b] = Cardinality(Acked(b)')
      BY DEF VersionCounts
    <3>1. IsFiniteSet(Acked(b)) /\ version[b] = Cardinality(Acked(b))
      BY DEF AccountInv, VersionCounts
    <3>2. CASE b = a
      <4>1. Acked(b)' = Acked(b) \cup {e} /\ e \notin Acked(b)
        BY <2>3, <2>5, <2>6, <3>2 DEF Acked
      <4>2. IsFiniteSet(Acked(b) \cup {e}) /\ Cardinality(Acked(b) \cup {e}) = Cardinality(Acked(b)) + 1
        BY <3>1, <4>1, FS_AddElement
      <4>. QED  BY <2>9, <3>1, <3>2, <4>1, <4>2
    <3>3. CASE b # a
      <4>1. Acked(b)' = Acked(b)
        BY <2>3, <2>5, <2>6, <3>3 DEF Acked
      <4>. QED  BY <2>9, <3>1, <3>3, <4>1
    <3>. QED  BY <3>2, <3>3
  <2>11. AskedBefore'
    <3>. SUFFICES ASSUME NEW g \in Event, AccountOf(g) # None
                  PROVE  asked[g] <= version'[AccountOf(g)]
      BY <2>1, <2>6 DEF AskedBefore
    <3>1. /\ asked[g] <= version[AccountOf(g)] /\ AccountOf(g) \in Account
          /\ asked[g] \in Nat /\ version[AccountOf(g)] \in Nat
      BY <1>a DEF AccountInv, AskedBefore
    <3>2. version'[AccountOf(g)] \in {version[AccountOf(g)], version[AccountOf(g)] + 1}
      BY <2>9, <3>1
    <3>. QED  BY <3>1, <3>2
  <2>12. AckedIsPast'
    <3>. SUFFICES ASSUME NEW g \in Queued({"acknowledged"}) \cup {e}, AccountOf(g) # None
                  PROVE  /\ asked[g] < version'[AccountOf(g)]
                         /\ \A v \in live'[AccountOf(g)] : v > asked[g]
      BY <2>1, <2>5, <2>6 DEF AckedIsPast
    <3>0. g \in Event
      BY <2>3 DEF Queued, Stored
    <3>1. /\ asked[g] <= version[AccountOf(g)] /\ AccountOf(g) \in Account
          /\ asked[g] \in Nat /\ version[AccountOf(g)] \in Nat
      BY <3>0, <1>a DEF AccountInv, AskedBefore
    <3>2. CASE AccountOf(g) = a
      <4>1. version'[AccountOf(g)] = version[AccountOf(g)] + 1 /\ live'[AccountOf(g)] = {}
        BY <2>9, <3>1, <3>2
      <4>. QED  BY <3>1, <4>1
    <3>3. CASE AccountOf(g) # a
      <4>1. g \in Queued({"acknowledged"})
        BY <2>3, <3>3
      <4>. QED  BY <2>9, <3>1, <3>3, <4>1 DEF AccountInv, AckedIsPast
    <3>. QED  BY <3>2, <3>3
  <2>13. LoginHolds'
    BY <2>1, <2>8, <2>9 DEF AccountInv, LoginHolds
  <2>14. \A q \in Process, k \in Lane : Revoking(q, k)' =>
           /\ Revoking(q, k) /\ AccountIn(q, k)' = AccountIn(q, k) /\ lane'[q][k] = lane[q][k]
           /\ q # p \/ k # l
    BY <2>2, <2>6 DEF Revoking, AccountIn, Target, AccountOf
  <2>15. RevokerHolds'
    <3>. SUFFICES ASSUME NEW q \in Process, NEW k \in Lane, Revoking(q, k)'
                  PROVE  /\ issuing'[AccountIn(q, k)'] = None
                         /\ lane'[q][k].found = live'[AccountIn(q, k)']
      BY DEF RevokerHolds
    <3>1. /\ Revoking(q, k) /\ AccountIn(q, k)' = AccountIn(q, k) /\ lane'[q][k] = lane[q][k]
          /\ q # p \/ k # l
      BY <2>14
    <3>2. AccountIn(q, k) \in Account /\ AccountIn(q, k) # None
      BY <3>1, <1>a
    <3>3. AccountIn(q, k) # a
      BY <2>8, <3>1, <3>2 DEF AccountInv, OneRevoker
    <3>. QED  BY <2>1, <2>9, <3>1, <3>2, <3>3 DEF AccountInv, RevokerHolds
  <2>16. OneRevoker'
    BY <2>14 DEF AccountInv, OneRevoker
  <2>. QED  BY <2>10, <2>11, <2>12, <2>13, <2>15, <2>16 DEF AccountInv
<1>6. ASSUME NEW p \in Process, Paged(p) PROVE AccountInv'
  BY <1>6, <1>c DEF Paged, TableStep, sessions
<1>7. ASSUME NEW p \in Process, AlertRead(p) \/ PageFails(p) \/ Drain(p) \/ Restart(p)
      PROVE AccountInv'
  BY <1>7, <1>c DEF AlertRead, PageFails, Drain, Restart, TableStep, queue, sessions
<1>8. ASSUME NEW p \in Process, NEW l \in Lane, Claim(p, l) PROVE AccountInv'
  <2>1. \/ lane' = lane
        \/ \E r : lane' = [lane EXCEPT ![p][l] = r] /\ r.pc # "revoking"
    <3>1. CASE lane' = lane
      BY <3>1
    <3>2. ASSUME NEW e, lane' = [lane EXCEPT ![p][l] =
                      [pc |-> "claimed", event |-> e, attempt |-> event'[e].attempts, found |-> {}]]
          PROVE  \E r : lane' = [lane EXCEPT ![p][l] = r] /\ r.pc # "revoking"
      <4>. DEFINE r == [pc |-> "claimed", event |-> e, attempt |-> event'[e].attempts, found |-> {}]
      <4>1. lane' = [lane EXCEPT ![p][l] = r] /\ r.pc = "claimed"
        BY <3>2
      <4>. HIDE DEF r
      <4>. QED  BY <4>1
    <3>. QED  BY <1>8, <3>1, <3>2 DEF Claim
  <2>2. UNCHANGED <<scenario, version, live, issuing, asked>>
    BY <1>8 DEF Claim, sessions
  <2>3. TableStep
    BY <1>8 DEF TableStep
  <2>. QED  BY <2>1, <2>2, <2>3, <1>c
<1>9. ASSUME NEW p \in Process, NEW l \in Lane,
             Begin(p, l) \/ LockEvent(p, l) \/ Fault(p, l) \/ FailClaim(p, l)
      PROVE  AccountInv'
  <2>1. \E r : lane' = [lane EXCEPT ![p][l] = r] /\ r.pc # "revoking"
    <3>1. lane[p][l] \in LaneState
      BY <1>b
    <3>2. \/ Goes(p, l, Free) \/ Continues(p, l, "begun") \/ Continues(p, l, "locked")
          \/ Continues(p, l, "failing")
      BY <1>9 DEF Begin, LockEvent, Fault, FailClaim
    <3>3. \A pc \in {"begun", "locked", "failing"} : [lane[p][l] EXCEPT !.pc = pc].pc = pc
      BY <3>1 DEF LaneState
    <3>. QED  BY <3>2, <3>3, <1>f DEF Goes, Continues
  <2>2. UNCHANGED <<scenario, version, live, issuing, asked>>
    BY <1>9 DEF Begin, LockEvent, Fault, FailClaim, queue, sessions
  <2>3. TableStep
    BY <1>9 DEF Begin, LockEvent, Fault, TableStep, queue
  <2>. QED  BY <2>1, <2>2, <2>3, <1>c
<1>10. ASSUME NEW g \in Event, Time(g) PROVE AccountInv'
  <2>1. TableStep
    BY <1>10 DEF TableStep
  <2>. QED  BY <1>10, <2>1, <1>c DEF Time, sessions
<1>11. ASSUME NEW p \in Process, Crash(p) PROVE AccountInv'
  <2>1. /\ UNCHANGED <<scenario, event, asked, version, live, issuing>>
        /\ lane' = [lane EXCEPT ![p] = [l \in Lane |-> Free]]
    BY <1>11 DEF Crash, queue, sessions
  <2>2. \A q \in Process, k \in Lane : lane'[q][k].pc = "revoking" => lane'[q][k] = lane[q][k]
    BY <2>1, <1>b, <1>f
  <2>3. TableStep
    BY <2>1 DEF TableStep
  <2>. QED  BY <2>1, <2>2, <2>3, AccountsRest
<1>12. CASE UNCHANGED vars
  BY <1>12, <1>c DEF vars, queue, sessions, TableStep
<1>. QED
  BY <1>1, <1>2, <1>3, <1>4, <1>5, <1>6, <1>7, <1>8, <1>9, <1>10, <1>11, <1>12
     DEF Next, Runs, LoopStep, LaneStep

\* An acknowledgement is durable proof of the revocation: no session is left that the account
\* had when the webhook accepted the event, not even of a login that was being served, and the
\* account's session version counts its acknowledged events, however often each was tried.
THEOREM AcknowledgementProves == RecoveryAssumption => (Spec => []AcknowledgedIsRevoked)
<1>. SUFFICES ASSUME RecoveryAssumption PROVE Spec => []AcknowledgedIsRevoked
  OBVIOUS
<1>1. Init => AccountInv
  <2>. SUFFICES ASSUME Init PROVE AccountInv
    OBVIOUS
  <2>1. \A p \in Process, l \in Lane : ~Revoking(p, l)
    BY DEF Init, Revoking, Free
  <2>2. \A s : Queued(s) = {}
    BY DEF Init, Queued, Stored
  <2>3. VersionCounts
    BY <2>2, FS_EmptySet DEF Init, VersionCounts, Acked
  <2>4. AskedBefore
    BY DEF Init, AskedBefore, AccountOf, RecoveryAssumption
  <2>5. LoginHolds
    BY DEF Init, LoginHolds
  <2>. QED  BY <2>1, <2>2, <2>3, <2>4, <2>5 DEF AccountInv, AckedIsPast, RevokerHolds, OneRevoker
<1>2. QueueInv /\ QueueInv' /\ AccountInv /\ [Next]_vars => AccountInv'
  BY AccountStep
<1>3. AccountInv => AcknowledgedIsRevoked
  BY DEF AccountInv, AckedIsPast, VersionCounts, AcknowledgedIsRevoked, Acked
<1>4. Spec => []QueueInv
  BY QueueKept
<1>. QED  BY <1>1, <1>2, <1>3, <1>4, PTL DEF Spec
=============================================================================
