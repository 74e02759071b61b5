------------------------ MODULE RecoveryRevocations ------------------------
(* Recovery events: the identity provider reports that an account was recovered
   (processRecoveryWebhook, src/human-administration.ts), and workers revoke the
   account's browser sessions (src/jobs/process-recovery-revocations.ts).

   One database transaction of the webhook, of a claim, or of failClaim is one
   step. The transaction that revokes takes the event's row lock, then the
   account's, and commits: three steps, between which logins of the account are
   served. Clocks are abstracted to what the code compares them with. *)
EXTENDS Naturals, FiniteSets

CONSTANTS
    Event,          \* events as the provider numbers them, by (issuer, eventId)
    Digest,         \* what a sender may sign under the same number
    Account,
    Scenarios,      \* bound: what takes part in an execution, one of these records
    Process, Lane,  \* worker processes; up to RECOVERY_CONCURRENCY lanes in each
    MaxAttempts,    \* [Process -> Nat]: RECOVERY_MAX_ATTEMPTS, as rolling deployments set it
    BatchSize,
    None            \* NULL

Open == {"pending", "retry", "processing"}
Failed == {"failed", "expired"}
Status == Open \cup Failed \cup {"acknowledged"}

Row == [status : Status, digest : Digest, attempts : Nat,
        owner : Process \cup {None}, lease : {"none", "held", "over"},
        due : {"now", "later"}, age : {"young", "overdue", "over"}, alerted : {"no", "yes"}]

ASSUME RecoveryAssumption ==
    /\ Scenarios \subseteq [link : [Event -> Account \cup {None}], events : SUBSET Event,
                             digests : SUBSET Digest, processes : SUBSET Process,
                             lanes : SUBSET Lane, crashes : Nat]
    /\ MaxAttempts \in [Process -> Nat \ {0}]
    /\ BatchSize \in Nat \ {0}
    /\ None \notin Event \cup Digest \cup Account \cup Process \cup Row

VARIABLES
    scenario,   \* the events that arrive, what is signed under their numbers, the account of
                \* each one's identity, the processes that run, their lanes, and a bound on
                \* their crashes
    event,      \* [Event -> row or None]
    accepted,   \* <<event, digest>> the webhook has answered 200 or 202 for
    version,    \* [Account -> Nat]: sessionVersion
    live,       \* [Account -> SUBSET Nat]: the versions of the unrevoked sessions
    issuing,    \* [Account -> Nat or None]: the version an open issuance has read
    asked,      \* [Event -> Nat]: history, the account's version at the acceptance
    worker,     \* [Process -> [pc, claimed, paging]]: paging, the rows of an alert
    lane,       \* [Process -> [Lane -> [pc, event, attempt, found]]]
    crashes

queue == <<event, accepted, asked>>
sessions == <<version, live>>
vars == <<scenario, queue, sessions, issuing, worker, lane, crashes>>

Fresh(d) ==
    [status |-> "pending", digest |-> d, attempts |-> 0, owner |-> None, lease |-> "none",
     due |-> "now", age |-> "young", alerted |-> "no"]
\* Mutant: the lease is left in the row.
ReleasedLeased(e, status) == [event[e] EXCEPT !.status = status]
Released(e, status) ==
    [event[e] EXCEPT !.status = status, !.owner = None, !.lease = "none"]
Free == [pc |-> "free", event |-> None, attempt |-> 0, found |-> {}]
Started == [pc |-> "opening", claimed |-> 0, paging |-> {}]
Dead == [pc |-> "dead", claimed |-> 0, paging |-> {}]

Init ==
    /\ scenario \in Scenarios
    /\ event = [e \in Event |-> None] /\ accepted = {} /\ asked = [e \in Event |-> 0]
    /\ version = [a \in Account |-> 0] /\ live = [a \in Account |-> {}]
    /\ issuing = [a \in Account |-> None]
    /\ worker = [p \in Process |-> IF p \in scenario.processes THEN Started ELSE Dead]
    /\ lane = [p \in Process |-> [l \in Lane |-> Free]]
    /\ crashes = 0

AccountOf(e) == scenario.link[e]
Stored == {e \in Event : event[e] # None}
Queued(statuses) == {e \in Stored : event[e].status \in statuses}

\* Row locks, of the transactions that are open.
LockedBy(e, p, l) == lane[p][l].event = e /\ lane[p][l].pc \in {"locked", "revoking"}
EventLocked(e) == \E p \in Process, l \in Lane : LockedBy(e, p, l)
AccountLocked(a) ==
    \/ issuing[a] # None
    \/ \E p \in Process, l \in Lane : lane[p][l].pc = "revoking" /\ AccountOf(lane[p][l].event) = a

-----------------------------------------------------------------------------
(* The webhook, and the logins of the account meanwhile. *)

\* Mutant: whatever comes under a number already stored is accepted.
WebhookAny(e, d) ==
    /\ event' = [event EXCEPT ![e] = IF @ = None THEN Fresh(d) ELSE @]
    /\ asked' = [asked EXCEPT ![e] =
          IF event[e] # None \/ AccountOf(e) = None THEN @ ELSE version[AccountOf(e)]]
    /\ accepted' = accepted \cup {<<e, d>>}
    /\ UNCHANGED <<scenario, sessions, issuing, worker, lane, crashes>>

\* ON CONFLICT DO NOTHING: a repeated event changes nothing and is accepted when it is
\* the same in every signed part. The sender may lose the answer and send it again.
Webhook(e, d) ==
    /\ IF event[e] = None
       THEN /\ event' = [event EXCEPT ![e] = Fresh(d)]
            /\ asked' = [asked EXCEPT ![e] = IF AccountOf(e) = None THEN 0 ELSE version[AccountOf(e)]]
            /\ accepted' = accepted \cup {<<e, d>>}
       ELSE /\ event[e].digest = d /\ accepted' = accepted \cup {<<e, d>>}
            /\ UNCHANGED <<event, asked>>
    /\ UNCHANGED <<scenario, sessions, issuing, worker, lane, crashes>>

\* A login locks its account (src/sessions.ts), then inserts a session of the version it
\* has read.
BeginLogin(a) ==
    /\ ~AccountLocked(a)
    /\ issuing' = [issuing EXCEPT ![a] = version[a]]
    /\ UNCHANGED <<scenario, queue, sessions, worker, lane, crashes>>

Login(a) ==
    /\ issuing[a] # None
    /\ live' = [live EXCEPT ![a] = @ \cup {issuing[a]}]
    /\ issuing' = [issuing EXCEPT ![a] = None]
    /\ UNCHANGED <<scenario, queue, version, worker, lane, crashes>>

-----------------------------------------------------------------------------
(* alertOverdueRecoveryRevocations, at the beginning and the end of a batch. *)

Alerting(p) == worker[p].pc \in {"opening", "closing"}
Onward(p) ==
    IF worker[p].pc = "opening"
    THEN [pc |-> "claiming", claimed |-> 0, paging |-> {}] ELSE Started

\* Mutant: an event whose outcome is final needs no page.
OverdueOpen == {e \in Queued(Open) : event[e].age # "young" /\ event[e].alerted = "no"}
\* What the alert selects, without a lock.
Overdue ==
    {e \in Stored : /\ event[e].status # "acknowledged"
                    /\ event[e].age # "young" /\ event[e].alerted = "no"}

\* The advisory lock is only tried; who has it keeps it up to the commit.
AlertRead(p) ==
    LET found == IF \E q \in Process : worker[q].paging # {} THEN {} ELSE Overdue IN
    /\ Alerting(p) /\ worker[p].paging = {}
    /\ worker' = [worker EXCEPT ![p] = IF found = {} THEN Onward(p) ELSE [@ EXCEPT !.paging = found]]
    /\ UNCHANGED <<scenario, queue, sessions, issuing, lane, crashes>>

\* The alert is delivered and the rows that were read are marked. The UPDATE waits for
\* the transactions that hold them.
Paged(p) ==
    /\ worker[p].paging # {} /\ \A e \in worker[p].paging : ~EventLocked(e)
    /\ event' = [e \in Event |->
         IF e \in worker[p].paging THEN [event[e] EXCEPT !.alerted = "yes"] ELSE event[e]]
    /\ worker' = [worker EXCEPT ![p] = Onward(p)]
    /\ UNCHANGED <<scenario, accepted, asked, sessions, issuing, lane, crashes>>

\* The alert sink refuses: nothing is marked.
PageFails(p) ==
    /\ worker[p].paging # {}
    /\ worker' = [worker EXCEPT ![p] = Onward(p)]
    /\ UNCHANGED <<scenario, queue, sessions, issuing, lane, crashes>>

-----------------------------------------------------------------------------
(* claimRecoveryRevocations, with a batch size of one: the three statements skip the
   rows that are locked. *)

OneOrNone(S) == IF S = {} THEN {{}} ELSE {{x} : x \in S}
Unlocked(statuses) == {e \in Queued(statuses) : ~EventLocked(e)}

Expirable == {e \in Unlocked(Open) : event[e].age = "over"}
LeaseLost(e) == event[e].status = "processing" /\ event[e].lease = "over"
Exhausted(p) ==
    {e \in Unlocked(Open) : /\ LeaseLost(e) /\ event[e].age # "over"
                            /\ event[e].attempts >= MaxAttempts[p]}
Claimable(p) ==
    {e \in Unlocked(Open) : /\ event[e].attempts < MaxAttempts[p] /\ event[e].age # "over"
                            /\ \/ event[e].status # "processing" /\ event[e].due = "now"
                               \/ LeaseLost(e)}

\* A fresh lease token for each claim: the number of the attempt stands for it.
Claimed(e, p) ==
    [event[e] EXCEPT !.status = "processing", !.attempts = @ + 1, !.owner = p, !.lease = "held"]

\* The loop claims the next event once the transaction of the last one has begun.
Claim(p, l) ==
    /\ l \in scenario.lanes /\ lane[p][l].pc = "free"
    /\ worker[p].pc = "claiming" /\ worker[p].claimed < BatchSize
    /\ \A k \in Lane : lane[p][k].pc # "claimed"
    /\ \E x \in OneOrNone(Expirable), y \in OneOrNone(Exhausted(p)), z \in OneOrNone(Claimable(p)) :
         /\ event' = [e \in Event |->
              IF e \in x THEN Released(e, "expired")
              ELSE IF e \in y THEN Released(e, "failed")
              ELSE IF e \in z THEN Claimed(e, p) ELSE event[e]]
         /\ IF z = {}
            THEN worker' = [worker EXCEPT ![p].pc = "draining"] /\ UNCHANGED lane
            ELSE /\ worker' = [worker EXCEPT ![p].claimed = @ + 1]
                 /\ \E e \in z : lane' = [lane EXCEPT ![p][l] =
                      [pc |-> "claimed", event |-> e, attempt |-> event'[e].attempts, found |-> {}]]
    /\ UNCHANGED <<scenario, accepted, asked, sessions, issuing, crashes>>

Drain(p) ==
    /\ \/ worker[p].pc = "draining"
       \/ worker[p].pc = "claiming" /\ worker[p].claimed = BatchSize
    /\ \A l \in Lane : lane[p][l].pc = "free"
    /\ worker' = [worker EXCEPT ![p].pc = "closing"]
    /\ UNCHANGED <<scenario, queue, sessions, issuing, lane, crashes>>

-----------------------------------------------------------------------------
(* processRecoveryClaimStarted, with the PostgreSQL adapter. *)

At(p, l, pc) == lane[p][l].pc = pc
Target(p, l) == lane[p][l].event
AccountIn(p, l) == AccountOf(Target(p, l))
Goes(p, l, record) == lane' = [lane EXCEPT ![p][l] = record]
Continues(p, l, pc) == Goes(p, l, [lane[p][l] EXCEPT !.pc = pc])

\* Mutant: a claim is never given up for lost.
FencedNever(e, p, attempt) == TRUE
\* The lease is still the one of this claim.
Fenced(e, p, attempt) ==
    /\ event[e].status = "processing" /\ event[e].owner = p
    /\ event[e].attempts = attempt

\* The transaction gets a connection of the pool.
Begin(p, l) ==
    /\ At(p, l, "claimed") /\ Continues(p, l, "begun")
    /\ UNCHANGED <<scenario, queue, sessions, issuing, worker, crashes>>

\* SELECT ... FOR UPDATE of the claimed row, or the lease is lost.
LockEvent(p, l) ==
    LET e == Target(p, l) IN
    /\ At(p, l, "begun") /\ ~EventLocked(e)
    /\ IF Fenced(e, p, lane[p][l].attempt) /\ event[e].lease = "held" /\ event[e].age # "over"
       THEN Continues(p, l, "locked") ELSE Goes(p, l, Free)
    /\ UNCHANGED <<scenario, queue, sessions, issuing, worker, crashes>>

\* Mutant: the sessions are looked for without waiting for a login of the account.
FreeForAll(a) == TRUE
AccountFree(a) == a # None => ~AccountLocked(a)

\* The adapter locks the account and finds its sessions.
Revoke(p, l) ==
    LET a == AccountIn(p, l) IN
    /\ At(p, l, "locked") /\ AccountFree(a)
    /\ Goes(p, l, [lane[p][l] EXCEPT !.pc = "revoking", !.found = IF a = None THEN {} ELSE live[a]])
    /\ UNCHANGED <<scenario, queue, sessions, issuing, worker, crashes>>

\* Mutant: an event is acknowledged without a new session version.
VersionKept(a) == version
Bumped(a) == [version EXCEPT ![a] = @ + 1]

\* COMMIT: a new session version, the sessions revoked and the event acknowledged. Its
\* answer may be lost, and then failClaim follows.
Acknowledge(p, l) ==
    LET e == Target(p, l)
        a == AccountIn(p, l)
    IN
    /\ At(p, l, "revoking")
    /\ event' = [event EXCEPT ![e] = Released(e, "acknowledged")]
    /\ IF a = None
       THEN UNCHANGED sessions
       ELSE /\ version' = Bumped(a)
            /\ live' = [live EXCEPT ![a] = @ \ lane[p][l].found]
    /\ Goes(p, l, Free) \/ Continues(p, l, "failing")
    /\ UNCHANGED <<scenario, accepted, asked, issuing, worker, crashes>>

\* The adapter fails or its time is over, or no connection is to be had: what the
\* transaction did is rolled back.
Fault(p, l) ==
    /\ lane[p][l].pc \in {"claimed", "begun", "locked", "revoking"}
    /\ Continues(p, l, "failing")
    /\ UNCHANGED <<scenario, queue, sessions, issuing, worker, crashes>>

\* failClaim: a transaction of its own, and no effect if the lease is no longer this one.
FailClaim(p, l) ==
    LET e == Target(p, l)
        terminal == lane[p][l].attempt >= MaxAttempts[p]
    IN
    /\ At(p, l, "failing") /\ ~EventLocked(e)
    /\ event' = IF Fenced(e, p, lane[p][l].attempt)
                THEN [event EXCEPT ![e] =
                        [Released(e, IF terminal THEN "failed" ELSE "retry") EXCEPT !.due = "later"]]
                ELSE event
    /\ Goes(p, l, Free)
    /\ UNCHANGED <<scenario, accepted, asked, sessions, issuing, worker, crashes>>

-----------------------------------------------------------------------------
(* Time, crashes, and the next-state relation. *)

Due(e) == event[e].status = "retry" /\ event' = [event EXCEPT ![e].due = "now"]
LeaseEnds(e) == event[e].lease = "held" /\ event' = [event EXCEPT ![e].lease = "over"]
\* Five seconds, then fifteen minutes since the acceptance.
Ages(e) ==
    /\ event[e].age # "over"
    /\ event' = [event EXCEPT ![e].age = IF @ = "young" THEN "overdue" ELSE "over"]

Time(e) ==
    /\ e \in Stored
    /\ (Due(e) \/ LeaseEnds(e) \/ Ages(e))
    /\ UNCHANGED <<scenario, accepted, asked, sessions, issuing, worker, lane, crashes>>

\* The process dies, stops, or exits on an error of the database outside a lane's
\* transaction; what was open is rolled back.
Crash(p) ==
    /\ crashes < scenario.crashes /\ worker[p].pc # "dead" /\ crashes' = crashes + 1
    /\ worker' = [worker EXCEPT ![p] = Dead]
    /\ lane' = [lane EXCEPT ![p] = [l \in Lane |-> Free]]
    /\ UNCHANGED <<scenario, queue, sessions, issuing>>

Restart(p) ==
    /\ p \in scenario.processes /\ worker[p].pc = "dead" /\ worker' = [worker EXCEPT ![p] = Started]
    /\ UNCHANGED <<scenario, queue, sessions, issuing, lane, crashes>>

LoopStep(p) ==
    AlertRead(p) \/ Drain(p) \/ Restart(p) \/ \E l \in Lane : Claim(p, l)
LaneStep(p, l) ==
    \/ Begin(p, l) \/ LockEvent(p, l) \/ Revoke(p, l) \/ Acknowledge(p, l)
    \/ Fault(p, l) \/ FailClaim(p, l)

Runs(p) ==
    \/ LoopStep(p) \/ Paged(p) \/ PageFails(p)
    \/ \E l \in Lane : LaneStep(p, l)

Next ==
    \/ \E e \in scenario.events, d \in scenario.digests : Webhook(e, d)
    \/ \E a \in Account : BeginLogin(a) \/ Login(a)
    \/ \E p \in Process : Runs(p) \/ Crash(p)
    \/ \E e \in Event : Time(e)

Spec == Init /\ [][Next]_vars

\* A process runs and is restarted (its loop waits for its lanes, so neither goes on
\* alone), time passes, a login that has locked its account ends, and the alert sink
\* takes an alert that is emitted again and again.
FairSpec ==
    /\ Spec
    /\ \A p \in Process : WF_vars(Runs(p))
    /\ SF_vars(\E p \in Process : Paged(p))
    /\ WF_vars(\E e \in Event : Time(e))
    /\ \A a \in Account : WF_vars(Login(a))

-----------------------------------------------------------------------------
(* Properties. *)

\* Every variable stays within its type, and the checks of the table hold: a lease exactly
\* while an event is processed, by a process that counted an attempt for it.
TypeOK ==
    /\ scenario \in Scenarios /\ accepted \subseteq Event \X Digest /\ asked \in [Event -> Nat]
    /\ version \in [Account -> Nat] /\ live \in [Account -> SUBSET Nat]
    /\ issuing \in [Account -> Nat \cup {None}] /\ crashes \in 0..scenario.crashes
    /\ worker \in [Process -> [pc : {"opening", "claiming", "draining", "closing", "dead"},
                               claimed : 0..BatchSize, paging : SUBSET Event]]
    /\ lane \in [Process -> [Lane -> [pc : {"free", "claimed", "begun", "locked", "revoking", "failing"},
                                      event : Event \cup {None}, attempt : Nat, found : SUBSET Nat]]]
    /\ \A e \in Stored :
         /\ event[e] \in Row
         /\ event[e].status = "processing" <=> event[e].owner # None /\ event[e].lease # "none"
         /\ event[e].status = "processing" => event[e].attempts > 0

\* An acknowledgement is durable proof of the revocation: no session the account had when
\* the event was accepted is left, not even one whose login was being served, and each
\* acknowledged event has counted for one session version, however often it was tried.
AcknowledgedIsRevoked ==
    /\ \A e \in Queued({"acknowledged"}) :
         AccountOf(e) # None => \A v \in live[AccountOf(e)] : v > asked[e]
    /\ \A a \in Account :
         version[a] = Cardinality({e \in Queued({"acknowledged"}) : AccountOf(e) = a})

\* "Acknowledged, failed, and expired states are durable": no late answer of a worker that
\* lost its lease changes them.
SettledIsFinal ==
    [][\A e \in Queued(Failed \cup {"acknowledged"}) :
          event'[e].status = event[e].status]_vars

\* What the webhook accepted is acknowledged, or somebody is told that it was not, and
\* nothing it accepted was another event than the one settled.
AcceptedIsSettled ==
    \A e \in Event :
        (\E d \in Digest : <<e, d>> \in accepted)
        ~> /\ e \in Stored
           /\ \/ event[e].status = "acknowledged"
              \/ event[e].status \in Failed /\ event[e].alerted = "yes"
           /\ \A d \in Digest : <<e, d>> \in accepted => event[e].digest = d
=============================================================================
