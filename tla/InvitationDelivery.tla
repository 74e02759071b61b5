------------------------- MODULE InvitationDelivery -------------------------
(***************************************************************************)
(* The invitation delivery workers (src/jobs/deliver-invitations.ts).      *)
(*                                                                         *)
(* Every committed invitation leaves DeliveryIntent rows behind, one per   *)
(* channel.  Worker processes claim due rows in batches under a lease,     *)
(* hand them to an external provider outside any transaction, and record   *)
(* the outcome with updates fenced by the lease's owner and token.         *)
(*                                                                         *)
(* One UPDATE, or one database transaction, is one step; provider calls    *)
(* and everything awaited between two statements interleave.  Clocks are   *)
(* abstracted to what the code compares them with: a lease is live or has  *)
(* expired, a row's nextAttemptAt has come or not.                         *)
(***************************************************************************)
EXTENDS Naturals, FiniteSets

CONSTANTS
    Intent,         \* the DeliveryIntent rows
    Proc,           \* worker processes; two may run under one DELIVERY_WORKER_ID
    WorkerOf,       \* [Proc -> worker ids]: DELIVERY_WORKER_ID of each process
    Deployments,    \* how DELIVERY_MAX_ATTEMPTS may be set: functions of [Proc -> Nat \ {0}]
    NoOwner,        \* the NULL of leaseOwner
    Unreadable,     \* the intents whose payload does not decrypt or validate
    BatchSize,      \* DELIVERY_BATCH_SIZE
    Concurrency,    \* DELIVERY_CONCURRENCY
    MaxFaults       \* bound: crashes, stops, database errors, premature expiries

ASSUME DeliveryAssumption ==
    /\ Deployments \subseteq [Proc -> Nat \ {0}]
    /\ NoOwner \notin {WorkerOf[p] : p \in Proc}
    /\ Unreadable \subseteq Intent
    /\ BatchSize \in Nat \ {0}
    /\ Concurrency \in 1 .. BatchSize
    /\ MaxFaults \in Nat

VARIABLES
    row,        \* [Intent -> Row]: the DeliveryIntent table
    issued,     \* [Intent -> Nat]: lease tokens drawn so far for a row; a fresh
                \* gen_random_uuid() is the next number, 0 is NULL
    policy,     \* the persisted attempt policy of SecurityKey, 0 before the first worker
    configured, \* [Proc -> Nat \ {0}]: DELIVERY_MAX_ATTEMPTS of each process
    mode,       \* [Proc -> Mode]: where the loop of a process is
    stopping,   \* [Proc -> BOOLEAN]: SIGINT or SIGTERM was received
    claim,      \* [Proc -> [Intent -> Claim]]: the batch a process holds in memory
    deadLanes,  \* [Proc -> Nat]: processNext lanes of the batch that threw
    offered,    \* the intents some send() was started for
    accepted,   \* the intents the provider durably accepted under their id
    outcomes,   \* [Intent -> Nat]: provider outcomes any process has observed
    faults      \* faults so far

rowVars == <<row, issued, policy, configured>>
procVars == <<mode, stopping, claim, deadLanes>>
providerVars == <<offered, accepted, outcomes>>
vars == <<row, issued, policy, configured, mode, stopping, claim, deadLanes,
          offered, accepted, outcomes, faults>>

Status == {"pending", "processing", "retry", "delivered", "dead_letter"}
Terminal == {"delivered", "dead_letter"}
Error == {"none", "transient", "permanent", "attempts_exhausted"}
Mode == {"starting", "verified", "working", "down"}
\* Where one claimed intent is inside processNext ("none": not in the batch).
Phase == {"none", "queued", "sending", "accepted", "failed", "rejected"}
Active == {"sending", "accepted", "failed", "rejected"}
WorkerId == {WorkerOf[p] : p \in Proc}

\* nextAttempt and lease stand for nextAttemptAt and leaseExpiresAt against the clock.
Row == [status : Status, attempts : Nat, nextAttempt : {"due", "later"},
        owner : WorkerId \cup {NoOwner}, token : Nat,
        lease : {"none", "live", "expired"}, error : Error]
Claim == [phase : Phase, token : Nat, attempts : Nat, lease : {"kept", "lost"}]
NoClaim == [phase |-> "none", token |-> 0, attempts |-> 0, lease |-> "kept"]
NoClaims == [i \in Intent |-> NoClaim]

Init ==
    /\ row = [i \in Intent |->
                [status |-> "pending", attempts |-> 0, nextAttempt |-> "due",
                 owner |-> NoOwner, token |-> 0, lease |-> "none", error |-> "none"]]
    /\ issued = [i \in Intent |-> 0]
    /\ policy = 0
    /\ configured \in Deployments
    /\ mode = [p \in Proc |-> "starting"]
    /\ stopping = [p \in Proc |-> FALSE]
    /\ claim = [p \in Proc |-> NoClaims]
    /\ deadLanes = [p \in Proc |-> 0]
    /\ offered = {} /\ accepted = {}
    /\ outcomes = [i \in Intent |-> 0]
    /\ faults = 0

Fault == faults < MaxFaults /\ faults' = faults + 1

-----------------------------------------------------------------------------
(* The statements of the worker, as the rows they touch.                   *)

\* Mutant: the lease token left out of the WHERE clause.
FencedByOwner(p, i) ==
    row[i].status = "processing" /\ row[i].owner = WorkerOf[p] /\ claim[p][i].token # 0

\* The WHERE clause every lease-holder's update carries.
Fenced(p, i) ==
    /\ row[i].status = "processing"
    /\ row[i].owner = WorkerOf[p]
    /\ row[i].token = claim[p][i].token

\* The row after its lease columns are cleared.
Unleased(r) == [r EXCEPT !.owner = NoOwner, !.token = 0, !.lease = "none"]

\* claimDeliveries' first statement dead-letters what has no attempt left.
ExhaustedNow(p, i) ==
    /\ row[i].status = "processing" /\ row[i].lease = "expired"
    /\ row[i].attempts >= configured[p]

\* Mutant: rows whose lease expired are not candidates.
ClaimableFresh(p, i) ==
    /\ row[i].attempts < configured[p]
    /\ row[i].status \in {"pending", "retry"} /\ row[i].nextAttempt = "due"

\* The candidates of its second statement.
Claimable(p, i) ==
    /\ row[i].status # "delivered"
    /\ row[i].attempts < configured[p]
    /\ \/ row[i].status \in {"pending", "retry"} /\ row[i].nextAttempt = "due"
       \/ row[i].status = "processing" /\ row[i].lease = "expired"

\* Mutant: the attempt is spent at the claim.
ClaimedRowSpent(p, i) ==
    [row[i] EXCEPT !.status = "processing", !.owner = WorkerOf[p], !.attempts = @ + 1,
                   !.token = issued[i] + 1, !.lease = "live", !.error = "none"]

ClaimedRow(p, i) ==
    [row[i] EXCEPT !.status = "processing", !.owner = WorkerOf[p],
                   !.token = issued[i] + 1, !.lease = "live", !.error = "none"]

\* Mutant: success is not counted as an attempt.
DeliveredRowUncounted(i) ==
    [Unleased(row[i]) EXCEPT !.status = "delivered", !.error = "none"]

DeliveredRow(i) ==
    [Unleased(row[i]) EXCEPT !.status = "delivered", !.error = "none",
                             !.attempts = @ + 1]

\* Mutant: the budget is compared one attempt early.
LastAttemptEarly(p, i) == claim[p][i].attempts + 2 >= configured[p]

\* failDelivery decides from the attempts the claim returned, not the row's.
LastAttempt(p, i) == claim[p][i].attempts + 1 >= configured[p]

\* Mutant: a failure is not counted as an attempt.
FailedRowUncounted(p, i) ==
    [Unleased(row[i]) EXCEPT !.status = "retry", !.error = "transient", !.nextAttempt = "later"]

FailedRow(p, i) ==
    LET permanent == claim[p][i].phase = "rejected" IN
    [Unleased(row[i]) EXCEPT
        !.status = IF permanent \/ LastAttempt(p, i) THEN "dead_letter" ELSE "retry",
        !.error = IF permanent THEN "permanent" ELSE "transient",
        !.attempts = @ + 1, !.nextAttempt = "later"]

Release(p, i) == claim' = [claim EXCEPT ![p][i] = NoClaim]
Advance(p, i, phase) == claim' = [claim EXCEPT ![p][i].phase = phase]

-----------------------------------------------------------------------------
(* The loop of one process.                                                *)

\* Mutant: the persisted policy is not compared with the configured one.
VerifyNothing(p) ==
    /\ mode[p] = "starting" /\ ~stopping[p]
    /\ policy' = IF policy = 0 THEN configured[p] ELSE policy
    /\ mode' = [mode EXCEPT ![p] = "verified"]
    /\ UNCHANGED <<row, issued, configured, stopping, claim, deadLanes, providerVars, faults>>

\* verifyDeliveryPolicy: the first worker's attempt budget is persisted, and a
\* process configured with another one dies before claiming anything.
VerifyDeliveryPolicy(p) ==
    /\ mode[p] = "starting" /\ ~stopping[p]
    /\ policy' = IF policy = 0 THEN configured[p] ELSE policy
    /\ mode' = [mode EXCEPT ![p] = IF policy' = configured[p] THEN "verified" ELSE "down"]
    /\ UNCHANGED <<row, issued, configured, stopping, claim, deadLanes, providerVars, faults>>

\* claimDeliveries: as many candidates as LIMIT admits (a row that SKIP LOCKED
\* passes over is one another process is just then claiming or settling); an empty
\* batch sends the loop to sleep.
ClaimDeliveries(p, batch) ==
    /\ mode[p] = "verified"
    /\ Cardinality(batch) <= BatchSize
    /\ \A i \in batch : Claimable(p, i)
    /\ Cardinality(batch) < BatchSize => \A i \in Intent : Claimable(p, i) => i \in batch
    /\ row' = [i \in Intent |->
                 IF i \in batch THEN ClaimedRow(p, i)
                 ELSE IF ExhaustedNow(p, i)
                      THEN [Unleased(row[i]) EXCEPT !.status = "dead_letter",
                                                    !.error = "attempts_exhausted"]
                      ELSE row[i]]
    /\ issued' = [i \in Intent |-> IF i \in batch THEN issued[i] + 1 ELSE issued[i]]
    /\ claim' = [claim EXCEPT ![p] = [i \in Intent |->
                   IF i \in batch
                   THEN [phase |-> "queued", token |-> issued[i] + 1,
                         attempts |-> row[i].attempts, lease |-> "kept"]
                   ELSE NoClaim]]
    /\ mode' = [mode EXCEPT ![p] = IF batch = {} THEN "starting" ELSE "working"]
    /\ UNCHANGED <<policy, configured, stopping, deadLanes, providerVars, faults>>

\* maintainLease: one renewal, from the claim until processNext is done with the
\* provider.  The renewers of a batch stop when one of its lanes throws.
RenewDeliveryLease(p, i) ==
    /\ mode[p] = "working" /\ deadLanes[p] = 0
    /\ claim[p][i].phase \in {"queued", "sending"} /\ claim[p][i].lease = "kept"
    /\ \/ /\ Fenced(p, i) /\ row[i].lease = "expired"
          /\ row' = [row EXCEPT ![i].lease = "live"]
          /\ UNCHANGED <<claim, faults>>
       \/ /\ ~Fenced(p, i)
          /\ claim' = [claim EXCEPT ![p][i].lease = "lost"]
          /\ UNCHANGED <<row, faults>>
       \/ /\ Fault          \* the statement throws: taken as a lost lease
          /\ claim' = [claim EXCEPT ![p][i].lease = "lost"]
          /\ UNCHANGED row
    /\ UNCHANGED <<issued, policy, configured, mode, stopping, deadLanes, providerVars>>

\* A lane takes a queued claim: skipped when its lease was lost, deferred when the
\* process is stopping, rejected when the payload is unreadable, else sent.
Dispatch(p, i) ==
    /\ claim[p][i].phase = "queued"
    /\ Cardinality({j \in Intent : claim[p][j].phase \in Active}) + deadLanes[p] < Concurrency
    /\ CASE claim[p][i].lease = "lost" -> Release(p, i) /\ UNCHANGED <<offered, outcomes>>
         [] claim[p][i].lease = "kept" /\ i \in Unreadable ->
                /\ Advance(p, i, "rejected")
                /\ outcomes' = [outcomes EXCEPT ![i] = @ + 1]
                /\ UNCHANGED offered
         [] claim[p][i].lease = "kept" /\ i \notin Unreadable /\ stopping[p] ->
                Release(p, i) /\ UNCHANGED <<offered, outcomes>>
         [] OTHER ->
                /\ Advance(p, i, "sending")
                /\ offered' = offered \cup {i}
                /\ UNCHANGED outcomes
    /\ UNCHANGED <<rowVars, mode, stopping, deadLanes, accepted, faults>>

\* The provider takes the message, at any time after a send began: an aborted or
\* timed-out request may still arrive.
ProviderAccepts(i) ==
    /\ i \in offered \ accepted
    /\ accepted' = accepted \cup {i}
    /\ UNCHANGED <<rowVars, procVars, offered, outcomes, faults>>

\* Mutant: an error that matches no known class is left unclassified.
SendUnclassified(p, i) ==
    /\ claim[p][i].phase = "sending"
    /\ Advance(p, i, "unknown")
    /\ UNCHANGED <<rowVars, mode, stopping, deadLanes, providerVars, faults>>

\* sendWithDeadline settles: accepted, failed (timeout, unavailable, transient)
\* or permanently rejected by the provider.
SendSettles(p, i) ==
    /\ claim[p][i].phase = "sending"
    /\ \/ i \in accepted /\ Advance(p, i, "accepted")
       \/ Advance(p, i, "failed")
       \/ i \notin accepted /\ Advance(p, i, "rejected")
    /\ outcomes' = [outcomes EXCEPT ![i] = @ + 1]
    /\ UNCHANGED <<rowVars, mode, stopping, deadLanes, offered, accepted, faults>>

\* Shutdown aborts the send: the row is left processing, for its lease to expire.
SendAborted(p, i) ==
    /\ stopping[p] /\ claim[p][i].phase = "sending"
    /\ Release(p, i)
    /\ UNCHANGED <<rowVars, mode, stopping, deadLanes, providerVars, faults>>

\* completeDelivery after a maintained lease; a lost one leaves the row alone.  The
\* statement may throw before or after it took effect, and the catch block then
\* treats the delivery as a transient failure.
CompleteDelivery(p, i) ==
    /\ claim[p][i].phase = "accepted"
    /\ \/ /\ row' = IF Fenced(p, i) /\ claim[p][i].lease = "kept"
                    THEN [row EXCEPT ![i] = DeliveredRow(i)] ELSE row
          /\ Release(p, i)
          /\ UNCHANGED faults
       \/ /\ claim[p][i].lease = "kept"
          /\ Fault
          /\ row' \in {row, IF Fenced(p, i)
                            THEN [row EXCEPT ![i] = DeliveredRow(i)] ELSE row}
          /\ Advance(p, i, "failed")
    /\ UNCHANGED <<issued, policy, configured, mode, stopping, deadLanes, providerVars>>

\* failDelivery.  When it throws, its lane dies and the batch's renewers stop.
FailDelivery(p, i) ==
    /\ claim[p][i].phase \in {"failed", "rejected"}
    /\ Release(p, i)
    /\ \/ /\ row' = IF Fenced(p, i) /\ claim[p][i].lease = "kept"
                    THEN [row EXCEPT ![i] = FailedRow(p, i)] ELSE row
          /\ UNCHANGED <<deadLanes, faults>>
       \/ /\ claim[p][i].lease = "kept"
          /\ Fault
          /\ row' \in {row, IF Fenced(p, i)
                            THEN [row EXCEPT ![i] = FailedRow(p, i)] ELSE row}
          /\ deadLanes' = [deadLanes EXCEPT ![p] = @ + 1]
    /\ UNCHANGED <<issued, policy, configured, mode, stopping, providerVars>>

\* Every lane has returned (or thrown, and then the process exits).
BatchEnds(p) ==
    /\ mode[p] = "working"
    /\ \A i \in Intent : claim[p][i].phase \notin Active
    /\ \/ \A i \in Intent : claim[p][i].phase # "queued"
       \/ deadLanes[p] >= Concurrency
    /\ mode' = [mode EXCEPT ![p] = IF stopping[p] \/ deadLanes[p] > 0
                                   THEN "down" ELSE "starting"]
    /\ claim' = [claim EXCEPT ![p] = NoClaims]
    /\ UNCHANGED <<rowVars, stopping, deadLanes, providerVars, faults>>

\* SIGINT or SIGTERM; the loop leaves between two batches.
Stop(p) ==
    /\ mode[p] # "down" /\ ~stopping[p] /\ Fault
    /\ stopping' = [stopping EXCEPT ![p] = TRUE]
    /\ UNCHANGED <<rowVars, mode, claim, deadLanes, providerVars>>

LeaveLoop(p) ==
    /\ stopping[p] /\ mode[p] = "starting"
    /\ mode' = [mode EXCEPT ![p] = "down"]
    /\ UNCHANGED <<rowVars, stopping, claim, deadLanes, providerVars, faults>>

\* The process dies between two statements and forgets its batch.
Crash(p) ==
    /\ mode[p] # "down" /\ Fault
    /\ mode' = [mode EXCEPT ![p] = "down"]
    /\ claim' = [claim EXCEPT ![p] = NoClaims]
    /\ UNCHANGED <<rowVars, stopping, deadLanes, providerVars>>

\* The supervisor starts the worker again.
Restart(p) ==
    /\ mode[p] = "down"
    /\ mode' = [mode EXCEPT ![p] = "starting"]
    /\ stopping' = [stopping EXCEPT ![p] = FALSE]
    /\ deadLanes' = [deadLanes EXCEPT ![p] = 0]
    /\ UNCHANGED <<rowVars, claim, providerVars, faults>>

-----------------------------------------------------------------------------
(* Time.                                                                   *)

\* A live process holds row i's lease and renewed it lately.
Held(i) ==
    \E p \in Proc : /\ mode[p] = "working" /\ deadLanes[p] = 0
                    /\ claim[p][i].lease = "kept" /\ Fenced(p, i)

\* leaseExpiresAt passes: in due time when nobody renews it, prematurely (a stalled
\* process or database) as a fault.
LeaseExpires(i) ==
    /\ row[i].status = "processing" /\ row[i].lease = "live"
    /\ IF Held(i) THEN Fault ELSE UNCHANGED faults
    /\ row' = [row EXCEPT ![i].lease = "expired"]
    /\ UNCHANGED <<issued, policy, configured, procVars, providerVars>>

\* nextAttemptAt passes.
BackoffElapses(i) ==
    /\ row[i].status = "retry" /\ row[i].nextAttempt = "later"
    /\ row' = [row EXCEPT ![i].nextAttempt = "due"]
    /\ UNCHANGED <<issued, policy, configured, procVars, providerVars, faults>>

-----------------------------------------------------------------------------
Next ==
    \/ \E p \in Proc :
         \/ VerifyDeliveryPolicy(p)
         \/ \E batch \in SUBSET Intent : ClaimDeliveries(p, batch)
         \/ BatchEnds(p) \/ LeaveLoop(p) \/ Restart(p)
         \/ Stop(p) \/ Crash(p)
         \/ \E i \in Intent :
              \/ RenewDeliveryLease(p, i) \/ Dispatch(p, i)
              \/ SendSettles(p, i) \/ SendAborted(p, i)
              \/ CompleteDelivery(p, i) \/ FailDelivery(p, i)
    \/ \E i \in Intent : ProviderAccepts(i) \/ LeaseExpires(i) \/ BackoffElapses(i)

Spec == Init /\ [][Next]_vars

\* The polling loop, its lanes, a supervisor's restart and the clock go on; a
\* premature expiry, a crash, a stop and a failing statement need not happen.
Fairness ==
    /\ \A p \in Proc :
         /\ WF_vars(VerifyDeliveryPolicy(p))
         /\ WF_vars(\E batch \in SUBSET Intent : ClaimDeliveries(p, batch))
         /\ WF_vars(BatchEnds(p)) /\ WF_vars(LeaveLoop(p)) /\ WF_vars(Restart(p))
         /\ \A i \in Intent :
              /\ WF_vars(Dispatch(p, i)) /\ WF_vars(SendSettles(p, i))
              /\ WF_vars(CompleteDelivery(p, i)) /\ WF_vars(FailDelivery(p, i))
    /\ \A i \in Intent :
         /\ WF_vars(~Held(i) /\ LeaseExpires(i)) /\ WF_vars(BackoffElapses(i))

FairSpec == Spec /\ Fairness

-----------------------------------------------------------------------------
(* What the workers guarantee.                                             *)

\* Every variable stays within its type.
TypeOK ==
    /\ row \in [Intent -> Row]
    /\ issued \in [Intent -> Nat]
    /\ policy \in Nat
    /\ configured \in [Proc -> Nat \ {0}]
    /\ mode \in [Proc -> Mode]
    /\ stopping \in [Proc -> BOOLEAN]
    /\ claim \in [Proc -> [Intent -> Claim]]
    /\ deadLanes \in [Proc -> Nat]
    /\ offered \subseteq Intent /\ accepted \subseteq Intent
    /\ outcomes \in [Intent -> Nat]
    /\ faults \in Nat

\* No statement of the workers trips a CHECK constraint of the table: lease columns
\* exactly while processing, an error exactly on retry and dead_letter, and no
\* attempt counted on a pending row (migration 0016).
SchemaChecks ==
    \A i \in Intent :
      LET r == row[i] IN
      /\ r.status = "processing" =>
           r.owner # NoOwner /\ r.token # 0 /\ r.lease # "none"
      /\ r.status # "processing" =>
           r.owner = NoOwner /\ r.token = 0 /\ r.lease = "none"
      /\ r.status = "pending" => r.attempts = 0 /\ r.error = "none"
      /\ r.status = "processing" => r.error = "none"
      /\ r.status \in {"retry", "dead_letter"} => r.attempts > 0 /\ r.error # "none"
      /\ r.status = "delivered" => r.attempts > 0 /\ r.error = "none"

\* At most one process, dead ones' successors and namesakes included, can pass the
\* WHERE clause of a renewal or of a final update of a row.
OneLeaseHolder ==
    \A i \in Intent, p, q \in Proc : Fenced(p, i) /\ Fenced(q, i) => p = q

\* Why: a token is drawn once per claim, so no two processes hold the same one, none
\* is ahead of the draws, and a leased row carries one.
LeaseTokens ==
    /\ \A i \in Intent : row[i].status = "processing" => row[i].token # 0
    /\ \A p \in Proc, i \in Intent : claim[p][i].token <= issued[i]
    /\ \A p, q \in Proc, i \in Intent :
         p # q /\ claim[p][i].token = claim[q][i].token => claim[p][i].token = 0

\* Within the persisted budget an open row always has an attempt left, so it is
\* never stranded as neither claimable nor terminal, and none exceeds the budget.
AttemptsWithinPolicy ==
    \A i \in Intent :
      /\ row[i].attempts <= policy
      /\ policy # 0 /\ row[i].status \notin Terminal => row[i].attempts < policy

\* An attempt is only ever spent on a provider outcome some process observed:
\* claims, crashes, lost leases and shutdowns consume none.
AttemptsAreObserved == \A i \in Intent : row[i].attempts <= outcomes[i]

\* A row is given up only for a permanent error or with its whole budget spent on
\* observed failures; the sweep for exhausted leases never has to do it.
DeadLetterJustified ==
    \A i \in Intent : row[i].status = "dead_letter" =>
      \/ row[i].error = "permanent"
      \/ row[i].error = "transient" /\ row[i].attempts = policy

-----------------------------------------------------------------------------
(* The workers implement the outbox contract.                              *)

Outbox == INSTANCE DeliveryOutbox WITH
            state <- [i \in Intent |-> IF row[i].status \in Terminal
                                      THEN row[i].status ELSE "open"],
            tries <- [i \in Intent |-> row[i].attempts],
            taken <- accepted,
            budget <- policy

\* Every step of the workers is a step of the outbox or invisible to it.
ImplementsOutbox == Outbox!Spec

\* Every committed intent is eventually delivered or dead-lettered.
EveryIntentCloses == \A i \in Intent : <>(row[i].status \in Terminal)
=============================================================================
