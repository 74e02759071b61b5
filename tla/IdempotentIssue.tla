-------------------------- MODULE IdempotentIssue --------------------------
(* Issuing invitations under an Idempotency-Key: the transaction of
   issueIdempotent, statement by statement, run by concurrent requests and
   retries of the same key, and the cleanup of expired records.

   A statement sees what was committed before it began and waits for a row, or
   a unique key, that an open transaction has written. "record" is the committed
   row of a scoped key; "writer" is the open transaction that deleted it or
   inserted its successor. A retry after a lost answer is a further request. *)
EXTENDS Integers, Sequences, FiniteSets

CONSTANTS
    Request,        \* HTTP requests in flight
    Key,            \* idempotency keys with their scope (actor, condominium, route)
    Hash,           \* canonical hashes of request bodies
    MaxAttempts,    \* tokens tried by one request (MAX_TOKEN_ATTEMPTS)
    BatchSize,      \* records one cleanup deletes at most
    MaxRequests,    \* bound on the requests received
    MaxCrashes,     \* bound on the transactions lost with their process
    None            \* no open writer

ASSUME IssueAssumption ==
    /\ MaxAttempts \in Nat \ {0} /\ BatchSize \in Nat \ {0}
    /\ MaxRequests \in Nat /\ MaxCrashes \in Nat
    /\ None \notin Request

VARIABLES
    record,     \* the committed record of each key: the batch it replays and its life
    writer,     \* the open transaction that wrote the key's record
    req,        \* the progress and the answer of each request
    batches,    \* every batch of invitations ever committed
    requests,   \* requests received so far
    crashes     \* transactions lost so far

vars == <<record, writer, req, batches, requests, crashes>>

Steps == {"idle", "delete", "insert", "read", "persist", "confirm"}
Answers == {"none", "created", "replayed", "conflict", "missing", "failed"}

NoRecord == [batch |-> 0, life |-> "none"]
Records == [batch : Nat, life : {"none", "live", "expired"}]
Batches == [key : Key, hash : Hash, window : {"open", "closed"}]
Requests == [pc : Steps, key : Key, hash : Hash, attempt : 1..MaxAttempts,
             answer : Answers, batch : Nat]

Init ==
    /\ record = [k \in Key |-> NoRecord]
    /\ writer = [k \in Key |-> None]
    /\ \E k \in Key, h \in Hash :
         req = [r \in Request |-> [pc |-> "idle", key |-> k, hash |-> h, attempt |-> 1,
                                   answer |-> "none", batch |-> 0]]
    /\ batches = <<>> /\ requests = 0 /\ crashes = 0

-----------------------------------------------------------------------------
(* Steps of a request. *)

MoveTo(r, step) == req' = [req EXCEPT ![r].pc = step]

Answer(r, kind, b) ==
    req' = [req EXCEPT ![r].pc = "idle", ![r].answer = kind, ![r].batch = b]

\* The open transaction gives back the key it wrote, if it wrote it.
Release(r) == writer' = [k \in Key |-> IF writer[k] = r THEN None ELSE writer[k]]

\* The route validates the header and the body and hands the request to the store.
Arrive(r, k, h) ==
    /\ req[r].pc = "idle" /\ requests < MaxRequests
    /\ requests' = requests + 1
    /\ req' = [req EXCEPT ![r] = [pc |-> "delete", key |-> k, hash |-> h, attempt |-> 1,
                                  answer |-> "none", batch |-> 0]]
    /\ UNCHANGED <<record, writer, batches, crashes>>

\* Mutant: the record is deleted whether or not it has expired.
DeletableAlways(k) == record[k].life # "none"

\* What the first DELETE of the transaction may remove.
Deletable(k) == record[k].life = "expired"

\* DELETE the confirmed record of the key if it has expired; it waits when another
\* transaction has deleted that row.
DeleteExpired(r) ==
    LET k == req[r].key IN
    /\ req[r].pc = "delete"
    /\ \/ Deletable(k) /\ writer[k] = None /\ writer' = [writer EXCEPT ![k] = r]
       \/ ~Deletable(k) /\ UNCHANGED writer
    /\ MoveTo(r, "insert")
    /\ UNCHANGED <<record, batches, requests, crashes>>

\* Mutant: the insert does not wait for an uncommitted writer.
NeverWaits(r) == FALSE

\* Mutant: the insert also waits for a committed record, until it expires.
WaitsForRecord(r) ==
    writer[req[r].key] \notin {None, r} \/ record[req[r].key].life = "live"

\* INSERT ... ON CONFLICT DO NOTHING: the unique index makes it wait for another
\* writer of the key; a committed record it has not itself deleted is the conflict.
InsertWaits(r) == writer[req[r].key] \notin {None, r}
Conflicts(r) == record[req[r].key].life # "none" /\ writer[req[r].key] # r

Insert(r) ==
    /\ req[r].pc = "insert" /\ ~InsertWaits(r)
    /\ IF Conflicts(r)
       THEN MoveTo(r, "read") /\ UNCHANGED writer
       ELSE MoveTo(r, "persist") /\ writer' = [writer EXCEPT ![req[r].key] = r]
    /\ UNCHANGED <<record, batches, requests, crashes>>

\* Mutant: the stored body hash is not compared.
ReplayAny(r) == record[req[r].key].life # "none"

\* The loser reads the record in a statement of its own: it replays the stored
\* answer of the same request, and everything else is a conflict.
Replayable(r) ==
    LET row == record[req[r].key] IN
    row.life # "none" /\ batches[row.batch].hash = req[r].hash

Read(r) ==
    /\ req[r].pc = "read"
    /\ IF Replayable(r)
       THEN Answer(r, "replayed", record[req[r].key].batch)
       ELSE Answer(r, "conflict", 0)
    /\ UNCHANGED <<record, writer, batches, requests, crashes>>

\* persistBatch creates the invitations.
Persist(r) ==
    /\ req[r].pc = "persist"
    /\ MoveTo(r, "confirm")
    /\ UNCHANGED <<record, writer, batches, requests, crashes>>

\* Mutant: the missing resource is answered and the transaction left open.
WithdrawUnended(r) ==
    /\ req[r].pc = "persist"
    /\ Answer(r, "missing", 0)
    /\ UNCHANGED <<record, writer, batches, requests, crashes>>

\* persistBatch finds a guest, the resident or the condominium gone: the record is
\* deleted and the transaction commits, the expired predecessor deleted with it.
Withdraw(r) ==
    /\ req[r].pc = "persist"
    /\ record' = [record EXCEPT ![req[r].key] = NoRecord]
    /\ Release(r) /\ Answer(r, "missing", 0)
    /\ UNCHANGED <<batches, requests, crashes>>

\* Another active invitation has the random token: roll back and try another one, or
\* give up after MaxAttempts.
Collide(r) ==
    /\ req[r].pc = "persist"
    /\ Release(r)
    /\ IF req[r].attempt < MaxAttempts
       THEN req' = [req EXCEPT ![r].pc = "delete", ![r].attempt = @ + 1]
       ELSE Answer(r, "failed", 0)
    /\ UNCHANGED <<record, batches, requests, crashes>>

\* The daily limit, an expiration no longer in the future, an invalid time zone or a
\* failing response builder: everything rolls back.
Fail(r) ==
    /\ req[r].pc \in {"persist", "confirm"}
    /\ Release(r) /\ Answer(r, "failed", 0)
    /\ UNCHANGED <<record, batches, requests, crashes>>

\* The response and the delivery intents are stored, the record is confirmed with its
\* expiry, and the transaction commits: the replay window of the batch opens.
Confirm(r) ==
    LET b == Len(batches) + 1 IN
    /\ req[r].pc = "confirm"
    /\ batches' = Append(batches, [key |-> req[r].key, hash |-> req[r].hash, window |-> "open"])
    /\ record' = [record EXCEPT ![req[r].key] = [batch |-> b, life |-> "live"]]
    /\ Release(r) /\ Answer(r, "created", b)
    /\ UNCHANGED <<requests, crashes>>

\* The process or its connection dies: PostgreSQL rolls the transaction back.
Crash(r) ==
    /\ req[r].pc # "idle" /\ crashes < MaxCrashes
    /\ crashes' = crashes + 1
    /\ Release(r) /\ Answer(r, "failed", 0)
    /\ UNCHANGED <<record, batches, requests>>

-----------------------------------------------------------------------------
(* Time and the cleanup job. *)

\* expiresAt passes: the replay window of the batch is over.
Expire(k) ==
    /\ record[k].life = "live"
    /\ record' = [record EXCEPT ![k].life = "expired"]
    /\ batches' = [batches EXCEPT ![record[k].batch].window = "closed"]
    /\ UNCHANGED <<writer, req, requests, crashes>>

\* Confirmed, expired and locked by nobody.
Cleanable == {k \in Key : record[k].life = "expired" /\ writer[k] = None}

\* The first BatchSize of them by expiry, which is the order of their confirmation.
Page == {k \in Cleanable :
           Cardinality({j \in Cleanable : record[j].batch < record[k].batch}) < BatchSize}

\* One statement selects a page and deletes it.
Cleanup ==
    /\ Page # {}
    /\ record' = [k \in Key |-> IF k \in Page THEN NoRecord ELSE record[k]]
    /\ UNCHANGED <<writer, req, batches, requests, crashes>>

-----------------------------------------------------------------------------
\* The bound on requests is used up and every one is answered: the model may rest.
Rest ==
    /\ requests = MaxRequests
    /\ \A r \in Request : req[r].pc = "idle"
    /\ UNCHANGED vars

RequestStep(r) ==
    \/ DeleteExpired(r) \/ Insert(r) \/ Read(r)
    \/ Persist(r) \/ Withdraw(r) \/ Collide(r) \/ Fail(r) \/ Confirm(r)

Next ==
    \/ \E r \in Request :
         \/ \E k \in Key, h \in Hash : Arrive(r, k, h)
         \/ DeleteExpired(r) \/ Insert(r) \/ Read(r)
         \/ Persist(r) \/ Withdraw(r) \/ Collide(r) \/ Fail(r) \/ Confirm(r)
         \/ Crash(r)
    \/ \E k \in Key : Expire(k)
    \/ Cleanup
    \/ Rest

Spec == Init /\ [][Next]_vars

\* A transaction that can go on does, and the cleanup is scheduled every hour. Keys
\* need not expire, and no particular outcome of persistBatch is promised.
Fairness == (\A r \in Request : WF_vars(RequestStep(r))) /\ WF_vars(Cleanup)

FairSpec == Spec /\ Fairness

-----------------------------------------------------------------------------
(* Properties. *)

\* Every variable stays within its type, a record names a committed batch, and a key's
\* writer is a request that has that key open.
TypeOK ==
    /\ record \in [Key -> Records]
    /\ writer \in [Key -> Request \cup {None}]
    /\ req \in [Request -> Requests]
    /\ batches \in Seq(Batches)
    /\ requests \in Nat /\ crashes \in Nat
    /\ \A k \in Key : record[k].life # "none" => record[k].batch \in 1..Len(batches)
    /\ \A k \in Key : writer[k] # None =>
         req[writer[k]].key = k /\ req[writer[k]].pc \in {"insert", "persist", "confirm"}

\* While a batch can be replayed no second batch is issued under its key: concurrent
\* requests, retries, crashes and cleanups of the key never issue twice.
OneBatchPerWindow ==
    \A i, j \in 1..Len(batches) :
        /\ batches[i].window = "open" /\ batches[j].window = "open"
        /\ batches[i].key = batches[j].key
        => i = j

\* A replayed or created answer is that of the batch committed for this very key and
\* body, never of another request that happened to own the key.
AnswersTheRequest ==
    \A r \in Request : req[r].answer \in {"created", "replayed"} =>
        /\ req[r].batch \in 1..Len(batches)
        /\ batches[req[r].batch].key = req[r].key
        /\ batches[req[r].batch].hash = req[r].hash

\* Every request is answered: no request waits forever for the writer of its key.
EveryRequestAnswered == \A r \in Request : req[r].pc # "idle" ~> req[r].pc = "idle"

=============================================================================
