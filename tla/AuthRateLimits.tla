--------------------------- MODULE AuthRateLimits ---------------------------
(* The distributed counters of src/auth-rate-limits.ts, one PostgreSQL row per
   action and subject ("bucket"), and the requests that spend from them.

   check, and the statements of reserve and finalize that follow SELECT ... FOR
   UPDATE, run under the bucket's row lock up to the commit: each is one step. What
   they read before the lock is a step of its own, and so is each statement of
   cleanup, which holds the locks of the buckets it began with. *)
EXTENDS Naturals, FiniteSets, Sequences, Functions

CONSTANTS
    Bucket,
    Policy,     \* [Bucket -> [limit, window, backoff]]; backoff 0 where there is none
    Request, Cleaner,
    Traffic,    \* bound: set of [Request -> plan], what the requests of an execution do
    IdleTime,   \* 24 hours: when cleanup deletes an untouched bucket
    MaxTime,    \* bound on the clock
    None        \* no row, NULL

\* A plan: "guard" reserves and then fails or succeeds, "accept" reserves and always
\* consumes, "check" only counts.
Kinds == {"guard", "accept", "check"}

BucketRow == [start : Nat, count : Nat, denied : Nat, reserved : Nat, blocked : Nat, updated : Nat]

\* An action is either checked or reserved (AuthReservationRateLimitAction), and a
\* request reserves a bucket once.
ASSUME RateAssumption ==
    /\ Policy \in [Bucket -> [limit : Nat \ {0}, window : Nat \ {0}, backoff : Nat]]
    /\ \A b \in Bucket : Policy[b].window < IdleTime
    /\ IdleTime \in Nat /\ MaxTime \in Nat \ {0}
    /\ IsFiniteSet(Request)
    /\ \A p \in Traffic :
         /\ p \in [Request -> [kind : Kinds, buckets : Seq(Bucket)]]
         /\ \A r \in Request : p[r].buckets # <<>> /\ IsInjective(p[r].buckets)
         /\ \A q, r \in Request : p[q].kind = "check" /\ p[r].kind # "check" =>
              Range(p[q].buckets) \cap Range(p[r].buckets) = {}
    /\ None \notin Request \cup Cleaner \cup Nat \cup BucketRow

VARIABLES
    now,
    plan,        \* [Request -> [kind, buckets]], fixed by the execution
    bucket,      \* [Bucket -> row or None]
    expires,     \* [Request -> [Bucket -> Nat or None]]: the reservations
    req,         \* [Request -> [pc, at, outcome]]: at indexes the bucket it is about
    cleaner,     \* [Cleaner -> [pc, doomed]]: doomed, the reservations it deletes
    holder,      \* [Bucket -> Cleaner or None]: row locks kept between statements
    granted,     \* [Request -> [Bucket -> window start or None]]: history of admissions
    spent        \* [Request -> [Bucket -> BOOLEAN]]: history, counted in that window

data == <<bucket, expires, granted, spent>>
vars == <<now, plan, data, req, cleaner, holder>>

Row(start, count) ==
    [start |-> start, count |-> count, denied |-> 0, reserved |-> 0,
     blocked |-> 0, updated |-> now]

Done(pc) == [pc |-> pc, at |-> 1, outcome |-> "none"]
Resting == [pc |-> "idle", doomed |-> [b \in Bucket |-> {}]]

Init ==
    /\ now = 1 /\ plan \in Traffic
    /\ bucket = [b \in Bucket |-> None]
    /\ expires = [r \in Request |-> [b \in Bucket |-> None]]
    /\ req = [r \in Request |-> Done("new")]
    /\ cleaner = [c \in Cleaner |-> Resting] /\ holder = [b \in Bucket |-> None]
    /\ granted = [r \in Request |-> [b \in Bucket |-> None]]
    /\ spent = [r \in Request |-> [b \in Bucket |-> FALSE]]

\* POWER(2, n), for n up to 4.
Power2(n) == <<1, 2, 4, 8, 16>>[n + 1]
Lowest(x, y) == IF x < y THEN x ELSE y
Highest(x, y) == IF x < y THEN y ELSE x

Ends(b) == bucket[b].start + Policy[b].window
Over(b) == Ends(b) <= now
Reservations(b) == {r \in Request : expires[r][b] # None}
Expired(b) == {r \in Reservations(b) : expires[r][b] <= now}
Free(b, p) == holder[b] \in {None, p}

At(r, pc) == req[r].pc = pc
Target(r) == plan[r].buckets[req[r].at]
IsLast(r) == req[r].at = Len(plan[r].buckets)
Moves(r, record) == req' = [req EXCEPT ![r] = record]

Tick ==
    /\ now < MaxTime /\ now' = now + 1
    /\ UNCHANGED <<plan, data, req, cleaner, holder>>

\* The instance that serves the request dies, or its connection is lost: what it has
\* committed stays.
Crash(r) ==
    /\ req[r].pc \notin {"new", "ended", "refused", "dead"}
    /\ Moves(r, Done("dead"))
    /\ UNCHANGED <<now, plan, data, cleaner, holder>>

-----------------------------------------------------------------------------
(* check: one upsert. *)

Backoff(b, from) ==
    from + Power2(Lowest(4, bucket[b].denied)) * Policy[b].backoff

\* INSERT ... ON CONFLICT DO UPDATE: every CASE reads the old row, and blockedUntil
\* looks at the old count before it looks at the window.
Upserted(b) ==
    LET row == bucket[b]
        full == row.count >= Policy[b].limit
    IN
    IF row = None THEN Row(now, 1)
    ELSE [start |-> IF Over(b) THEN now ELSE row.start,
          count |-> IF Over(b) THEN 1 ELSE row.count + 1,
          denied |-> IF Over(b) THEN 0 ELSE IF full THEN row.denied + 1 ELSE row.denied,
          reserved |-> row.reserved,
          blocked |-> IF Policy[b].backoff > 0 /\ full
                      THEN Backoff(b, Highest(row.blocked, now))
                      ELSE IF Over(b) THEN 0 ELSE row.blocked,
          updated |-> now]

Allows(b, row) == row.count <= Policy[b].limit /\ row.blocked <= now

Check(r) ==
    LET b == Target(r)
        row == Upserted(b)
    IN
    /\ At(r, "new") /\ plan[r].kind = "check" /\ holder[b] = None
    /\ bucket' = [bucket EXCEPT ![b] = row]
    /\ IF Allows(b, row)
       THEN /\ Moves(r, Done("ended"))
            /\ granted' = [granted EXCEPT ![r][b] = row.start]
            /\ spent' = [spent EXCEPT ![r][b] = TRUE]
       ELSE Moves(r, Done("refused")) /\ UNCHANGED <<granted, spent>>
    /\ UNCHANGED <<now, plan, expires, cleaner, holder>>

-----------------------------------------------------------------------------
(* reserve. *)

\* INSERT ... ON CONFLICT DO NOTHING finds the row: nothing is locked yet.
Find(r) ==
    /\ req[r].pc \in {"new", "next"} /\ plan[r].kind # "check"
    /\ bucket[Target(r)] # None
    /\ Moves(r, [req[r] EXCEPT !.pc = "found"])
    /\ UNCHANGED <<now, plan, data, cleaner, holder>>

\* The row has been cleaned up before it is locked, and rows[0] is undefined: the
\* request fails. What it has reserved elsewhere is not finalized.
Vanished(r) ==
    /\ At(r, "found") /\ bucket[Target(r)] = None
    /\ Moves(r, Done("dead"))
    /\ UNCHANGED <<now, plan, data, cleaner, holder>>

\* Mutant: the reserved count survives the window.
OpenedStill(b) ==
    IF bucket[b] = None THEN Row(now, 0)
    ELSE IF Over(b) THEN [Row(now, 0) EXCEPT !.reserved = bucket[b].reserved]
    ELSE bucket[b]
\* The row the decision reads: inserted by this transaction, or locked, and started
\* again if its window is over.
Opened(b) ==
    IF bucket[b] = None \/ Over(b) THEN Row(now, 0) ELSE bucket[b]

\* Mutant: the reservations of a window that is over are kept.
KeptRow(b) == bucket[b] # None
\* A window that is over takes its reservations with it.
Kept(b) == bucket[b] # None /\ ~Over(b)

\* Mutant: only what has been counted is compared with the limit.
FullCounted(b, row) ==
    \/ row.blocked > now
    \/ row.count >= Policy[b].limit
Full(b, row) ==
    \/ row.blocked > now
    \/ row.count + row.reserved >= Policy[b].limit

Denied(b, row) ==
    [row EXCEPT !.denied = @ + 1, !.updated = now,
                !.blocked = IF Policy[b].backoff > 0
                            THEN Lowest(row.start + Policy[b].window,
                                        now + Power2(Lowest(4, row.denied)) * Policy[b].backoff)
                            ELSE @]

\* Mutant: a reservation outlives the window.
ExpiryTwice(b, row) == row.start + 2 * Policy[b].window
Expiry(b, row) == row.start + Policy[b].window

\* The reservations of a bucket after reserve has locked it.
Cleared(b) ==
    [q \in Request |-> [expires[q] EXCEPT ![b] = IF Kept(b) THEN @ ELSE None]]

Reserve(r) ==
    LET b == Target(r)
        row == Opened(b)
    IN
    /\ \/ At(r, "found") /\ bucket[b] # None
       \/ req[r].pc \in {"new", "next"} /\ bucket[b] = None
    /\ plan[r].kind # "check" /\ holder[b] = None
    /\ IF Full(b, row)
       THEN /\ bucket' = [bucket EXCEPT ![b] = Denied(b, row)]
            /\ expires' = Cleared(b)
            /\ Moves(r, IF req[r].at = 1 THEN Done("refused")
                        ELSE [pc |-> "settle", at |-> 1, outcome |-> "refused"])
            /\ UNCHANGED <<granted, spent>>
       ELSE /\ bucket' = [bucket EXCEPT ![b] = [row EXCEPT !.reserved = @ + 1, !.updated = now]]
            /\ expires' = [Cleared(b) EXCEPT ![r][b] = Expiry(b, row)]
            /\ granted' = [granted EXCEPT ![r][b] = row.start]
            /\ spent' = [spent EXCEPT ![r][b] = FALSE]
            /\ Moves(r, IF IsLast(r) THEN [req[r] EXCEPT !.pc = "work", !.at = 1]
                        ELSE [req[r] EXCEPT !.pc = "next", !.at = @ + 1])
    /\ UNCHANGED <<now, plan, cleaner, holder>>

-----------------------------------------------------------------------------
(* The guarded work, and finalize for each reservation. An acceptance is consumed
   whatever comes of it; a guard is consumed when it fails and released otherwise. *)

Work(r) ==
    /\ At(r, "work")
    /\ \E outcome \in IF plan[r].kind = "guard" THEN {"consume", "release"} ELSE {"consume"} :
         Moves(r, [req[r] EXCEPT !.pc = "settle", !.outcome = outcome])
    /\ UNCHANGED <<now, plan, data, cleaner, holder>>

\* A refusal by the second bucket finalizes the first.
Finished(r) == IsLast(r) \/ req[r].outcome = "refused"
Onward(r) ==
    Moves(r, IF ~Finished(r) THEN [req[r] EXCEPT !.pc = "settle", !.at = @ + 1]
             ELSE Done(IF req[r].outcome = "refused" THEN "refused" ELSE "ended"))

\* The reservation is read without a lock, with its expiry.
FindReservation(r) ==
    /\ At(r, "settle")
    /\ IF expires[r][Target(r)] = None
       THEN Onward(r)
       ELSE Moves(r, [req[r] EXCEPT !.pc = "finalize"])
    /\ UNCHANGED <<now, plan, data, cleaner, holder>>

\* The bucket is there, and DELETE ... RETURNING finds the reservation.
Held(r, b) == bucket[b] # None /\ expires[r][b] # None

\* Consumed, and within the reservation's and the bucket's window.
Charged(r, b) == req[r].outcome # "release" /\ expires[r][b] > now /\ ~Over(b)

Finalize(r) ==
    LET b == Target(r) IN
    /\ At(r, "finalize") /\ holder[b] = None
    /\ IF Held(r, b)
       THEN /\ bucket' = [bucket EXCEPT ![b].reserved = IF @ = 0 THEN 0 ELSE @ - 1,
                                        ![b].count = IF Charged(r, b) THEN @ + 1 ELSE @,
                                        ![b].updated = now]
            /\ expires' = [expires EXCEPT ![r][b] = None]
            /\ spent' = [spent EXCEPT ![r][b] = Charged(r, b)]
            /\ granted' = IF req[r].outcome = "release"
                          THEN [granted EXCEPT ![r][b] = None] ELSE granted
       ELSE UNCHANGED data
    /\ Onward(r)
    /\ UNCHANGED <<now, plan, cleaner, holder>>

-----------------------------------------------------------------------------
(* cleanup: one transaction, whose writes are seen at its commit. *)

Releases(c) == holder' = [b \in Bucket |-> IF holder[b] = c THEN None ELSE holder[b]]

\* The buckets that have an expired reservation are locked.
LockExpired(c) ==
    LET found == {b \in Bucket : Expired(b) # {}} IN
    /\ cleaner[c].pc = "idle"
    /\ \A b \in found : holder[b] = None
    /\ holder' = [b \in Bucket |-> IF b \in found THEN c ELSE holder[b]]
    /\ cleaner' = [cleaner EXCEPT ![c].pc = "delete"]
    /\ UNCHANGED <<now, plan, data, req>>

\* The reservations expired by now are deleted, those of buckets that were not locked
\* too, and each of these buckets is updated once its lock is free.
DeleteExpired(c) ==
    /\ cleaner[c].pc = "delete"
    /\ \A b \in Bucket : Expired(b) # {} => Free(b, c)
    /\ holder' = [b \in Bucket |-> IF Expired(b) # {} THEN c ELSE holder[b]]
    /\ cleaner' = [cleaner EXCEPT ![c] = [pc |-> "purge",
                       doomed |-> [b \in Bucket |-> Expired(b)]]]
    /\ UNCHANGED <<now, plan, data, req>>

RepairedRow(row, n) ==
    [row EXCEPT !.updated = now, !.reserved = IF @ < n THEN 0 ELSE @ - n]

IdleBucket(b) == bucket[b] # None /\ bucket[b].updated + IdleTime < now

\* Idle buckets are deleted, their reservations with them, and the transaction commits.
Purge(c) ==
    LET doomed == cleaner[c].doomed
        idle == {b \in Bucket : IdleBucket(b) /\ doomed[b] = {}}
    IN
    /\ cleaner[c].pc = "purge"
    /\ \A b \in idle : Free(b, c)
    /\ bucket' = [b \in Bucket |->
                    IF b \in idle THEN None
                    ELSE IF doomed[b] = {} THEN bucket[b]
                    ELSE RepairedRow(bucket[b], Cardinality(doomed[b]))]
    /\ expires' = [r \in Request |-> [b \in Bucket |->
                     IF b \in idle \/ r \in doomed[b] THEN None ELSE expires[r][b]]]
    /\ Releases(c)
    /\ cleaner' = [cleaner EXCEPT ![c] = Resting]
    /\ UNCHANGED <<now, plan, req, granted, spent>>

\* The cleanup dies, or is the victim of a deadlock over a reservation, and is rolled back.
AbortCleanup(c) ==
    /\ cleaner[c].pc # "idle"
    /\ Releases(c)
    /\ cleaner' = [cleaner EXCEPT ![c] = Resting]
    /\ UNCHANGED <<now, plan, data, req>>

-----------------------------------------------------------------------------

Next ==
    \/ Tick
    \/ \E r \in Request :
         \/ Check(r) \/ Find(r) \/ Vanished(r) \/ Reserve(r)
         \/ Work(r) \/ FindReservation(r) \/ Finalize(r) \/ Crash(r)
    \/ \E c \in Cleaner :
         LockExpired(c) \/ DeleteExpired(c) \/ Purge(c) \/ AbortCleanup(c)

Spec == Init /\ [][Next]_vars

-----------------------------------------------------------------------------
(* Properties. *)

Checked(b) == \E r \in Request : plan[r].kind = "check" /\ b \in Range(plan[r].buckets)

\* Every variable stays in its set, no row is of the future, and a reservation lasts
\* at most one window from now.
TypeOK ==
    /\ now \in 1..MaxTime /\ plan \in Traffic
    /\ bucket \in [Bucket -> BucketRow \cup {None}]
    /\ \A b \in Bucket : bucket[b] # None =>
         bucket[b].start <= bucket[b].updated /\ bucket[b].updated <= now
    /\ expires \in [Request -> [Bucket -> Nat \cup {None}]]
    /\ \A r \in Request, b \in Bucket : expires[r][b] # None =>
         expires[r][b] <= now + Policy[b].window
    /\ req \in [Request -> [pc : {"new", "found", "next", "work", "settle", "finalize",
                                  "ended", "refused", "dead"},
                            at : Nat, outcome : {"none", "consume", "release", "refused"}]]
    /\ \A r \in Request : req[r].at \in 1..Len(plan[r].buckets)
    /\ cleaner \in [Cleaner -> [pc : {"idle", "delete", "purge"}, doomed : [Bucket -> SUBSET Request]]]
    /\ holder \in [Bucket -> Cleaner \cup {None}]
    /\ granted \in [Request -> [Bucket -> Nat \cup {None}]]
    /\ spent \in [Request -> [Bucket -> BOOLEAN]]

\* The counters say what happened: whatever finalizes, expires, cleans up and opens
\* windows at the same time, reservedCount is the number of reservations there are,
\* none outlives its bucket, and count is the number of those consumed in the window
\* they were made in, each once.
CountersExact ==
    \A b \in Bucket :
      IF bucket[b] = None THEN Reservations(b) = {}
      ELSE ~Checked(b) =>
             /\ bucket[b].reserved = Cardinality(Reservations(b))
             /\ bucket[b].count =
                  Cardinality({r \in Request : granted[r][b] = bucket[b].start /\ spent[r][b]})

\* At most limit requests admitted in one window fail, are still at work or died at
\* it, and at most limit checks are allowed in one: concurrency, crashes and
\* late finalizations never stretch the budget.
BudgetHolds ==
    \A b \in Bucket : bucket[b] # None =>
      Cardinality({r \in Request : granted[r][b] = bucket[b].start}) <= Policy[b].limit

RefusedNow(r) ==
    /\ req[r].pc \in {"new", "found", "next"}
    /\ req'[r].pc = "refused" \/ (req'[r].pc = "settle" /\ req'[r].outcome = "refused")

\* Reservations that crashed requests left behind, and blocks, refuse nobody once the
\* window is over, cleaned up or not.
ExpiredWindowAdmits ==
    [][\A r \in Request : RefusedNow(r) /\ plan[r].kind # "check" =>
          bucket[Target(r)] # None /\ ~Over(Target(r))]_vars

\* "an expired window must reset" (test/auth-rate-limits-db.test.ts:57): a check is
\* refused only within its window, or while a block imposed before still runs.
ExpiredWindowResets ==
    [][\A r \in Request : RefusedNow(r) /\ plan[r].kind = "check" =>
          bucket[Target(r)] # None /\ (~Over(Target(r)) \/ bucket[Target(r)].blocked > now)]_vars
=============================================================================
