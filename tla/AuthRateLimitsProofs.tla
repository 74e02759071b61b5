------------------------ MODULE AuthRateLimitsProofs ------------------------
(***************************************************************************)
(* Theorems about AuthRateLimits, for any buckets, policies, requests,     *)
(* cleaners and times.                                                     *)
(***************************************************************************)
EXTENDS AuthRateLimits, FiniteSetTheorems, SequenceTheorems, TLAPS

-----------------------------------------------------------------------------
(* The inductive invariant. Each bucket is accounted for by itself.        *)

\* The requests admitted in the current window of a bucket.
Admitted(b) == {r \in Request : granted[r][b] = bucket[b].start}
Spenders(b) == {r \in Request : granted[r][b] = bucket[b].start /\ spent[r][b]}

Counts(b) ==
    IF bucket[b] = None THEN Reservations(b) = {}
    ELSE ~Checked(b) => /\ bucket[b].reserved = Cardinality(Reservations(b))
                        /\ bucket[b].count = Cardinality(Spenders(b))
Budget(b) == bucket[b] # None => Cardinality(Admitted(b)) <= Policy[b].limit

\* A reservation is of its bucket's current window, and not spent yet.
ReservationsCurrent(b) ==
    \A r \in Request : expires[r][b] # None =>
        /\ bucket[b] # None /\ ~Checked(b)
        /\ expires[r][b] = Ends(b)
        /\ granted[r][b] = bucket[b].start /\ ~spent[r][b]

\* A new window is later than every admission there has been.
GrantsPast(b) ==
    \A r \in Request : granted[r][b] # None =>
        IF bucket[b] = None THEN granted[r][b] < now ELSE granted[r][b] <= bucket[b].start

\* Before its window is over, whom a bucket has admitted has spent or still holds a
\* reservation, and together they are within the limit.
WindowWithin(b) ==
    bucket[b] # None /\ ~Checked(b) /\ ~Over(b) =>
        /\ bucket[b].count + bucket[b].reserved <= Policy[b].limit
        /\ \A r \in Admitted(b) : spent[r][b] \/ expires[r][b] # None

\* A check counts, whether it is allowed or not.
ChecksCounted(b) ==
    bucket[b] # None /\ Checked(b) => Cardinality(Admitted(b)) <= bucket[b].count

BucketInv(b) ==
    /\ Counts(b) /\ Budget(b) /\ ReservationsCurrent(b)
    /\ GrantsPast(b) /\ WindowWithin(b) /\ ChecksCounted(b)

\* What a request has still to reserve it has never been granted.
Ahead(r) ==
    req[r].pc \in {"new", "found", "next"} =>
        \A k \in req[r].at..Len(plan[r].buckets) :
            expires[r][plan[r].buckets[k]] = None /\ granted[r][plan[r].buckets[k]] = None

\* A cleanup about to commit holds the buckets it takes reservations from, all of them
\* still there and expired.
CleanerHolds(c) ==
    cleaner[c].pc = "purge" =>
        \A b \in Bucket : cleaner[c].doomed[b] # {} =>
            holder[b] = c /\ cleaner[c].doomed[b] \subseteq Expired(b)

RateInv ==
    /\ TypeOK
    /\ \A b \in Bucket : BucketInv(b)
    /\ \A r \in Request : Ahead(r)
    /\ \A c \in Cleaner : CleanerHolds(c)

LEMMA Accounted == ASSUME RateInv PROVE CountersExact /\ BudgetHolds
<1>1. \A b \in Bucket : Counts(b) /\ Budget(b)
  BY DEF RateInv, BucketInv
<1>2. CountersExact
  BY <1>1 DEF Counts, CountersExact, Spenders
<1>3. BudgetHolds
  BY <1>1 DEF Budget, BudgetHolds, Admitted
<1>. QED  BY <1>2, <1>3

-----------------------------------------------------------------------------
(* What the variables hold.                                                *)

\* A request's plan names buckets, each of them once, and it is about one of them.
LEMMA PlanTypes ==
    ASSUME RateAssumption, TypeOK, NEW r \in Request
    PROVE  /\ plan[r].kind \in Kinds /\ plan[r].buckets \in Seq(Bucket)
           /\ Len(plan[r].buckets) \in Nat
           /\ \A k \in 1..Len(plan[r].buckets) : plan[r].buckets[k] \in Bucket
           /\ \A k, l \in 1..Len(plan[r].buckets) :
                plan[r].buckets[k] = plan[r].buckets[l] => k = l
           /\ 1 \in 1..Len(plan[r].buckets)
           /\ req[r].at \in 1..Len(plan[r].buckets) /\ Target(r) \in Bucket
<1>1. /\ plan \in [Request -> [kind : Kinds, buckets : Seq(Bucket)]]
      /\ plan[r].buckets # <<>> /\ IsInjective(plan[r].buckets)
  BY DEF TypeOK, RateAssumption
<1>2. plan[r].kind \in Kinds /\ plan[r].buckets \in Seq(Bucket)
  BY <1>1
<1>3. Len(plan[r].buckets) \in Nat /\ DOMAIN plan[r].buckets = 1..Len(plan[r].buckets)
  BY <1>2, LenProperties
<1>4. \A k \in 1..Len(plan[r].buckets) : plan[r].buckets[k] \in Bucket
  BY <1>2, ElementOfSeq
<1>5. Len(plan[r].buckets) # 0
  BY <1>1, <1>2, EmptySeq
<1>6. 1 \in 1..Len(plan[r].buckets)
  BY <1>3, <1>5
<1>7. \A k, l \in 1..Len(plan[r].buckets) : plan[r].buckets[k] = plan[r].buckets[l] => k = l
  BY <1>1, <1>3 DEF IsInjective
<1>8. req[r].at \in 1..Len(plan[r].buckets)
  BY DEF TypeOK
<1>. QED  BY <1>2, <1>3, <1>4, <1>6, <1>7, <1>8 DEF Target

\* What is reserved is not checked.
LEMMA Unmixed ==
    ASSUME RateAssumption, TypeOK, NEW r \in Request
    PROVE  IF plan[r].kind = "check" THEN Checked(Target(r)) ELSE ~Checked(Target(r))
<1>1. DOMAIN plan[r].buckets = 1..Len(plan[r].buckets)
  BY PlanTypes, LenProperties
<1>2. Target(r) \in Range(plan[r].buckets)
  BY <1>1, PlanTypes DEF Target, Range
<1>3. \A q \in Request : plan[q].kind = "check" /\ plan[r].kind # "check" =>
        Range(plan[q].buckets) \cap Range(plan[r].buckets) = {}
  BY DEF RateAssumption, TypeOK
<1>. QED  BY <1>2, <1>3 DEF Checked

LEMMA RowTypes ==
    ASSUME RateAssumption, TypeOK, NEW b \in Bucket
    PROVE  /\ Policy[b].limit \in Nat \ {0} /\ Policy[b].window \in Nat \ {0}
           /\ Policy[b].backoff \in Nat /\ now \in Nat
           /\ bucket[b] # None =>
                /\ bucket[b] \in BucketRow
                /\ bucket[b].start \in Nat /\ bucket[b].count \in Nat
                /\ bucket[b].denied \in Nat /\ bucket[b].reserved \in Nat
                /\ bucket[b].blocked \in Nat /\ bucket[b].updated \in Nat
                /\ bucket[b].start <= bucket[b].updated /\ bucket[b].updated <= now
           /\ \A r \in Request : /\ expires[r][b] \in Nat \cup {None}
                                 /\ granted[r][b] \in Nat \cup {None}
                                 /\ spent[r][b] \in BOOLEAN
<1>1. bucket[b] # None => bucket[b] \in BucketRow
  BY DEF TypeOK
<1>2. /\ Policy[b].limit \in Nat \ {0} /\ Policy[b].window \in Nat \ {0}
      /\ Policy[b].backoff \in Nat /\ now \in Nat
  BY DEF TypeOK, RateAssumption
<1>3. bucket[b] # None => bucket[b].start <= bucket[b].updated /\ bucket[b].updated <= now
  BY DEF TypeOK
<1>4. bucket[b] \in BucketRow =>
        /\ bucket[b].start \in Nat /\ bucket[b].count \in Nat
        /\ bucket[b].denied \in Nat /\ bucket[b].reserved \in Nat
        /\ bucket[b].blocked \in Nat /\ bucket[b].updated \in Nat
  BY ONLY DEF BucketRow
<1>5. \A r \in Request : /\ expires[r][b] \in Nat \cup {None}
                         /\ granted[r][b] \in Nat \cup {None}
                         /\ spent[r][b] \in BOOLEAN
  BY DEF TypeOK
<1>. QED  BY <1>1, <1>2, <1>3, <1>4, <1>5

\* A backoff is a time.
LEMMA BackoffTime ==
    ASSUME NEW n \in Nat, NEW m \in Nat
    PROVE  Power2(Lowest(4, n)) * m \in Nat
<1>1. Lowest(4, n) \in 0..4
  BY DEF Lowest
<1>2. Power2(Lowest(4, n)) \in Nat
  BY <1>1 DEF Power2
<1>. QED  BY <1>2

-----------------------------------------------------------------------------
(* Steps that leave the counters alone: the bucket keeps its invariant,    *)
(* even when time passes.                                                  *)

LEMMA BucketKept ==
    ASSUME RateAssumption, TypeOK, TypeOK', NEW b \in Bucket, BucketInv(b),
           plan' = plan, now' \in Nat, now <= now', (bucket'[b] = None) <=> (bucket[b] = None),
           bucket[b] # None =>
               /\ bucket'[b].start = bucket[b].start /\ bucket'[b].count = bucket[b].count
               /\ bucket'[b].reserved = bucket[b].reserved,
           \A r \in Request : /\ expires'[r][b] = expires[r][b]
                              /\ granted'[r][b] = granted[r][b] /\ spent'[r][b] = spent[r][b]
    PROVE  BucketInv(b)'
<1>0. Checked(b)' = Checked(b) /\ Reservations(b)' = Reservations(b)
  BY DEF Checked, Reservations
<1>1. bucket[b] # None =>
        Admitted(b)' = Admitted(b) /\ Spenders(b)' = Spenders(b) /\ Ends(b)' = Ends(b)
  BY DEF Admitted, Spenders, Ends
<1>2. /\ now \in Nat /\ Policy[b].window \in Nat
      /\ bucket[b] # None => bucket[b].start \in Nat
      /\ \A r \in Request : granted[r][b] \in Nat \cup {None}
  BY RowTypes
<1>3. bucket[b] # None /\ ~Over(b)' => ~Over(b)
  BY <1>2 DEF Over, Ends
<1>4. Counts(b)' /\ Budget(b)' /\ ChecksCounted(b)'
  BY <1>0, <1>1 DEF BucketInv, Counts, Budget, ChecksCounted
<1>5. ReservationsCurrent(b)'
  <2>. SUFFICES ASSUME NEW r \in Request, expires'[r][b] # None
                PROVE  /\ bucket'[b] # None /\ ~Checked(b)'
                       /\ expires'[r][b] = Ends(b)'
                       /\ granted'[r][b] = bucket'[b].start /\ ~spent'[r][b]
    BY DEF ReservationsCurrent
  <2>0. expires[r][b] # None
    OBVIOUS
  <2>1. /\ bucket[b] # None /\ ~Checked(b) /\ expires[r][b] = Ends(b)
        /\ granted[r][b] = bucket[b].start
    BY <2>0 DEF BucketInv, ReservationsCurrent
  <2>2. ~spent[r][b]
    BY <2>0 DEF BucketInv, ReservationsCurrent
  <2>3. spent'[r][b] = spent[r][b]
    OBVIOUS
  <2>4. ~spent'[r][b]
    BY <2>2, <2>3
  <2>. QED  BY <1>0, <1>1, <2>1, <2>4
<1>6. GrantsPast(b)'
  <2>. SUFFICES ASSUME NEW r \in Request, granted[r][b] # None
                PROVE  IF bucket[b] = None THEN granted[r][b] < now'
                       ELSE granted[r][b] <= bucket[b].start
    BY DEF GrantsPast
  <2>. QED  BY <1>2 DEF BucketInv, GrantsPast
<1>7. WindowWithin(b)'
  <2>. SUFFICES ASSUME bucket[b] # None, ~Checked(b), ~Over(b)'
                PROVE  /\ bucket[b].count + bucket[b].reserved <= Policy[b].limit
                       /\ \A r \in Admitted(b) : spent[r][b] \/ expires[r][b] # None
    BY <1>0, <1>1 DEF WindowWithin, Admitted
  <2>. QED  BY <1>3 DEF BucketInv, WindowWithin
<1>. QED  BY <1>4, <1>5, <1>6, <1>7 DEF BucketInv

LEMMA RateInvNow == ASSUME RateInv PROVE TypeOK /\ now \in Nat /\ now <= now
<1>1. TypeOK
  BY DEF RateInv
<1>2. now \in Nat
  BY <1>1 DEF TypeOK
<1>. QED  BY <1>1, <1>2

LEMMA CountersKept ==
    ASSUME RateAssumption, RateInv, TypeOK', UNCHANGED <<now, plan, data>>
    PROVE  \A b \in Bucket : BucketInv(b)'
<1>1. TypeOK /\ now \in Nat /\ now <= now
  BY RateInvNow
<1>2. ASSUME NEW b \in Bucket PROVE BucketInv(b)'
  <2>1. BucketInv(b)
    BY DEF RateInv
  <2>. QED  BY <1>1, <2>1, BucketKept DEF data
<1>. QED  BY <1>2

-----------------------------------------------------------------------------
(* How a bucket's sets of requests grow and shrink.                        *)

LEMMA Finite ==
    ASSUME RateAssumption, NEW S \in SUBSET Request
    PROVE  IsFiniteSet(S) /\ Cardinality(S) \in Nat
BY FS_Subset, FS_CardinalityType DEF RateAssumption

LEMMA OneMore ==
    ASSUME RateAssumption, NEW S \in SUBSET Request, NEW r \in Request
    PROVE  /\ Cardinality(S \cup {r}) <= Cardinality(S) + 1
           /\ r \notin S => Cardinality(S \cup {r}) = Cardinality(S) + 1
<1>1. IsFiniteSet(S) /\ Cardinality(S) \in Nat
  BY Finite
<1>2. Cardinality(S \cup {r}) = IF r \in S THEN Cardinality(S) ELSE Cardinality(S) + 1
  BY <1>1, FS_AddElement
<1>. QED  BY <1>1, <1>2

LEMMA OneLess ==
    ASSUME RateAssumption, NEW S \in SUBSET Request, NEW r \in S
    PROVE  Cardinality(S \ {r}) = Cardinality(S) - 1 /\ Cardinality(S) > 0
<1>1. Cardinality(S \ {r}) = Cardinality(S) - 1
  BY Finite, FS_RemoveElement
<1>2. Cardinality(S \ {r}) \in Nat /\ Cardinality(S) \in Nat
  BY Finite, S \ {r} \in SUBSET Request
<1>. QED  BY <1>1, <1>2

\* Whom a window admitted has spent or holds a reservation: together at most the limit.
LEMMA WithinBudget ==
    ASSUME RateAssumption, NEW A \in SUBSET Request, NEW S \in SUBSET Request,
           NEW H \in SUBSET Request, A \subseteq S \cup H
    PROVE  Cardinality(A) <= Cardinality(S) + Cardinality(H)
<1>1. IsFiniteSet(S) /\ IsFiniteSet(H) /\ IsFiniteSet(S \cup H) /\ IsFiniteSet(S \cap H)
  BY Finite
<1>2. Cardinality(S \cup H) = Cardinality(S) + Cardinality(H) - Cardinality(S \cap H)
  BY <1>1, FS_Union
<1>3. Cardinality(A) <= Cardinality(S \cup H)
  BY <1>1, FS_Subset
<1>4. /\ Cardinality(S) \in Nat /\ Cardinality(H) \in Nat /\ Cardinality(A) \in Nat
      /\ Cardinality(S \cap H) \in Nat /\ Cardinality(S \cup H) \in Nat
  BY Finite, S \cap H \in SUBSET Request, S \cup H \in SUBSET Request
<1>. QED  BY <1>2, <1>3, <1>4

-----------------------------------------------------------------------------
(* The rows the statements write.                                          *)

LEMMA UpsertedRow ==
    ASSUME RateAssumption, TypeOK, NEW b \in Bucket
    PROVE  /\ Upserted(b) \in BucketRow
           /\ Upserted(b).start <= Upserted(b).updated /\ Upserted(b).updated = now
           /\ IF bucket[b] = None \/ Over(b)
              THEN Upserted(b).start = now /\ Upserted(b).count = 1
              ELSE Upserted(b).start = bucket[b].start /\ Upserted(b).count = bucket[b].count + 1
<1>1. now \in Nat /\ Policy[b].limit \in Nat /\ Policy[b].backoff \in Nat
  BY RowTypes
<1>2. CASE bucket[b] = None
  <2>1. Upserted(b) = Row(now, 1)
    BY <1>2 DEF Upserted
  <2>. QED  BY <1>1, <1>2, <2>1 DEF Row, BucketRow
<1>3. CASE bucket[b] # None
  <2>1. /\ bucket[b].start \in Nat /\ bucket[b].count \in Nat /\ bucket[b].denied \in Nat
        /\ bucket[b].reserved \in Nat /\ bucket[b].blocked \in Nat /\ bucket[b].updated \in Nat
        /\ bucket[b].start <= bucket[b].updated /\ bucket[b].updated <= now
    BY <1>3, RowTypes
  <2>2. Highest(bucket[b].blocked, now) \in Nat
    BY <1>1, <2>1 DEF Highest
  <2>3. Power2(Lowest(4, bucket[b].denied)) * Policy[b].backoff \in Nat
    BY <1>1, <2>1, BackoffTime
  <2>. DEFINE until == Backoff(b, Highest(bucket[b].blocked, now))
  <2>4. until \in Nat
    <3>. DEFINE wait == Power2(Lowest(4, bucket[b].denied)) * Policy[b].backoff
                from == Highest(bucket[b].blocked, now)
    <3>1. until = from + wait /\ from \in Nat /\ wait \in Nat
      BY <2>2, <2>3 DEF Backoff
    <3>. HIDE DEF wait, from, until
    <3>. QED  BY <3>1
  <2>. DEFINE full == bucket[b].count >= Policy[b].limit
              start == IF Over(b) THEN now ELSE bucket[b].start
              count == IF Over(b) THEN 1 ELSE bucket[b].count + 1
              denied == IF Over(b) THEN 0
                        ELSE IF full THEN bucket[b].denied + 1 ELSE bucket[b].denied
              blocked == IF Policy[b].backoff > 0 /\ full THEN until
                         ELSE IF Over(b) THEN 0 ELSE bucket[b].blocked
  <2>5. Upserted(b) = [start |-> start, count |-> count, denied |-> denied,
                       reserved |-> bucket[b].reserved, blocked |-> blocked, updated |-> now]
    BY <1>3 DEF Upserted
  <2>. HIDE DEF until
  <2>6. start \in Nat /\ start <= now /\ count \in Nat /\ denied \in Nat /\ blocked \in Nat
    <3>1. bucket[b].start <= now
      BY <1>1, <2>1
    <3>2. start \in Nat /\ start <= now
      BY <1>1, <2>1, <3>1
    <3>3. count \in Nat /\ denied \in Nat
      BY ONLY <2>1
    <3>4. blocked \in Nat
      BY <2>1, <2>4
    <3>. QED  BY <3>2, <3>3, <3>4
  <2>7. IF Over(b) THEN start = now /\ count = 1
        ELSE start = bucket[b].start /\ count = bucket[b].count + 1
    OBVIOUS
  <2>. HIDE DEF start, count, denied, blocked, full
  <2>. QED  BY <1>1, <1>3, <2>1, <2>5, <2>6, <2>7 DEF BucketRow
<1>. QED  BY <1>2, <1>3

\* A window that is over, or was never there, starts again from nothing.
LEMMA OpenedRow ==
    ASSUME RateAssumption, TypeOK, NEW b \in Bucket
    PROVE  /\ Opened(b) \in BucketRow
           /\ Opened(b).start <= Opened(b).updated /\ Opened(b).updated <= now
           /\ Kept(b) => Opened(b) = bucket[b]
           /\ ~Kept(b) => /\ Opened(b).start = now /\ Opened(b).count = 0
                          /\ Opened(b).reserved = 0 /\ Opened(b).blocked = 0
<1>1. now \in Nat
  BY RowTypes
<1>2. CASE Kept(b)
  <2>1. bucket[b] # None /\ Opened(b) = bucket[b]
    BY <1>2 DEF Kept, Opened
  <2>. QED  BY <1>2, <2>1, RowTypes
<1>3. CASE ~Kept(b)
  <2>1. Opened(b) = Row(now, 0)
    BY <1>3 DEF Kept, Opened
  <2>. QED  BY <1>1, <1>3, <2>1 DEF Row, BucketRow
<1>. QED  BY <1>2, <1>3

\* Only the window that is still open refuses.
LEMMA FullIsKept ==
    ASSUME RateAssumption, TypeOK, NEW b \in Bucket, Full(b, Opened(b))
    PROVE  Kept(b)
<1>. SUFFICES ASSUME ~Kept(b) PROVE FALSE
  OBVIOUS
<1>1. now \in Nat /\ Policy[b].limit \in Nat \ {0}
  BY RowTypes
<1>2. Opened(b).count = 0 /\ Opened(b).reserved = 0 /\ Opened(b).blocked = 0
  BY OpenedRow
<1>. QED  BY <1>1, <1>2 DEF Full

LEMMA DeniedRow ==
    ASSUME RateAssumption, TypeOK, NEW b \in Bucket, NEW row \in BucketRow
    PROVE  /\ Denied(b, row) \in BucketRow /\ Denied(b, row).updated = now
           /\ Denied(b, row).start = row.start /\ Denied(b, row).count = row.count
           /\ Denied(b, row).reserved = row.reserved
<1>. DEFINE wait == Power2(Lowest(4, row.denied)) * Policy[b].backoff
            ends == row.start + Policy[b].window
            until == now + wait
            block == IF Policy[b].backoff > 0 THEN Lowest(ends, until) ELSE row.blocked
            denied == row.denied + 1
<1>1. now \in Nat /\ Policy[b].window \in Nat /\ Policy[b].backoff \in Nat
  BY RowTypes
<1>2. row.start \in Nat /\ row.denied \in Nat /\ row.blocked \in Nat
  BY DEF BucketRow
<1>3. wait \in Nat
  BY <1>1, <1>2, BackoffTime
<1>4. block \in Nat /\ denied \in Nat
  <2>. HIDE DEF wait
  <2>1. ends \in Nat /\ until \in Nat /\ denied \in Nat
    BY <1>1, <1>2, <1>3
  <2>. HIDE DEF ends, until, denied
  <2>2. Lowest(ends, until) \in Nat
    BY <2>1 DEF Lowest
  <2>. QED  BY <1>2, <2>1, <2>2
<1>5. Denied(b, row) = [row EXCEPT !.denied = denied, !.updated = now, !.blocked = block]
  BY DEF Denied
<1>. HIDE DEF block, denied
<1>6. [row EXCEPT !.denied = denied, !.updated = now, !.blocked = block] \in BucketRow
  BY <1>1, <1>4 DEF BucketRow
<1>w. PICK new \in BucketRow : new = [row EXCEPT !.denied = denied, !.updated = now, !.blocked = block]
  BY <1>6
<1>7. /\ new.updated = now /\ new.start = row.start /\ new.count = row.count
      /\ new.reserved = row.reserved
  BY <1>w DEF BucketRow
<1>. QED  BY <1>5, <1>7, <1>w

-----------------------------------------------------------------------------
(* Type correctness. *)

RequestState == [pc : {"new", "found", "next", "work", "settle", "finalize",
                       "ended", "refused", "dead"},
                 at : Nat, outcome : {"none", "consume", "release", "refused"}]
RequestsTyped ==
    /\ plan \in Traffic /\ req \in [Request -> RequestState]
    /\ \A r \in Request : req[r].at \in 1..Len(plan[r].buckets)
RowsTyped ==
    /\ now \in 1..MaxTime /\ bucket \in [Bucket -> BucketRow \cup {None}]
    /\ \A b \in Bucket : bucket[b] # None =>
         bucket[b].start <= bucket[b].updated /\ bucket[b].updated <= now
ReservationsTyped ==
    /\ expires \in [Request -> [Bucket -> Nat \cup {None}]]
    /\ \A r \in Request, b \in Bucket : expires[r][b] # None =>
         expires[r][b] <= now + Policy[b].window
HistoryTyped ==
    /\ granted \in [Request -> [Bucket -> Nat \cup {None}]]
    /\ spent \in [Request -> [Bucket -> BOOLEAN]]
CleanersTyped ==
    /\ cleaner \in [Cleaner -> [pc : {"idle", "delete", "purge"},
                                doomed : [Bucket -> SUBSET Request]]]
    /\ holder \in [Bucket -> Cleaner \cup {None}]

LEMMA TypeParts ==
    /\ TypeOK <=> /\ RequestsTyped /\ RowsTyped /\ ReservationsTyped
                  /\ HistoryTyped /\ CleanersTyped
    /\ TypeOK' <=> /\ RequestsTyped' /\ RowsTyped' /\ ReservationsTyped'
                   /\ HistoryTyped' /\ CleanersTyped'
BY DEF TypeOK, RequestsTyped, RequestState, RowsTyped, ReservationsTyped, HistoryTyped,
       CleanersTyped

\* A request moves.
LEMMA MovesTyped ==
    ASSUME RateAssumption, TypeOK, NEW r \in Request, NEW record, Moves(r, record),
           record \in RequestState, record.at \in 1..Len(plan[r].buckets), plan' = plan
    PROVE  /\ RequestsTyped' /\ req'[r] = record
           /\ \A q \in Request : q # r => req'[q] = req[q]
BY TypeParts DEF RequestsTyped, Moves

LEMMA DoneTyped ==
    ASSUME RateAssumption, TypeOK, NEW r \in Request, NEW pc \in {"new", "ended", "refused", "dead"}
    PROVE  Done(pc) \in RequestState /\ Done(pc).at \in 1..Len(plan[r].buckets)
BY PlanTypes DEF Done, RequestState

\* A row is written under its lock.
LEMMA RowWritten ==
    ASSUME TypeOK, NEW b \in Bucket, NEW row \in BucketRow, row.start <= row.updated,
           row.updated <= now, bucket' = [bucket EXCEPT ![b] = row], now' = now
    PROVE  /\ RowsTyped' /\ bucket'[b] = row
           /\ \A a \in Bucket : a # b => bucket'[a] = bucket[a]
<1>1. bucket \in [Bucket -> BucketRow \cup {None}] /\ now \in 1..MaxTime
  BY DEF TypeOK
<1>2. /\ bucket'[b] = row
      /\ \A a \in Bucket : a # b => bucket'[a] = bucket[a]
      /\ bucket' \in [Bucket -> BucketRow \cup {None}]
  BY <1>1
<1>3. ASSUME NEW a \in Bucket, bucket'[a] # None
      PROVE  bucket'[a].start <= bucket'[a].updated /\ bucket'[a].updated <= now
  BY <1>2, <1>3 DEF TypeOK
<1>. QED  BY <1>1, <1>2, <1>3 DEF RowsTyped

\* The history of one request at one bucket.
LEMMA HistoryWritten ==
    ASSUME TypeOK, NEW r \in Request, NEW b \in Bucket, NEW g \in Nat \cup {None},
           NEW s \in BOOLEAN, granted' = [granted EXCEPT ![r][b] = g],
           spent' = [spent EXCEPT ![r][b] = s]
    PROVE  /\ HistoryTyped' /\ granted'[r][b] = g /\ spent'[r][b] = s
           /\ \A q \in Request, a \in Bucket : q # r \/ a # b =>
                granted'[q][a] = granted[q][a] /\ spent'[q][a] = spent[q][a]
BY DEF TypeOK, HistoryTyped

-----------------------------------------------------------------------------
(* What a step leaves alone. *)

LEMMA AheadKept ==
    ASSUME RateAssumption, TypeOK, NEW q \in Request, Ahead(q), req'[q] = req[q], plan' = plan,
           \A b \in Bucket : /\ expires[q][b] = None => expires'[q][b] = None
                             /\ granted[q][b] = None => granted'[q][b] = None
    PROVE  Ahead(q)'
<1>. SUFFICES ASSUME req[q].pc \in {"new", "found", "next"},
                     NEW k \in req[q].at..Len(plan[q].buckets)
              PROVE  /\ expires'[q][plan[q].buckets[k]] = None
                     /\ granted'[q][plan[q].buckets[k]] = None
  BY DEF Ahead
<1>1. expires[q][plan[q].buckets[k]] = None /\ granted[q][plan[q].buckets[k]] = None
  BY DEF Ahead
<1>2. /\ Len(plan[q].buckets) \in Nat /\ req[q].at \in 1..Len(plan[q].buckets)
      /\ \A l \in 1..Len(plan[q].buckets) : plan[q].buckets[l] \in Bucket
  BY PlanTypes
<1>b. PICK b \in Bucket : b = plan[q].buckets[k]
  <2>1. k \in 1..Len(plan[q].buckets)
    BY <1>2
  <2>. QED  BY <1>2, <2>1
<1>3. expires[q][b] = None /\ granted[q][b] = None
  BY <1>1, <1>b
<1>4. expires'[q][b] = None /\ granted'[q][b] = None
  BY <1>3
<1>. QED  BY <1>4, <1>b

LEMMA CleanersKept ==
    ASSUME RateAssumption, RateInv, cleaner' = cleaner, holder' = holder, now' \in Nat, now <= now',
           \A b \in Bucket : holder[b] # None =>
               \A r \in Request : expires'[r][b] = expires[r][b]
    PROVE  \A c \in Cleaner : CleanerHolds(c)'
<1>. SUFFICES ASSUME NEW c \in Cleaner, cleaner[c].pc = "purge",
                     NEW b \in Bucket, cleaner[c].doomed[b] # {}
              PROVE  holder[b] = c /\ cleaner[c].doomed[b] \subseteq Expired(b)'
  BY DEF CleanerHolds
<1>1. holder[b] = c /\ cleaner[c].doomed[b] \subseteq Expired(b) /\ c # None
  BY DEF RateInv, CleanerHolds, RateAssumption
<1>2. ASSUME NEW r \in Expired(b) PROVE r \in Expired(b)'
  <2>1. r \in Request /\ expires[r][b] # None /\ expires[r][b] <= now /\ now \in Nat
        /\ expires[r][b] \in Nat
    BY RowTypes DEF Expired, Reservations, RateInv
  <2>2. expires'[r][b] = expires[r][b]
    BY <1>1, <2>1
  <2>. QED  BY <2>1, <2>2 DEF Expired, Reservations
<1>. QED  BY <1>1, <1>2

\* A statement under a bucket's lock disturbs no other bucket and no other request.
LEMMA LockedStep ==
    ASSUME RateAssumption, RateInv, TypeOK', NEW r \in Request, NEW b \in Bucket,
           holder[b] = None, now' = now, plan' = plan, cleaner' = cleaner, holder' = holder,
           \A a \in Bucket : a # b =>
               /\ bucket'[a] = bucket[a]
               /\ \A q \in Request : /\ expires'[q][a] = expires[q][a]
                                     /\ granted'[q][a] = granted[q][a]
                                     /\ spent'[q][a] = spent[q][a],
           \A q \in Request : q # r => req'[q] = req[q] /\ granted'[q] = granted[q],
           \A q \in Request : q # r =>
               \A a \in Bucket : expires[q][a] = None => expires'[q][a] = None,
           BucketInv(b)', Ahead(r)'
    PROVE  RateInv'
<1>1. TypeOK /\ now \in Nat /\ now <= now
  BY RateInvNow
<1>2. ASSUME NEW a \in Bucket, a # b PROVE BucketInv(a)'
  <2>1. BucketInv(a)
    BY DEF RateInv
  <2>. QED  BY <1>1, <1>2, <2>1, BucketKept
<1>3. ASSUME NEW q \in Request, q # r PROVE Ahead(q)'
  <2>1. Ahead(q)
    BY DEF RateInv
  <2>. QED  BY <1>1, <1>3, <2>1, AheadKept
<1>4. \A c \in Cleaner : CleanerHolds(c)'
  BY <1>1, CleanersKept
<1>. QED  BY <1>2, <1>3, <1>4 DEF RateInv

\* A step of one request that writes no bucket, and does not turn back.
LEMMA QuietStep ==
    ASSUME RateAssumption, RateInv, NEW r \in Request, NEW record, Moves(r, record),
           record \in RequestState, record.at \in 1..Len(plan[r].buckets),
           record.pc \in {"new", "found", "next"} =>
               req[r].pc \in {"new", "found", "next"} /\ record.at = req[r].at,
           UNCHANGED <<now, plan, data, cleaner, holder>>
    PROVE  RateInv'
<1>0. TypeOK /\ now \in Nat /\ now <= now
  BY RateInvNow
<1>1. /\ RequestsTyped' /\ req'[r] = record
      /\ \A q \in Request : q # r => req'[q] = req[q]
  BY <1>0, MovesTyped
<1>2. RowsTyped' /\ ReservationsTyped' /\ HistoryTyped' /\ CleanersTyped'
  BY <1>0, TypeParts DEF data, RowsTyped, ReservationsTyped, HistoryTyped, CleanersTyped
<1>3. TypeOK'
  BY <1>1, <1>2, TypeParts
<1>4. \A b \in Bucket : BucketInv(b)'
  BY <1>3, CountersKept
<1>5. ASSUME NEW q \in Request, q # r PROVE Ahead(q)'
  BY <1>0, <1>1, <1>5, AheadKept DEF RateInv, data
<1>6. Ahead(r)'
  <2>1. Ahead(r)
    BY DEF RateInv
  <2>. QED  BY <1>1, <2>1 DEF Ahead, data
<1>7. \A c \in Cleaner : CleanerHolds(c)'
  BY <1>0, CleanersKept DEF data
<1>. QED  BY <1>3, <1>4, <1>5, <1>6, <1>7 DEF RateInv

-----------------------------------------------------------------------------
(* check. *)

\* A bucket that starts again has admitted nobody in the window that begins.
LEMMA NobodyYet ==
    ASSUME RateAssumption, TypeOK, NEW b \in Bucket, GrantsPast(b), ~Kept(b), NEW r \in Request
    PROVE  granted[r][b] # now /\ (granted[r][b] # None => granted[r][b] < now)
<1>1. now \in Nat /\ Policy[b].window \in Nat \ {0} /\ granted[r][b] \in Nat \cup {None}
  BY RowTypes
<1>2. CASE bucket[b] = None
  BY <1>1, <1>2 DEF GrantsPast, RateAssumption
<1>3. CASE bucket[b] # None
  <2>1. bucket[b].start \in Nat /\ bucket[b].start + Policy[b].window <= now
    BY <1>3, RowTypes DEF Kept, Over, Ends
  <2>2. granted[r][b] # None => granted[r][b] <= bucket[b].start
    BY <1>3 DEF GrantsPast
  <2>. QED  BY <1>1, <2>1, <2>2 DEF RateAssumption
<1>. QED  BY <1>2, <1>3

\* A checked bucket has no reservations.
LEMMA OnlyCounted ==
    ASSUME NEW b \in Bucket, ReservationsCurrent(b), Checked(b)
    PROVE  \A r \in Request : expires[r][b] = None
BY DEF ReservationsCurrent

LEMMA CheckBucket ==
    ASSUME RateAssumption, RateInv, TypeOK', NEW r \in Request, NEW b \in Bucket, Checked(b),
           NEW row \in BucketRow, row = Upserted(b), bucket'[b] = row,
           now' = now, plan' = plan, expires' = expires,
           \A q \in Request : granted'[q][b] = granted[q][b] \/
                              (q = r /\ row.count <= Policy[b].limit /\ granted'[q][b] = row.start)
    PROVE  BucketInv(b)'
<1>1. TypeOK /\ now \in Nat /\ BucketInv(b)
  BY RateInvNow DEF RateInv
<1>2. /\ row.start \in Nat /\ row.count \in Nat /\ row # None /\ Policy[b].limit \in Nat \ {0}
      /\ bucket[b] # None => bucket[b].start \in Nat /\ bucket[b].count \in Nat
      /\ \A q \in Request : granted[q][b] \in Nat \cup {None}
      /\ None \notin Nat
  BY <1>1, RowTypes DEF RateAssumption, BucketRow
<1>3. /\ ~Kept(b) => row.start = now /\ row.count = 1
      /\ Kept(b) => bucket[b] # None /\ row.start = bucket[b].start /\ row.count = bucket[b].count + 1
  BY <1>1, UpsertedRow DEF Kept
<1>4. /\ Checked(b)' /\ Reservations(b)' = {}
      /\ \A q \in Request : expires'[q][b] = None
  BY <1>1, OnlyCounted DEF Checked, Reservations, BucketInv
<1>5. GrantsPast(b)'
  <2>. SUFFICES ASSUME NEW q \in Request, granted'[q][b] # None
                PROVE  granted'[q][b] <= row.start
    BY <1>2 DEF GrantsPast
  <2>1. CASE granted'[q][b] = row.start
    BY <1>2, <2>1
  <2>2. CASE granted'[q][b] = granted[q][b] /\ ~Kept(b)
    <3>1. granted[q][b] < now
      BY <1>1, <2>2, NobodyYet DEF BucketInv
    <3>. QED  BY <1>1, <1>2, <1>3, <2>2, <3>1
  <2>3. CASE granted'[q][b] = granted[q][b] /\ Kept(b)
    BY <1>1, <1>2, <1>3, <2>3 DEF BucketInv, GrantsPast
  <2>. QED  BY <2>1, <2>2, <2>3
<1>. DEFINE new == Admitted(b)'
<1>6. Cardinality(new) <= row.count /\ Cardinality(new) <= Policy[b].limit
  <2>0. new \in SUBSET Request /\ Admitted(b) \in SUBSET Request /\ Cardinality(new) \in Nat
        /\ Cardinality(Admitted(b)) \in Nat
    BY Finite DEF Admitted
  <2>1. CASE ~Kept(b)
    <3>1. new \subseteq {r}
      BY <1>1, <1>3, <2>1, NobodyYet DEF BucketInv, Admitted
    <3>2. IsFiniteSet({r}) /\ Cardinality({r}) = 1
      BY FS_Singleton
    <3>3. Cardinality(new) <= 1
      BY <3>1, <3>2, FS_Subset
    <3>. QED  BY <1>2, <1>3, <2>0, <2>1, <3>3
  <2>2. CASE Kept(b)
    <3>1. new \subseteq Admitted(b) \cup {r}
      BY <1>3, <2>2 DEF Admitted
    <3>2. Cardinality(new) <= Cardinality(Admitted(b) \cup {r})
      BY <2>0, <3>1, Finite, FS_Subset, Admitted(b) \cup {r} \in SUBSET Request
    <3>3. Cardinality(Admitted(b) \cup {r}) <= Cardinality(Admitted(b)) + 1
      BY <2>0, OneMore
    <3>4. Cardinality(Admitted(b)) <= bucket[b].count /\ Cardinality(Admitted(b)) <= Policy[b].limit
      BY <1>1, <1>3, <2>2 DEF BucketInv, Budget, ChecksCounted
    <3>5. Cardinality(Admitted(b) \cup {r}) \in Nat
      BY <2>0, Finite, Admitted(b) \cup {r} \in SUBSET Request
    <3>6. Cardinality(new) <= row.count
      BY <1>2, <1>3, <2>0, <2>2, <3>2, <3>3, <3>4, <3>5
    <3>7. row.count <= Policy[b].limit \/ new \subseteq Admitted(b)
      BY <1>3, <2>2 DEF Admitted
    <3>8. new \subseteq Admitted(b) => Cardinality(new) <= Cardinality(Admitted(b))
      BY <2>0, Finite, FS_Subset
    <3>9. Cardinality(new) <= Policy[b].limit
      BY <1>2, <2>0, <3>4, <3>6, <3>7, <3>8
    <3>. QED  BY <3>6, <3>9
  <2>. QED  BY <2>1, <2>2
<1>7. Counts(b)' /\ Budget(b)' /\ ReservationsCurrent(b)' /\ WindowWithin(b)' /\ ChecksCounted(b)'
  BY <1>2, <1>4, <1>6 DEF Counts, Budget, ReservationsCurrent, WindowWithin, ChecksCounted
<1>. QED  BY <1>5, <1>7 DEF BucketInv

LEMMA CheckStep ==
    ASSUME RateAssumption, RateInv, NEW r \in Request, Check(r)
    PROVE  RateInv'
<1>1. TypeOK /\ now \in Nat /\ plan[r].kind = "check"
  BY RateInvNow DEF Check
<1>b. PICK b \in Bucket : b = Target(r)
  BY <1>1, PlanTypes
<1>2. Checked(b)
  BY <1>1, <1>b, Unmixed
<1>r. PICK row \in BucketRow : row = Upserted(b)
  BY <1>1, UpsertedRow
<1>3. /\ row.start <= row.updated /\ row.updated = now
      /\ row.start \in Nat /\ row.count \in Nat
  BY <1>1, <1>r, UpsertedRow DEF BucketRow
<1>4. /\ holder[b] = None /\ bucket' = [bucket EXCEPT ![b] = row]
      /\ now' = now /\ plan' = plan /\ expires' = expires
      /\ cleaner' = cleaner /\ holder' = holder
      /\ \/ /\ row.count <= Policy[b].limit /\ Moves(r, Done("ended"))
            /\ granted' = [granted EXCEPT ![r][b] = row.start]
            /\ spent' = [spent EXCEPT ![r][b] = TRUE]
         \/ Moves(r, Done("refused")) /\ UNCHANGED <<granted, spent>>
  BY <1>b, <1>r DEF Check, Allows
<1>5. /\ RowsTyped' /\ bucket'[b] = row
      /\ \A a \in Bucket : a # b => bucket'[a] = bucket[a]
  <2>1. row.updated <= now
    BY <1>1, <1>3
  <2>. QED  BY <1>1, <1>3, <1>4, <2>1, RowWritten
<1>6. PICK pc \in {"ended", "refused"} : Moves(r, Done(pc))
  BY <1>4
<1>7. /\ RequestsTyped' /\ req'[r] = Done(pc)
      /\ \A q \in Request : q # r => req'[q] = req[q]
  BY <1>1, <1>4, <1>6, DoneTyped, MovesTyped
<1>8. /\ HistoryTyped'
      /\ \A q \in Request, a \in Bucket : q # r \/ a # b =>
           granted'[q][a] = granted[q][a] /\ spent'[q][a] = spent[q][a]
      /\ granted'[r][b] = granted[r][b] \/
           (row.count <= Policy[b].limit /\ granted'[r][b] = row.start)
      /\ \A q \in Request : q # r => granted'[q] = granted[q]
  <2>1. HistoryTyped /\ granted \in [Request -> [Bucket -> Nat \cup {None}]]
    BY <1>1, TypeParts DEF HistoryTyped
  <2>2. CASE UNCHANGED <<granted, spent>>
    BY <2>1, <2>2 DEF HistoryTyped
  <2>3. CASE /\ row.count <= Policy[b].limit
             /\ granted' = [granted EXCEPT ![r][b] = row.start]
             /\ spent' = [spent EXCEPT ![r][b] = TRUE]
    <3>1. \A q \in Request : q # r => granted'[q] = granted[q]
      BY <2>1, <2>3
    <3>. QED  BY <1>1, <1>3, <2>3, <3>1, HistoryWritten
  <2>. QED  BY <1>4, <2>2, <2>3
<1>9. TypeOK'
  <2>1. ReservationsTyped' /\ CleanersTyped'
    BY <1>1, <1>4, TypeParts DEF ReservationsTyped, CleanersTyped
  <2>. QED  BY <1>5, <1>7, <1>8, <2>1, TypeParts
<1>10. BucketInv(b)'
  <2>1. \A q \in Request : granted'[q][b] = granted[q][b] \/
                            (q = r /\ row.count <= Policy[b].limit /\ granted'[q][b] = row.start)
    BY <1>8
  <2>2. b \in Bucket /\ row \in BucketRow /\ row = Upserted(b) /\ Checked(b) /\ bucket'[b] = row
    BY <1>b, <1>r, <1>2, <1>5
  <2>3. now' = now /\ plan' = plan /\ expires' = expires /\ TypeOK'
    BY <1>4, <1>9
  <2>. QED  BY <2>1, <2>2, <2>3, CheckBucket
<1>11. Ahead(r)'
  BY <1>7 DEF Ahead, Done
<1>12. \A a \in Bucket : a # b =>
          /\ bucket'[a] = bucket[a]
          /\ \A q \in Request : /\ expires'[q][a] = expires[q][a]
                                /\ granted'[q][a] = granted[q][a]
                                /\ spent'[q][a] = spent[q][a]
  BY <1>4, <1>5, <1>8
<1>13. /\ \A q \in Request : q # r => req'[q] = req[q] /\ granted'[q] = granted[q]
       /\ \A q \in Request : q # r =>
            \A a \in Bucket : expires[q][a] = None => expires'[q][a] = None
  BY <1>4, <1>7, <1>8
<1>. QED  BY <1>b, <1>4, <1>9, <1>10, <1>11, <1>12, <1>13, LockedStep

-----------------------------------------------------------------------------
(* reserve. *)

\* One more reservation, in the window that was open or in one that begins: nobody has
\* spent or reserved in a window that begins.
LEMMA AdmitBucket ==
    ASSUME RateAssumption, RateInv, TypeOK', NEW r \in Request, NEW b \in Bucket, ~Checked(b),
           NEW opened \in BucketRow, opened = Opened(b), ~Full(b, opened),
           bucket'[b] \in BucketRow, bucket'[b].start = opened.start,
           bucket'[b].count = opened.count, bucket'[b].reserved = opened.reserved + 1,
           now' = now, plan' = plan, expires[r][b] = None, granted[r][b] = None,
           expires'[r][b] = opened.start + Policy[b].window,
           granted'[r][b] = opened.start, ~spent'[r][b],
           \A q \in Request : q # r =>
               /\ expires'[q][b] = IF Kept(b) THEN expires[q][b] ELSE None
               /\ granted'[q][b] = granted[q][b] /\ spent'[q][b] = spent[q][b]
    PROVE  BucketInv(b)'
<1>1. TypeOK /\ now \in Nat /\ BucketInv(b)
  BY RateInvNow DEF RateInv
<1>2. /\ opened.start \in Nat /\ opened.count \in Nat /\ opened.reserved \in Nat
      /\ Policy[b].limit \in Nat /\ Policy[b].window \in Nat \ {0}
      /\ None \notin Nat /\ bucket'[b] # None
      /\ \A q \in Request : granted[q][b] \in Nat \cup {None}
  BY <1>1, RowTypes DEF RateAssumption, BucketRow
<1>3. /\ Kept(b) => bucket[b] # None /\ ~Over(b) /\ opened = bucket[b]
      /\ ~Kept(b) => opened.start = now /\ opened.count = 0 /\ opened.reserved = 0
  BY <1>1, OpenedRow DEF Kept
<1>4. opened.count + opened.reserved < Policy[b].limit
  BY <1>2 DEF Full
<1>5. \E S, R \in SUBSET Request :
        /\ opened.count = Cardinality(S) /\ opened.reserved = Cardinality(R) /\ r \notin R
        /\ Spenders(b)' = S /\ Reservations(b)' = R \cup {r}
        /\ Admitted(b)' \subseteq S \cup R \cup {r}
  <2>1. CASE Kept(b)
    <3>1. /\ opened.count = Cardinality(Spenders(b))
          /\ opened.reserved = Cardinality(Reservations(b))
      BY <1>1, <1>3, <2>1 DEF BucketInv, Counts
    <3>2. r \notin Reservations(b) /\ Reservations(b)' = Reservations(b) \cup {r}
      BY <1>2, <2>1 DEF Reservations
    <3>3. Spenders(b)' = Spenders(b)
      BY <1>2, <1>3, <2>1 DEF Spenders
    <3>4. Admitted(b) \subseteq Spenders(b) \cup Reservations(b)
      BY <1>1, <1>3, <2>1 DEF BucketInv, WindowWithin, Admitted, Spenders, Reservations
    <3>5. Admitted(b)' \subseteq Spenders(b) \cup Reservations(b) \cup {r}
      BY <1>3, <2>1, <3>4 DEF Admitted
    <3>. QED  BY <3>1, <3>2, <3>3, <3>5 DEF Spenders, Reservations
  <2>2. CASE ~Kept(b)
    <3>1. \A q \in Request : q # r => granted'[q][b] # bucket'[b].start
      <4>1. opened.start = now /\ bucket'[b].start = now
        BY <1>3, <2>2
      <4>2. \A q \in Request : granted[q][b] # now
        BY <1>1, <2>2, NobodyYet DEF BucketInv
      <4>. QED  BY <4>1, <4>2
    <3>2. Spenders(b)' = {} /\ Admitted(b)' \subseteq {r}
      BY <3>1 DEF Spenders, Admitted
    <3>3. Reservations(b)' = {r}
      BY <1>2, <2>2 DEF Reservations
    <3>4. Cardinality({}) = 0
      BY FS_EmptySet
    <3>5. /\ opened.count = Cardinality({}) /\ opened.reserved = Cardinality({})
          /\ Reservations(b)' = {} \cup {r} /\ Admitted(b)' \subseteq {} \cup {} \cup {r}
      BY <1>3, <2>2, <3>2, <3>3, <3>4
    <3>6. {} \in SUBSET Request
      OBVIOUS
    <3>. QED  BY <3>2, <3>5, <3>6
  <2>. QED  BY <2>1, <2>2
<1>6. PICK S, R \in SUBSET Request :
        /\ opened.count = Cardinality(S) /\ opened.reserved = Cardinality(R) /\ r \notin R
        /\ Spenders(b)' = S /\ Reservations(b)' = R \cup {r}
        /\ Admitted(b)' \subseteq S \cup R \cup {r}
  BY <1>5
<1>7. Cardinality(R \cup {r}) = opened.reserved + 1
  <2>1. R \in SUBSET Request /\ r \notin R /\ opened.reserved = Cardinality(R)
    BY <1>6
  <2>2. Cardinality(R \cup {r}) = Cardinality(R) + 1
    BY <2>1, OneMore
  <2>. QED  BY <2>1, <2>2
<1>8. Counts(b)'
  BY <1>2, <1>6, <1>7 DEF Counts
<1>9. Budget(b)'
  <2>1. Admitted(b)' \in SUBSET Request
    BY DEF Admitted
  <2>2. Cardinality(Admitted(b)') <= Cardinality(S) + Cardinality(R \cup {r})
    BY <1>6, <2>1, WithinBudget, R \cup {r} \in SUBSET Request, Admitted(b)' \subseteq S \cup (R \cup {r})
  <2>3. Cardinality(Admitted(b)') \in Nat
    BY <2>1, Finite
  <2>4. Cardinality(Admitted(b)') <= Policy[b].limit
    BY <1>2, <1>4, <1>6, <1>7, <2>2, <2>3
  <2>. QED  BY <2>4 DEF Budget
<1>10. ReservationsCurrent(b)'
  <2>. SUFFICES ASSUME NEW q \in Request, expires'[q][b] # None
                PROVE  /\ expires'[q][b] = Ends(b)' /\ ~Checked(b)'
                       /\ granted'[q][b] = bucket'[b].start /\ ~spent'[q][b]
    BY <1>2 DEF ReservationsCurrent
  <2>1. ~Checked(b)'
    BY DEF Checked
  <2>2. CASE q = r
    BY <2>1, <2>2 DEF Ends
  <2>3. CASE q # r
    <3>1. Kept(b) /\ expires[q][b] # None /\ expires'[q][b] = expires[q][b]
      BY <2>3
    <3>2. /\ expires[q][b] = Ends(b) /\ granted[q][b] = bucket[b].start
          /\ ~spent[q][b]
      BY <1>1, <3>1 DEF BucketInv, ReservationsCurrent
    <3>3. bucket[b].start = bucket'[b].start
      BY <1>3, <3>1
    <3>4. Ends(b)' = Ends(b)
      BY <3>3 DEF Ends
    <3>5. granted'[q][b] = granted[q][b] /\ spent'[q][b] = spent[q][b]
      BY <2>3
    <3>. QED  BY <2>1, <3>1, <3>2, <3>3, <3>4, <3>5
  <2>. QED  BY <2>2, <2>3
<1>11. GrantsPast(b)'
  <2>. SUFFICES ASSUME NEW q \in Request, granted'[q][b] # None
                PROVE  granted'[q][b] <= opened.start
    BY <1>2 DEF GrantsPast
  <2>1. CASE q = r
    BY <1>2, <2>1
  <2>2. CASE q # r /\ Kept(b)
    BY <1>1, <1>3, <2>2 DEF BucketInv, GrantsPast
  <2>3. CASE q # r /\ ~Kept(b)
    <3>1. granted[q][b] < now /\ granted[q][b] \in Nat
      BY <1>1, <1>2, <2>3, NobodyYet DEF BucketInv
    <3>. QED  BY <1>1, <1>3, <2>3, <3>1
  <2>. QED  BY <2>1, <2>2, <2>3
<1>12. WindowWithin(b)'
  <2>1. bucket'[b].count + bucket'[b].reserved <= Policy[b].limit
    BY <1>2, <1>4
  <2>2. ASSUME NEW q \in Request, granted'[q][b] = bucket'[b].start
        PROVE  spent'[q][b] \/ expires'[q][b] # None
    BY <1>6, <2>2 DEF Admitted, Spenders, Reservations
  <2>. QED  BY <2>1, <2>2 DEF WindowWithin, Admitted
<1>13. ChecksCounted(b)'
  BY DEF ChecksCounted, Checked
<1>. QED  BY <1>8, <1>9, <1>10, <1>11, <1>12, <1>13 DEF BucketInv

LEMMA ClearedReservations ==
    ASSUME RateAssumption, TypeOK, NEW b \in Bucket
    PROVE  /\ Cleared(b) \in [Request -> [Bucket -> Nat \cup {None}]]
           /\ \A q \in Request, a \in Bucket :
                Cleared(b)[q][a] = IF a = b /\ ~Kept(b) THEN None ELSE expires[q][a]
<1>1. expires \in [Request -> [Bucket -> Nat \cup {None}]]
  BY DEF TypeOK
<1>. QED  BY <1>1 DEF Cleared

\* A request about to reserve holds nothing in the bucket, nor was it ever admitted.
LEMMA ReserveBegins ==
    ASSUME RateAssumption, RateInv, NEW r \in Request, Reserve(r)
    PROVE  /\ req[r].pc \in {"new", "found", "next"} /\ plan[r].kind # "check"
           /\ expires[r][Target(r)] = None /\ granted[r][Target(r)] = None
<1>1. req[r].pc \in {"new", "found", "next"} /\ plan[r].kind # "check"
  BY DEF Reserve, At
<1>2. req[r].at \in 1..Len(plan[r].buckets) /\ Len(plan[r].buckets) \in Nat
  BY RateInvNow, PlanTypes
<1>3. req[r].at \in req[r].at..Len(plan[r].buckets)
  BY <1>2
<1>. QED  BY <1>1, <1>3 DEF RateInv, Ahead, Target

LEMMA RefuseStep ==
    ASSUME RateAssumption, RateInv, NEW r \in Request, Reserve(r),
           NEW b \in Bucket, b = Target(r), Full(b, Opened(b))
    PROVE  RateInv'
<1>1. TypeOK /\ now \in Nat /\ now <= now /\ BucketInv(b)
  BY RateInvNow DEF RateInv
<1>2. Kept(b) /\ bucket[b] # None /\ Opened(b) = bucket[b] /\ bucket[b] \in BucketRow
      /\ bucket[b].start <= bucket[b].updated /\ bucket[b].updated <= now
      /\ bucket[b].start \in Nat /\ bucket[b].updated \in Nat
  BY <1>1, FullIsKept, OpenedRow, RowTypes DEF Kept
<1>w. PICK row \in BucketRow : row = Denied(b, bucket[b])
  BY <1>1, <1>2, DeniedRow
<1>3. /\ row.updated = now /\ row.start = bucket[b].start /\ row.count = bucket[b].count
      /\ row.reserved = bucket[b].reserved
  BY <1>1, <1>2, <1>w, DeniedRow
<1>4. /\ holder[b] = None /\ bucket' = [bucket EXCEPT ![b] = row] /\ expires' = Cleared(b)
      /\ Moves(r, IF req[r].at = 1 THEN Done("refused")
                  ELSE [pc |-> "settle", at |-> 1, outcome |-> "refused"])
      /\ granted' = granted /\ spent' = spent
      /\ now' = now /\ plan' = plan /\ cleaner' = cleaner /\ holder' = holder
  BY <1>2, <1>w DEF Reserve
<1>m. PICK record \in RequestState : /\ Moves(r, record) /\ record.at = 1
                                     /\ record.pc \in {"refused", "settle"}
  <2>1. Done("refused") \in RequestState /\ Done("refused").at = 1 /\ Done("refused").pc = "refused"
    BY DEF RequestState, Done
  <2>2. [pc |-> "settle", at |-> 1, outcome |-> "refused"] \in RequestState
    BY DEF RequestState
  <2>3. CASE req[r].at = 1
    BY <1>4, <2>1, <2>3
  <2>4. CASE req[r].at # 1
    BY <1>4, <2>2, <2>4
  <2>. QED  BY <2>3, <2>4
<1>5. /\ RequestsTyped' /\ req'[r] = record
      /\ \A q \in Request : q # r => req'[q] = req[q]
  <2>1. record.at \in 1..Len(plan[r].buckets)
    BY <1>1, <1>m, PlanTypes
  <2>. QED  BY <1>1, <1>4, <1>m, <2>1, MovesTyped
<1>6. /\ RowsTyped' /\ bucket'[b] = row
      /\ \A a \in Bucket : a # b => bucket'[a] = bucket[a]
  <2>1. row.start <= row.updated /\ row.updated <= now
    BY <1>1, <1>2, <1>3
  <2>. QED  BY <1>1, <1>4, <2>1, RowWritten
<1>7. /\ expires' \in [Request -> [Bucket -> Nat \cup {None}]]
      /\ \A q \in Request, a \in Bucket : expires'[q][a] = expires[q][a]
  <2>1. /\ Cleared(b) \in [Request -> [Bucket -> Nat \cup {None}]]
        /\ \A q \in Request, a \in Bucket :
             Cleared(b)[q][a] = IF a = b /\ ~Kept(b) THEN None ELSE expires[q][a]
    BY <1>1, ClearedReservations
  <2>2. \A q \in Request, a \in Bucket : Cleared(b)[q][a] = expires[q][a]
    BY <1>2, <2>1
  <2>. QED  BY <1>4, <2>1, <2>2
<1>8. TypeOK'
  <2>1. ReservationsTyped'
    BY <1>1, <1>4, <1>7, TypeParts DEF ReservationsTyped
  <2>2. HistoryTyped' /\ CleanersTyped'
    BY <1>1, <1>4, TypeParts DEF HistoryTyped, CleanersTyped
  <2>. QED  BY <1>5, <1>6, <2>1, <2>2, TypeParts
<1>9. BucketInv(b)'
  <2>1. bucket'[b] # None
    BY <1>6 DEF RateAssumption
  <2>2. \A q \in Request : /\ expires'[q][b] = expires[q][b]
                           /\ granted'[q][b] = granted[q][b] /\ spent'[q][b] = spent[q][b]
    BY <1>4, <1>7
  <2>3. /\ (bucket'[b] = None) <=> (bucket[b] = None)
        /\ bucket'[b].start = bucket[b].start /\ bucket'[b].count = bucket[b].count
        /\ bucket'[b].reserved = bucket[b].reserved
    BY <1>2, <1>3, <1>6, <2>1
  <2>4. plan' = plan /\ now' \in Nat /\ now <= now'
    BY <1>1, <1>4
  <2>. QED  BY <1>1, <1>8, <2>2, <2>3, <2>4, BucketKept
<1>10. Ahead(r)'
  BY <1>5, <1>m DEF Ahead
<1>11. \A a \in Bucket : a # b =>
          /\ bucket'[a] = bucket[a]
          /\ \A q \in Request : /\ expires'[q][a] = expires[q][a]
                                /\ granted'[q][a] = granted[q][a]
                                /\ spent'[q][a] = spent[q][a]
  BY <1>4, <1>6, <1>7
<1>12. /\ \A q \in Request : q # r => req'[q] = req[q] /\ granted'[q] = granted[q]
       /\ \A q \in Request : q # r =>
            \A a \in Bucket : expires[q][a] = None => expires'[q][a] = None
  BY <1>4, <1>5, <1>7
<1>. QED  BY <1>4, <1>8, <1>9, <1>10, <1>11, <1>12, LockedStep

LEMMA AdmitStep ==
    ASSUME RateAssumption, RateInv, NEW r \in Request, Reserve(r),
           NEW b \in Bucket, b = Target(r), ~Full(b, Opened(b))
    PROVE  RateInv'
<1>1. TypeOK /\ now \in Nat
  BY RateInvNow
<1>2. /\ ~Checked(b) /\ expires[r][b] = None /\ granted[r][b] = None
      /\ req[r].pc \in {"new", "found", "next"}
  BY <1>1, ReserveBegins, Unmixed
<1>o. PICK opened \in BucketRow : opened = Opened(b)
  BY <1>1, OpenedRow
<1>3. /\ opened.start \in Nat /\ opened.reserved \in Nat /\ opened.updated \in Nat
      /\ opened.start <= opened.updated /\ opened.updated <= now
      /\ Policy[b].window \in Nat
  BY <1>1, <1>o, OpenedRow, RowTypes DEF BucketRow
<1>w. PICK row \in BucketRow : row = [opened EXCEPT !.reserved = @ + 1, !.updated = now]
  <2>1. PICK n \in Nat : n = opened.reserved + 1
    BY <1>3
  <2>2. [opened EXCEPT !.reserved = n, !.updated = now] \in BucketRow
    BY <1>1 DEF BucketRow
  <2>. QED  BY <2>1, <2>2
<1>e. PICK until \in Nat : until = opened.start + Policy[b].window
  BY <1>3
<1>4. /\ holder[b] = None /\ bucket' = [bucket EXCEPT ![b] = row]
      /\ expires' = [Cleared(b) EXCEPT ![r][b] = until]
      /\ Moves(r, IF IsLast(r) THEN [req[r] EXCEPT !.pc = "work", !.at = 1]
                  ELSE [req[r] EXCEPT !.pc = "next", !.at = @ + 1])
      /\ granted' = [granted EXCEPT ![r][b] = opened.start]
      /\ spent' = [spent EXCEPT ![r][b] = FALSE]
      /\ now' = now /\ plan' = plan /\ cleaner' = cleaner /\ holder' = holder
  BY <1>o, <1>w, <1>e DEF Reserve, Expiry
<1>5. /\ row.start = opened.start /\ row.count = opened.count
      /\ row.reserved = opened.reserved + 1 /\ row.updated = now
  BY <1>o, <1>w DEF BucketRow
<1>m. PICK record \in RequestState :
        /\ Moves(r, record) /\ record.at \in 1..Len(plan[r].buckets)
        /\ record.pc \in {"work", "next"}
        /\ record.pc = "next" => record.at = req[r].at + 1
  <2>1. /\ req[r] \in RequestState /\ Len(plan[r].buckets) \in Nat
        /\ req[r].at \in 1..Len(plan[r].buckets) /\ 1 \in 1..Len(plan[r].buckets)
    BY <1>1, PlanTypes, TypeParts DEF RequestsTyped
  <2>2. CASE IsLast(r)
    <3>1. [req[r] EXCEPT !.pc = "work", !.at = 1] \in RequestState
      BY <2>1 DEF RequestState
    <3>2. /\ [req[r] EXCEPT !.pc = "work", !.at = 1].pc = "work"
          /\ [req[r] EXCEPT !.pc = "work", !.at = 1].at = 1
      BY <2>1 DEF RequestState
    <3>. QED  BY <1>4, <2>1, <2>2, <3>1, <3>2
  <2>3. CASE ~IsLast(r)
    <3>1. req[r].at + 1 \in 1..Len(plan[r].buckets) /\ req[r].at + 1 \in Nat
      <4>1. PICK i, n \in Nat : i = req[r].at /\ n = Len(plan[r].buckets) /\ i \in 1..n
        BY <2>1
      <4>2. i # n
        BY <2>3, <4>1 DEF IsLast
      <4>3. i + 1 \in 1..n /\ i + 1 \in Nat
        BY ONLY <4>1, <4>2, i \in Nat, n \in Nat
      <4>. QED  BY <4>1, <4>3
    <3>2. [req[r] EXCEPT !.pc = "next", !.at = @ + 1] \in RequestState
      BY <2>1, <3>1 DEF RequestState
    <3>3. /\ [req[r] EXCEPT !.pc = "next", !.at = @ + 1].pc = "next"
          /\ [req[r] EXCEPT !.pc = "next", !.at = @ + 1].at = req[r].at + 1
      BY <2>1 DEF RequestState
    <3>. QED  BY <1>4, <2>3, <3>1, <3>2, <3>3
  <2>. QED  BY <2>2, <2>3
<1>6. /\ RequestsTyped' /\ req'[r] = record
      /\ \A q \in Request : q # r => req'[q] = req[q]
  BY <1>1, <1>4, <1>m, MovesTyped
<1>7. /\ RowsTyped' /\ bucket'[b] = row
      /\ \A a \in Bucket : a # b => bucket'[a] = bucket[a]
  <2>1. row.start <= row.updated /\ row.updated <= now
    BY <1>1, <1>3, <1>5
  <2>. QED  BY <1>1, <1>4, <2>1, RowWritten
<1>8. /\ expires' \in [Request -> [Bucket -> Nat \cup {None}]] /\ expires'[r][b] = until
      /\ \A q \in Request, a \in Bucket : q # r \/ a # b =>
           expires'[q][a] = IF a = b /\ ~Kept(b) THEN None ELSE expires[q][a]
  <2>1. /\ Cleared(b) \in [Request -> [Bucket -> Nat \cup {None}]]
        /\ \A q \in Request, a \in Bucket :
             Cleared(b)[q][a] = IF a = b /\ ~Kept(b) THEN None ELSE expires[q][a]
    BY <1>1, ClearedReservations
  <2>2. /\ expires' \in [Request -> [Bucket -> Nat \cup {None}]] /\ expires'[r][b] = until
        /\ \A q \in Request, a \in Bucket : q # r \/ a # b => expires'[q][a] = Cleared(b)[q][a]
    BY <1>4, <2>1
  <2>. QED  BY <2>1, <2>2
<1>9. /\ HistoryTyped' /\ granted'[r][b] = opened.start /\ ~spent'[r][b]
      /\ \A q \in Request, a \in Bucket : q # r \/ a # b =>
           granted'[q][a] = granted[q][a] /\ spent'[q][a] = spent[q][a]
      /\ \A q \in Request : q # r => granted'[q] = granted[q]
  <2>1. granted \in [Request -> [Bucket -> Nat \cup {None}]]
    BY <1>1 DEF TypeOK
  <2>2. \A q \in Request : q # r => granted'[q] = granted[q]
    BY <1>4, <2>1
  <2>4. /\ HistoryTyped' /\ granted'[r][b] = opened.start /\ ~spent'[r][b]
        /\ \A q \in Request, a \in Bucket : q # r \/ a # b =>
             granted'[q][a] = granted[q][a] /\ spent'[q][a] = spent[q][a]
    <3>1. /\ granted \in [Request -> [Bucket -> Nat \cup {None}]]
          /\ spent \in [Request -> [Bucket -> BOOLEAN]]
          /\ opened.start \in Nat /\ r \in Request /\ b \in Bucket
          /\ granted' = [granted EXCEPT ![r][b] = opened.start]
          /\ spent' = [spent EXCEPT ![r][b] = FALSE]
      BY <1>1, <1>3, <1>4 DEF TypeOK
    <3>. QED  BY ONLY <3>1 DEF HistoryTyped
  <2>. QED  BY <2>2, <2>4
<1>10. TypeOK'
  <2>1. ASSUME NEW q \in Request, NEW a \in Bucket, expires'[q][a] # None
        PROVE  expires'[q][a] <= now + Policy[a].window
    <3>1. CASE q = r /\ a = b
      BY <1>1, <1>3, <1>8, <1>e, <3>1
    <3>2. CASE q # r \/ a # b
      BY <1>1, <1>8, <2>1, <3>2 DEF TypeOK
    <3>. QED  BY <3>1, <3>2
  <2>2. ReservationsTyped'
    BY <1>4, <1>8, <2>1 DEF ReservationsTyped
  <2>3. CleanersTyped'
    BY <1>1, <1>4, TypeParts DEF CleanersTyped
  <2>. QED  BY <1>6, <1>7, <1>9, <2>2, <2>3, TypeParts
<1>11. BucketInv(b)'
  <2>1. \A q \in Request : q # r =>
          /\ expires'[q][b] = IF Kept(b) THEN expires[q][b] ELSE None
          /\ granted'[q][b] = granted[q][b] /\ spent'[q][b] = spent[q][b]
    BY <1>8, <1>9
  <2>2. /\ opened \in BucketRow /\ opened = Opened(b) /\ ~Full(b, opened)
        /\ bucket'[b] \in BucketRow /\ bucket'[b].start = opened.start
        /\ bucket'[b].count = opened.count /\ bucket'[b].reserved = opened.reserved + 1
    BY <1>o, <1>5, <1>7
  <2>3. /\ expires'[r][b] = opened.start + Policy[b].window
        /\ granted'[r][b] = opened.start /\ ~spent'[r][b]
        /\ now' = now /\ plan' = plan
    BY <1>4, <1>8, <1>9, <1>e
  <2>4. ~Checked(b) /\ expires[r][b] = None /\ granted[r][b] = None /\ TypeOK'
    BY <1>2, <1>10
  <2>5. b \in Bucket /\ r \in Request
    OBVIOUS
  <2>. QED  BY ONLY RateAssumption, RateInv, <2>1, <2>2, <2>3, <2>4, <2>5, AdmitBucket
<1>12. Ahead(r)'
  <2>. SUFFICES ASSUME record.pc = "next", NEW k \in record.at..Len(plan[r].buckets)
                PROVE  /\ expires'[r][plan[r].buckets[k]] = None
                       /\ granted'[r][plan[r].buckets[k]] = None
    BY <1>4, <1>6, <1>m DEF Ahead
  <2>1. /\ Len(plan[r].buckets) \in Nat /\ req[r].at \in 1..Len(plan[r].buckets)
        /\ \A l \in 1..Len(plan[r].buckets) : plan[r].buckets[l] \in Bucket
        /\ \A l, m \in 1..Len(plan[r].buckets) : plan[r].buckets[l] = plan[r].buckets[m] => l = m
    BY <1>1, PlanTypes
  <2>2. /\ k \in req[r].at..Len(plan[r].buckets) /\ k \in 1..Len(plan[r].buckets)
        /\ k # req[r].at
    BY <1>m, <2>1
  <2>3. plan[r].buckets[k] # plan[r].buckets[req[r].at]
    BY <2>1, <2>2
  <2>a. PICK a \in Bucket : a = plan[r].buckets[k]
    BY <2>1, <2>2
  <2>4. a # b
    BY <2>3, <2>a DEF Target
  <2>5. expires[r][a] = None /\ granted[r][a] = None
    BY <1>2, <2>2, <2>a DEF RateInv, Ahead
  <2>6. expires'[r][a] = None /\ granted'[r][a] = None
    BY <1>8, <1>9, <2>4, <2>5
  <2>. QED  BY <2>6, <2>a
<1>13. \A a \in Bucket : a # b =>
          /\ bucket'[a] = bucket[a]
          /\ \A q \in Request : /\ expires'[q][a] = expires[q][a]
                                /\ granted'[q][a] = granted[q][a]
                                /\ spent'[q][a] = spent[q][a]
  BY <1>7, <1>8, <1>9
<1>14. /\ \A q \in Request : q # r => req'[q] = req[q] /\ granted'[q] = granted[q]
       /\ \A q \in Request : q # r =>
            \A a \in Bucket : expires[q][a] = None => expires'[q][a] = None
  BY <1>6, <1>8, <1>9
<1>. QED  BY <1>4, <1>10, <1>11, <1>12, <1>13, <1>14, LockedStep

LEMMA ReserveStep ==
    ASSUME RateAssumption, RateInv, NEW r \in Request, Reserve(r)
    PROVE  RateInv'
<1>b. PICK b \in Bucket : b = Target(r)
  BY RateInvNow, PlanTypes
<1>. QED  BY <1>b, RefuseStep, AdmitStep

-----------------------------------------------------------------------------
(* The steps of a request that write no bucket. *)

LEMMA RecordMoved ==
    ASSUME RateAssumption, TypeOK, NEW r \in Request,
           NEW pc \in {"found", "finalize"}
    PROVE  /\ [req[r] EXCEPT !.pc = pc] \in RequestState
           /\ [req[r] EXCEPT !.pc = pc].pc = pc /\ [req[r] EXCEPT !.pc = pc].at = req[r].at
<1>1. req[r] \in RequestState
  BY TypeParts DEF RequestsTyped
<1>. QED  BY <1>1 DEF RequestState

LEMMA FindStep ==
    ASSUME RateAssumption, RateInv, NEW r \in Request, Find(r)
    PROVE  RateInv'
<1>1. TypeOK
  BY RateInvNow
<1>m. PICK record \in RequestState : record = [req[r] EXCEPT !.pc = "found"]
  BY <1>1, RecordMoved
<1>2. record.pc = "found" /\ record.at = req[r].at
  BY <1>1, <1>m, RecordMoved
<1>3. /\ Moves(r, record) /\ req[r].pc \in {"new", "found", "next"}
      /\ UNCHANGED <<now, plan, data, cleaner, holder>>
  BY <1>m DEF Find
<1>4. record.at \in 1..Len(plan[r].buckets)
  BY <1>1, <1>2, PlanTypes
<1>. QED  BY <1>2, <1>3, <1>4, QuietStep

\* A request ends where it is: it fails, or its instance dies.
LEMMA DeadStep ==
    ASSUME RateAssumption, RateInv, NEW r \in Request, Vanished(r) \/ Crash(r)
    PROVE  RateInv'
<1>1. TypeOK
  BY RateInvNow
<1>m. PICK record \in RequestState : record = Done("dead")
  BY <1>1, DoneTyped
<1>2. record.pc = "dead" /\ record.at \in 1..Len(plan[r].buckets)
  BY <1>1, <1>m, DoneTyped DEF Done
<1>3. Moves(r, record) /\ UNCHANGED <<now, plan, data, cleaner, holder>>
  BY <1>m DEF Vanished, Crash
<1>. QED  BY <1>2, <1>3, QuietStep

LEMMA WorkStep ==
    ASSUME RateAssumption, RateInv, NEW r \in Request, Work(r)
    PROVE  RateInv'
<1>1. TypeOK
  BY RateInvNow
<1>o. PICK outcome \in {"consume", "release"} :
        Moves(r, [req[r] EXCEPT !.pc = "settle", !.outcome = outcome])
  BY DEF Work
<1>2. req[r] \in RequestState
  BY <1>1, TypeParts DEF RequestsTyped
<1>m. PICK record \in RequestState :
        record = [req[r] EXCEPT !.pc = "settle", !.outcome = outcome]
  BY <1>2 DEF RequestState
<1>3. record.pc = "settle" /\ record.at = req[r].at
  BY <1>2, <1>m DEF RequestState
<1>4. record.at \in 1..Len(plan[r].buckets)
  BY <1>1, <1>3, PlanTypes
<1>5. Moves(r, record) /\ UNCHANGED <<now, plan, data, cleaner, holder>>
  BY <1>o, <1>m DEF Work
<1>. QED  BY <1>3, <1>4, <1>5, QuietStep

\* Onward to the next reservation, or to the end.
LEMMA OnwardRecord ==
    ASSUME RateAssumption, TypeOK, NEW r \in Request, Onward(r)
    PROVE  \E record \in RequestState :
              /\ Moves(r, record) /\ record.pc \in {"settle", "refused", "ended"}
              /\ record.at \in 1..Len(plan[r].buckets)
<1>1. /\ req[r] \in RequestState /\ Len(plan[r].buckets) \in Nat
      /\ req[r].at \in 1..Len(plan[r].buckets) /\ 1 \in 1..Len(plan[r].buckets)
  BY PlanTypes, TypeParts DEF RequestsTyped
<1>2. CASE Finished(r)
  <2>1. PICK pc \in {"refused", "ended"} : Moves(r, Done(pc))
    BY <1>2 DEF Onward
  <2>2. Done(pc) \in RequestState /\ Done(pc).pc = pc /\ Done(pc).at = 1
    BY <2>1 DEF Done, RequestState
  <2>. QED  BY <1>1, <2>1, <2>2
<1>3. CASE ~Finished(r)
  <2>1. PICK i, n \in Nat : i = req[r].at /\ n = Len(plan[r].buckets) /\ i \in 1..n
    BY <1>1
  <2>2. i # n
    BY <1>3, <2>1 DEF Finished, IsLast
  <2>j. PICK j \in 1..n : j = i + 1 /\ j \in Nat
    BY <2>1, <2>2
  <2>m. PICK record \in RequestState : record = [req[r] EXCEPT !.pc = "settle", !.at = j]
    BY <1>1, <2>j DEF RequestState
  <2>3. record.pc = "settle" /\ record.at = j
    BY <1>1, <2>m DEF RequestState
  <2>4. Moves(r, record)
    BY <1>3, <2>1, <2>j, <2>m DEF Onward
  <2>. QED  BY <2>1, <2>3, <2>4
<1>. QED  BY <1>2, <1>3

LEMMA FindReservationStep ==
    ASSUME RateAssumption, RateInv, NEW r \in Request, FindReservation(r)
    PROVE  RateInv'
<1>1. TypeOK
  BY RateInvNow
<1>2. UNCHANGED <<now, plan, data, cleaner, holder>>
  BY DEF FindReservation
<1>3. CASE Onward(r)
  <2>m. PICK record \in RequestState :
          /\ Moves(r, record) /\ record.pc \in {"settle", "refused", "ended"}
          /\ record.at \in 1..Len(plan[r].buckets)
    BY <1>1, <1>3, OnwardRecord
  <2>. QED  BY <1>2, <2>m, QuietStep
<1>4. CASE Moves(r, [req[r] EXCEPT !.pc = "finalize"])
  <2>m. PICK record \in RequestState : record = [req[r] EXCEPT !.pc = "finalize"]
    BY <1>1, RecordMoved
  <2>1. record.pc = "finalize" /\ record.at = req[r].at
    BY <1>1, <2>m, RecordMoved
  <2>2. record.at \in 1..Len(plan[r].buckets)
    BY <1>1, <2>1, PlanTypes
  <2>3. Moves(r, record)
    BY <1>4, <2>m
  <2>. QED  BY <1>2, <2>1, <2>2, <2>3, QuietStep
<1>. QED  BY <1>3, <1>4 DEF FindReservation

-----------------------------------------------------------------------------
(* finalize. *)

\* A reservation becomes a count, is released, or comes too late to be counted.
LEMMA FinalizedBucket ==
    ASSUME RateAssumption, RateInv, TypeOK', NEW r \in Request, NEW b \in Bucket, Held(r, b),
           bucket'[b] \in BucketRow, bucket'[b].start = bucket[b].start,
           bucket'[b].reserved = bucket[b].reserved - 1, now' = now, plan' = plan,
           expires'[r][b] = None,
           \/ /\ ~Over(b) /\ bucket'[b].count = bucket[b].count + 1
              /\ spent'[r][b] /\ granted'[r][b] = granted[r][b]
           \/ /\ bucket'[b].count = bucket[b].count
              /\ ~spent'[r][b] /\ granted'[r][b] = None
           \/ /\ Over(b) /\ bucket'[b].count = bucket[b].count
              /\ ~spent'[r][b] /\ granted'[r][b] = granted[r][b],
           \A q \in Request : q # r =>
               /\ expires'[q][b] = expires[q][b]
               /\ granted'[q][b] = granted[q][b] /\ spent'[q][b] = spent[q][b]
    PROVE  BucketInv(b)'
<1>1. TypeOK /\ now \in Nat /\ BucketInv(b)
  BY RateInvNow DEF RateInv
<1>2. /\ bucket[b] # None /\ ~Checked(b) /\ granted[r][b] = bucket[b].start /\ ~spent[r][b]
      /\ expires[r][b] = Ends(b)
  BY <1>1 DEF Held, BucketInv, ReservationsCurrent
<1>3. /\ bucket[b].start \in Nat /\ bucket[b].count \in Nat /\ bucket[b].reserved \in Nat
      /\ Policy[b].limit \in Nat /\ Policy[b].window \in Nat
      /\ None \notin Nat /\ bucket'[b] # None
  BY <1>1, <1>2, RowTypes DEF RateAssumption
<1>4. /\ bucket[b].reserved = Cardinality(Reservations(b))
      /\ bucket[b].count = Cardinality(Spenders(b))
  BY <1>1, <1>2 DEF BucketInv, Counts
<1>5. ~Checked(b)' /\ Ends(b)' = Ends(b) /\ Over(b)' = Over(b)
  BY <1>2 DEF Checked, Ends, Over
<1>6. r \in Reservations(b) /\ Reservations(b)' = Reservations(b) \ {r}
  BY DEF Held, Reservations
<1>7. bucket'[b].reserved = Cardinality(Reservations(b)')
  <2>1. Reservations(b) \in SUBSET Request
    BY DEF Reservations
  <2>2. Cardinality(Reservations(b) \ {r}) = Cardinality(Reservations(b)) - 1
    BY <1>6, <2>1, OneLess
  <2>. QED  BY <1>4, <1>6, <2>2
<1>8. Admitted(b)' \subseteq Admitted(b)
  BY <1>2, <1>3 DEF Admitted
<1>9. Counts(b)'
  <2>1. Spenders(b) \in SUBSET Request /\ r \notin Spenders(b)
    BY <1>2 DEF Spenders
  <2>2. CASE spent'[r][b] /\ granted'[r][b] = granted[r][b]
             /\ bucket'[b].count = bucket[b].count + 1
    <3>1. Spenders(b)' = Spenders(b) \cup {r}
      BY <1>2, <2>2 DEF Spenders
    <3>2. Cardinality(Spenders(b) \cup {r}) = Cardinality(Spenders(b)) + 1
      BY <2>1, OneMore
    <3>. QED  BY <1>3, <1>4, <1>7, <2>2, <3>1, <3>2 DEF Counts
  <2>3. CASE ~spent'[r][b] /\ bucket'[b].count = bucket[b].count
    <3>1. Spenders(b)' = Spenders(b)
      BY <1>2, <2>3 DEF Spenders
    <3>. QED  BY <1>3, <1>4, <1>7, <2>3, <3>1 DEF Counts
  <2>. QED  BY <2>2, <2>3
<1>10. Budget(b)'
  <2>1. Admitted(b) \in SUBSET Request /\ Admitted(b)' \in SUBSET Request
    BY DEF Admitted
  <2>2. Cardinality(Admitted(b)') <= Cardinality(Admitted(b))
    BY <1>8, <2>1, Finite, FS_Subset
  <2>3. Cardinality(Admitted(b)) <= Policy[b].limit
    BY <1>1, <1>2 DEF BucketInv, Budget
  <2>4. Cardinality(Admitted(b)') \in Nat /\ Cardinality(Admitted(b)) \in Nat
    BY <2>1, Finite
  <2>5. Cardinality(Admitted(b)') <= Policy[b].limit
    BY <1>3, <2>2, <2>3, <2>4
  <2>. QED  BY <2>5 DEF Budget
<1>11. ReservationsCurrent(b)'
  <2>. SUFFICES ASSUME NEW q \in Request, expires'[q][b] # None
                PROVE  /\ expires'[q][b] = Ends(b)' /\ granted'[q][b] = bucket'[b].start
                       /\ ~spent'[q][b]
    BY <1>3, <1>5 DEF ReservationsCurrent
  <2>1. q # r
    OBVIOUS
  <2>2. expires[q][b] # None
    BY <2>1
  <2>3. expires[q][b] = Ends(b) /\ granted[q][b] = bucket[b].start
    BY <1>1, <2>2 DEF BucketInv, ReservationsCurrent
  <2>4. ~spent[q][b]
    BY <1>1, <2>2 DEF BucketInv, ReservationsCurrent
  <2>5. spent'[q][b] = spent[q][b]
    BY <2>1
  <2>6. ~spent'[q][b]
    BY <2>4, <2>5
  <2>. QED  BY <1>5, <2>1, <2>3, <2>6
<1>12. GrantsPast(b)'
  <2>. SUFFICES ASSUME NEW q \in Request, granted'[q][b] # None
                PROVE  granted'[q][b] <= bucket[b].start
    BY <1>3 DEF GrantsPast
  <2>1. granted'[q][b] = granted[q][b]
    OBVIOUS
  <2>. QED  BY <1>1, <1>2, <2>1 DEF BucketInv, GrantsPast
<1>13. WindowWithin(b)'
  <2>. SUFFICES ASSUME ~Over(b)
                PROVE  /\ bucket'[b].count + bucket'[b].reserved <= Policy[b].limit
                       /\ \A q \in Admitted(b)' : spent'[q][b] \/ expires'[q][b] # None
    BY <1>5 DEF WindowWithin
  <2>1. /\ bucket[b].count + bucket[b].reserved <= Policy[b].limit
        /\ \A q \in Admitted(b) : spent[q][b] \/ expires[q][b] # None
    BY <1>1, <1>2 DEF BucketInv, WindowWithin
  <2>2. bucket'[b].count + bucket'[b].reserved <= Policy[b].limit
    <3>1. /\ bucket'[b].count \in {bucket[b].count, bucket[b].count + 1}
          /\ bucket'[b].reserved = bucket[b].reserved - 1
      OBVIOUS
    <3>. QED  BY ONLY <1>3, <2>1, <3>1
  <2>3. ASSUME NEW q \in Admitted(b)' PROVE spent'[q][b] \/ expires'[q][b] # None
    <3>1. q \in Admitted(b) /\ q \in Request /\ granted'[q][b] = bucket[b].start
      BY <1>8 DEF Admitted
    <3>2. CASE q # r
      BY <2>1, <3>1, <3>2
    <3>3. CASE q = r
      BY <1>3, <3>1, <3>3
    <3>. QED  BY <3>2, <3>3
  <2>. QED  BY <2>2, <2>3
<1>14. ChecksCounted(b)'
  BY <1>5 DEF ChecksCounted
<1>. QED  BY <1>9, <1>10, <1>11, <1>12, <1>13, <1>14 DEF BucketInv

LEMMA FinalizeStep ==
    ASSUME RateAssumption, RateInv, NEW r \in Request, Finalize(r)
    PROVE  RateInv'
<1>1. TypeOK /\ now \in Nat
  BY RateInvNow
<1>b. PICK b \in Bucket : b = Target(r)
  BY <1>1, PlanTypes
<1>2. /\ holder[b] = None /\ Onward(r)
      /\ now' = now /\ plan' = plan /\ cleaner' = cleaner /\ holder' = holder
  BY <1>b DEF Finalize
<1>m. PICK record \in RequestState :
        /\ Moves(r, record) /\ record.pc \in {"settle", "refused", "ended"}
        /\ record.at \in 1..Len(plan[r].buckets)
  BY <1>1, <1>2, OnwardRecord
<1>3. CASE ~Held(r, b)
  <2>1. UNCHANGED <<now, plan, data, cleaner, holder>>
    BY <1>2, <1>3, <1>b DEF Finalize
  <2>. QED  BY <1>m, <2>1, QuietStep
<1>4. CASE Held(r, b)
  <2>1. /\ bucket[b] # None /\ bucket[b] \in BucketRow /\ bucket[b].start \in Nat
        /\ bucket[b].count \in Nat /\ bucket[b].reserved \in Nat
        /\ bucket[b].start <= bucket[b].updated /\ bucket[b].updated <= now
        /\ bucket[b].updated \in Nat
    BY <1>1, <1>4, RowTypes DEF Held
  <2>2. /\ expires[r][b] = Ends(b) /\ ~Checked(b)
        /\ bucket[b].reserved = Cardinality(Reservations(b))
    BY <1>4, <2>1 DEF Held, RateInv, BucketInv, ReservationsCurrent, Counts
  <2>3. bucket[b].reserved # 0
    <3>1. Reservations(b) \in SUBSET Request /\ r \in Reservations(b)
      BY <1>4 DEF Held, Reservations
    <3>2. Cardinality(Reservations(b)) > 0
      BY <3>1, OneLess
    <3>. QED  BY <2>2, <3>2
  <2>s. PICK s \in BOOLEAN : s = Charged(r, b)
    BY DEF Charged
  <2>n. PICK n \in Nat : n = bucket[b].reserved - 1
    BY <2>1, <2>3
  <2>c. PICK m \in Nat : m = IF s THEN bucket[b].count + 1 ELSE bucket[b].count
    BY <2>1
  <2>w. PICK row \in BucketRow :
          row = [bucket[b] EXCEPT !.reserved = n, !.count = m, !.updated = now]
    BY <1>1, <2>1 DEF BucketRow
  <2>4. /\ row.start = bucket[b].start /\ row.reserved = n /\ row.count = m
        /\ row.updated = now
    BY <2>1, <2>w DEF BucketRow
  <2>5. bucket' = [bucket EXCEPT ![b] = row]
    <3>1. bucket' = [bucket EXCEPT ![b].reserved = IF @ = 0 THEN 0 ELSE @ - 1,
                                   ![b].count = IF s THEN @ + 1 ELSE @,
                                   ![b].updated = now]
      BY <1>4, <1>b, <2>s DEF Finalize
    <3>2. bucket \in [Bucket -> BucketRow \cup {None}]
      BY <1>1 DEF TypeOK
    <3>3. bucket' = [bucket EXCEPT ![b] = [[[@ EXCEPT !.reserved = n] EXCEPT !.count = m]
                                              EXCEPT !.updated = now]]
      BY <2>1, <2>3, <2>n, <2>c, <3>1, <3>2 DEF BucketRow
    <3>. QED  BY <2>1, <2>w, <3>3
  <2>6. /\ expires' = [expires EXCEPT ![r][b] = None] /\ spent' = [spent EXCEPT ![r][b] = s]
        /\ granted' = IF req[r].outcome = "release"
                      THEN [granted EXCEPT ![r][b] = None] ELSE granted
    BY <1>4, <1>b, <2>s DEF Finalize
  <2>7. /\ RequestsTyped' /\ req'[r] = record
        /\ \A q \in Request : q # r => req'[q] = req[q]
    BY <1>1, <1>2, <1>m, MovesTyped
  <2>8. /\ RowsTyped' /\ bucket'[b] = row
        /\ \A a \in Bucket : a # b => bucket'[a] = bucket[a]
    <3>1. row.start <= row.updated /\ row.updated <= now
      BY <1>1, <2>1, <2>4
    <3>. QED  BY <1>1, <1>2, <2>5, <3>1, RowWritten
  <2>9. /\ expires' \in [Request -> [Bucket -> Nat \cup {None}]] /\ expires'[r][b] = None
        /\ \A q \in Request, a \in Bucket : q # r \/ a # b => expires'[q][a] = expires[q][a]
    BY <1>1, <2>6 DEF TypeOK
  <2>10. /\ HistoryTyped'
         /\ spent'[r][b] = s
         /\ \A q \in Request, a \in Bucket : q # r \/ a # b =>
              granted'[q][a] = granted[q][a] /\ spent'[q][a] = spent[q][a]
         /\ \A q \in Request : q # r => granted'[q] = granted[q]
         /\ granted'[r][b] = IF req[r].outcome = "release" THEN None ELSE granted[r][b]
    <3>1. granted \in [Request -> [Bucket -> Nat \cup {None}]]
          /\ spent \in [Request -> [Bucket -> BOOLEAN]]
      BY <1>1 DEF TypeOK
    <3>2. /\ granted' \in [Request -> [Bucket -> Nat \cup {None}]]
          /\ \A q \in Request, a \in Bucket : q # r \/ a # b => granted'[q][a] = granted[q][a]
          /\ \A q \in Request : q # r => granted'[q] = granted[q]
          /\ granted'[r][b] = IF req[r].outcome = "release" THEN None ELSE granted[r][b]
      <4>1. CASE req[r].outcome = "release"
        BY <2>6, <3>1, <4>1
      <4>2. CASE req[r].outcome # "release"
        BY <2>6, <3>1, <4>2
      <4>. QED  BY <4>1, <4>2
    <3>3. /\ spent' \in [Request -> [Bucket -> BOOLEAN]] /\ spent'[r][b] = s
          /\ \A q \in Request, a \in Bucket : q # r \/ a # b => spent'[q][a] = spent[q][a]
      BY <2>6, <3>1
    <3>. QED  BY <3>2, <3>3 DEF HistoryTyped
  <2>11. TypeOK'
    <3>1. ASSUME NEW q \in Request, NEW a \in Bucket, expires'[q][a] # None
          PROVE  expires'[q][a] <= now + Policy[a].window
      <4>1. expires'[q][a] = expires[q][a]
        BY <2>9, <3>1
      <4>2. expires[q][a] # None
        BY <3>1, <4>1
      <4>3. expires[q][a] <= now + Policy[a].window
        BY <1>1, <4>2 DEF TypeOK
      <4>. QED  BY <4>1, <4>3
    <3>2. ReservationsTyped'
      BY <1>2, <2>9, <3>1 DEF ReservationsTyped
    <3>3. CleanersTyped'
      BY <1>1, <1>2, TypeParts DEF CleanersTyped
    <3>. QED  BY <2>7, <2>8, <2>10, <3>2, <3>3, TypeParts
  <2>12. BucketInv(b)'
    <3>1. /\ bucket'[b] \in BucketRow /\ bucket'[b].start = bucket[b].start
          /\ bucket'[b].reserved = bucket[b].reserved - 1
      BY <2>4, <2>8, <2>n
    <3>2. \A q \in Request : q # r =>
            /\ expires'[q][b] = expires[q][b]
            /\ granted'[q][b] = granted[q][b] /\ spent'[q][b] = spent[q][b]
      BY <2>9, <2>10
    <3>3. s <=> req[r].outcome # "release" /\ ~Over(b)
      <4>0. Policy[b].window \in Nat
        BY <1>1, RowTypes
      <4>1. Ends(b) \in Nat
        BY <2>1, <4>0 DEF Ends
      <4>2. expires[r][b] > now <=> ~Over(b)
        BY <1>1, <2>2, <4>1 DEF Over
      <4>3. Charged(r, b) <=> req[r].outcome # "release" /\ ~Over(b)
        BY <4>2 DEF Charged
      <4>. QED  BY <2>s, <4>3
    <3>4. \/ /\ ~Over(b) /\ bucket'[b].count = bucket[b].count + 1
             /\ spent'[r][b] /\ granted'[r][b] = granted[r][b]
          \/ /\ bucket'[b].count = bucket[b].count
             /\ ~spent'[r][b] /\ granted'[r][b] = None
          \/ /\ Over(b) /\ bucket'[b].count = bucket[b].count
             /\ ~spent'[r][b] /\ granted'[r][b] = granted[r][b]
      <4>1. bucket'[b].count = m
        BY <2>4, <2>8
      <4>2. CASE s
        BY <2>10, <2>c, <3>3, <4>1, <4>2
      <4>3. CASE ~s /\ req[r].outcome = "release"
        BY <2>10, <2>c, <4>1, <4>3
      <4>4. CASE ~s /\ req[r].outcome # "release"
        BY <2>10, <2>c, <3>3, <4>1, <4>4
      <4>. QED  BY <4>2, <4>3, <4>4
    <3>5. expires'[r][b] = None /\ now' = now /\ plan' = plan /\ TypeOK' /\ Held(r, b)
      BY <1>2, <1>4, <2>9, <2>11
    <3>6. b \in Bucket /\ r \in Request
      OBVIOUS
    <3>. QED  BY ONLY RateAssumption, RateInv, <3>1, <3>2, <3>4, <3>5, <3>6, FinalizedBucket
  <2>13. Ahead(r)'
    BY <1>m, <2>7 DEF Ahead
  <2>14. \A a \in Bucket : a # b =>
            /\ bucket'[a] = bucket[a]
            /\ \A q \in Request : /\ expires'[q][a] = expires[q][a]
                                  /\ granted'[q][a] = granted[q][a]
                                  /\ spent'[q][a] = spent[q][a]
    BY <2>8, <2>9, <2>10
  <2>15. /\ \A q \in Request : q # r => req'[q] = req[q] /\ granted'[q] = granted[q]
         /\ \A q \in Request : q # r =>
              \A a \in Bucket : expires[q][a] = None => expires'[q][a] = None
    BY <2>7, <2>9, <2>10
  <2>. QED  BY <1>2, <2>11, <2>12, <2>13, <2>14, <2>15, LockedStep
<1>. QED  BY <1>3, <1>4

-----------------------------------------------------------------------------
(* Time, and cleanup. *)

LEMMA TickStep ==
    ASSUME RateAssumption, RateInv, Tick
    PROVE  RateInv'
<1>1. TypeOK /\ now \in 1..MaxTime /\ MaxTime \in Nat
  BY RateInvNow DEF TypeOK, RateAssumption
<1>2. /\ now' = now + 1 /\ now < MaxTime
      /\ plan' = plan /\ bucket' = bucket /\ expires' = expires /\ granted' = granted
      /\ spent' = spent /\ req' = req /\ cleaner' = cleaner /\ holder' = holder
  BY DEF Tick, data
<1>3. now \in Nat /\ now' \in Nat /\ now <= now' /\ now' \in 1..MaxTime
  BY <1>1, <1>2
<1>4. TypeOK'
  <2>1. ASSUME NEW b \in Bucket, bucket[b] # None
        PROVE  bucket[b].start <= bucket[b].updated /\ bucket[b].updated <= now'
    <3>1. /\ bucket[b].start <= bucket[b].updated /\ bucket[b].updated <= now
          /\ bucket[b].updated \in Nat
      BY <1>1, <2>1, RowTypes
    <3>. QED  BY <1>3, <3>1
  <2>2. ASSUME NEW r \in Request, NEW b \in Bucket, expires[r][b] # None
        PROVE  expires[r][b] <= now' + Policy[b].window
    <3>1. /\ expires[r][b] \in Nat /\ Policy[b].window \in Nat
          /\ expires[r][b] <= now + Policy[b].window
      BY <1>1, <2>2, RowTypes DEF TypeOK
    <3>. QED  BY <1>3, <3>1
  <2>3. RowsTyped'
    BY <1>1, <1>2, <1>3, <2>1, TypeParts DEF RowsTyped
  <2>4. ReservationsTyped'
    BY <1>1, <1>2, <2>2, TypeParts DEF ReservationsTyped
  <2>5. RequestsTyped' /\ HistoryTyped' /\ CleanersTyped'
    BY <1>1, <1>2, TypeParts DEF RequestsTyped, HistoryTyped, CleanersTyped
  <2>. QED  BY <2>3, <2>4, <2>5, TypeParts
<1>5. ASSUME NEW b \in Bucket PROVE BucketInv(b)'
  <2>1. BucketInv(b)
    BY DEF RateInv
  <2>. QED  BY <1>1, <1>2, <1>3, <1>4, <2>1, BucketKept
<1>6. ASSUME NEW q \in Request PROVE Ahead(q)'
  BY <1>1, <1>2, <1>6, AheadKept DEF RateInv
<1>7. \A c \in Cleaner : CleanerHolds(c)'
  BY <1>2, <1>3, CleanersKept
<1>. QED  BY <1>4, <1>5, <1>6, <1>7 DEF RateInv

\* A statement of cleanup before its commit takes and releases locks.
LEMMA LocksStep ==
    ASSUME RateAssumption, RateInv, UNCHANGED <<now, plan, data, req>>, CleanersTyped',
           \A c \in Cleaner : CleanerHolds(c)'
    PROVE  RateInv'
<1>1. TypeOK /\ now \in Nat /\ now <= now
  BY RateInvNow
<1>2. TypeOK'
  <2>1. RequestsTyped' /\ RowsTyped' /\ ReservationsTyped' /\ HistoryTyped'
    BY <1>1, TypeParts DEF data, RequestsTyped, RowsTyped, ReservationsTyped, HistoryTyped
  <2>. QED  BY <2>1, TypeParts
<1>3. \A b \in Bucket : BucketInv(b)'
  BY <1>2, CountersKept
<1>4. ASSUME NEW q \in Request PROVE Ahead(q)'
  BY <1>1, <1>4, AheadKept DEF RateInv, data
<1>. QED  BY <1>2, <1>3, <1>4 DEF RateInv

\* What a cleanup has doomed is still there to be deleted.
LEMMA DoomedHeld ==
    ASSUME RateAssumption, RateInv, NEW d \in Cleaner, cleaner[d].pc = "purge",
           NEW b \in Bucket, cleaner[d].doomed[b] # {}
    PROVE  /\ holder[b] = d /\ d # None /\ Expired(b) # {}
           /\ cleaner[d].doomed[b] \subseteq Expired(b)
BY DEF RateInv, CleanerHolds, RateAssumption

LEMMA LockExpiredStep ==
    ASSUME RateAssumption, RateInv, NEW c \in Cleaner, LockExpired(c)
    PROVE  RateInv'
<1>1. CleanersTyped
  BY RateInvNow, TypeParts
<1>2. /\ UNCHANGED <<now, plan, data, req>>
      /\ cleaner' = [cleaner EXCEPT ![c].pc = "delete"]
      /\ holder' = [b \in Bucket |-> IF Expired(b) # {} THEN c ELSE holder[b]]
      /\ \A b \in Bucket : Expired(b) # {} => holder[b] = None
  BY DEF LockExpired
<1>3. CleanersTyped'
  <2>. DEFINE State == [pc : {"idle", "delete", "purge"}, doomed : [Bucket -> SUBSET Request]]
  <2>1. cleaner \in [Cleaner -> State] /\ holder \in [Bucket -> Cleaner \cup {None}]
    BY <1>1 DEF CleanersTyped
  <2>2. [cleaner[c] EXCEPT !.pc = "delete"] \in State
    <3>1. cleaner[c] \in State
      BY <2>1
    <3>. QED  BY <3>1
  <2>3. cleaner' = [cleaner EXCEPT ![c] = [cleaner[c] EXCEPT !.pc = "delete"]]
    BY <1>2
  <2>. HIDE DEF State
  <2>4. cleaner' \in [Cleaner -> State]
    BY <2>1, <2>2, <2>3
  <2>5. holder' \in [Bucket -> Cleaner \cup {None}]
    BY <1>2, <2>1
  <2>. QED  BY <2>4, <2>5 DEF CleanersTyped, State
<1>4. ASSUME NEW d \in Cleaner PROVE CleanerHolds(d)'
  <2>. SUFFICES ASSUME cleaner'[d].pc = "purge",
                       NEW b \in Bucket, cleaner'[d].doomed[b] # {}
                PROVE  holder'[b] = d /\ cleaner'[d].doomed[b] \subseteq Expired(b)'
    BY DEF CleanerHolds
  <2>1. d # c /\ cleaner'[d] = cleaner[d]
    BY <1>1, <1>2 DEF CleanersTyped
  <2>2. holder[b] = d /\ d # None /\ Expired(b) # {}
    BY <2>1, DoomedHeld
  <2>. QED  BY <1>2, <2>2
<1>. QED  BY <1>2, <1>3, <1>4, LocksStep

LEMMA DeleteExpiredStep ==
    ASSUME RateAssumption, RateInv, NEW c \in Cleaner, DeleteExpired(c)
    PROVE  RateInv'
<1>1. CleanersTyped
  BY RateInvNow, TypeParts
<1>. DEFINE record == [pc |-> "purge", doomed |-> [b \in Bucket |-> Expired(b)]]
<1>2. /\ UNCHANGED <<now, plan, data, req>>
      /\ cleaner' = [cleaner EXCEPT ![c] = record]
      /\ holder' = [b \in Bucket |-> IF Expired(b) # {} THEN c ELSE holder[b]]
      /\ \A b \in Bucket : Expired(b) # {} => holder[b] \in {None, c}
  BY DEF DeleteExpired, Free
<1>3. /\ record \in [pc : {"idle", "delete", "purge"}, doomed : [Bucket -> SUBSET Request]]
      /\ \A b \in Bucket : record.doomed[b] = Expired(b)
  BY DEF Expired, Reservations
<1>4. \A b \in Bucket : Expired(b)' = Expired(b)
  BY <1>2 DEF Expired, Reservations, data
<1>. HIDE DEF record
<1>5. CleanersTyped' /\ cleaner'[c] = record
  BY <1>1, <1>2, <1>3 DEF CleanersTyped
<1>6. ASSUME NEW d \in Cleaner PROVE CleanerHolds(d)'
  <2>. SUFFICES ASSUME cleaner'[d].pc = "purge",
                       NEW b \in Bucket, cleaner'[d].doomed[b] # {}
                PROVE  holder'[b] = d /\ cleaner'[d].doomed[b] \subseteq Expired(b)'
    BY DEF CleanerHolds
  <2>1. CASE d = c
    BY <1>2, <1>3, <1>4, <1>5, <2>1
  <2>2. CASE d # c
    <3>1. cleaner'[d] = cleaner[d]
      BY <1>1, <1>2, <2>2 DEF CleanersTyped
    <3>2. holder[b] = d /\ d # None /\ Expired(b) # {}
      BY <3>1, DoomedHeld
    <3>. QED  BY <1>2, <2>2, <3>2
  <2>. QED  BY <2>1, <2>2
<1>. QED  BY <1>2, <1>5, <1>6, LocksStep

LEMMA RestingTyped ==
    Resting \in [pc : {"idle", "delete", "purge"}, doomed : [Bucket -> SUBSET Request]]
BY DEF Resting

LEMMA AbortStep ==
    ASSUME RateAssumption, RateInv, NEW c \in Cleaner, AbortCleanup(c)
    PROVE  RateInv'
<1>1. CleanersTyped
  BY RateInvNow, TypeParts
<1>2. /\ UNCHANGED <<now, plan, data, req>>
      /\ cleaner' = [cleaner EXCEPT ![c] = Resting]
      /\ holder' = [b \in Bucket |-> IF holder[b] = c THEN None ELSE holder[b]]
  BY DEF AbortCleanup, Releases
<1>3. CleanersTyped' /\ cleaner'[c] = Resting
  BY <1>1, <1>2, RestingTyped DEF CleanersTyped
<1>4. \A b \in Bucket : Expired(b)' = Expired(b)
  BY <1>2 DEF Expired, Reservations, data
<1>5. ASSUME NEW d \in Cleaner PROVE CleanerHolds(d)'
  <2>. SUFFICES ASSUME cleaner'[d].pc = "purge",
                       NEW b \in Bucket, cleaner'[d].doomed[b] # {}
                PROVE  holder'[b] = d /\ cleaner'[d].doomed[b] \subseteq Expired(b)'
    BY DEF CleanerHolds
  <2>1. d # c
    BY <1>3 DEF Resting
  <2>2. cleaner'[d] = cleaner[d]
    BY <1>1, <1>2, <2>1 DEF CleanersTyped
  <2>3. holder[b] = d /\ cleaner[d].doomed[b] \subseteq Expired(b)
    BY <2>2, DoomedHeld
  <2>. QED  BY <1>2, <1>4, <2>1, <2>2, <2>3
<1>. QED  BY <1>2, <1>3, <1>5, LocksStep

\* The repaired counter is the number of reservations that stay: those deleted have all
\* expired, and so has their window.
LEMMA RepairedBucket ==
    ASSUME RateAssumption, RateInv, TypeOK', NEW b \in Bucket, NEW doomed \in SUBSET Expired(b),
           doomed # {}, bucket'[b] = RepairedRow(bucket[b], Cardinality(doomed)),
           now' = now, plan' = plan,
           \A r \in Request : /\ expires'[r][b] = IF r \in doomed THEN None ELSE expires[r][b]
                              /\ granted'[r][b] = granted[r][b] /\ spent'[r][b] = spent[r][b]
    PROVE  BucketInv(b)'
<1>1. TypeOK /\ now \in Nat /\ BucketInv(b)
  BY RateInvNow DEF RateInv
<1>2. /\ doomed \subseteq Reservations(b) /\ Reservations(b) \in SUBSET Request
      /\ doomed \in SUBSET Request
  BY DEF Expired, Reservations
<1>3. PICK q \in Request : q \in doomed /\ expires[q][b] # None /\ expires[q][b] <= now
  BY DEF Expired, Reservations
<1>4. bucket[b] # None /\ ~Checked(b) /\ Over(b)
  BY <1>1, <1>3 DEF BucketInv, ReservationsCurrent, Over
<1>5. /\ bucket[b] \in BucketRow /\ bucket[b].reserved \in Nat
      /\ bucket[b].reserved = Cardinality(Reservations(b))
      /\ bucket[b].count = Cardinality(Spenders(b))
  BY <1>1, <1>4, RowTypes DEF BucketInv, Counts
<1>6. /\ Cardinality(Reservations(b) \ doomed) = Cardinality(Reservations(b)) - Cardinality(doomed)
      /\ Cardinality(doomed) <= Cardinality(Reservations(b)) /\ Cardinality(doomed) \in Nat
  <2>1. IsFiniteSet(Reservations(b)) /\ Cardinality(doomed) \in Nat
    BY <1>2, Finite
  <2>2. Reservations(b) \cap doomed = doomed
    BY <1>2
  <2>3. Cardinality(Reservations(b) \ doomed)
          = Cardinality(Reservations(b)) - Cardinality(Reservations(b) \cap doomed)
    BY <2>1, FS_Difference
  <2>4. Cardinality(doomed) <= Cardinality(Reservations(b))
    BY <1>2, <2>1, FS_Subset
  <2>. QED  BY <2>1, <2>2, <2>3, <2>4
<1>7. /\ bucket'[b].start = bucket[b].start /\ bucket'[b].count = bucket[b].count
      /\ bucket'[b].reserved = bucket[b].reserved - Cardinality(doomed)
      /\ bucket'[b] # None
  <2>1. bucket[b].reserved >= Cardinality(doomed)
    BY <1>5, <1>6
  <2>n. PICK n \in Nat : n = bucket[b].reserved - Cardinality(doomed)
    BY <1>5, <1>6
  <2>2. bucket'[b] = [bucket[b] EXCEPT !.updated = now, !.reserved = n]
    <3>1. ~(bucket[b].reserved < Cardinality(doomed))
      BY <1>5, <1>6
    <3>. QED  BY <1>5, <2>n, <3>1 DEF RepairedRow, BucketRow
  <2>3. [bucket[b] EXCEPT !.updated = now, !.reserved = n] \in BucketRow
    BY <1>1, <1>5 DEF BucketRow
  <2>4. /\ bucket'[b].start = bucket[b].start /\ bucket'[b].count = bucket[b].count
        /\ bucket'[b].reserved = n
    BY <1>5, <2>2 DEF BucketRow
  <2>. QED  BY <2>n, <2>2, <2>3, <2>4 DEF RateAssumption
<1>8. /\ ~Checked(b)' /\ Ends(b)' = Ends(b) /\ Over(b)'
      /\ Admitted(b)' = Admitted(b) /\ Spenders(b)' = Spenders(b)
      /\ Reservations(b)' = Reservations(b) \ doomed
  <2>1. Ends(b)' = Ends(b)
    BY <1>7 DEF Ends
  <2>2. Over(b)'
    BY <1>4, <2>1 DEF Over
  <2>3. ~Checked(b)'
    BY <1>4 DEF Checked
  <2>4. Admitted(b)' = Admitted(b) /\ Spenders(b)' = Spenders(b)
    BY <1>7 DEF Admitted, Spenders
  <2>5. Reservations(b)' = Reservations(b) \ doomed
    BY DEF Reservations
  <2>. QED  BY <2>1, <2>2, <2>3, <2>4, <2>5
<1>9. Counts(b)'
  BY <1>5, <1>6, <1>7, <1>8 DEF Counts
<1>10. Budget(b)'
  BY <1>1, <1>4, <1>8 DEF BucketInv, Budget
<1>11. ReservationsCurrent(b)'
  <2>. SUFFICES ASSUME NEW r \in Request, expires'[r][b] # None
                PROVE  /\ expires'[r][b] = Ends(b)' /\ granted'[r][b] = bucket'[b].start
                       /\ ~spent'[r][b]
    BY <1>7, <1>8 DEF ReservationsCurrent
  <2>1. expires[r][b] # None /\ expires'[r][b] = expires[r][b]
    OBVIOUS
  <2>2. expires[r][b] = Ends(b) /\ granted[r][b] = bucket[b].start
    BY <1>1, <2>1 DEF BucketInv, ReservationsCurrent
  <2>3. ~spent[r][b]
    BY <1>1, <2>1 DEF BucketInv, ReservationsCurrent
  <2>4. spent'[r][b] = spent[r][b] /\ granted'[r][b] = granted[r][b]
    OBVIOUS
  <2>5. ~spent'[r][b]
    BY <2>3, <2>4
  <2>. QED  BY <1>7, <1>8, <2>1, <2>2, <2>4, <2>5
<1>12. GrantsPast(b)'
  <2>. SUFFICES ASSUME NEW r \in Request, granted'[r][b] # None
                PROVE  granted'[r][b] <= bucket[b].start
    BY <1>7 DEF GrantsPast
  <2>1. granted'[r][b] = granted[r][b]
    OBVIOUS
  <2>. QED  BY <1>1, <1>4, <2>1 DEF BucketInv, GrantsPast
<1>13. WindowWithin(b)' /\ ChecksCounted(b)'
  BY <1>8 DEF WindowWithin, ChecksCounted
<1>. QED  BY <1>9, <1>10, <1>11, <1>12, <1>13 DEF BucketInv

\* A bucket deleted after a day was in no window that could still be admitted to.
LEMMA IdleDeleted ==
    ASSUME RateAssumption, RateInv, TypeOK', NEW b \in Bucket, IdleBucket(b), bucket'[b] = None,
           now' = now, plan' = plan,
           \A r \in Request : expires'[r][b] = None /\ granted'[r][b] = granted[r][b]
    PROVE  BucketInv(b)'
<1>1. TypeOK /\ now \in Nat /\ BucketInv(b)
  BY RateInvNow DEF RateInv
<1>2. /\ bucket[b] # None /\ bucket[b].updated + IdleTime < now
      /\ bucket[b].start \in Nat /\ bucket[b].updated \in Nat
      /\ bucket[b].start <= bucket[b].updated /\ IdleTime \in Nat
  BY <1>1, RowTypes DEF IdleBucket, RateAssumption
<1>3. GrantsPast(b)'
  <2>. SUFFICES ASSUME NEW r \in Request, granted'[r][b] # None
                PROVE  granted'[r][b] < now
    BY DEF GrantsPast
  <2>1. granted[r][b] \in Nat /\ granted'[r][b] = granted[r][b] /\ granted[r][b] <= bucket[b].start
    BY <1>1, <1>2, RowTypes DEF BucketInv, GrantsPast
  <2>. QED  BY <1>1, <1>2, <2>1
<1>4. Reservations(b)' = {}
  BY DEF Reservations
<1>. QED  BY <1>3, <1>4 DEF BucketInv, Counts, Budget, ReservationsCurrent, WindowWithin,
                              ChecksCounted

LEMMA PurgeStep ==
    ASSUME RateAssumption, RateInv, NEW c \in Cleaner, Purge(c)
    PROVE  RateInv'
<1>1. TypeOK /\ now \in Nat /\ now <= now
  BY RateInvNow
<1>d. PICK doomed \in [Bucket -> SUBSET Request] : doomed = cleaner[c].doomed
  BY <1>1, TypeParts DEF CleanersTyped
<1>i. PICK idle \in SUBSET Bucket : idle = {b \in Bucket : IdleBucket(b) /\ doomed[b] = {}}
  OBVIOUS
<1>2. /\ cleaner[c].pc = "purge" /\ \A b \in idle : holder[b] \in {None, c}
      /\ bucket' = [b \in Bucket |->
                      IF b \in idle THEN None
                      ELSE IF doomed[b] = {} THEN bucket[b]
                      ELSE RepairedRow(bucket[b], Cardinality(doomed[b]))]
      /\ expires' = [r \in Request |-> [b \in Bucket |->
                       IF b \in idle \/ r \in doomed[b] THEN None ELSE expires[r][b]]]
      /\ holder' = [b \in Bucket |-> IF holder[b] = c THEN None ELSE holder[b]]
      /\ cleaner' = [cleaner EXCEPT ![c] = Resting]
      /\ now' = now /\ plan' = plan /\ req' = req /\ granted' = granted /\ spent' = spent
  BY <1>d, <1>i DEF Purge, Releases, Free
<1>3. \A b \in Bucket : doomed[b] # {} => holder[b] = c /\ doomed[b] \subseteq Expired(b)
  BY <1>d, <1>2, DoomedHeld
<1>4. ASSUME NEW b \in Bucket, doomed[b] # {}
      PROVE  /\ bucket[b] # None /\ RepairedRow(bucket[b], Cardinality(doomed[b])) \in BucketRow
             /\ RepairedRow(bucket[b], Cardinality(doomed[b])).updated = now
             /\ RepairedRow(bucket[b], Cardinality(doomed[b])).start = bucket[b].start
             /\ bucket[b].start <= now
  <2>1. \E r \in Request : expires[r][b] # None
    BY <1>3, <1>4 DEF Expired, Reservations
  <2>2. bucket[b] # None
    BY <2>1 DEF RateInv, BucketInv, ReservationsCurrent
  <2>3. /\ bucket[b] \in BucketRow /\ bucket[b].start \in Nat /\ bucket[b].updated \in Nat
        /\ bucket[b].reserved \in Nat
        /\ bucket[b].start <= bucket[b].updated /\ bucket[b].updated <= now
    BY <1>1, <2>2, RowTypes
  <2>k. PICK k \in Nat : k = Cardinality(doomed[b])
    BY <1>d, Finite
  <2>n. PICK n \in Nat : n = IF bucket[b].reserved < k THEN 0 ELSE bucket[b].reserved - k
    BY <2>3
  <2>4. RepairedRow(bucket[b], k) = [bucket[b] EXCEPT !.updated = now, !.reserved = n]
    BY <2>3, <2>n DEF RepairedRow, BucketRow
  <2>w. PICK row \in BucketRow : row = [bucket[b] EXCEPT !.updated = now, !.reserved = n]
    BY <1>1, <2>3 DEF BucketRow
  <2>5. row.updated = now /\ row.start = bucket[b].start
    BY <2>3, <2>w DEF BucketRow
  <2>6. bucket[b].start <= now
    BY <1>1, <2>3
  <2>. QED  BY <2>2, <2>4, <2>5, <2>6, <2>k, <2>w
<1>5. TypeOK'
  <2>1. RowsTyped'
    <3>1. ASSUME NEW b \in Bucket, bucket'[b] # None
          PROVE  /\ bucket'[b] \in BucketRow
                 /\ bucket'[b].start <= bucket'[b].updated /\ bucket'[b].updated <= now
      <4>1. CASE doomed[b] = {}
        <5>1. bucket'[b] = bucket[b]
          BY <1>2, <3>1, <4>1
        <5>. QED  BY <1>1, <3>1, <5>1 DEF TypeOK
      <4>2. CASE doomed[b] # {}
        <5>1. bucket'[b] = RepairedRow(bucket[b], Cardinality(doomed[b]))
          BY <1>2, <3>1, <4>2
        <5>. QED  BY <1>1, <1>4, <4>2, <5>1
      <4>. QED  BY <4>1, <4>2
    <3>2. bucket' \in [Bucket -> BucketRow \cup {None}]
      <4>1. \A b \in Bucket : bucket'[b] \in BucketRow \cup {None}
        BY <3>1
      <4>2. bucket' = [b \in Bucket |-> bucket'[b]]
        BY <1>2
      <4>. QED  BY <4>1, <4>2
    <3>. QED  BY <1>1, <1>2, <3>1, <3>2 DEF RowsTyped, TypeOK
  <2>2. ReservationsTyped'
    <3>1. \A r \in Request, b \in Bucket :
            /\ expires[r][b] \in Nat \cup {None}
            /\ expires[r][b] # None => expires[r][b] <= now + Policy[b].window
            /\ expires'[r][b] \in {expires[r][b], None}
      <4>1. \A r \in Request, b \in Bucket :
              /\ expires[r][b] \in Nat \cup {None}
              /\ expires[r][b] # None => expires[r][b] <= now + Policy[b].window
        <5>1. ReservationsTyped
          BY <1>1, TypeParts
        <5>. QED  BY ONLY <5>1 DEF ReservationsTyped
      <4>2. \A r \in Request, b \in Bucket : expires'[r][b] \in {expires[r][b], None}
        BY <1>2
      <4>. QED  BY <4>1, <4>2
    <3>2. expires' \in [Request -> [Bucket -> Nat \cup {None}]]
      BY <1>2, <3>1
    <3>. QED  BY <1>2, <3>1, <3>2 DEF ReservationsTyped
  <2>3. CleanersTyped'
    <3>1. CleanersTyped
      BY <1>1, TypeParts
    <3>. QED  BY <1>2, <3>1, RestingTyped DEF CleanersTyped
  <2>4. RequestsTyped' /\ HistoryTyped'
    BY <1>1, <1>2, TypeParts DEF RequestsTyped, HistoryTyped
  <2>. QED  BY <2>1, <2>2, <2>3, <2>4, TypeParts
<1>6. ASSUME NEW b \in Bucket PROVE BucketInv(b)'
  <2>0. TypeOK /\ TypeOK' /\ BucketInv(b) /\ now' = now /\ plan' = plan
    BY <1>1, <1>2, <1>5 DEF RateInv
  <2>1. CASE b \in idle
    <3>1. IdleBucket(b) /\ bucket'[b] = None
      BY <1>i, <1>2, <2>1
    <3>2. \A r \in Request : expires'[r][b] = None /\ granted'[r][b] = granted[r][b]
      BY <1>2, <2>1
    <3>. QED  BY <2>0, <3>1, <3>2, IdleDeleted
  <2>2. CASE b \notin idle /\ doomed[b] = {}
    <3>1. bucket'[b] = bucket[b]
      BY <1>2, <2>2
    <3>2. \A r \in Request : /\ expires'[r][b] = expires[r][b]
                             /\ granted'[r][b] = granted[r][b] /\ spent'[r][b] = spent[r][b]
      BY <1>2, <2>2
    <3>3. now' \in Nat /\ now <= now'
      BY <1>1, <1>2
    <3>. QED  BY <2>0, <3>1, <3>2, <3>3, BucketKept
  <2>3. CASE doomed[b] # {}
    <3>1. b \notin idle
      BY <1>i, <2>3
    <3>x. PICK gone \in SUBSET Expired(b) : gone = doomed[b]
      BY <1>3, <2>3
    <3>2. gone # {} /\ bucket'[b] = RepairedRow(bucket[b], Cardinality(gone))
      BY <1>2, <2>3, <3>1, <3>x
    <3>3. \A r \in Request : /\ expires'[r][b] = IF r \in gone THEN None ELSE expires[r][b]
                             /\ granted'[r][b] = granted[r][b] /\ spent'[r][b] = spent[r][b]
      BY <1>2, <3>1, <3>x
    <3>. QED  BY <2>0, <3>2, <3>3, RepairedBucket
  <2>. QED  BY <2>1, <2>2, <2>3
<1>7. ASSUME NEW q \in Request PROVE Ahead(q)'
  <2>1. \A b \in Bucket : /\ expires[q][b] = None => expires'[q][b] = None
                          /\ granted[q][b] = None => granted'[q][b] = None
    BY <1>2
  <2>2. Ahead(q) /\ req'[q] = req[q] /\ plan' = plan
    BY <1>2 DEF RateInv
  <2>. QED  BY <1>1, <2>1, <2>2, AheadKept
<1>8. ASSUME NEW d \in Cleaner PROVE CleanerHolds(d)'
  <2>. SUFFICES ASSUME cleaner'[d].pc = "purge",
                       NEW b \in Bucket, cleaner'[d].doomed[b] # {}
                PROVE  holder'[b] = d /\ cleaner'[d].doomed[b] \subseteq Expired(b)'
    BY DEF CleanerHolds
  <2>1. d # c /\ cleaner'[d] = cleaner[d]
    BY <1>1, <1>2, TypeParts DEF CleanersTyped, Resting
  <2>2. holder[b] = d /\ d # None /\ cleaner[d].doomed[b] \subseteq Expired(b)
    BY <2>1, DoomedHeld
  <2>3. b \notin idle /\ doomed[b] = {}
    BY <1>2, <1>3, <2>1, <2>2
  <2>4. \A r \in Request : expires'[r][b] = expires[r][b]
    BY <1>2, <2>3
  <2>5. Expired(b)' = Expired(b)
    BY <1>2, <2>4 DEF Expired, Reservations
  <2>. QED  BY <1>2, <2>1, <2>2, <2>5
<1>. QED  BY <1>5, <1>6, <1>7, <1>8 DEF RateInv

-----------------------------------------------------------------------------
(* The invariant holds. *)

LEMMA InitRate == ASSUME RateAssumption, Init PROVE RateInv
<1>1. /\ now = 1 /\ plan \in Traffic
      /\ \A b \in Bucket : bucket[b] = None /\ holder[b] = None
      /\ \A r \in Request : req[r] = Done("new")
      /\ \A r \in Request, b \in Bucket : expires[r][b] = None /\ granted[r][b] = None
      /\ \A c \in Cleaner : cleaner[c] = Resting
  BY DEF Init
<1>2. TypeOK
  <2>1. ASSUME NEW r \in Request PROVE 1 \in 1..Len(plan[r].buckets)
    <3>1. plan[r].buckets \in Seq(Bucket) /\ plan[r].buckets # <<>>
      BY <1>1 DEF RateAssumption
    <3>2. Len(plan[r].buckets) \in Nat /\ Len(plan[r].buckets) # 0
      BY <3>1, LenProperties, EmptySeq
    <3>. QED  BY <3>2
  <2>2. RequestsTyped
    <3>1. Done("new") \in RequestState /\ Done("new").at = 1
      BY DEF Done, RequestState
    <3>2. req \in [Request -> RequestState]
      BY <3>1 DEF Init
    <3>. QED  BY <1>1, <2>1, <3>1, <3>2 DEF RequestsTyped
  <2>3. RowsTyped
    BY <1>1 DEF Init, RowsTyped, RateAssumption
  <2>4. ReservationsTyped /\ HistoryTyped
    BY <1>1 DEF Init, ReservationsTyped, HistoryTyped
  <2>5. CleanersTyped
    BY RestingTyped DEF Init, CleanersTyped
  <2>. QED  BY <2>2, <2>3, <2>4, <2>5, TypeParts
<1>3. ASSUME NEW b \in Bucket PROVE BucketInv(b)
  <2>1. Reservations(b) = {}
    BY <1>1 DEF Reservations
  <2>. QED  BY <1>1, <2>1 DEF BucketInv, Counts, Budget, ReservationsCurrent, GrantsPast,
                              WindowWithin, ChecksCounted
<1>4. ASSUME NEW r \in Request PROVE Ahead(r)
  <2>. SUFFICES ASSUME NEW k \in 1..Len(plan[r].buckets)
                PROVE  /\ expires[r][plan[r].buckets[k]] = None
                       /\ granted[r][plan[r].buckets[k]] = None
    BY <1>1 DEF Ahead, Done
  <2>1. plan[r].buckets[k] \in Bucket
    BY <1>2, PlanTypes
  <2>. QED  BY <1>1, <2>1
<1>5. \A c \in Cleaner : CleanerHolds(c)
  BY <1>1 DEF CleanerHolds, Resting
<1>. QED  BY <1>2, <1>3, <1>4, <1>5 DEF RateInv

LEMMA StutterStep ==
    ASSUME RateAssumption, RateInv, UNCHANGED vars
    PROVE  RateInv'
<1>1. TypeOK /\ now \in Nat /\ now <= now
  BY RateInvNow
<1>2. UNCHANGED <<now, plan, data, req>> /\ cleaner' = cleaner /\ holder' = holder /\ now' = now
  BY DEF vars
<1>3. CleanersTyped'
  BY <1>1, <1>2, TypeParts DEF CleanersTyped
<1>4. \A c \in Cleaner : CleanerHolds(c)'
  BY <1>1, <1>2, CleanersKept DEF data
<1>. QED  BY <1>2, <1>3, <1>4, LocksStep

LEMMA NextRate == ASSUME RateAssumption, RateInv, [Next]_vars PROVE RateInv'
<1>1. CASE Tick
  BY <1>1, TickStep
<1>2. ASSUME NEW r \in Request, Check(r) PROVE RateInv'
  BY <1>2, CheckStep
<1>3. ASSUME NEW r \in Request, Find(r) PROVE RateInv'
  BY <1>3, FindStep
<1>4. ASSUME NEW r \in Request, Vanished(r) \/ Crash(r) PROVE RateInv'
  BY <1>4, DeadStep
<1>5. ASSUME NEW r \in Request, Reserve(r) PROVE RateInv'
  BY <1>5, ReserveStep
<1>6. ASSUME NEW r \in Request, Work(r) PROVE RateInv'
  BY <1>6, WorkStep
<1>7. ASSUME NEW r \in Request, FindReservation(r) PROVE RateInv'
  BY <1>7, FindReservationStep
<1>8. ASSUME NEW r \in Request, Finalize(r) PROVE RateInv'
  BY <1>8, FinalizeStep
<1>9. ASSUME NEW c \in Cleaner, LockExpired(c) PROVE RateInv'
  BY <1>9, LockExpiredStep
<1>10. ASSUME NEW c \in Cleaner, DeleteExpired(c) PROVE RateInv'
  BY <1>10, DeleteExpiredStep
<1>11. ASSUME NEW c \in Cleaner, Purge(c) PROVE RateInv'
  BY <1>11, PurgeStep
<1>12. ASSUME NEW c \in Cleaner, AbortCleanup(c) PROVE RateInv'
  BY <1>12, AbortStep
<1>13. CASE UNCHANGED vars
  BY <1>13, StutterStep
<1>. QED  BY <1>1, <1>2, <1>3, <1>4, <1>5, <1>6, <1>7, <1>8, <1>9, <1>10, <1>11, <1>12, <1>13
          DEF Next

\* Whatever requests and cleanups do, each bucket is accounted for.
THEOREM RateInvariant == Spec => []RateInv
<1>1. Init => RateInv
  BY RateAssumption, InitRate
<1>2. RateInv /\ [Next]_vars => RateInv'
  BY RateAssumption, NextRate
<1>. QED  BY <1>1, <1>2, PTL DEF Spec

\* Every variable stays in its set, no row is of the future, and a reservation lasts at
\* most one window: reserve computes every expiry from the row it has locked.
THEOREM TypeCorrect == Spec => []TypeOK
<1>1. RateInv => TypeOK
  BY DEF RateInv
<1>. QED  BY <1>1, RateInvariant, PTL

\* reservedCount and count of src/auth-rate-limits.ts say what happened, whatever
\* finalizes, expires, is cleaned up or starts a window at the same time.
THEOREM CountersAgree == Spec => []CountersExact
<1>1. RateInv => CountersExact
  BY Accounted
<1>. QED  BY <1>1, RateInvariant, PTL

\* No more than limit requests are admitted in one window, however many run, crash or
\* finalize late.
THEOREM BudgetKept == Spec => []BudgetHolds
<1>1. RateInv => BudgetHolds
  BY Accounted
<1>. QED  BY <1>1, RateInvariant, PTL

-----------------------------------------------------------------------------
(* Who is refused. *)

LEMMA RefusedIsKept ==
    ASSUME RateAssumption, TypeOK, [Next]_vars, NEW r \in Request, RefusedNow(r),
           plan[r].kind # "check"
    PROVE  Kept(Target(r))
<1>1. /\ req'[r].pc \in {"refused", "settle"} /\ req[r].pc \in {"new", "found", "next"}
      /\ req'[r] # req[r]
  BY DEF RefusedNow
<1>2. \A q \in Request : \A record : Moves(q, record) => req'[r] = req[r] \/ (q = r /\ req'[r] = record)
  BY DEF TypeOK, Moves
<1>3. CASE Tick \/ UNCHANGED vars
  BY <1>1, <1>3 DEF Tick, vars
<1>4. CASE \E c \in Cleaner : LockExpired(c) \/ DeleteExpired(c) \/ Purge(c) \/ AbortCleanup(c)
  BY <1>1, <1>4 DEF LockExpired, DeleteExpired, Purge, AbortCleanup
<1>5. ASSUME NEW q \in Request, Check(q) PROVE FALSE
  BY <1>1, <1>2, <1>5 DEF Check
<1>6. ASSUME NEW q \in Request, Find(q) \/ Vanished(q) \/ Crash(q) PROVE FALSE
  <2>1. req[r] \in RequestState
    BY TypeParts DEF RequestsTyped
  <2>2. [req[r] EXCEPT !.pc = "found"].pc = "found" /\ Done("dead").pc = "dead"
    BY <2>1 DEF RequestState, Done
  <2>. QED  BY <1>1, <1>2, <1>6, <2>2 DEF Find, Vanished, Crash
<1>7. ASSUME NEW q \in Request, Work(q) \/ FindReservation(q) \/ Finalize(q) PROVE FALSE
  <2>1. q = r
    BY <1>1, <1>2, <1>7 DEF Work, FindReservation, Finalize, Onward
  <2>. QED  BY <1>1, <1>7, <2>1 DEF Work, FindReservation, Finalize, At
<1>8. ASSUME NEW q \in Request, Reserve(q) PROVE Kept(Target(r))
  <2>1. CASE Full(Target(q), Opened(Target(q)))
    <3>1. q = r
      BY <1>1, <1>2, <1>8, <2>1 DEF Reserve
    <3>b. PICK b \in Bucket : b = Target(r)
      BY PlanTypes
    <3>. QED  BY <2>1, <3>1, <3>b, FullIsKept
  <2>2. CASE ~Full(Target(q), Opened(Target(q)))
    <3>1. req[r] \in RequestState
      BY TypeParts DEF RequestsTyped
    <3>2. /\ [req[r] EXCEPT !.pc = "work", !.at = 1].pc = "work"
          /\ [req[r] EXCEPT !.pc = "next", !.at = @ + 1].pc = "next"
      BY <3>1 DEF RequestState
    <3>. QED  BY <1>1, <1>2, <1>8, <2>2, <3>2 DEF Reserve
  <2>. QED  BY <2>1, <2>2
<1>. QED  BY <1>3, <1>4, <1>5, <1>6, <1>7, <1>8 DEF Next

\* A window that is over refuses nobody who reserves: neither what crashed requests
\* left reserved nor a block, cleaned up or not.
THEOREM ExpiredAdmits == Spec => ExpiredWindowAdmits
<1>1. TypeOK /\ [Next]_vars =>
        [\A r \in Request : RefusedNow(r) /\ plan[r].kind # "check" =>
           bucket[Target(r)] # None /\ ~Over(Target(r))]_vars
  <2>. SUFFICES ASSUME TypeOK, [Next]_vars, NEW r \in Request, RefusedNow(r),
                       plan[r].kind # "check"
                PROVE  bucket[Target(r)] # None /\ ~Over(Target(r))
    OBVIOUS
  <2>. QED  BY RateAssumption, RefusedIsKept DEF Kept
<1>. QED  BY <1>1, TypeCorrect, PTL DEF Spec, ExpiredWindowAdmits
=============================================================================
