----------------------- MODULE IdempotentIssueProofs -----------------------
(* Theorems about IdempotentIssue, for any number of requests, keys and bodies,
   any number of token attempts and any page size of the cleanup. *)
EXTENDS IdempotentIssue, SequenceTheorems, TLAPS

-----------------------------------------------------------------------------
(* The inductive invariant. *)

\* A batch that can still be replayed is the one its key's record names.
WindowsRecorded ==
    \A i \in 1..Len(batches) : batches[i].window = "open" =>
        /\ record[batches[i].key].batch = i
        /\ record[batches[i].key].life = "live"

\* A record replays a batch of its own key.
RecordsReplay ==
    \A k \in Key : record[k].life # "none" => batches[record[k].batch].key = k

\* Only the writer of a key issues under it, and only while no live record has it.
WritersIssue ==
    /\ \A r \in Request : req[r].pc \in {"persist", "confirm"} => writer[req[r].key] = r
    /\ \A k \in Key : writer[k] # None => record[k].life # "live"

IssueInv == WindowsRecorded /\ RecordsReplay /\ WritersIssue

\* It is all it takes.
LEMMA OneWindow == ASSUME TypeOK, IssueInv PROVE OneBatchPerWindow
BY DEF IssueInv, WindowsRecorded, OneBatchPerWindow

-----------------------------------------------------------------------------
(* What the steps do to the requests, the writers and the batches. *)

\* A record that is not none names a batch, and a batch has a key.
LEMMA Stored ==
    ASSUME TypeOK
    PROVE  /\ Len(batches) \in Nat
           /\ \A i \in 1..Len(batches) : batches[i] \in Batches /\ batches[i].key \in Key
           /\ \A k \in Key : record[k] \in Records
           /\ \A r \in Request : req[r] \in Requests /\ req[r].key \in Key
<1>1. batches \in Seq(Batches)
  BY DEF TypeOK
<1>2. Len(batches) \in Nat
  BY <1>1, LenProperties
<1>3. \A i \in 1..Len(batches) : batches[i] \in Batches
  BY <1>1, ElementOfSeq
<1>4. \A i \in 1..Len(batches) : batches[i].key \in Key
  BY <1>3 DEF Batches
<1>5. \A r \in Request : req[r] \in Requests
  BY DEF TypeOK
<1>6. \A r \in Request : req[r].key \in Key
  BY <1>5 DEF Requests
<1>. QED  BY <1>2, <1>3, <1>4, <1>5, <1>6 DEF TypeOK

\* A request that moves changes its pc alone, one that is answered its answer alone.
LEMMA RequestEffects ==
    ASSUME TypeOK, NEW r \in Request
    PROVE  /\ \A step \in Steps : MoveTo(r, step) =>
                /\ req' \in [Request -> Requests]
                /\ req'[r].pc = step /\ req'[r].key = req[r].key /\ req'[r].hash = req[r].hash
                /\ req'[r].answer = req[r].answer /\ req'[r].batch = req[r].batch
                /\ \A s \in Request \ {r} : req'[s] = req[s]
           /\ \A kind \in Answers, b \in Nat : Answer(r, kind, b) =>
                /\ req' \in [Request -> Requests]
                /\ req'[r].pc = "idle" /\ req'[r].key = req[r].key
                /\ req'[r].hash = req[r].hash
                /\ req'[r].answer = kind /\ req'[r].batch = b
                /\ \A s \in Request \ {r} : req'[s] = req[s]
<1>1. req \in [Request -> Requests] /\ req[r] \in Requests
  BY DEF TypeOK
<1>2. ASSUME NEW step \in Steps, MoveTo(r, step)
      PROVE  /\ req' \in [Request -> Requests]
             /\ req'[r].pc = step /\ req'[r].key = req[r].key /\ req'[r].hash = req[r].hash
             /\ req'[r].answer = req[r].answer /\ req'[r].batch = req[r].batch
             /\ \A s \in Request \ {r} : req'[s] = req[s]
  <2>1. [req[r] EXCEPT !.pc = step] \in Requests
    BY <1>1 DEF Requests
  <2>2. req'[r] = [req[r] EXCEPT !.pc = step] /\ \A s \in Request \ {r} : req'[s] = req[s]
    BY <1>1, <1>2 DEF MoveTo
  <2>. QED  BY <1>1, <1>2, <2>1, <2>2 DEF MoveTo, Requests
<1>3. ASSUME NEW kind \in Answers, NEW b \in Nat, Answer(r, kind, b)
      PROVE  /\ req' \in [Request -> Requests]
             /\ req'[r].pc = "idle" /\ req'[r].key = req[r].key
             /\ req'[r].hash = req[r].hash
             /\ req'[r].answer = kind /\ req'[r].batch = b
             /\ \A s \in Request \ {r} : req'[s] = req[s]
  <2>. DEFINE new == [req[r] EXCEPT !.pc = "idle", !.answer = kind, !.batch = b]
  <2>1. new \in Requests
    BY <1>1 DEF Requests, Steps
  <2>2. req' = [req EXCEPT ![r] = new]
    BY <1>1, <1>3 DEF Answer
  <2>3. /\ new.pc = "idle" /\ new.key = req[r].key /\ new.hash = req[r].hash
        /\ new.answer = kind /\ new.batch = b
    BY <1>1 DEF Requests
  <2>. HIDE DEF new
  <2>. QED  BY <1>1, <2>1, <2>2, <2>3
<1>. QED  BY <1>2, <1>3

\* A released transaction writes no key any more.
LEMMA Released ==
    ASSUME IssueAssumption, TypeOK, NEW r \in Request, Release(r)
    PROVE  /\ writer' \in [Key -> Request \cup {None}]
           /\ \A k \in Key : writer'[k] # None => writer'[k] = writer[k] /\ writer[k] # r
           /\ \A k \in Key : writer[k] # r => writer'[k] = writer[k]
BY DEF Release, TypeOK, IssueAssumption

\* A request before its first statement, reading or idle writes no key.
LEMMA WritesNothing ==
    ASSUME IssueAssumption, TypeOK, NEW r \in Request
    PROVE  /\ req[r].pc \in {"idle", "delete", "read"} => \A k \in Key : writer[k] # r
           /\ writer[req[r].key] # r => \A k \in Key : writer[k] # r
BY DEF TypeOK, IssueAssumption

-----------------------------------------------------------------------------
(* Type correctness. *)

\* The part of the type invariant that relates the writers to the requests.
WritersAreAt ==
    \A k \in Key : writer[k] # None =>
        req[writer[k]].key = k /\ req[writer[k]].pc \in {"insert", "persist", "confirm"}

\* A transaction that ends with an answer leaves the other writers where they are.
LEMMA AnswerReleases ==
    ASSUME IssueAssumption, TypeOK, NEW r \in Request, Release(r),
           req' \in [Request -> Requests], \A s \in Request \ {r} : req'[s] = req[s]
    PROVE  WritersAreAt'
<1>1. \A k \in Key : writer'[k] # None =>
          writer'[k] = writer[k] /\ writer[k] \in Request \ {r}
  BY Released DEF TypeOK
<1>. QED  BY <1>1 DEF TypeOK, WritersAreAt

\* Every step keeps every variable within its type.
LEMMA TypeStep == ASSUME IssueAssumption, TypeOK, [Next]_vars PROVE TypeOK'
<1>. USE IssueAssumption DEF IssueAssumption
<1>a. /\ record \in [Key -> Records] /\ writer \in [Key -> Request \cup {None}]
      /\ req \in [Request -> Requests] /\ batches \in Seq(Batches)
      /\ requests \in Nat /\ crashes \in Nat
      /\ \A k \in Key : record[k].life # "none" => record[k].batch \in 1..Len(batches)
      /\ WritersAreAt
  BY DEF TypeOK, WritersAreAt
<1>b. NoRecord \in Records /\ NoRecord.life = "none"
  BY DEF NoRecord, Records
<1>1. ASSUME NEW r \in Request, NEW k \in Key, NEW h \in Hash, Arrive(r, k, h)
      PROVE  TypeOK'
  <2>1. [pc |-> "delete", key |-> k, hash |-> h, attempt |-> 1,
         answer |-> "none", batch |-> 0] \in Requests
    BY DEF Requests, Steps, Answers
  <2>2. req' \in [Request -> Requests] /\ \A s \in Request \ {r} : req'[s] = req[s]
    BY <1>1, <1>a, <2>1 DEF Arrive
  <2>3. \A j \in Key : writer[j] # r
    BY <1>1, WritesNothing DEF Arrive
  <2>4. WritersAreAt'
    BY <1>1, <1>a, <2>2, <2>3 DEF Arrive, WritersAreAt
  <2>. QED  BY <1>1, <1>a, <2>2, <2>4 DEF Arrive, TypeOK, WritersAreAt
<1>2. ASSUME NEW r \in Request, DeleteExpired(r) PROVE TypeOK'
  <2>1. /\ req' \in [Request -> Requests]
        /\ req'[r].pc = "insert" /\ req'[r].key = req[r].key
        /\ \A s \in Request \ {r} : req'[s] = req[s]
    BY <1>2, RequestEffects DEF DeleteExpired, Steps
  <2>2. \A j \in Key : writer[j] # r
    BY <1>2, WritesNothing DEF DeleteExpired
  <2>3. writer' = writer \/ writer' = [writer EXCEPT ![req[r].key] = r]
    BY <1>2 DEF DeleteExpired
  <2>4. WritersAreAt'
    BY <1>a, <2>1, <2>2, <2>3 DEF WritersAreAt
  <2>. QED  BY <1>2, <1>a, <2>1, <2>3, <2>4 DEF DeleteExpired, TypeOK, WritersAreAt
<1>3. ASSUME NEW r \in Request, Insert(r) PROVE TypeOK'
  <2>1. CASE Conflicts(r)
    <3>1. /\ req' \in [Request -> Requests] /\ writer' = writer
          /\ \A s \in Request \ {r} : req'[s] = req[s]
      BY <1>3, <2>1, RequestEffects DEF Insert, Steps
    <3>2. \A j \in Key : writer[j] # r
      BY <2>1, WritesNothing DEF Conflicts
    <3>3. WritersAreAt'
      BY <1>a, <3>1, <3>2 DEF WritersAreAt
    <3>. QED  BY <1>3, <1>a, <3>1, <3>3 DEF Insert, TypeOK, WritersAreAt
  <2>2. CASE ~Conflicts(r)
    <3>1. /\ req' \in [Request -> Requests]
          /\ req'[r].pc = "persist" /\ req'[r].key = req[r].key
          /\ \A s \in Request \ {r} : req'[s] = req[s]
          /\ writer' = [writer EXCEPT ![req[r].key] = r]
      BY <1>3, <2>2, RequestEffects DEF Insert, Steps
    <3>2. WritersAreAt'
      BY <1>a, <3>1 DEF WritersAreAt
    <3>. QED  BY <1>3, <1>a, <3>1, <3>2 DEF Insert, TypeOK, WritersAreAt
  <2>. QED  BY <2>1, <2>2
<1>4. ASSUME NEW r \in Request, Read(r) PROVE TypeOK'
  <2>1. record[req[r].key].batch \in Nat
    BY Stored DEF Records
  <2>2. req' \in [Request -> Requests] /\ \A s \in Request \ {r} : req'[s] = req[s]
    BY <1>4, <2>1, RequestEffects DEF Read, Answers
  <2>3. \A j \in Key : writer[j] # r
    BY <1>4, WritesNothing DEF Read
  <2>4. WritersAreAt'
    BY <1>4, <1>a, <2>2, <2>3 DEF Read, WritersAreAt
  <2>. QED  BY <1>4, <1>a, <2>2, <2>4 DEF Read, TypeOK, WritersAreAt
<1>5. ASSUME NEW r \in Request, Persist(r) PROVE TypeOK'
  <2>1. /\ req' \in [Request -> Requests]
        /\ req'[r].pc = "confirm" /\ req'[r].key = req[r].key
        /\ \A s \in Request \ {r} : req'[s] = req[s]
    BY <1>5, RequestEffects DEF Persist, Steps
  <2>2. WritersAreAt'
    BY <1>5, <1>a, <2>1 DEF Persist, WritersAreAt
  <2>. QED  BY <1>5, <1>a, <2>1, <2>2 DEF Persist, TypeOK, WritersAreAt
<1>6. ASSUME NEW r \in Request, Withdraw(r) PROVE TypeOK'
  <2>1. req' \in [Request -> Requests] /\ \A s \in Request \ {r} : req'[s] = req[s]
    BY <1>6, RequestEffects DEF Withdraw, Answers
  <2>2. WritersAreAt' /\ writer' \in [Key -> Request \cup {None}]
    BY <1>6, <2>1, AnswerReleases, Released DEF Withdraw
  <2>3. record' \in [Key -> Records]
    BY <1>6, <1>a, <1>b DEF Withdraw
  <2>4. \A k \in Key : record'[k].life # "none" => record'[k].batch \in 1..Len(batches)
    BY <1>6, <1>a, <1>b DEF Withdraw
  <2>. QED  BY <1>6, <1>a, <2>1, <2>2, <2>3, <2>4 DEF Withdraw, TypeOK, WritersAreAt
<1>7. ASSUME NEW r \in Request, Collide(r) \/ Fail(r) \/ Crash(r) PROVE TypeOK'
  <2>1. req' \in [Request -> Requests] /\ \A s \in Request \ {r} : req'[s] = req[s]
    <3>1. CASE req' = [req EXCEPT ![r].pc = "delete", ![r].attempt = @ + 1]
               /\ req[r].attempt < MaxAttempts
      <4>1. req[r] \in Requests /\ "delete" \in Steps
        BY <1>a DEF Steps
      <4>2. req[r].attempt + 1 \in 1..MaxAttempts
        BY <3>1, <4>1 DEF Requests
      <4>3. [req[r] EXCEPT !.pc = "delete", !.attempt = req[r].attempt + 1] \in Requests
        BY <4>1, <4>2 DEF Requests
      <4>4. req' = [req EXCEPT ![r] =
                      [req[r] EXCEPT !.pc = "delete", !.attempt = req[r].attempt + 1]]
        BY <3>1, <4>1, <1>a DEF Requests
      <4>. QED  BY <1>a, <4>3, <4>4
    <3>2. CASE Answer(r, "failed", 0)
      BY <3>2, RequestEffects DEF Answers
    <3>. QED  BY <1>7, <3>1, <3>2 DEF Collide, Fail, Crash
  <2>2. WritersAreAt' /\ writer' \in [Key -> Request \cup {None}]
    BY <1>7, <2>1, AnswerReleases, Released DEF Collide, Fail, Crash
  <2>. QED
    BY <1>7, <1>a, <2>1, <2>2 DEF Collide, Fail, Crash, TypeOK, WritersAreAt
<1>8. ASSUME NEW r \in Request, Confirm(r) PROVE TypeOK'
  <2>. DEFINE b == Len(batches) + 1
              new == [key |-> req[r].key, hash |-> req[r].hash, window |-> "open"]
  <2>0. b \in Nat /\ req[r] \in Requests /\ new \in Batches
    BY Stored DEF Requests, Batches
  <2>1. req' \in [Request -> Requests] /\ \A s \in Request \ {r} : req'[s] = req[s]
    BY <1>8, <2>0, RequestEffects DEF Confirm, Answers
  <2>2. WritersAreAt' /\ writer' \in [Key -> Request \cup {None}]
    BY <1>8, <2>1, AnswerReleases, Released DEF Confirm
  <2>3. batches' \in Seq(Batches) /\ Len(batches') = b
    BY <1>8, <1>a, <2>0, AppendProperties DEF Confirm
  <2>4. record' = [record EXCEPT ![req[r].key] = [batch |-> b, life |-> "live"]]
    BY <1>8 DEF Confirm
  <2>5. [batch |-> b, life |-> "live"] \in Records
    BY <2>0 DEF Records
  <2>6. record' \in [Key -> Records]
    BY <1>a, <2>4, <2>5
  <2>7. \A k \in Key : record'[k].life # "none" => record'[k].batch \in 1..b
    BY <1>a, <2>0, <2>4, Stored
  <2>. QED  BY <1>8, <1>a, <2>1, <2>2, <2>3, <2>6, <2>7 DEF Confirm, TypeOK, WritersAreAt
<1>9. ASSUME NEW k \in Key, Expire(k) PROVE TypeOK'
  <2>1. record[k] \in Records /\ record[k].batch \in 1..Len(batches)
    BY <1>9, <1>a DEF Expire
  <2>2. [record[k] EXCEPT !.life = "expired"] \in Records
    BY <2>1 DEF Records
  <2>3. record' \in [Key -> Records]
    BY <1>9, <1>a, <2>2 DEF Expire
  <2>4. batches' \in Seq(Batches) /\ Len(batches') = Len(batches)
    <3>1. [batches[record[k].batch] EXCEPT !.window = "closed"] \in Batches
      BY <2>1, Stored DEF Batches
    <3>. QED  BY <1>9, <1>a, <2>1, <3>1, ExceptSeq DEF Expire
  <2>5. \A j \in Key : record'[j].life # "none" => record'[j].batch \in 1..Len(batches)
    BY <1>9, <1>a, <2>1 DEF Expire, Records
  <2>. QED  BY <1>9, <1>a, <2>3, <2>4, <2>5 DEF Expire, TypeOK, WritersAreAt
<1>10. CASE Cleanup
  <2>1. record' \in [Key -> Records]
    BY <1>10, <1>a, <1>b DEF Cleanup
  <2>2. \A k \in Key : record'[k].life # "none" => record'[k].batch \in 1..Len(batches)
    BY <1>10, <1>a, <1>b DEF Cleanup
  <2>. QED  BY <1>10, <1>a, <2>1, <2>2 DEF Cleanup, TypeOK, WritersAreAt
<1>11. CASE UNCHANGED vars
  BY <1>11 DEF vars, TypeOK
<1>. QED
  BY <1>1, <1>2, <1>3, <1>4, <1>5, <1>6, <1>7, <1>8, <1>9, <1>10, <1>11 DEF Next, Rest

\* Every reachable state is well typed: in particular a stored answer is always that of
\* a batch that was committed.
THEOREM TypeCorrect == IssueAssumption => (Spec => []TypeOK)
<1>. SUFFICES ASSUME IssueAssumption PROVE Spec => []TypeOK
  OBVIOUS
<1>1. Init => TypeOK
  <2>. SUFFICES ASSUME Init PROVE TypeOK
    OBVIOUS
  <2>1. record \in [Key -> Records] /\ writer \in [Key -> Request \cup {None}]
    BY DEF Init, Records, NoRecord
  <2>2. req \in [Request -> Requests]
    BY DEF Init, Requests, Steps, Answers, IssueAssumption
  <2>3. batches \in Seq(Batches)
    BY EmptySeq DEF Init
  <2>. QED  BY <2>1, <2>2, <2>3 DEF Init, TypeOK, NoRecord
<1>2. TypeOK /\ [Next]_vars => TypeOK'
  BY TypeStep
<1>. QED  BY <1>1, <1>2, PTL DEF Spec

-----------------------------------------------------------------------------
(* One batch per window. *)

\* A step that changes no record and no batch keeps the invariant if whoever issues
\* after it is its key's writer, and nobody writes a key with a live record.
LEMMA RecordsKept ==
    ASSUME IssueInv, record' = record, batches' = batches, WritersIssue'
    PROVE  IssueInv'
BY DEF IssueInv, WindowsRecorded, RecordsReplay

\* When r's transaction ends, the requests that still issue are the writers of their keys.
LEMMA WritersRemain ==
    ASSUME IssueAssumption, TypeOK, IssueInv, NEW r \in Request, Release(r),
           req'[r].pc \notin {"persist", "confirm"},
           \A s \in Request \ {r} : req'[s] = req[s],
           \A k \in Key : writer[k] # r => (record'[k].life = "live" => record[k].life = "live")
    PROVE  WritersIssue'
<1>1. ASSUME NEW s \in Request, req'[s].pc \in {"persist", "confirm"}
      PROVE  writer'[req'[s].key] = s
  <2>1. s # r /\ req'[s] = req[s] /\ writer[req[s].key] = s
    BY <1>1 DEF IssueInv, WritersIssue
  <2>. QED  BY <2>1, Released, Stored
<1>2. ASSUME NEW k \in Key, writer'[k] # None PROVE record'[k].life # "live"
  BY <1>2, Released DEF IssueInv, WritersIssue
<1>. QED  BY <1>1, <1>2 DEF WritersIssue

\* Every step preserves the invariant.
LEMMA IssueStep ==
    ASSUME IssueAssumption, TypeOK, IssueInv, [Next]_vars
    PROVE  IssueInv'
<1>. USE IssueAssumption
<1>a. /\ record \in [Key -> Records] /\ writer \in [Key -> Request \cup {None}]
      /\ req \in [Request -> Requests] /\ batches \in Seq(Batches)
      /\ \A k \in Key : record[k].life # "none" => record[k].batch \in 1..Len(batches)
      /\ WindowsRecorded /\ RecordsReplay /\ WritersIssue
  BY DEF TypeOK, IssueInv
<1>b. NoRecord.life = "none"
  BY DEF NoRecord
<1>1. ASSUME NEW r \in Request, NEW k \in Key, NEW h \in Hash, Arrive(r, k, h)
      PROVE  IssueInv'
  <2>1. req'[r].pc = "delete" /\ \A s \in Request \ {r} : req'[s] = req[s]
    BY <1>1, <1>a DEF Arrive
  <2>2. WritersIssue'
    BY <1>1, <1>a, <2>1 DEF Arrive, WritersIssue
  <2>. QED  BY <1>1, <2>2, RecordsKept DEF Arrive
<1>2. ASSUME NEW r \in Request, DeleteExpired(r) PROVE IssueInv'
  <2>1. req'[r].pc = "insert" /\ \A s \in Request \ {r} : req'[s] = req[s]
    BY <1>2, RequestEffects DEF DeleteExpired, Steps
  <2>2. \/ writer' = writer
        \/ /\ writer[req[r].key] = None /\ record[req[r].key].life = "expired"
           /\ writer' = [writer EXCEPT ![req[r].key] = r]
    BY <1>2 DEF DeleteExpired, Deletable
  <2>3. WritersIssue'
    <3>1. ASSUME NEW s \in Request, req'[s].pc \in {"persist", "confirm"}
          PROVE  writer'[req'[s].key] = s
      <4>1. s # r /\ req'[s] = req[s] /\ writer[req[s].key] = s
        BY <3>1, <2>1, <1>a DEF WritersIssue
      <4>2. s # None
        BY DEF IssueAssumption
      <4>. QED  BY <4>1, <4>2, <2>2, <1>a, Stored
    <3>2. \A k \in Key : writer'[k] # None => record'[k].life # "live"
      BY <1>2, <2>2, <1>a DEF DeleteExpired, WritersIssue
    <3>. QED  BY <3>1, <3>2 DEF WritersIssue
  <2>. QED  BY <1>2, <2>3, RecordsKept DEF DeleteExpired
<1>3. ASSUME NEW r \in Request, Insert(r) PROVE IssueInv'
  <2>1. record' = record /\ batches' = batches /\ writer[req[r].key] \in {None, r}
    BY <1>3 DEF Insert, InsertWaits
  <2>2. CASE Conflicts(r)
    <3>1. /\ req'[r].pc = "read" /\ writer' = writer
          /\ \A s \in Request \ {r} : req'[s] = req[s]
      BY <1>3, <2>2, RequestEffects DEF Insert, Steps
    <3>2. WritersIssue'
      BY <1>a, <2>1, <3>1 DEF WritersIssue
    <3>. QED  BY <2>1, <3>2, RecordsKept
  <2>3. CASE ~Conflicts(r)
    <3>1. /\ req'[r].pc = "persist" /\ req'[r].key = req[r].key
          /\ \A s \in Request \ {r} : req'[s] = req[s]
          /\ writer' = [writer EXCEPT ![req[r].key] = r]
      BY <1>3, <2>3, RequestEffects DEF Insert, Steps
    <3>2. record[req[r].key].life # "live"
      BY <2>3, <1>a, Stored DEF Conflicts, WritersIssue, IssueAssumption
    <3>3. ASSUME NEW s \in Request, req'[s].pc \in {"persist", "confirm"}
          PROVE  writer'[req'[s].key] = s
      <4>1. CASE s = r
        BY <4>1, <3>1, <1>a, Stored
      <4>2. CASE s # r
        <5>1. req'[s] = req[s] /\ writer[req[s].key] = s
          BY <3>1, <3>3, <4>2, <1>a DEF WritersIssue
        <5>2. s # None
          BY DEF IssueAssumption
        <5>. QED  BY <5>1, <5>2, <4>2, <3>1, <2>1, <1>a, Stored
      <4>. QED  BY <4>1, <4>2
    <3>4. \A k \in Key : writer'[k] # None => record'[k].life # "live"
      BY <2>1, <3>1, <3>2, <1>a DEF WritersIssue
    <3>5. WritersIssue'
      BY <3>3, <3>4 DEF WritersIssue
    <3>. QED  BY <2>1, <3>5, RecordsKept
  <2>. QED  BY <2>2, <2>3
<1>4. ASSUME NEW r \in Request, Read(r) PROVE IssueInv'
  <2>1. record[req[r].key].batch \in Nat
    BY Stored DEF Records
  <2>2. req'[r].pc = "idle" /\ \A s \in Request \ {r} : req'[s] = req[s]
    BY <1>4, <2>1, RequestEffects DEF Read, Answers
  <2>3. WritersIssue'
    BY <1>4, <1>a, <2>2 DEF Read, WritersIssue
  <2>. QED  BY <1>4, <2>3, RecordsKept DEF Read
<1>5. ASSUME NEW r \in Request, Persist(r) PROVE IssueInv'
  <2>1. /\ req'[r].pc = "confirm" /\ req'[r].key = req[r].key
        /\ \A s \in Request \ {r} : req'[s] = req[s]
    BY <1>5, RequestEffects DEF Persist, Steps
  <2>2. WritersIssue'
    BY <1>5, <1>a, <2>1 DEF Persist, WritersIssue
  <2>. QED  BY <1>5, <2>2, RecordsKept DEF Persist
<1>6. ASSUME NEW r \in Request, Withdraw(r) PROVE IssueInv'
  <2>1. req'[r].pc = "idle" /\ \A s \in Request \ {r} : req'[s] = req[s]
    BY <1>6, RequestEffects DEF Withdraw, Answers
  <2>2. /\ batches' = batches /\ Release(r)
        /\ \A k \in Key : record'[k] = IF k = req[r].key THEN NoRecord ELSE record[k]
    BY <1>6, <1>a DEF Withdraw
  <2>3. record[req[r].key].life # "live"
    BY <1>6, <1>a, Stored DEF Withdraw, WritersIssue, IssueAssumption
  <2>4. WritersIssue'
    BY <2>1, <2>2, <1>b, WritersRemain
  <2>5. WindowsRecorded' /\ RecordsReplay'
    BY <2>2, <2>3, <1>a, <1>b, Stored DEF WindowsRecorded, RecordsReplay
  <2>. QED  BY <2>4, <2>5 DEF IssueInv
<1>7. ASSUME NEW r \in Request, Collide(r) \/ Fail(r) \/ Crash(r) PROVE IssueInv'
  <2>1. /\ req'[r].pc \notin {"persist", "confirm"}
        /\ \A s \in Request \ {r} : req'[s] = req[s]
    <3>1. CASE req' = [req EXCEPT ![r].pc = "delete", ![r].attempt = @ + 1]
      BY <3>1, <1>a DEF Requests
    <3>2. CASE Answer(r, "failed", 0)
      BY <3>2, RequestEffects DEF Answers
    <3>. QED  BY <1>7, <3>1, <3>2 DEF Collide, Fail, Crash
  <2>2. record' = record /\ batches' = batches /\ Release(r)
    BY <1>7 DEF Collide, Fail, Crash
  <2>3. WritersIssue'
    BY <2>1, <2>2, WritersRemain
  <2>. QED  BY <2>2, <2>3, RecordsKept
<1>8. ASSUME NEW r \in Request, Confirm(r) PROVE IssueInv'
  <2>. DEFINE k == req[r].key
              b == Len(batches) + 1
              new == [key |-> k, hash |-> req[r].hash, window |-> "open"]
  <2>0. b \in Nat /\ k \in Key /\ new \in Batches /\ req[r] \in Requests
    BY Stored DEF Requests, Batches
  <2>1. req'[r].pc = "idle" /\ \A s \in Request \ {r} : req'[s] = req[s]
    BY <1>8, <2>0, RequestEffects DEF Confirm, Answers
  <2>2. /\ Len(batches') = b /\ batches'[b] = new
        /\ \A i \in 1..Len(batches) : batches'[i] = batches[i]
    BY <1>8, <1>a, <2>0, AppendProperties DEF Confirm
  <2>3. \A j \in Key : record'[j] = IF j = k THEN [batch |-> b, life |-> "live"] ELSE record[j]
    BY <1>8, <1>a DEF Confirm
  <2>4. writer[k] = r /\ r # None /\ record[k].life # "live"
    BY <1>8, <1>a, <2>0 DEF Confirm, WritersIssue, IssueAssumption
  <2>5. WritersIssue'
    <3>1. \A j \in Key : writer[j] # r => (record'[j].life = "live" => record[j].life = "live")
      BY <2>3, <2>4
    <3>. QED  BY <1>8, <2>1, <3>1, WritersRemain DEF Confirm
  <2>6. WindowsRecorded'
    <3>. SUFFICES ASSUME NEW i \in 1..b, batches'[i].window = "open"
                  PROVE  /\ record'[batches'[i].key].batch = i
                         /\ record'[batches'[i].key].life = "live"
      BY <2>2 DEF WindowsRecorded
    <3>1. CASE i = b
      BY <3>1, <2>0, <2>2, <2>3
    <3>2. CASE i # b
      <4>1. i \in 1..Len(batches) /\ batches'[i] = batches[i]
        BY <3>2, <2>0, <2>2, Stored
      <4>2. /\ record[batches[i].key].batch = i /\ record[batches[i].key].life = "live"
            /\ batches[i].key \in Key
        BY <4>1, <1>a, Stored DEF WindowsRecorded
      <4>3. batches[i].key # k
        BY <4>2, <2>4
      <4>. QED  BY <4>1, <4>2, <4>3, <2>3
    <3>. QED  BY <3>1, <3>2
  <2>7. RecordsReplay'
    <3>. SUFFICES ASSUME NEW j \in Key, record'[j].life # "none"
                  PROVE  batches'[record'[j].batch].key = j
      BY DEF RecordsReplay
    <3>1. CASE j = k
      BY <3>1, <2>2, <2>3
    <3>2. CASE j # k
      BY <3>2, <2>2, <2>3, <1>a DEF RecordsReplay
    <3>. QED  BY <3>1, <3>2
  <2>. QED  BY <2>5, <2>6, <2>7 DEF IssueInv
<1>9. ASSUME NEW k \in Key, Expire(k) PROVE IssueInv'
  <2>. DEFINE b == record[k].batch
              closed == [batches[b] EXCEPT !.window = "closed"]
  <2>1. b \in 1..Len(batches) /\ record[k] \in Records /\ batches[b] \in Batches
    BY <1>9, <1>a, Stored DEF Expire
  <2>2. closed \in Batches /\ closed.window = "closed" /\ closed.key = batches[b].key
    BY <2>1 DEF Batches
  <2>3. batches' = [batches EXCEPT ![b] = closed]
    BY <1>9 DEF Expire
  <2>. HIDE DEF closed
  <2>4. /\ Len(batches') = Len(batches)
        /\ \A i \in 1..Len(batches) : batches'[i] = IF i = b THEN closed ELSE batches[i]
    BY <2>1, <2>2, <2>3, <1>a, ExceptSeq
  <2>5. /\ \A j \in Key : record'[j].batch = record[j].batch
        /\ \A j \in Key \ {k} : record'[j].life = record[j].life
        /\ record'[k].life = "expired" /\ record[k].life = "live"
    BY <1>9, <1>a, <2>1 DEF Expire, Records
  <2>6. WindowsRecorded'
    <3>. SUFFICES ASSUME NEW i \in 1..Len(batches), batches'[i].window = "open"
                  PROVE  /\ record'[batches'[i].key].batch = i
                         /\ record'[batches'[i].key].life = "live"
      BY <2>4 DEF WindowsRecorded
    <3>1. i # b /\ batches'[i] = batches[i]
      BY <2>2, <2>4
    <3>2. record[batches[i].key].batch = i /\ record[batches[i].key].life = "live"
      BY <3>1, <1>a DEF WindowsRecorded
    <3>3. batches[i].key \in Key \ {k}
      BY <3>1, <3>2, Stored
    <3>. QED  BY <3>1, <3>2, <3>3, <2>5
  <2>7. RecordsReplay'
    <3>. SUFFICES ASSUME NEW j \in Key, record'[j].life # "none"
                  PROVE  batches'[record'[j].batch].key = j
      BY DEF RecordsReplay
    <3>1. record[j].life # "none"
      BY <2>5
    <3>2. record[j].batch \in 1..Len(batches) /\ batches[record[j].batch].key = j
      BY <3>1, <1>a DEF RecordsReplay
    <3>. QED  BY <3>2, <2>2, <2>4, <2>5
  <2>8. WritersIssue'
    BY <1>9, <1>a, <2>5 DEF Expire, WritersIssue
  <2>. QED  BY <2>6, <2>7, <2>8 DEF IssueInv
<1>10. CASE Cleanup
  <2>1. /\ \A k \in Key : record'[k] = record[k] \/ record'[k] = NoRecord
        /\ \A k \in Key : record[k].life = "live" => record'[k] = record[k]
        /\ writer' = writer /\ req' = req /\ batches' = batches
    BY <1>10, <1>a DEF Cleanup, Page, Cleanable
  <2>2. WindowsRecorded'
    BY <2>1, <1>a, Stored DEF WindowsRecorded
  <2>3. RecordsReplay' /\ WritersIssue'
    BY <2>1, <1>a, <1>b DEF RecordsReplay, WritersIssue
  <2>. QED  BY <2>2, <2>3 DEF IssueInv
<1>11. CASE UNCHANGED vars
  BY <1>11 DEF vars, IssueInv, WindowsRecorded, RecordsReplay, WritersIssue
<1>. QED
  BY <1>1, <1>2, <1>3, <1>4, <1>5, <1>6, <1>7, <1>8, <1>9, <1>10, <1>11 DEF Next, Rest

\* The records, the open transactions and the replay windows agree in every state.
LEMMA WindowsKept == ASSUME IssueAssumption PROVE Spec => [](TypeOK /\ IssueInv)
<1>1. Init => IssueInv
  BY DEF Init, IssueInv, WindowsRecorded, RecordsReplay, WritersIssue, NoRecord
<1>2. TypeOK /\ IssueInv /\ [Next]_vars => IssueInv'
  BY IssueStep
<1>3. Spec => []TypeOK
  BY TypeCorrect
<1>. QED  BY <1>1, <1>2, <1>3, PTL DEF Spec

\* However many requests, retries, crashes and cleanups of a key run concurrently, no
\* second batch is issued under it while the first can be replayed.
THEOREM KeysIssueOnce == IssueAssumption => (Spec => []OneBatchPerWindow)
<1>. SUFFICES ASSUME IssueAssumption PROVE Spec => []OneBatchPerWindow
  OBVIOUS
<1>1. TypeOK /\ IssueInv => OneBatchPerWindow
  BY OneWindow
<1>2. Spec => [](TypeOK /\ IssueInv)
  BY WindowsKept
<1>. QED  BY <1>1, <1>2, PTL

-----------------------------------------------------------------------------
(* The answers. *)

\* A batch keeps its key and its body for ever.
LEMMA BatchesStay ==
    ASSUME IssueAssumption, TypeOK, [Next]_vars, NEW i \in 1..Len(batches)
    PROVE  /\ i \in 1..Len(batches')
           /\ batches'[i].key = batches[i].key /\ batches'[i].hash = batches[i].hash
<1>a. batches \in Seq(Batches) /\ Len(batches) \in Nat
  BY Stored DEF TypeOK
<1>1. CASE batches' = batches
  BY <1>1
<1>2. ASSUME NEW r \in Request, Confirm(r)
      PROVE  /\ i \in 1..Len(batches')
             /\ batches'[i].key = batches[i].key /\ batches'[i].hash = batches[i].hash
  <2>1. [key |-> req[r].key, hash |-> req[r].hash, window |-> "open"] \in Batches
    BY Stored DEF Requests, Batches
  <2>. QED  BY <1>2, <1>a, <2>1, AppendProperties DEF Confirm
<1>3. ASSUME NEW k \in Key, Expire(k)
      PROVE  /\ i \in 1..Len(batches')
             /\ batches'[i].key = batches[i].key /\ batches'[i].hash = batches[i].hash
  <2>. DEFINE b == record[k].batch
              closed == [batches[b] EXCEPT !.window = "closed"]
  <2>1. b \in 1..Len(batches) /\ batches[b] \in Batches
    BY <1>3, Stored DEF Expire, TypeOK
  <2>2. /\ closed \in Batches /\ closed.key = batches[b].key
        /\ closed.hash = batches[b].hash
    BY <2>1 DEF Batches
  <2>3. batches' = [batches EXCEPT ![b] = closed]
    BY <1>3 DEF Expire
  <2>. HIDE DEF closed
  <2>. QED  BY <2>1, <2>2, <2>3, <1>a, ExceptSeq
<1>. QED
  BY <1>1, <1>2, <1>3 DEF Next, vars, Rest, Arrive, DeleteExpired, Insert, Read, Persist,
     Withdraw, Collide, Fail, Crash, Cleanup

\* A request is answered with a batch of its own key and body, or is not answered yet,
\* or keeps the answer it has.
LEMMA AnswerStep ==
    ASSUME IssueAssumption, TypeOK, IssueInv, AnswersTheRequest, [Next]_vars
    PROVE  AnswersTheRequest'
<1>. SUFFICES ASSUME NEW s \in Request, req'[s].answer \in {"created", "replayed"}
              PROVE  /\ req'[s].batch \in 1..Len(batches')
                     /\ batches'[req'[s].batch].key = req'[s].key
                     /\ batches'[req'[s].batch].hash = req'[s].hash
  BY DEF AnswersTheRequest
<1>a. req \in [Request -> Requests] /\ req[s] \in Requests
  BY DEF TypeOK
<1>1. CASE /\ req'[s].answer = req[s].answer /\ req'[s].batch = req[s].batch
           /\ req'[s].key = req[s].key /\ req'[s].hash = req[s].hash
  BY <1>1, BatchesStay DEF AnswersTheRequest
<1>2. CASE Read(s)
  <2>1. record[req[s].key].batch \in Nat
    BY Stored DEF Records
  <2>2. Replayable(s) /\ req'[s].batch = record[req[s].key].batch
    BY <1>2, <2>1, RequestEffects DEF Read, Answers
  <2>3. req'[s].key = req[s].key /\ req'[s].hash = req[s].hash /\ batches' = batches
    BY <1>2, <2>1, RequestEffects DEF Read, Answers
  <2>4. /\ record[req[s].key].batch \in 1..Len(batches)
        /\ batches[record[req[s].key].batch].key = req[s].key
        /\ batches[record[req[s].key].batch].hash = req[s].hash
    BY <2>2, Stored DEF Replayable, IssueInv, RecordsReplay, TypeOK
  <2>. QED  BY <2>2, <2>3, <2>4
<1>3. CASE Confirm(s)
  <2>. DEFINE new == [key |-> req[s].key, hash |-> req[s].hash, window |-> "open"]
  <2>1. new \in Batches /\ Len(batches) + 1 \in Nat /\ batches \in Seq(Batches)
    BY <1>a, Stored DEF Requests, Batches, TypeOK
  <2>2. /\ req'[s].batch = Len(batches) + 1
        /\ req'[s].key = req[s].key /\ req'[s].hash = req[s].hash
    BY <1>3, <2>1, RequestEffects DEF Confirm, Answers
  <2>3. Len(batches') = Len(batches) + 1 /\ batches'[Len(batches) + 1] = new
    BY <1>3, <2>1, AppendProperties DEF Confirm
  <2>. QED  BY <2>1, <2>2, <2>3, Stored
<1>4. CASE \/ \E k \in Key, h \in Hash : Arrive(s, k, h)
           \/ Withdraw(s) \/ Collide(s) \/ Fail(s) \/ Crash(s)
  <2>1. CASE \E k \in Key, h \in Hash : Arrive(s, k, h)
    BY <2>1, <1>a DEF Arrive
  <2>2. CASE Answer(s, "failed", 0) \/ Answer(s, "missing", 0)
    BY <2>2, RequestEffects DEF Answers
  <2>3. CASE req' = [req EXCEPT ![s].pc = "delete", ![s].attempt = @ + 1]
    BY <2>3, <1>a, <1>1 DEF Requests
  <2>. QED  BY <1>4, <2>1, <2>2, <2>3 DEF Withdraw, Collide, Fail, Crash
<1>5. CASE DeleteExpired(s) \/ Insert(s) \/ Persist(s)
  <2>1. \E step \in Steps : MoveTo(s, step)
    BY <1>5 DEF DeleteExpired, Insert, Persist, Steps
  <2>. QED  BY <2>1, <1>1, RequestEffects
<1>6. ASSUME NEW r \in Request \ {s},
             \/ \E k \in Key, h \in Hash : Arrive(r, k, h)
             \/ RequestStep(r) \/ Crash(r)
      PROVE  req'[s] = req[s]
  BY <1>6, <1>a DEF Arrive, RequestStep, Crash, DeleteExpired, Insert, Read, Persist,
     Withdraw, Collide, Fail, Confirm, MoveTo, Answer
<1>7. CASE UNCHANGED req
  BY <1>7, <1>1
<1>8. ASSUME NEW r \in Request,
             \/ \E k \in Key, h \in Hash : Arrive(r, k, h)
             \/ RequestStep(r) \/ Crash(r)
      PROVE  r = s \/ req'[s] = req[s]
  BY <1>6, <1>8
<1>9. CASE \/ \E k \in Key, h \in Hash : Arrive(s, k, h)
           \/ RequestStep(s) \/ Crash(s)
  BY <1>2, <1>3, <1>4, <1>5, <1>9 DEF RequestStep
<1>10. CASE req'[s] = req[s]
  BY <1>1, <1>10
<1>11. \/ UNCHANGED req
       \/ \E r \in Request : \/ \E k \in Key, h \in Hash : Arrive(r, k, h)
                             \/ RequestStep(r) \/ Crash(r)
  BY DEF Next, RequestStep, vars, Expire, Cleanup, Rest
<1>. QED  BY <1>7, <1>8, <1>9, <1>10, <1>11

\* Every answer that names a batch names one committed for this very key and body.
THEOREM AnswersMatch == IssueAssumption => (Spec => []AnswersTheRequest)
<1>. SUFFICES ASSUME IssueAssumption PROVE Spec => []AnswersTheRequest
  OBVIOUS
<1>1. Init => AnswersTheRequest
  BY DEF Init, AnswersTheRequest
<1>2. TypeOK /\ IssueInv /\ AnswersTheRequest /\ [Next]_vars => AnswersTheRequest'
  BY AnswerStep
<1>3. Spec => [](TypeOK /\ IssueInv)
  BY WindowsKept
<1>. QED  BY <1>1, <1>2, <1>3, PTL DEF Spec
=============================================================================
