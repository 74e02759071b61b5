----------------------- MODULE GuestRetentionProofs -----------------------
(***************************************************************************)
(* Theorems about GuestRetention, for any guests, requests and schedulers, *)
(* any batch size and any bounds.                                          *)
(***************************************************************************)
EXTENDS GuestRetention, SequenceTheorems, TLAPS

-----------------------------------------------------------------------------
(* The inductive invariant: what an open transaction knows of the rows it  *)
(* has locked stays true until it ends.                                    *)

Counts == UNION {[S -> Nat] : S \in SUBSET Guest}
Transaction ==
    [pc : {"idle", "issuing", "entering", "locking", "commit", "again"},
     guest : Guest \cup {None}, name : {"none", "personal", "anonymized"},
     snapshot : SUBSET Guest, locked : SUBSET Guest, rewritten : Counts]

\* A request holds the guest it works on, and what it read of it is still so.
ClientHolds(c) ==
    /\ tx[c].pc \in {"idle", "issuing", "entering"}
    /\ tx[c].pc = "idle" => \A g \in Guest : lock[g] # c
    /\ tx[c].pc # "idle" => tx[c].guest \in Guest /\ lock[tx[c].guest] = c
    /\ tx[c].pc = "issuing" => contact[tx[c].guest] = "personal"
    /\ tx[c].pc = "entering" /\ tx[c].name = "personal" => contact[tx[c].guest] = "personal"

\* A run holds its batch, none of it anonymized, and its rewrite covers every
\* notification of the batch.
JobHolds(j) ==
    /\ tx[j].pc \in {"idle", "locking", "commit", "again"}
    /\ tx[j].pc \in {"idle", "again"} => tx[j].locked = {}
    /\ \A g \in tx[j].locked : lock[g] = j /\ contact[g] = "personal"
    /\ tx[j].pc = "commit" => \A g \in tx[j].locked : tx[j].rewritten[g] = named[g]

\* A lock is held by the transaction that took it.
LockTaken(t, g) ==
    lock[g] = t => IF t \in Job THEN g \in tx[t].locked ELSE tx[t].guest = g

RetentionInv ==
    /\ contact \in [Guest -> {"personal", "anonymized"}]
    /\ last \in [Guest -> Ages]
    /\ named \in [Guest -> Nat]
    /\ lock \in [Guest -> Tx \cup {None}]
    /\ tx \in [Tx -> Transaction]
    /\ requests \in 0..MaxRequests /\ crashes \in 0..MaxCrashes
    /\ \A c \in Client : ClientHolds(c)
    /\ \A j \in Job : JobHolds(j)
    /\ \A t \in Tx, g \in Guest : LockTaken(t, g)
    /\ NamesForgotten

LEMMA InvType == ASSUME RetentionAssumption, RetentionInv PROVE TypeOK
<1>1. \A t \in Tx : tx[t] \in Transaction
  BY DEF RetentionInv
<1>2. \A t \in Tx : tx[t].pc \in {"idle", "issuing", "entering", "locking", "commit", "again"}
  BY <1>1 DEF Transaction
<1>. QED  BY <1>2 DEF RetentionInv, TypeOK, LockTaken

\* No guest rewritten yet.
LEMMA IdleTyped == Idle \in Transaction /\ <<>> \in Counts
<1>1. <<>> \in Seq(Nat) /\ Len(<<>>) = 0
  BY EmptySeq
<1>2. <<>> \in [1..0 -> Nat]
  BY <1>1, LenProperties
<1>3. <<>> \in [{} -> Nat]
  BY <1>2
<1>4. <<>> \in Counts
  BY <1>3 DEF Counts
<1>. QED  BY <1>4 DEF Idle, Transaction

-----------------------------------------------------------------------------
(* A step of one transaction does not disturb the others.                  *)

LEMMA OthersHold ==
    ASSUME RetentionAssumption, RetentionInv, NEW t \in Tx,
           \A s \in Tx \ {t} : tx'[s] = tx[s],
           \A g \in Guest : \/ lock'[g] = lock[g]
                            \/ lock[g] = None /\ lock'[g] = t
                            \/ lock[g] = t /\ lock'[g] = None,
           \A g \in Guest : lock[g] # t => contact'[g] = contact[g] /\ named'[g] = named[g],
           NEW s \in Tx \ {t}
    PROVE  /\ s \in Client => ClientHolds(s)'
           /\ s \in Job => JobHolds(s)'
           /\ \A g \in Guest : LockTaken(s, g)'
<1>. USE DEF RetentionAssumption
<1>1. tx'[s] = tx[s] /\ tx[s] \in Transaction
  BY DEF RetentionInv
<1>2. tx[s].locked \subseteq Guest
  BY <1>1 DEF Transaction
<1>3. s \in Client => ClientHolds(s)'
  BY <1>1 DEF RetentionInv, ClientHolds
<1>4. s \in Job => JobHolds(s)'
  BY <1>1, <1>2 DEF RetentionInv, JobHolds
<1>5. \A g \in Guest : LockTaken(s, g)'
  BY <1>1 DEF RetentionInv, LockTaken
<1>. QED  BY <1>3, <1>4, <1>5

\* So a step of t preserves the invariant when it does for t.
LEMMA StepOf ==
    ASSUME RetentionAssumption, RetentionInv, NEW t \in Tx, NEW new \in Transaction,
           tx' = [tx EXCEPT ![t] = new],
           lock' \in [Guest -> Tx \cup {None}],
           \A g \in Guest : \/ lock'[g] = lock[g]
                            \/ lock[g] = None /\ lock'[g] = t
                            \/ lock[g] = t /\ lock'[g] = None,
           contact' \in [Guest -> {"personal", "anonymized"}],
           last' \in [Guest -> Ages], named' \in [Guest -> Nat],
           \A g \in Guest : lock[g] # t => contact'[g] = contact[g] /\ named'[g] = named[g],
           requests' \in 0..MaxRequests, crashes' \in 0..MaxCrashes,
           t \in Client => ClientHolds(t)', t \in Job => JobHolds(t)',
           \A g \in Guest : LockTaken(t, g)',
           NamesForgotten'
    PROVE  RetentionInv'
<1>1. tx' \in [Tx -> Transaction] /\ tx'[t] = new /\ \A s \in Tx \ {t} : tx'[s] = tx[s]
  BY DEF RetentionInv
<1>3. ASSUME NEW c \in Client PROVE ClientHolds(c)'
  <2>1. CASE c = t
    BY <2>1 DEF ClientHolds
  <2>2. CASE c # t
    <3>1. c \in Tx \ {t}
      BY <2>2 DEF Tx
    <3>. QED  BY <3>1, <1>1, OthersHold
  <2>. QED  BY <2>1, <2>2
<1>4. ASSUME NEW j \in Job PROVE JobHolds(j)'
  <2>1. CASE j = t
    BY <2>1 DEF JobHolds
  <2>2. CASE j # t
    <3>1. j \in Tx \ {t}
      BY <2>2 DEF Tx
    <3>. QED  BY <3>1, <1>1, OthersHold
  <2>. QED  BY <2>1, <2>2
<1>5. ASSUME NEW s \in Tx, NEW g \in Guest PROVE LockTaken(s, g)'
  <2>1. CASE s = t
    BY <2>1 DEF LockTaken
  <2>2. CASE s # t
    BY <2>2, <1>1, OthersHold
  <2>. QED  BY <2>1, <2>2
<1>. QED  BY <1>1, <1>3, <1>4, <1>5 DEF RetentionInv

\* The end of a transaction.
LEMMA Ended ==
    ASSUME RetentionAssumption, RetentionInv, NEW t \in Tx, Ends(t)
    PROVE  /\ tx' = [tx EXCEPT ![t] = Idle] /\ tx'[t] = Idle
           /\ lock' \in [Guest -> Tx \cup {None}]
           /\ \A g \in Guest : lock'[g] = IF lock[g] = t THEN None ELSE lock[g]
           /\ \A g \in Guest : lock'[g] # t
BY DEF Ends, RetentionInv, RetentionAssumption

\* A transaction that ends and rolls back, or has written what it may, knows nothing.
LEMMA EndStep ==
    ASSUME RetentionAssumption, RetentionInv, NEW t \in Tx, Ends(t),
           contact' = contact, last' \in [Guest -> Ages], named' \in [Guest -> Nat],
           \A g \in Guest : named'[g] = named[g] \/ (lock[g] = t /\ contact[g] = "personal"),
           requests' \in 0..MaxRequests, crashes' \in 0..MaxCrashes
    PROVE  RetentionInv'
<1>1. /\ tx' = [tx EXCEPT ![t] = Idle] /\ tx'[t] = Idle
      /\ lock' \in [Guest -> Tx \cup {None}]
      /\ \A g \in Guest : lock'[g] = IF lock[g] = t THEN None ELSE lock[g]
      /\ \A g \in Guest : lock'[g] # t
  BY Ended
<1>2. Idle.pc = "idle" /\ Idle.locked = {}
  BY DEF Idle
<1>3. ClientHolds(t)' /\ JobHolds(t)'
  BY <1>1, <1>2 DEF ClientHolds, JobHolds
<1>4. \A g \in Guest : LockTaken(t, g)'
  BY <1>1 DEF LockTaken
<1>5. NamesForgotten'
  BY DEF NamesForgotten, RetentionInv
<1>6. contact' \in [Guest -> {"personal", "anonymized"}]
  BY DEF RetentionInv
<1>7. \A g \in Guest : lock[g] # t => contact'[g] = contact[g] /\ named'[g] = named[g]
  OBVIOUS
<1>. QED  BY <1>1, <1>3, <1>4, <1>5, <1>6, <1>7, IdleTyped, StepOf

-----------------------------------------------------------------------------
(* Every step preserves the invariant.                                     *)

\* A step that touches neither the locks nor the transactions, nor the names.
LEMMA RowStep ==
    ASSUME RetentionInv, contact' = contact, named' = named, lock' = lock, tx' = tx,
           last' \in [Guest -> Ages],
           requests' \in 0..MaxRequests, crashes' \in 0..MaxCrashes
    PROVE  RetentionInv'
BY DEF RetentionInv, ClientHolds, JobHolds, LockTaken, NamesForgotten

\* An idle request locks a guest and knows what it read of it.
LEMMA LockStep ==
    ASSUME RetentionAssumption, RetentionInv, NEW c \in Client, NEW g \in Guest,
           tx[c].pc = "idle", Locks(c, g),
           NEW new \in Transaction, tx' = [tx EXCEPT ![c] = new], new.guest = g,
           new.pc \in {"issuing", "entering"},
           new.pc = "issuing" => contact[g] = "personal",
           new.pc = "entering" => new.name = contact[g],
           contact' = contact, last' = last, named' = named, crashes' = crashes,
           requests' \in 0..MaxRequests
    PROVE  RetentionInv'
<1>a. /\ contact \in [Guest -> {"personal", "anonymized"}] /\ last \in [Guest -> Ages]
      /\ named \in [Guest -> Nat] /\ lock \in [Guest -> Tx \cup {None}]
      /\ crashes \in 0..MaxCrashes /\ tx \in [Tx -> Transaction]
  BY DEF RetentionInv
<1>b. c \in Tx /\ c \notin Job /\ c # None /\ \A h \in Guest : lock[h] # c
  BY DEF Tx, RetentionAssumption, RetentionInv, ClientHolds
<1>1. lock[g] = None /\ lock' = [lock EXCEPT ![g] = c] /\ tx'[c] = new
  BY <1>a, <1>b DEF Locks
<1>2. ClientHolds(c)'
  BY <1>1, <1>a DEF ClientHolds
<1>3. \A h \in Guest : LockTaken(c, h)'
  BY <1>1, <1>a, <1>b DEF LockTaken
<1>4. lock' \in [Guest -> Tx \cup {None}]
  BY <1>1, <1>a, <1>b
<1>5. NamesForgotten'
  BY DEF RetentionInv, NamesForgotten
<1>6. \A h \in Guest : \/ lock'[h] = lock[h]
                       \/ lock[h] = None /\ lock'[h] = c
                       \/ lock[h] = c /\ lock'[h] = None
  BY <1>1, <1>a
<1>. QED  BY <1>1, <1>2, <1>3, <1>4, <1>5, <1>6, <1>a, <1>b, StepOf

LEMMA RetentionStep ==
    ASSUME RetentionAssumption, RetentionInv, [Next]_vars
    PROVE  RetentionInv'
<1>. USE RetentionAssumption
<1>a. /\ contact \in [Guest -> {"personal", "anonymized"}] /\ last \in [Guest -> Ages]
      /\ named \in [Guest -> Nat] /\ lock \in [Guest -> Tx \cup {None}]
      /\ requests \in 0..MaxRequests /\ crashes \in 0..MaxCrashes
      /\ tx \in [Tx -> Transaction] /\ \A t \in Tx : tx[t] \in Transaction
  BY DEF RetentionInv
<1>b. /\ \A c \in Client : c \in Tx /\ c \notin Job /\ c # None /\ ClientHolds(c)
      /\ \A j \in Job : j \in Tx /\ j \notin Client /\ j # None /\ JobHolds(j)
      /\ \A s \in Issuer : s \in Client
      /\ \A v \in Validator : v \in Client
  BY DEF Tx, Client, RetentionAssumption, RetentionInv
<1>c. requests < MaxRequests => requests + 1 \in 0..MaxRequests
  BY <1>a DEF RetentionAssumption
<1>d. crashes < MaxCrashes => crashes + 1 \in 0..MaxCrashes
  BY <1>a DEF RetentionAssumption
<1>1. ASSUME NEW s \in Issuer, NEW g \in Guest, LockForIssue(s, g) PROVE RetentionInv'
  <2>. DEFINE new == [tx[s] EXCEPT !.pc = "issuing", !.guest = g]
  <2>1. s \in Client /\ s \in Tx /\ tx[s] \in Transaction
    BY <1>a, <1>b
  <2>2. new \in Transaction /\ new.pc = "issuing" /\ new.guest = g
    BY <2>1 DEF Transaction
  <2>3. tx' = [tx EXCEPT ![s] = new]
    BY <1>1, <2>1, <1>a DEF LockForIssue, Transaction
  <2>. HIDE DEF new
  <2>. QED  BY <1>1, <2>1, <2>2, <2>3, <1>c, LockStep DEF LockForIssue, Begin, rows
<1>1b. ASSUME NEW v \in Validator, NEW g \in Guest, LockForEntry(v, g) PROVE RetentionInv'
  <2>. DEFINE name == contact[g]
              new == [tx[v] EXCEPT !.pc = "entering", !.guest = g, !.name = name]
  <2>1. v \in Client /\ v \in Tx /\ tx[v] \in Transaction
    BY <1>a, <1>b
  <2>2. name \in {"personal", "anonymized"}
    BY <1>a
  <2>3. tx' = [tx EXCEPT ![v].pc = "entering", ![v].guest = g, ![v].name = name]
    BY <1>1b DEF LockForEntry
  <2>. HIDE DEF name
  <2>4. new \in Transaction /\ new.pc = "entering" /\ new.guest = g /\ new.name = name
    BY <2>1, <2>2 DEF Transaction
  <2>5. tx' = [tx EXCEPT ![v] = new]
    BY <2>1, <2>3, <1>a DEF Transaction
  <2>. HIDE DEF new
  <2>6. /\ tx[v].pc = "idle" /\ Locks(v, g) /\ new.name = contact[g]
        /\ contact' = contact /\ last' = last /\ named' = named /\ crashes' = crashes
        /\ requests' \in 0..MaxRequests
    BY <1>1b, <2>4, <1>c DEF LockForEntry, Begin, rows, name
  <2>. QED  BY <2>1, <2>4, <2>5, <2>6, LockStep
<1>2. ASSUME NEW s \in Issuer, EndIssue(s) PROVE RetentionInv'
  <2>1. last' \in [Guest -> Ages]
    BY <1>2, <1>a DEF EndIssue, Ages
  <2>. QED  BY <1>2, <2>1, <1>a, <1>b, EndStep DEF EndIssue
<1>3. ASSUME NEW v \in Validator, Enter(v) PROVE RetentionInv'
  <2>. DEFINE g == tx[v].guest
  <2>1. g \in Guest /\ lock[g] = v /\ (tx[v].name = "personal" => contact[g] = "personal")
    BY <1>3, <1>b DEF Enter, ClientHolds
  <2>2. last' \in [Guest -> Ages]
    BY <1>3, <2>1, <1>a DEF Enter, Ages
  <2>3. /\ named' \in [Guest -> Nat]
        /\ \A h \in Guest : named'[h] = named[h] \/ (lock[h] = v /\ contact[h] = "personal")
    BY <1>3, <2>1, <1>a DEF Enter
  <2>. QED  BY <1>3, <2>2, <2>3, <1>a, <1>b, EndStep DEF Enter
<1>4. ASSUME NEW g \in Guest, EditGuest(g) \/ Expire(g) \/ Age(g) PROVE RetentionInv'
  <2>1. last' \in [Guest -> Ages] /\ requests' \in 0..MaxRequests
    BY <1>4, <1>a, <1>c DEF EditGuest, Expire, Age, Begin, Ages, rows
  <2>. QED  BY <1>4, <2>1, <1>a, RowStep DEF EditGuest, Expire, Age, rows
<1>5. ASSUME NEW j \in Job, Select(j) PROVE RetentionInv'
  <2>. DEFINE new == [Idle EXCEPT !.pc = "locking", !.snapshot = {g \in Guest : Eligible(g)}]
  <2>1. new \in Transaction /\ new.locked = {} /\ new.pc = "locking"
    BY IdleTyped DEF Idle, Transaction
  <2>2. tx' = [tx EXCEPT ![j] = new] /\ tx'[j] = new
    BY <1>5, <1>a, <1>b DEF Select
  <2>. HIDE DEF new
  <2>3. contact' = contact /\ last' = last /\ named' = named /\ lock' = lock
        /\ requests' = requests /\ crashes' = crashes
    BY <1>5 DEF Select, rows
  <2>4. JobHolds(j)'
    BY <2>1, <2>2 DEF JobHolds
  <2>5. \A g \in Guest : lock[g] # j
    BY <1>5, <1>b DEF Select, JobHolds, RetentionInv, LockTaken
  <2>6. \A g \in Guest : LockTaken(j, g)'
    BY <2>3, <2>5 DEF LockTaken
  <2>7. NamesForgotten'
    BY <2>3 DEF RetentionInv, NamesForgotten
  <2>. QED  BY <2>1, <2>2, <2>3, <2>4, <2>6, <2>7, <1>a, <1>b, StepOf
<1>6. ASSUME NEW j \in Job, NEW g \in Guest, LockCandidate(j, g) PROVE RetentionInv'
  <2>. DEFINE taken == lock[g] = None /\ contact[g] = "personal"
              left == tx[j].snapshot \ {g}
              mine == IF taken THEN tx[j].locked \cup {g} ELSE tx[j].locked
              new == [tx[j] EXCEPT !.snapshot = left, !.locked = mine]
  <2>0. tx[j] \in Transaction /\ tx[j].pc = "locking"
    BY <1>6, <1>a, <1>b DEF LockCandidate
  <2>1. left \in SUBSET Guest /\ mine \in SUBSET Guest
    BY <2>0 DEF Transaction
  <2>2. tx' = [tx EXCEPT ![j] = new]
    BY <1>6, <2>0, <1>a, <1>b DEF LockCandidate, Transaction
  <2>. HIDE DEF left, mine
  <2>3. new \in Transaction /\ new.pc = "locking" /\ new.locked = mine
    BY <2>0, <2>1 DEF Transaction
  <2>4. /\ contact' = contact /\ last' = last /\ named' = named
        /\ requests' = requests /\ crashes' = crashes
        /\ lock' = IF taken THEN [lock EXCEPT ![g] = j] ELSE lock
    BY <1>6 DEF LockCandidate, rows
  <2>. HIDE DEF new
  <2>5. tx'[j] = new
    BY <2>2, <1>a, <1>b
  <2>6. JobHolds(j)
    BY <1>b
  <2>7. JobHolds(j)'
    BY <2>3, <2>4, <2>5, <2>6, <1>a DEF JobHolds, mine
  <2>8. \A h \in Guest : LockTaken(j, h)'
    BY <2>3, <2>4, <2>5, <1>a, <1>b DEF RetentionInv, LockTaken, mine
  <2>9. lock' \in [Guest -> Tx \cup {None}]
    BY <2>4, <1>a, <1>b
  <2>10. NamesForgotten'
    BY <2>4 DEF RetentionInv, NamesForgotten
  <2>11. \A h \in Guest : \/ lock'[h] = lock[h]
                          \/ lock[h] = None /\ lock'[h] = j
                          \/ lock[h] = j /\ lock'[h] = None
    BY <2>4, <1>a
  <2>. QED  BY <2>2, <2>3, <2>4, <2>7, <2>8, <2>9, <2>10, <2>11, <1>a, <1>b, StepOf
<1>7. ASSUME NEW j \in Job, Rewrite(j) PROVE RetentionInv'
  <2>1. CASE tx[j].locked = {}
    BY <1>7, <2>1, <1>a, <1>b, EndStep DEF Rewrite, rows
  <2>2. CASE tx[j].locked # {}
    <3>. DEFINE counted == [g \in tx[j].locked |-> named[g]]
                new == [tx[j] EXCEPT !.pc = "commit", !.rewritten = counted]
    <3>1. tx[j].locked \in SUBSET Guest
      BY <1>a, <1>b DEF Transaction
    <3>2. counted \in [tx[j].locked -> Nat]
      BY <3>1, <1>a
    <3>3. counted \in Counts
      BY <3>1, <3>2 DEF Counts
    <3>4. \A g \in tx[j].locked : counted[g] = named[g]
      OBVIOUS
    <3>5. tx' = [tx EXCEPT ![j].pc = "commit", ![j].rewritten = counted]
      BY <1>7, <2>2 DEF Rewrite
    <3>. HIDE DEF counted
    <3>6. tx[j] \in Transaction
      BY <1>a, <1>b
    <3>7. /\ new \in Transaction
          /\ new.pc = "commit" /\ new.locked = tx[j].locked /\ new.rewritten = counted
      BY <3>3, <3>6 DEF Transaction
    <3>7b. tx' = [tx EXCEPT ![j] = new]
      BY <3>5, <3>6, <1>a, <1>b DEF Transaction
    <3>8. /\ contact' = contact /\ last' = last /\ named' = named /\ lock' = lock
          /\ requests' = requests /\ crashes' = crashes
      BY <1>7, <2>2 DEF Rewrite, rows
    <3>. HIDE DEF new
    <3>9. tx'[j] = new
      BY <3>7b, <1>a, <1>b
    <3>10. JobHolds(j)'
      BY <3>4, <3>7, <3>8, <3>9, <1>b DEF JobHolds
    <3>11. \A g \in Guest : LockTaken(j, g)'
      BY <3>7, <3>8, <3>9, <1>b DEF RetentionInv, LockTaken
    <3>12. NamesForgotten'
      BY <3>8 DEF RetentionInv, NamesForgotten
    <3>. QED  BY <3>7, <3>7b, <3>8, <3>10, <3>11, <3>12, <1>a, <1>b, StepOf
  <2>. QED  BY <2>1, <2>2
<1>8. ASSUME NEW j \in Job, Commit(j) PROVE RetentionInv'
  <2>. DEFINE pc == IF Cardinality(tx[j].locked) = BatchSize THEN "again" ELSE "idle"
              new == [Idle EXCEPT !.pc = pc]
  <2>1. new \in Transaction /\ new.pc \in {"again", "idle"} /\ new.locked = {}
    BY IdleTyped DEF Idle, Transaction
  <2>2. tx' = [tx EXCEPT ![j] = new] /\ tx'[j] = new
    BY <1>8, <1>a, <1>b DEF Commit
  <2>. HIDE DEF new, pc
  <2>3. JobHolds(j) /\ tx[j].pc = "commit"
    BY <1>8, <1>b DEF Commit
  <2>4. /\ last' = last /\ requests' = requests /\ crashes' = crashes
        /\ \A g \in Guest : lock'[g] = IF lock[g] = j THEN None ELSE lock[g]
        /\ lock' \in [Guest -> Tx \cup {None}]
    BY <1>8, <1>a DEF Commit
  <2>5. /\ contact' \in [Guest -> {"personal", "anonymized"}]
        /\ \A g \in Guest : contact'[g] = IF g \in tx[j].locked THEN "anonymized"
                                            ELSE contact[g]
    BY <1>8, <1>a DEF Commit
  <2>6. ASSUME NEW g \in Guest
        PROVE  named'[g] = (IF g \in tx[j].locked THEN 0 ELSE named[g]) /\ named'[g] \in Nat
    <3>1. named[g] \in Nat
      BY <1>a
    <3>2. g \in tx[j].locked => tx[j].rewritten[g] = named[g]
      BY <2>3 DEF JobHolds
    <3>. QED  BY <1>8, <3>1, <3>2 DEF Commit
  <2>7. named' \in [Guest -> Nat]
    <3>1. named' = [g \in Guest |-> named'[g]]
      BY <1>8 DEF Commit
    <3>. QED  BY <2>6, <3>1
  <2>8. \A g \in Guest : lock[g] # j => contact'[g] = contact[g] /\ named'[g] = named[g]
    BY <2>3, <2>5, <2>6 DEF JobHolds
  <2>9. JobHolds(j)'
    BY <2>1, <2>2 DEF JobHolds
  <2>10. \A g \in Guest : LockTaken(j, g)'
    BY <2>4, <1>b DEF LockTaken
  <2>11. NamesForgotten'
    BY <2>5, <2>6 DEF RetentionInv, NamesForgotten
  <2>. QED
    BY <2>1, <2>2, <2>4, <2>5, <2>7, <2>8, <2>9, <2>10, <2>11, <1>a, <1>b, StepOf
<1>9. ASSUME NEW j \in Job, Crash(j) PROVE RetentionInv'
  BY <1>9, <1>a, <1>b, <1>d, EndStep DEF Crash, rows
<1>10. CASE UNCHANGED vars
  BY <1>10, <1>a, RowStep DEF vars, rows
<1>. QED
  BY <1>1, <1>2, <1>3, <1>4, <1>5, <1>6, <1>7, <1>8, <1>9, <1>10, <1>1b DEF Next

-----------------------------------------------------------------------------
(* What the retention guarantees.                                          *)

\* The invariant holds in every reachable state.
THEOREM LocksProtect == RetentionAssumption => (Spec => []RetentionInv)
<1>. SUFFICES ASSUME RetentionAssumption PROVE Spec => []RetentionInv
  OBVIOUS
<1>1. Init => RetentionInv
  <2>. SUFFICES ASSUME Init PROVE RetentionInv
    OBVIOUS
  <2>1. tx \in [Tx -> Transaction] /\ \A t \in Tx : tx[t] = Idle
    BY IdleTyped DEF Init
  <2>2. \A c \in Client : ClientHolds(c)
    BY <2>1 DEF Init, ClientHolds, Idle, Tx, RetentionAssumption
  <2>3. \A j \in Job : JobHolds(j)
    BY <2>1 DEF JobHolds, Idle, Tx
  <2>4. \A t \in Tx, g \in Guest : LockTaken(t, g)
    BY DEF Init, LockTaken, RetentionAssumption
  <2>5. 0 \in 0..MaxRequests /\ 0 \in 0..MaxCrashes
    BY DEF RetentionAssumption
  <2>. QED
    BY <2>1, <2>2, <2>3, <2>4, <2>5 DEF Init, RetentionInv, NamesForgotten, Ages
<1>2. RetentionInv /\ [Next]_vars => RetentionInv'
  BY RetentionStep
<1>. QED  BY <1>1, <1>2, PTL DEF Spec

\* Every reachable state is well typed, and each lock is its taker's.
THEOREM TypeCorrect == RetentionAssumption => (Spec => []TypeOK)
<1>. SUFFICES ASSUME RetentionAssumption PROVE Spec => []TypeOK
  OBVIOUS
<1>1. RetentionInv => TypeOK
  BY InvType
<1>2. Spec => []RetentionInv
  BY LocksProtect
<1>. QED  BY <1>1, <1>2, PTL

\* No notification keeps the name of an anonymized guest, however validations and
\* runs of the job interleave.
THEOREM NamesAreForgotten == RetentionAssumption => (Spec => []NamesForgotten)
<1>1. RetentionInv => NamesForgotten
  BY DEF RetentionInv
<1>. QED  BY <1>1, LocksProtect, PTL

\* No step brings an anonymized guest back or issues an invitation to it.
THEOREM AnonymizationIsFinal == RetentionAssumption => (Spec => AnonymizedIsHistorical)
<1>. SUFFICES ASSUME RetentionAssumption PROVE Spec => AnonymizedIsHistorical
  OBVIOUS
<1>. DEFINE Historical == \A g \in Guest : contact[g] = "anonymized" =>
                            /\ contact'[g] = "anonymized"
                            /\ last'[g] = "active" => last[g] = "active"
<1>1. RetentionInv /\ [Next]_vars => [Historical]_vars
  <2>. SUFFICES ASSUME RetentionInv, Next, NEW g \in Guest, contact[g] = "anonymized"
                PROVE  /\ contact'[g] = "anonymized"
                       /\ last'[g] = "active" => last[g] = "active"
    OBVIOUS
  <2>1. contact'[g] = "anonymized"
    BY DEF Next, rows, LockForIssue, EndIssue, LockForEntry, Enter, EditGuest, Expire, Age,
           Select, LockCandidate, Rewrite, Commit, Crash
  <2>2. ASSUME NEW s \in Issuer, EndIssue(s)
        PROVE  last'[g] = "active" => last[g] = "active"
    <3>1. contact[tx[s].guest] = "personal"
      BY <2>2 DEF EndIssue, RetentionInv, ClientHolds, Client
    <3>. QED  BY <2>2, <3>1 DEF EndIssue, RetentionInv
  <2>3. ASSUME NEW v \in Validator, Enter(v)
        PROVE  last'[g] = "active" => last[g] = "active"
    BY <2>3 DEF Enter, RetentionInv
  <2>4. ASSUME NEW h \in Guest, Expire(h) \/ Age(h)
        PROVE  last'[g] = "active" => last[g] = "active"
    BY <2>4 DEF Expire, Age, RetentionInv
  <2>5. \/ last' = last
        \/ \E s \in Issuer : EndIssue(s)
        \/ \E v \in Validator : Enter(v)
        \/ \E h \in Guest : Expire(h) \/ Age(h)
    BY DEF Next, rows, LockForIssue, LockForEntry, EditGuest, Select, LockCandidate, Rewrite,
           Commit, Crash
  <2>. QED  BY <2>1, <2>2, <2>3, <2>4, <2>5
<1>2. Spec => []RetentionInv
  BY LocksProtect
<1>. QED  BY <1>1, <1>2, PTL DEF Spec, AnonymizedIsHistorical
=============================================================================
