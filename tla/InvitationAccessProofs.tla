----------------------- MODULE InvitationAccessProofs -----------------------
(* Theorems about InvitationAccess, for any condominiums, residents, guests and
   tokens, and any number of requests at the same time. *)
EXTENDS InvitationAccess, FiniteSetTheorems, SequenceTheorems, TLAPS

-----------------------------------------------------------------------------
(* What a transaction knows at each of its statements. *)

Batches == UNION {[S -> Token] : S \in (SUBSET Guest) \ {{}}}
TxState == [pc : Pcs, need : Seq(Row), token : Token \cup {None}, invite : Invite \cup {None},
            todo : SUBSET Guest, alloc : {<<>>} \cup Batches, resident : Resident \cup {None},
            reclaim : SUBSET Invite]

Typed ==
    /\ scenario \in Scenarios
    /\ guestOf \in [Invite -> Guest \cup {None}]
    /\ token \in [Invite -> Token \cup {None}]
    /\ used \subseteq Invite /\ revoked \subseteq Invite
    /\ expired \subseteq Invite /\ today \subseteq Invite
    /\ deleted \subseteq Guest \cup Resident \cup Condo
    /\ barred \subseteq Validator
    /\ limit \in [Resident \cup Condo -> Limits]
    /\ lock \in [Row -> Tx \cup {None}]
    /\ tx \in [Tx -> TxState]
    /\ audit \in [Validator -> {"none", "negado", "permitido"}]
    /\ entries \in [Invite -> Nat]

ParentSet(g) == {g, ResidentOf[g], CondoOfGuest(g)}

\* The transaction has locked the row, or its statement still waits for it.
Reaches(t, x) == lock[x] = t \/ \E k \in DOMAIN tx[t].need : tx[t].need[k] = x

\* A validator keeps its own row, and comes to the UPDATE with the parents of the
\* candidate, locked and live.
KnowsGuest(v, g) ==
    /\ CondoOfGuest(g) = CondoOf[v]
    /\ tx[v].pc \in {"join", "consume"} => \A x \in ParentSet(g) : Reaches(v, x)
    /\ tx[v].pc = "consume" => ParentsLive(g)

ValidatorKnows(v) ==
    /\ tx[v].pc \in {"credential", "tenant", "candidate", "join", "consume"} =>
         v \in Validator /\ Reaches(v, v)
    /\ tx[v].pc \in {"tenant", "candidate", "join", "consume"} => lock[v] = v /\ v \notin barred
    /\ tx[v].pc \in {"candidate", "join", "consume"} =>
         /\ tx[v].invite \in Invite /\ guestOf[tx[v].invite] \in Guest
         /\ \A g \in Guest : guestOf[tx[v].invite] = g => KnowsGuest(v, g)
    /\ tx[v].pc = "consume" => tx[v].need = <<>>

\* A batch comes to the INSERTs with every parent locked and live, within the limit.
IssuerKnows(s) ==
    LET pc == tx[s].pc
        r == tx[s].resident
        batch == DOMAIN tx[s].alloc
    IN
    /\ pc \in {"reclaim", "guests", "insert"} =>
         s \in Issuer /\ tx[s].alloc \in Batches /\ r \in Resident
    /\ pc \in {"guests", "insert"} =>
         \A g \in Guest : Issuable(s, g) => \A x \in ParentSet(g) : Reaches(s, x)
    /\ pc = "insert" => /\ tx[s].need = <<>> /\ \A g \in batch : Issuable(s, g)
                        /\ WithinLimit(r, Cardinality(Today(r)) + Cardinality(batch))
    /\ \A i \in tx[s].reclaim : Reclaimable(i)

TxKnows(t) ==
    /\ tx[t].pc = "idle" => tx[t].need = <<>> /\ Held(t) = {}
    /\ ValidatorKnows(t) /\ IssuerKnows(t)
    /\ tx[t].pc = "revoke" => tx[t].invite \in Invite

AccessInv ==
    /\ Typed
    /\ \A i \in today : Exists(i)
    /\ OneEntryPerInvitation
    /\ \A t \in Tx : TxKnows(t)

LEMMA AccessTypes ==
    ASSUME AccessAssumption, AccessInv
    PROVE  /\ \A t \in Tx : tx[t] \in TxState /\ TxKnows(t)
           /\ \A g \in Guest : /\ ResidentOf[g] \in Resident /\ CondoOfGuest(g) \in Condo
                               /\ ParentSet(g) \subseteq Row
           /\ \A i \in Invite : Exists(i) => guestOf[i] \in Guest
           /\ \A x \in Resident \cup Validator : CondoOf[x] \in Condo
           /\ None \notin Row \cup Tx \cup Token \cup Nat
           /\ Validator \subseteq Tx /\ Validator \subseteq Row
           /\ scenario.guests \subseteq Guest /\ scenario.invites \subseteq Invite
           /\ scenario.tokens \subseteq Token /\ scenario.limits \subseteq Limits
           /\ Registry \subseteq Resident \cup Condo
<1>1. /\ \A g \in Guest : ResidentOf[g] \in Resident
      /\ \A x \in Resident \cup Validator : CondoOf[x] \in Condo
      /\ None \notin Row \cup Tx \cup Token \cup Nat
  BY DEF AccessAssumption
<1>2. \A g \in Guest : CondoOfGuest(g) \in Condo /\ ParentSet(g) \subseteq Row
  BY <1>1 DEF CondoOfGuest, ParentSet, Row
<1>3. /\ scenario.guests \subseteq Guest /\ scenario.invites \subseteq Invite
      /\ scenario.tokens \subseteq Token /\ scenario.limits \subseteq Limits
  BY DEF AccessInv, Typed, AccessAssumption
<1>4. Registry \subseteq Resident \cup Condo
  BY <1>1, <1>2, <1>3 DEF Registry
<1>5. \A t \in Tx : tx[t] \in TxState /\ TxKnows(t)
  BY DEF AccessInv, Typed
<1>6. \A i \in Invite : Exists(i) => guestOf[i] \in Guest
  BY DEF AccessInv, Typed, Exists
<1>. QED  BY <1>1, <1>2, <1>3, <1>4, <1>5, <1>6 DEF Tx, Row

-----------------------------------------------------------------------------
(* What a step leaves to the transactions that do not take it. *)

\* The step neither moves transaction u nor takes its locks, and changes no row under them.
Spares(u) ==
    /\ tx'[u] = tx[u]
    /\ \A x \in Row : lock'[x] = u <=> lock[x] = u
    /\ \A i \in Invite : Exists(i) => guestOf'[i] = guestOf[i]
    /\ used \subseteq used' /\ revoked \subseteq revoked' /\ expired \subseteq expired'
    /\ deleted \subseteq deleted' /\ \A x \in deleted' \ deleted : lock[x] # u
    /\ \A x \in barred' \ barred : lock[x] # u
    /\ \A x \in Resident \cup Condo : limit'[x] = limit[x] \/ lock[x] # u
    /\ \A r \in Resident :
         tx[u].pc = "insert" /\ tx[u].resident = r => Today(r)' = Today(r)

LEMMA SparedKnows ==
    ASSUME AccessAssumption, AccessInv, NEW u \in Tx, Spares(u)
    PROVE  TxKnows(u)'
<1>. DEFINE i == tx[u].invite
            r == tx[u].resident
            batch == DOMAIN tx[u].alloc
<1>a. /\ tx[u] \in TxState /\ TxKnows(u) /\ tx'[u] = tx[u]
      /\ \A x \in Row : lock'[x] = u <=> lock[x] = u
      /\ \A g \in Guest : /\ ResidentOf[g] \in Resident /\ CondoOfGuest(g) \in Condo
                          /\ ParentSet(g) \subseteq Row
      /\ \A j \in Invite : Exists(j) => guestOf[j] \in Guest /\ guestOf'[j] = guestOf[j]
      /\ None \notin Guest
      /\ u \in Validator => u \in Row
  BY AccessTypes DEF Spares, Row
<1>1. \A x \in Row : Reaches(u, x) <=> Reaches(u, x)'
  BY <1>a DEF Reaches
<1>2. \A g \in Guest : ParentsLive(g)' => ParentsLive(g)
  BY DEF ParentsLive, Spares
<1>3. \A g \in Guest : /\ ParentsLive(g) /\ \A x \in ParentSet(g) : lock[x] = u
                       => ParentsLive(g)'
  BY DEF ParentsLive, Spares, ParentSet
<1>4. \A g \in Guest : CondoOfGuest(g)' = CondoOfGuest(g)
  BY DEF CondoOfGuest
<1>5. ValidatorKnows(u)'
  <2>1. tx[u].pc \in {"credential", "tenant", "candidate", "join", "consume"} =>
          u \in Validator /\ Reaches(u, u)'
    BY <1>a, <1>1 DEF ValidatorKnows, TxKnows
  <2>2. tx[u].pc \in {"tenant", "candidate", "join", "consume"} =>
          lock'[u] = u /\ u \notin barred'
    BY <1>a, <2>1 DEF ValidatorKnows, TxKnows, Spares
  <2>3. ASSUME tx[u].pc \in {"candidate", "join", "consume"}
        PROVE  /\ i \in Invite /\ guestOf[i] \in Guest /\ guestOf'[i] = guestOf[i]
               /\ \A g \in Guest : guestOf[i] = g => KnowsGuest(u, g)'
    <3>1. /\ i \in Invite /\ guestOf[i] \in Guest
          /\ \A g \in Guest : guestOf[i] = g => KnowsGuest(u, g)
      BY <1>a, <2>3 DEF ValidatorKnows, TxKnows
    <3>2. guestOf'[i] = guestOf[i]
      BY <1>a, <3>1 DEF Exists
    <3>3. ASSUME NEW g \in Guest, guestOf[i] = g PROVE KnowsGuest(u, g)'
      <4>1. KnowsGuest(u, g)
        BY <3>1, <3>3
      <4>2. tx[u].pc \in {"join", "consume"} => \A x \in ParentSet(g) : Reaches(u, x)'
        BY <1>a, <1>1, <4>1 DEF KnowsGuest
      <4>3. ASSUME tx[u].pc = "consume" PROVE ParentsLive(g)'
        <5>1. ParentsLive(g) /\ tx[u].need = <<>>
          BY <1>a, <4>1, <4>3 DEF KnowsGuest, ValidatorKnows, TxKnows
        <5>2. \A x \in ParentSet(g) : lock[x] = u
          BY <4>1, <4>3, <5>1 DEF KnowsGuest, Reaches
        <5>. QED  BY <1>3, <5>1, <5>2
      <4>. QED  BY <1>a, <1>4, <4>1, <4>2, <4>3 DEF KnowsGuest, CondoOfGuest, ParentSet
    <3>. QED  BY <3>1, <3>2, <3>3
  <2>4. tx[u].pc = "consume" => tx[u].need = <<>>
    BY <1>a DEF ValidatorKnows, TxKnows
  <2>. QED  BY <1>a, <2>1, <2>2, <2>3, <2>4 DEF ValidatorKnows
<1>6. IssuerKnows(u)'
  <2>1. \A j \in tx[u].reclaim : Reclaimable(j)'
    BY <1>a DEF TxKnows, IssuerKnows, Reclaimable, Spares
  <2>2. \A g \in Guest : Issuable(u, g)' => Issuable(u, g)
    BY <1>a, <1>2 DEF Issuable
  <2>3. ASSUME tx[u].pc \in {"reclaim", "guests", "insert"}
        PROVE  u \in Issuer /\ tx[u].alloc \in Batches /\ r \in Resident
    BY <1>a, <2>3 DEF TxKnows, IssuerKnows
  <2>4. ASSUME tx[u].pc \in {"guests", "insert"}
        PROVE  \A g \in Guest : Issuable(u, g)' => \A x \in ParentSet(g) : Reaches(u, x)'
    BY <1>a, <1>1, <2>2, <2>4 DEF TxKnows, IssuerKnows
  <2>5. ASSUME tx[u].pc = "insert"
        PROVE  /\ tx[u].need = <<>> /\ \A g \in batch : Issuable(u, g)'
               /\ WithinLimit(r, Cardinality(Today(r)) + Cardinality(batch))'
    <3>1. /\ tx[u].need = <<>> /\ \A g \in batch : Issuable(u, g)
          /\ WithinLimit(r, Cardinality(Today(r)) + Cardinality(batch))
          /\ \A g \in Guest : Issuable(u, g) => \A x \in ParentSet(g) : Reaches(u, x)
      BY <1>a, <2>5 DEF TxKnows, IssuerKnows
    <3>2. batch \subseteq Guest /\ batch # {} /\ r \in Resident
      <4>1. PICK S \in (SUBSET Guest) \ {{}} : tx[u].alloc \in [S -> Token]
        BY <2>3, <2>5 DEF Batches
      <4>. QED  BY <2>3, <2>5, <4>1
    <3>3. \A g \in batch : \A x \in ParentSet(g) : lock[x] = u
      BY <3>1, <3>2 DEF Reaches
    <3>4. \A g \in batch : Issuable(u, g)'
      BY <1>a, <1>3, <3>1, <3>2, <3>3 DEF Issuable
    <3>5. lock[r] = u /\ lock[CondoOf[r]] = u
      BY <3>1, <3>2, <3>3 DEF Issuable, ParentSet, CondoOfGuest
    <3>6. limit'[r] = limit[r] /\ limit'[CondoOf[r]] = limit[CondoOf[r]]
      BY <3>2, <3>5, AccessTypes DEF Spares
    <3>7. Today(r)' = Today(r)
      BY <2>5, <3>2 DEF Spares
    <3>. QED  BY <1>a, <3>1, <3>4, <3>6, <3>7 DEF WithinLimit, LimitOf
  <2>. QED  BY <1>a, <2>1, <2>3, <2>4, <2>5 DEF IssuerKnows
<1>7. tx[u].pc = "idle" => Held(u)' = {}
  BY <1>a DEF TxKnows, Held
<1>. QED  BY <1>a, <1>5, <1>6, <1>7 DEF TxKnows

-----------------------------------------------------------------------------
(* The steps of a transaction. *)

LEMMA IdleTyped ==
    /\ Idle \in TxState /\ Idle.pc = "idle" /\ Idle.need = <<>> /\ Idle.reclaim = {}
    /\ \A pc \in Pcs \ {"idle"}, need \in Seq(Row) :
         /\ [Idle EXCEPT !.pc = pc] \in TxState
         /\ [Idle EXCEPT !.need = need] \in TxState
<1>1. <<>> \in Seq(Row) /\ "idle" \in Pcs
  BY DEF Pcs
<1>. QED  BY <1>1 DEF Idle, TxState

\* A statement that writes nothing.
LEMMA Continued ==
    ASSUME AccessAssumption, AccessInv, NEW t \in Tx, NEW rec \in TxState,
           tx' = [tx EXCEPT ![t] = rec],
           UNCHANGED <<invitationVars, registryVars, lock, entries>>,
           audit' \in [Validator -> {"none", "negado", "permitido"}],
           TxKnows(t)'
    PROVE  AccessInv'
<1>1. UNCHANGED <<guestOf, token, used, revoked, expired, today, deleted, barred, limit, scenario,
                  lock, entries>>
  BY DEF invitationVars, registryVars
<1>2. tx \in [Tx -> TxState] /\ tx' \in [Tx -> TxState]
  BY DEF AccessInv, Typed
<1>3. ASSUME NEW u \in Tx, u # t PROVE TxKnows(u)'
  <2>1. Spares(u)
    BY <1>1, <1>2, <1>3 DEF Spares, Today
  <2>. QED  BY <2>1, SparedKnows
<1>4. Typed'
  BY <1>1, <1>2 DEF AccessInv, Typed
<1>5. OneEntryPerInvitation' /\ \A i \in today' : Exists(i)'
  BY <1>1 DEF AccessInv, OneEntryPerInvitation, Exists
<1>. QED  BY <1>3, <1>4, <1>5 DEF AccessInv

\* A commit or a rollback, with what it writes.
LEMMA Ended ==
    ASSUME AccessAssumption, AccessInv, NEW t \in Tx, End(t),
           UNCHANGED registryVars,
           guestOf' \in [Invite -> Guest \cup {None}],
           token' \in [Invite -> Token \cup {None}],
           \A i \in Invite : Exists(i) => guestOf'[i] = guestOf[i],
           used \subseteq used', used' \subseteq Invite,
           revoked \subseteq revoked', revoked' \subseteq Invite, expired' = expired,
           today' \subseteq Invite, \A i \in today' : guestOf'[i] # None,
           \A u \in Tx \ {t}, r \in Resident :
             tx[u].pc = "insert" /\ tx[u].resident = r => Today(r)' = Today(r),
           audit' \in [Validator -> {"none", "negado", "permitido"}],
           entries' \in [Invite -> Nat], OneEntryPerInvitation'
    PROVE  AccessInv'
<1>1. UNCHANGED <<deleted, barred, limit, scenario>>
  BY DEF registryVars
<1>2. /\ tx \in [Tx -> TxState] /\ tx' = [tx EXCEPT ![t] = Idle] /\ Idle \in TxState
      /\ lock \in [Row -> Tx \cup {None}]
      /\ lock' = [x \in Row |-> IF lock[x] = t THEN None ELSE lock[x]]
      /\ None \notin Tx
  BY IdleTyped, AccessTypes DEF AccessInv, Typed, End
<1>3. ASSUME NEW u \in Tx, u # t PROVE TxKnows(u)'
  <2>1. tx'[u] = tx[u] /\ \A x \in Row : lock'[x] = u <=> lock[x] = u
    BY <1>2, <1>3
  <2>2. Spares(u)
    BY <1>1, <1>3, <2>1 DEF Spares
  <2>. QED  BY <2>2, SparedKnows
<1>4. TxKnows(t)'
  <2>1. tx'[t] = Idle /\ \A x \in Row : lock'[x] # t
    BY <1>2
  <2>. QED  BY <2>1, IdleTyped DEF TxKnows, ValidatorKnows, IssuerKnows, Held
<1>5. Typed'
  BY <1>1, <1>2 DEF AccessInv, Typed
<1>. QED  BY <1>3, <1>4, <1>5 DEF AccessInv, Exists

\* A rollback, or a denial: nothing but the audit is written.
LEMMA EndedQuietly ==
    ASSUME AccessAssumption, AccessInv, NEW t \in Tx, End(t),
           UNCHANGED <<invitationVars, registryVars, entries>>,
           audit' \in [Validator -> {"none", "negado", "permitido"}]
    PROVE  AccessInv'
<1>1. UNCHANGED <<guestOf, token, used, revoked, expired, today, entries>>
  BY DEF invitationVars
<1>2. OneEntryPerInvitation' /\ \A i \in today' : guestOf'[i] # None
  BY <1>1 DEF AccessInv, OneEntryPerInvitation, Exists
<1>3. \A r : Today(r)' = Today(r)
  BY <1>1 DEF Today
<1>4. /\ guestOf' \in [Invite -> Guest \cup {None}] /\ token' \in [Invite -> Token \cup {None}]
      /\ used' \subseteq Invite /\ revoked' \subseteq Invite /\ today' \subseteq Invite
      /\ entries' \in [Invite -> Nat]
  BY <1>1 DEF AccessInv, Typed
<1>. QED  BY <1>1, <1>2, <1>3, <1>4, Ended

LEMMA DenyKeeps ==
    ASSUME AccessAssumption, AccessInv, NEW v \in Validator, Deny(v)
    PROVE  AccessInv'
<1>1. /\ End(v) /\ UNCHANGED <<invitationVars, registryVars, entries>>
      /\ audit' \in [Validator -> {"none", "negado", "permitido"}] /\ v \in Tx
  BY DEF Deny, AccessInv, Typed, Tx
<1>. QED  BY <1>1, EndedQuietly

LEMMA RollbackKeeps ==
    ASSUME AccessAssumption, AccessInv, NEW t \in Tx, End(t),
           UNCHANGED <<invitationVars, registryVars, audit, entries>>
    PROVE  AccessInv'
BY EndedQuietly DEF AccessInv, Typed

LEMMA AcquireKeeps ==
    ASSUME AccessAssumption, AccessInv, NEW t \in Tx, Acquire(t)
    PROVE  AccessInv'
<1>. DEFINE x == Head(tx[t].need)
            rest == Tail(tx[t].need)
            rec == [tx[t] EXCEPT !.need = rest]
<1>1. /\ UNCHANGED <<guestOf, token, used, revoked, expired, today, deleted, barred, limit,
                     scenario, audit, entries>>
      /\ tx[t].need # <<>> /\ lock[x] \in {None, t}
      /\ lock' = [lock EXCEPT ![x] = t]
      /\ tx' = [tx EXCEPT ![t] = rec]
  BY DEF Acquire, Free, invitationVars, registryVars
<1>2. /\ tx \in [Tx -> TxState] /\ lock \in [Row -> Tx \cup {None}] /\ tx[t].need \in Seq(Row)
      /\ None \notin Tx /\ TxKnows(t)
  BY AccessTypes DEF AccessInv, Typed, TxState
<1>3. /\ x \in Row /\ rest \in Seq(Row)
      /\ x = tx[t].need[1]
      /\ DOMAIN rest = 1..(Len(tx[t].need) - 1) /\ DOMAIN tx[t].need = 1..Len(tx[t].need)
      /\ \A k \in DOMAIN rest : rest[k] = tx[t].need[k + 1]
      /\ Len(tx[t].need) \in Nat \ {0}
  BY <1>1, <1>2
<1>. HIDE DEF x, rest
<1>4. /\ rec \in TxState /\ rec.need = rest /\ rec.pc = tx[t].pc /\ rec.invite = tx[t].invite
      /\ rec.alloc = tx[t].alloc /\ rec.resident = tx[t].resident /\ rec.reclaim = tx[t].reclaim
  <2>1. tx[t] \in TxState
    BY <1>2
  <2>. QED  BY <1>3, <2>1 DEF TxState
<1>. HIDE DEF rec
<1>5. tx'[t] = rec /\ lock'[x] = t /\ \A y \in Row : y # x => lock'[y] = lock[y]
  BY <1>1, <1>2, <1>3
<1>6. ASSUME NEW u \in Tx, u # t PROVE TxKnows(u)'
  <2>1. tx'[u] = tx[u] /\ \A y \in Row : lock'[y] = u <=> lock[y] = u
    BY <1>1, <1>2, <1>3, <1>5, <1>6
  <2>2. Spares(u)
    BY <1>1, <2>1 DEF Spares, Today
  <2>. QED  BY <2>2, SparedKnows
<1>7. \A y \in Row : Reaches(t, y) => Reaches(t, y)'
  <2>. SUFFICES ASSUME NEW y \in Row, Reaches(t, y) PROVE Reaches(t, y)'
    OBVIOUS
  <2>1. CASE y = x
    BY <1>5, <2>1 DEF Reaches
  <2>2. CASE y # x /\ lock[y] = t
    BY <1>5, <2>2 DEF Reaches
  <2>3. CASE y # x /\ \E k \in DOMAIN tx[t].need : tx[t].need[k] = y
    <3>1. PICK k \in 1..Len(tx[t].need) : tx[t].need[k] = y
      BY <1>3, <2>3
    <3>2. k # 1
      BY <1>3, <2>3, <3>1
    <3>3. k - 1 \in DOMAIN rest /\ rest[k - 1] = y
      BY <1>3, <3>1, <3>2
    <3>. QED  BY <1>4, <1>5, <3>3 DEF Reaches
  <2>. QED  BY <2>1, <2>2, <2>3 DEF Reaches
<1>8. TxKnows(t)'
  <2>0. /\ tx[t].pc # "idle" /\ tx[t].pc # "consume" /\ tx[t].pc # "insert"
        /\ \A g \in Guest : ParentSet(g) \subseteq Row
        /\ Validator \subseteq Row
    BY <1>1, <1>2, AccessTypes DEF TxKnows, ValidatorKnows, IssuerKnows
  <2>1. ValidatorKnows(t)'
    <3>1. ASSUME tx[t].pc \in {"candidate", "join", "consume"},
                 NEW g \in Guest, guestOf[tx[t].invite] = g
          PROVE  KnowsGuest(t, g)'
      <4>1. KnowsGuest(t, g)
        BY <1>2, <3>1 DEF TxKnows, ValidatorKnows
      <4>2. tx'[t].pc = tx[t].pc
        BY <1>4, <1>5
      <4>3. \A y \in ParentSet(g) : Reaches(t, y) => Reaches(t, y)'
        BY <1>7, <2>0
      <4>. QED  BY <2>0, <4>1, <4>2, <4>3 DEF KnowsGuest, CondoOfGuest, ParentSet
    <3>2. tx[t].pc \in {"credential", "tenant", "candidate", "join", "consume"} =>
            t \in Validator /\ Reaches(t, t)'
      BY <1>2, <1>7, <2>0 DEF TxKnows, ValidatorKnows
    <3>3. tx[t].pc \in {"tenant", "candidate", "join", "consume"} => lock'[t] = t /\ t \notin barred'
      BY <1>1, <1>2, <1>5, <2>0 DEF TxKnows, ValidatorKnows
    <3>. QED  BY <1>1, <1>2, <1>4, <1>5, <2>0, <3>1, <3>2, <3>3 DEF TxKnows, ValidatorKnows
  <2>2. IssuerKnows(t)'
    <3>1. \A g \in Guest : Issuable(t, g)' <=> Issuable(t, g)
      BY <1>1, <1>4, <1>5 DEF Issuable, ParentsLive
    <3>2. \A i \in tx[t].reclaim : Reclaimable(i)'
      BY <1>1, <1>2 DEF TxKnows, IssuerKnows, Reclaimable
    <3>3. tx[t].pc \in {"guests", "insert"} =>
            \A g \in Guest : Issuable(t, g)' => \A y \in ParentSet(g) : Reaches(t, y)'
      BY <1>2, <1>7, <2>0, <3>1 DEF TxKnows, IssuerKnows
    <3>. QED  BY <1>2, <1>4, <1>5, <2>0, <3>2, <3>3 DEF TxKnows, IssuerKnows
  <2>. QED  BY <1>2, <1>4, <1>5, <2>0, <2>1, <2>2 DEF TxKnows
<1>9. Typed'
  <2>1. tx' \in [Tx -> TxState] /\ lock' \in [Row -> Tx \cup {None}]
    BY <1>1, <1>2, <1>4
  <2>. QED  BY <1>1, <2>1 DEF AccessInv, Typed
<1>10. OneEntryPerInvitation' /\ \A i \in today' : Exists(i)'
  BY <1>1 DEF AccessInv, OneEntryPerInvitation, Exists
<1>. QED  BY <1>6, <1>8, <1>9, <1>10 DEF AccessInv

-----------------------------------------------------------------------------
(* validateAccess.                                                         *)

LEMMA ValidationSteps ==
    ASSUME AccessAssumption, AccessInv, NEW v \in Validator,
           \/ \E k \in scenario.tokens \cup {None} : BeginValidation(v, k)
           \/ CheckCredential(v) \/ FindCandidate(v) \/ CheckCandidate(v)
           \/ CheckJoin(v)
    PROVE  AccessInv'
<1>a. /\ tx \in [Tx -> TxState] /\ tx[v] \in TxState /\ TxKnows(v) /\ v \in Tx /\ v \in Row
      /\ audit \in [Validator -> {"none", "negado", "permitido"}]
      /\ \A i \in Invite : Exists(i) => guestOf[i] \in Guest
      /\ \A g \in Guest : ResidentOf[g] \in Resident /\ CondoOfGuest(g) \in Condo
      /\ CondoOf[v] \in Condo /\ scenario.tokens \subseteq Token
  BY AccessTypes DEF AccessInv, Typed, Tx
<1>b. /\ tx[v].reclaim \subseteq Invite /\ \A i \in tx[v].reclaim : Reclaimable(i)
  BY <1>a DEF TxState, TxKnows, IssuerKnows
<1>1. ASSUME NEW k \in scenario.tokens \cup {None}, BeginValidation(v, k) PROVE AccessInv'
  <2>. DEFINE need == <<v>>
              rec == [Idle EXCEPT !.pc = "credential", !.need = need, !.token = k]
  <2>1. /\ tx' = [tx EXCEPT ![v] = rec]
        /\ UNCHANGED <<invitationVars, registryVars, lock, entries>>
        /\ audit' \in [Validator -> {"none", "negado", "permitido"}]
    BY <1>1, <1>a DEF BeginValidation
  <2>2. need \in Seq(Row) /\ need[1] = v /\ 1 \in DOMAIN need
    BY <1>a
  <2>. HIDE DEF need
  <2>3. /\ rec \in TxState /\ rec.pc = "credential" /\ rec.need = need /\ rec.reclaim = {}
    <3>1. Idle \in TxState /\ Idle.reclaim = {}
      BY IdleTyped
    <3>2. k \in Token \cup {None} /\ "credential" \in Pcs
      BY <1>a DEF Pcs
    <3>. QED  BY <2>2, <3>1, <3>2 DEF TxState
  <2>. HIDE DEF rec
  <2>4. tx'[v] = rec
    BY <2>1, <1>a
  <2>5. Reaches(v, v)'
    BY <2>2, <2>3, <2>4 DEF Reaches
  <2>6. TxKnows(v)'
    BY <2>3, <2>4, <2>5 DEF TxKnows, ValidatorKnows, IssuerKnows
  <2>. QED  BY <2>1, <2>3, <2>6, <1>a, Continued
<1>2. CASE CheckCredential(v)
  <2>1. /\ tx[v].pc = "credential" /\ tx[v].need = <<>>
        /\ \/ End(v) /\ UNCHANGED <<invitationVars, registryVars, audit, entries>>
           \/ Deny(v)
           \/ /\ v \notin barred
              /\ tx' = [tx EXCEPT ![v].pc = "tenant",
                                  ![v].need = IF v \in Human THEN <<CondoOf[v]>> ELSE <<>>]
              /\ UNCHANGED <<invitationVars, registryVars, lock, audit, entries>>
    BY <1>2 DEF CheckCredential, At, Validator
  <2>2. CASE /\ v \notin barred
             /\ tx' = [tx EXCEPT ![v].pc = "tenant",
                                 ![v].need = IF v \in Human THEN <<CondoOf[v]>> ELSE <<>>]
             /\ UNCHANGED <<invitationVars, registryVars, lock, audit, entries>>
    <3>. DEFINE need == IF v \in Human THEN <<CondoOf[v]>> ELSE <<>>
                rec == [tx[v] EXCEPT !.pc = "tenant", !.need = need]
    <3>1. need \in Seq(Row)
      <4>1. CondoOf[v] \in Row
        BY <1>a DEF Row
      <4>2. <<CondoOf[v]>> \in Seq(Row) /\ <<>> \in Seq(Row)
        BY <4>1
      <4>. QED  BY <4>2
    <3>2. tx' = [tx EXCEPT ![v] = rec]
      BY <2>2, <1>a
    <3>. HIDE DEF need
    <3>3. rec \in TxState /\ rec.pc = "tenant" /\ rec.reclaim = tx[v].reclaim
      BY <3>1, <1>a DEF TxState, Pcs
    <3>. HIDE DEF rec
    <3>4. tx'[v] = rec /\ UNCHANGED <<lock, barred, used, revoked, expired>>
      BY <2>2, <3>2, <1>a DEF registryVars, invitationVars
    <3>5. lock[v] = v
      BY <2>1, <1>a DEF TxKnows, ValidatorKnows, Reaches
    <3>6. Reaches(v, v)' /\ \A i \in rec.reclaim : Reclaimable(i)'
      BY <3>3, <3>4, <3>5, <1>b DEF Reaches, Reclaimable
    <3>7. TxKnows(v)'
      BY <2>2, <3>3, <3>4, <3>5, <3>6 DEF TxKnows, ValidatorKnows, IssuerKnows
    <3>. QED  BY <2>2, <3>2, <3>3, <3>7, <1>a, Continued
  <2>. QED  BY <2>1, <2>2, <1>a, DenyKeeps, RollbackKeeps
<1>3. CASE FindCandidate(v)
  <2>1. /\ tx[v].pc = "tenant"
        /\ \/ Deny(v)
           \/ \E i \in Candidates(v) :
                /\ tx' = [tx EXCEPT ![v].pc = "candidate", ![v].need = <<i>>, ![v].invite = i]
                /\ UNCHANGED <<invitationVars, registryVars, lock, audit, entries>>
    BY <1>3 DEF FindCandidate, At
  <2>2. ASSUME NEW i \in Candidates(v),
               tx' = [tx EXCEPT ![v].pc = "candidate", ![v].need = <<i>>, ![v].invite = i],
               UNCHANGED <<invitationVars, registryVars, lock, audit, entries>>
        PROVE  AccessInv'
    <3>. DEFINE need == <<i>>
                rec == [tx[v] EXCEPT !.pc = "candidate", !.need = need, !.invite = i]
    <3>1. need \in Seq(Row) /\ i \in Invite
      BY DEF Candidates, Row
    <3>2. tx' = [tx EXCEPT ![v] = rec]
      BY <2>2, <1>a
    <3>. HIDE DEF need
    <3>3. rec \in TxState /\ rec.pc = "candidate" /\ rec.invite = i /\ rec.reclaim = tx[v].reclaim
      BY <3>1, <1>a DEF TxState, Pcs
    <3>. HIDE DEF rec
    <3>4. tx'[v] = rec /\ UNCHANGED <<lock, barred, guestOf, used, revoked, expired>>
      BY <2>2, <3>2, <1>a DEF registryVars, invitationVars
    <3>5. lock[v] = v /\ v \notin barred
      BY <2>1, <1>a DEF TxKnows, ValidatorKnows
    <3>6. Reaches(v, v)' /\ \A j \in rec.reclaim : Reclaimable(j)'
      BY <3>3, <3>4, <3>5, <1>b DEF Reaches, Reclaimable
    <3>7. \A g \in Guest : guestOf[i] = g => KnowsGuest(v, g)'
      BY <3>3, <3>4 DEF Candidates, KnowsGuest, CondoOfGuest
    <3>8. guestOf[i] \in Guest
      BY <3>1, <1>a DEF Candidates
    <3>9. ValidatorKnows(v)'
      BY <3>1, <3>3, <3>4, <3>5, <3>6, <3>7, <3>8 DEF ValidatorKnows
    <3>10. TxKnows(v)'
      BY <3>3, <3>4, <3>6, <3>9 DEF TxKnows, IssuerKnows
    <3>. QED  BY <2>2, <3>2, <3>3, <3>10, <1>a, Continued
  <2>. QED  BY <2>1, <2>2, DenyKeeps
<1>4. CASE CheckCandidate(v)
  <2>. DEFINE i == tx[v].invite
  <2>1. /\ tx[v].pc = "candidate"
        /\ \/ Deny(v)
           \/ /\ tx' = [tx EXCEPT ![v].pc = "join", ![v].need = JoinLocks(i)]
              /\ UNCHANGED <<invitationVars, registryVars, lock, audit, entries>>
    BY <1>4 DEF CheckCandidate, At
  <2>2. CASE /\ tx' = [tx EXCEPT ![v].pc = "join", ![v].need = JoinLocks(i)]
             /\ UNCHANGED <<invitationVars, registryVars, lock, audit, entries>>
    <3>. DEFINE need == JoinLocks(i)
                rec == [tx[v] EXCEPT !.pc = "join", !.need = need]
    <3>1. /\ i \in Invite /\ guestOf[i] \in Guest /\ lock[v] = v /\ v \notin barred
          /\ \A g \in Guest : guestOf[i] = g => KnowsGuest(v, g)
      BY <2>1, <1>a DEF TxKnows, ValidatorKnows
    <3>2. /\ need \in Seq(Row) /\ DOMAIN need = 1..3
          /\ \A x \in ParentSet(guestOf[i]) : \E k \in 1..3 : need[k] = x
      <4>1. need = <<guestOf[i], ResidentOf[guestOf[i]], CondoOfGuest(guestOf[i])>>
        BY DEF JoinLocks, Parents
      <4>2. {guestOf[i], ResidentOf[guestOf[i]], CondoOfGuest(guestOf[i])} \subseteq Row
        BY <3>1, <1>a DEF Row
      <4>. HIDE DEF need
      <4>3. need[1] = guestOf[i] /\ need[2] = ResidentOf[guestOf[i]]
              /\ need[3] = CondoOfGuest(guestOf[i])
        BY <4>1
      <4>. QED  BY <4>1, <4>2, <4>3 DEF ParentSet
    <3>3. tx' = [tx EXCEPT ![v] = rec]
      BY <2>2, <1>a
    <3>. HIDE DEF need
    <3>4. /\ rec \in TxState /\ rec.pc = "join" /\ rec.invite = i /\ rec.reclaim = tx[v].reclaim
          /\ rec.need = need
      BY <3>2, <1>a DEF TxState, Pcs
    <3>. HIDE DEF rec
    <3>5. tx'[v] = rec /\ UNCHANGED <<lock, barred, guestOf, used, revoked, expired>>
      BY <2>2, <3>3, <1>a DEF registryVars, invitationVars
    <3>6. Reaches(v, v)' /\ \A j \in rec.reclaim : Reclaimable(j)'
      BY <3>1, <3>4, <3>5, <1>b DEF Reaches, Reclaimable
    <3>7. ASSUME NEW g \in Guest, guestOf[i] = g PROVE KnowsGuest(v, g)'
      <4>1. \A x \in ParentSet(g) : Reaches(v, x)'
        BY <3>2, <3>4, <3>5, <3>7 DEF Reaches
      <4>. QED  BY <3>1, <3>4, <3>5, <3>7, <4>1 DEF KnowsGuest, CondoOfGuest, ParentSet
    <3>8. ValidatorKnows(v)'
      BY <3>1, <3>4, <3>5, <3>6, <3>7 DEF ValidatorKnows
    <3>9. TxKnows(v)'
      BY <3>4, <3>5, <3>6, <3>8 DEF TxKnows, IssuerKnows
    <3>. QED  BY <2>2, <3>3, <3>4, <3>9, <1>a, Continued
  <2>. QED  BY <2>1, <2>2, DenyKeeps
<1>5. CASE CheckJoin(v)
  <2>. DEFINE i == tx[v].invite
              rec == [tx[v] EXCEPT !.pc = "consume"]
  <2>1. /\ tx[v].pc = "join" /\ tx[v].need = <<>>
        /\ \/ Deny(v)
           \/ /\ ParentsLive(guestOf[i]) /\ tx' = [tx EXCEPT ![v] = rec]
              /\ UNCHANGED <<invitationVars, registryVars, lock, audit, entries>>
    BY <1>5, <1>a DEF CheckJoin, At
  <2>2. CASE /\ ParentsLive(guestOf[i]) /\ tx' = [tx EXCEPT ![v] = rec]
             /\ UNCHANGED <<invitationVars, registryVars, lock, audit, entries>>
    <3>1. /\ i \in Invite /\ guestOf[i] \in Guest /\ lock[v] = v /\ v \notin barred
          /\ \A g \in Guest : guestOf[i] = g => KnowsGuest(v, g)
      BY <2>1, <1>a DEF TxKnows, ValidatorKnows
    <3>4. /\ rec \in TxState /\ rec.pc = "consume" /\ rec.invite = i /\ rec.reclaim = tx[v].reclaim
          /\ rec.need = <<>>
      BY <2>1, <1>a DEF TxState, Pcs
    <3>. HIDE DEF rec
    <3>5. tx'[v] = rec /\ UNCHANGED <<lock, barred, deleted, guestOf, used, revoked, expired>>
      BY <2>2, <1>a DEF registryVars, invitationVars
    <3>6. Reaches(v, v)' /\ \A j \in rec.reclaim : Reclaimable(j)'
      BY <3>1, <3>4, <3>5, <1>b DEF Reaches, Reclaimable
    <3>7. ASSUME NEW g \in Guest, guestOf[i] = g PROVE KnowsGuest(v, g)'
      <4>1. \A x \in ParentSet(g) : Reaches(v, x)'
        BY <2>1, <3>1, <3>4, <3>5, <3>7 DEF Reaches, KnowsGuest
      <4>2. ParentsLive(g)'
        BY <2>2, <3>5, <3>7 DEF ParentsLive
      <4>. QED  BY <3>1, <3>4, <3>5, <3>7, <4>1, <4>2 DEF KnowsGuest, CondoOfGuest, ParentSet
    <3>8. ValidatorKnows(v)'
      BY <3>1, <3>4, <3>5, <3>6, <3>7 DEF ValidatorKnows
    <3>9. TxKnows(v)'
      BY <3>4, <3>5, <3>6, <3>8 DEF TxKnows, IssuerKnows
    <3>. QED  BY <2>2, <3>4, <3>9, <1>a, Continued
  <2>. QED  BY <2>1, <2>2, DenyKeeps
<1>. QED  BY <1>1, <1>2, <1>3, <1>4, <1>5

LEMMA ConsumeStep ==
    ASSUME AccessAssumption, AccessInv, NEW v \in Validator, Consume(v)
    PROVE  AccessInv'
<1>. DEFINE i == tx[v].invite
<1>1. CASE Deny(v)
  BY <1>1, DenyKeeps
<1>2. CASE /\ Usable(i) /\ used' = used \cup {i} /\ token' = [token EXCEPT ![i] = None]
           /\ entries' = [entries EXCEPT ![i] = @ + 1]
           /\ audit' = [audit EXCEPT ![v] = "permitido"]
           /\ End(v)
           /\ UNCHANGED <<guestOf, revoked, expired, today, registryVars>>
  <2>1. i \in Invite /\ v \in Tx
    BY <1>2, AccessTypes DEF Usable, Consume, At, TxKnows, ValidatorKnows
  <2>2. /\ guestOf \in [Invite -> Guest \cup {None}] /\ token \in [Invite -> Token \cup {None}]
        /\ used \subseteq Invite /\ revoked \subseteq Invite /\ today \subseteq Invite
        /\ entries \in [Invite -> Nat] /\ OneEntryPerInvitation
        /\ audit \in [Validator -> {"none", "negado", "permitido"}]
        /\ \A j \in today : guestOf[j] # None
    BY DEF AccessInv, Typed, Exists
  <2>3. i \notin used \cup revoked /\ entries[i] = 0
    <3>1. i \notin used /\ i \notin revoked
      BY <1>2 DEF Usable
    <3>2. entries[i] \in Nat /\ entries[i] <= 1 /\ entries[i] # 1
      BY <2>1, <2>2, <3>1 DEF OneEntryPerInvitation
    <3>. QED  BY <3>1, <3>2
  <2>4. OneEntryPerInvitation'
    BY <1>2, <2>1, <2>2, <2>3 DEF OneEntryPerInvitation
  <2>5. \A r : Today(r)' = Today(r)
    BY <1>2 DEF Today
  <2>. DEFINE n == entries[i] + 1
  <2>6. entries' = [entries EXCEPT ![i] = n] /\ n \in Nat
    BY <1>2, <2>1, <2>2
  <2>. HIDE DEF n
  <2>7. /\ token' \in [Invite -> Token \cup {None}] /\ entries' \in [Invite -> Nat]
        /\ audit' \in [Validator -> {"none", "negado", "permitido"}]
        /\ used \subseteq used' /\ used' \subseteq Invite
    BY <1>2, <2>1, <2>2, <2>6
  <2>. QED  BY <1>2, <2>1, <2>2, <2>4, <2>5, <2>7, Ended
<1>. QED  BY <1>1, <1>2 DEF Consume

-----------------------------------------------------------------------------
(* persistBatch.                                                           *)

LEMMA BatchTyped ==
    ASSUME NEW alloc \in Batches
    PROVE  DOMAIN alloc \subseteq Guest /\ DOMAIN alloc # {} /\ alloc \in [DOMAIN alloc -> Token]
<1>1. PICK S \in (SUBSET Guest) \ {{}} : alloc \in [S -> Token]
  BY DEF Batches
<1>. QED  BY <1>1

\* Before its INSERTs the batch holds its resident, the condominium and every guest.
LEMMA HoldsResident ==
    ASSUME AccessAssumption, AccessInv, NEW s \in Tx, tx[s].pc = "insert"
    PROVE  /\ s \in Issuer /\ tx[s].resident \in Resident
           /\ lock[tx[s].resident] = s /\ lock[CondoOf[tx[s].resident]] = s
           /\ \A g \in DOMAIN tx[s].alloc : ResidentOf[g] = tx[s].resident /\ ParentsLive(g)
<1>1. /\ s \in Issuer /\ tx[s].alloc \in Batches /\ tx[s].resident \in Resident
      /\ tx[s].need = <<>>
      /\ \A g \in DOMAIN tx[s].alloc : Issuable(s, g)
      /\ \A g \in Guest : Issuable(s, g) => \A x \in ParentSet(g) : Reaches(s, x)
  BY AccessTypes DEF TxKnows, IssuerKnows
<1>2. PICK g \in Guest : g \in DOMAIN tx[s].alloc
  BY <1>1, BatchTyped
<1>3. ResidentOf[g] = tx[s].resident /\ \A x \in ParentSet(g) : lock[x] = s
  BY <1>1, <1>2 DEF Issuable, Reaches
<1>. QED  BY <1>1, <1>3 DEF ParentSet, CondoOfGuest, Issuable

\* The digests a batch reclaims belong to invitations nobody can use.
LEMMA ReclaimedTyped ==
    ASSUME AccessAssumption, AccessInv, NEW s \in Tx
    PROVE  /\ Reclaimed(s) \in [Invite -> Token \cup {None}]
           /\ \A i \in Invite : Usable(i) => Reclaimed(s)[i] = token[i]
<1>1. token \in [Invite -> Token \cup {None}] /\ \A i \in tx[s].reclaim : Reclaimable(i)
  BY AccessTypes DEF AccessInv, Typed, TxKnows, IssuerKnows
<1>. QED  BY <1>1 DEF Reclaimed, Reclaimable, Usable

LEMMA ThreeFirst ==
    ASSUME NEW R, NEW p \in Seq(R), Len(p) = 3, NEW t \in Seq(R)
    PROVE  /\ p \o t \in Seq(R) /\ DOMAIN (p \o t) = 1..(3 + Len(t))
           /\ (p \o t)[1] = p[1] /\ (p \o t)[2] = p[2] /\ (p \o t)[3] = p[3]
           /\ \A k \in 1..Len(t) : (p \o t)[3 + k] = t[k]
<1>. DEFINE c == p \o t
<1>1. /\ c \in Seq(R) /\ Len(c) = 3 + Len(t)
      /\ \A k \in 1..(3 + Len(t)) : c[k] = IF k <= 3 THEN p[k] ELSE t[k - 3]
  <2>1. /\ c \in Seq(R) /\ Len(c) = Len(p) + Len(t)
        /\ \A k \in 1..Len(p) + Len(t) : c[k] = IF k <= Len(p) THEN p[k] ELSE t[k - Len(p)]
    BY ConcatProperties, Zenon
  <2>. HIDE DEF c
  <2>. QED  BY <2>1
<1>. HIDE DEF c
<1>2. Len(t) \in Nat /\ DOMAIN c = 1..Len(c)
  BY <1>1
<1>3. /\ 1 \in 1..(3 + Len(t)) /\ 2 \in 1..(3 + Len(t)) /\ 3 \in 1..(3 + Len(t))
      /\ \A k \in 1..Len(t) : 3 + k \in 1..(3 + Len(t)) /\ 3 + k > 3 /\ (3 + k) - 3 = k
  BY <1>2
<1>4. \A k \in 1..Len(t) : c[3 + k] = t[k]
  BY <1>1, <1>3
<1>5. c \in Seq(R) /\ DOMAIN c = 1..(3 + Len(t)) /\ c[1] = p[1] /\ c[2] = p[2] /\ c[3] = p[3]
  BY <1>1, <1>2, <1>3
<1>. QED  BY <1>4, <1>5 DEF c

\* The rows the SELECT locks in turn include every parent of every guest it finds.
LEMMA GuestLocksReach ==
    ASSUME AccessAssumption, NEW s \in Tx
    PROVE  /\ GuestLocks(s) \in Seq(Row)
           /\ \A g \in Guest : Issuable(s, g) => \A x \in ParentSet(g) :
                \E k \in DOMAIN GuestLocks(s) : GuestLocks(s)[k] = x
<1>. DEFINE S == {g \in Guest : Issuable(s, g)}
            q == ById[S]
<1>1. q \in Seq(Guest) /\ {q[k] : k \in DOMAIN q} = S
  BY DEF AccessAssumption
<1>2. \A g \in Guest : ParentSet(g) \subseteq Row
  BY DEF ParentSet, CondoOfGuest, Row, AccessAssumption
<1>. HIDE DEF q
<1>3. CASE q = <<>>
  <2>1. GuestLocks(s) = <<>> /\ S = {}
    BY <1>1, <1>3 DEF GuestLocks, q
  <2>. QED  BY <2>1
<1>4. CASE q # <<>>
  <2>. DEFINE h == Head(q)
              p == <<h, ResidentOf[h], CondoOfGuest(h)>>
              t == Tail(q)
  <2>1. /\ h = q[1] /\ 1 \in DOMAIN q /\ DOMAIN q = 1..Len(q) /\ Len(q) \in Nat
        /\ t \in Seq(Guest) /\ Len(t) = Len(q) - 1 /\ Len(t) \in Nat
        /\ \A k \in 1..Len(t) : t[k] = q[k + 1]
    BY <1>1, <1>4
  <2>2. GuestLocks(s) = p \o t
    BY <1>4 DEF GuestLocks, q, Parents
  <2>3. h \in S /\ h \in Guest /\ ResidentOf[h] = tx[s].resident
    BY <1>1, <2>1 DEF Issuable
  <2>4. p \in Seq(Row) /\ Len(p) = 3 /\ p[1] = h /\ p[2] = ResidentOf[h] /\ p[3] = CondoOfGuest(h)
    BY <1>2, <2>3 DEF ParentSet
  <2>. HIDE DEF h, p, t
  <2>5. t \in Seq(Row)
    BY <2>1 DEF Row
  <2>6. /\ p \o t \in Seq(Row) /\ DOMAIN (p \o t) = 1..(3 + Len(t))
        /\ (p \o t)[1] = p[1] /\ (p \o t)[2] = p[2] /\ (p \o t)[3] = p[3]
        /\ \A k \in 1..Len(t) : (p \o t)[3 + k] = t[k]
    BY <2>4, <2>5, ThreeFirst
  <2>7. ASSUME NEW g \in S
        PROVE  \E k \in DOMAIN (p \o t) : (p \o t)[k] = g
    <3>1. PICK k \in 1..Len(q) : q[k] = g
      BY <1>1, <2>1
    <3>2. CASE k = 1
      <4>1. 1 \in DOMAIN (p \o t)
        BY <2>1, <2>6
      <4>2. (p \o t)[1] = g
        BY <2>1, <2>4, <2>6, <3>1, <3>2
      <4>. QED  BY <4>1, <4>2
    <3>3. CASE k # 1
      <4>1. k - 1 \in 1..Len(t) /\ t[k - 1] = g
        BY <2>1, <3>1, <3>3
      <4>2. 3 + (k - 1) \in DOMAIN (p \o t) /\ (p \o t)[3 + (k - 1)] = g
        BY <2>1, <2>6, <4>1
      <4>. QED  BY <4>2
    <3>. QED  BY <3>2, <3>3
  <2>8. ASSUME NEW g \in S, NEW x \in ParentSet(g)
        PROVE  \E k \in DOMAIN (p \o t) : (p \o t)[k] = x
    <3>1. ResidentOf[g] = ResidentOf[h] /\ CondoOfGuest(g) = CondoOfGuest(h)
      BY <2>3 DEF Issuable, CondoOfGuest
    <3>2. 2 \in DOMAIN (p \o t) /\ 3 \in DOMAIN (p \o t)
      BY <2>1, <2>6
    <3>3. CASE x = g
      BY <2>7, <3>3
    <3>4. CASE x = ResidentOf[g]
      BY <2>4, <2>6, <3>1, <3>2, <3>4
    <3>5. CASE x = CondoOfGuest(g)
      BY <2>4, <2>6, <3>1, <3>2, <3>5
    <3>. QED  BY <3>3, <3>4, <3>5 DEF ParentSet
  <2>. QED  BY <2>2, <2>6, <2>8
<1>. QED  BY <1>3, <1>4

LEMMA BatchSteps ==
    ASSUME AccessAssumption, AccessInv, NEW s \in Issuer,
           \/ \E r \in Resident \cap Registry, alloc \in Allocations : BeginIssue(s, r, alloc)
           \/ \E g \in scenario.guests : ReclaimDigest(s, g)
           \/ SelectGuests(s)
    PROVE  AccessInv'
<1>a. /\ tx \in [Tx -> TxState] /\ tx[s] \in TxState /\ TxKnows(s) /\ s \in Tx
      /\ audit \in [Validator -> {"none", "negado", "permitido"}]
      /\ scenario.guests \subseteq Guest /\ scenario.tokens \subseteq Token
  BY AccessTypes DEF AccessInv, Typed, Tx
<1>b. /\ tx[s].reclaim \subseteq Invite /\ \A i \in tx[s].reclaim : Reclaimable(i)
  BY <1>a DEF TxState, TxKnows, IssuerKnows
<1>1. ASSUME NEW r \in Resident \cap Registry, NEW alloc \in Allocations, BeginIssue(s, r, alloc)
      PROVE  AccessInv'
  <2>. DEFINE todo == DOMAIN alloc
              rec == [Idle EXCEPT !.pc = "reclaim", !.todo = todo,
                                  !.alloc = alloc, !.resident = r]
  <2>1. /\ tx' = [tx EXCEPT ![s] = rec]
        /\ UNCHANGED <<invitationVars, registryVars, lock, audit, entries>>
    BY <1>1 DEF BeginIssue
  <2>2. alloc \in Batches /\ todo \in SUBSET Guest
    <3>1. PICK batch \in (SUBSET scenario.guests) \ {{}} : alloc \in [batch -> scenario.tokens]
      BY DEF Allocations
    <3>2. batch \in (SUBSET Guest) \ {{}} /\ alloc \in [batch -> Token]
      BY <3>1, <1>a
    <3>. QED  BY <3>2 DEF Batches
  <2>. HIDE DEF todo
  <2>3. /\ rec \in TxState /\ rec.pc = "reclaim" /\ rec.reclaim = {} /\ rec.alloc = alloc
        /\ rec.resident = r
    BY <2>2, IdleTyped DEF TxState, Idle, Pcs
  <2>. HIDE DEF rec
  <2>4. tx'[s] = rec
    BY <2>1, <1>a
  <2>5. TxKnows(s)'
    BY <2>2, <2>3, <2>4 DEF TxKnows, ValidatorKnows, IssuerKnows
  <2>. QED  BY <2>1, <2>3, <2>5, <1>a, Continued
<1>2. ASSUME NEW g \in scenario.guests, ReclaimDigest(s, g) PROVE AccessInv'
  <2>. DEFINE owner == {i \in Invite : token[i] = tx[s].alloc[g] /\ Reclaimable(i)}
              todo == tx[s].todo \ {g}
              reclaim == tx[s].reclaim \cup owner
              need == IF owner = {} THEN <<>> ELSE <<CHOOSE i \in owner : TRUE>>
              rec == [tx[s] EXCEPT !.todo = todo, !.reclaim = reclaim, !.need = need]
  <2>1. /\ tx[s].pc = "reclaim"
        /\ UNCHANGED <<invitationVars, registryVars, lock, audit, entries>>
        /\ tx' = [tx EXCEPT ![s].todo = @ \ {g}, ![s].reclaim = @ \cup owner, ![s].need = need]
    BY <1>2 DEF ReclaimDigest, At
  <2>2. /\ todo \in SUBSET Guest /\ reclaim \in SUBSET Invite /\ need \in Seq(Row)
        /\ \A i \in reclaim : Reclaimable(i)
    <3>1. owner \subseteq Invite /\ \A i \in owner : Reclaimable(i)
      OBVIOUS
    <3>2. need \in Seq(Row)
      <4>1. CASE owner = {}
        BY <4>1
      <4>2. CASE owner # {}
        <5>1. (CHOOSE i \in owner : TRUE) \in Row
          BY <4>2 DEF Row
        <5>. QED  BY <4>2, <5>1
      <4>. QED  BY <4>1, <4>2
    <3>3. todo \in SUBSET Guest
      BY <1>a DEF TxState
    <3>. QED  BY <3>1, <3>2, <3>3, <1>b
  <2>3. tx' = [tx EXCEPT ![s] = rec]
    BY <2>1, <1>a
  <2>. HIDE DEF owner, todo, reclaim, need
  <2>4. /\ rec \in TxState /\ rec.pc = "reclaim" /\ rec.reclaim = reclaim
        /\ rec.alloc = tx[s].alloc /\ rec.resident = tx[s].resident
    BY <2>1, <2>2, <1>a DEF TxState
  <2>. HIDE DEF rec
  <2>5. tx'[s] = rec /\ UNCHANGED <<used, revoked, expired>>
    BY <2>1, <2>3, <1>a DEF invitationVars
  <2>6. tx[s].alloc \in Batches /\ tx[s].resident \in Resident
    BY <2>1, <1>a DEF TxKnows, IssuerKnows
  <2>7. TxKnows(s)'
    BY <2>2, <2>4, <2>5, <2>6 DEF TxKnows, ValidatorKnows, IssuerKnows, Reclaimable
  <2>. QED  BY <2>1, <2>3, <2>4, <2>7, <1>a, Continued
<1>3. CASE SelectGuests(s)
  <2>. DEFINE need == GuestLocks(s)
              rec == [tx[s] EXCEPT !.pc = "guests", !.need = need]
  <2>1. /\ tx[s].pc = "reclaim"
        /\ UNCHANGED <<invitationVars, registryVars, lock, audit, entries>>
        /\ tx' = [tx EXCEPT ![s].pc = "guests", ![s].need = need]
    BY <1>3 DEF SelectGuests, At
  <2>2. /\ need \in Seq(Row)
        /\ \A g \in Guest : Issuable(s, g) => \A x \in ParentSet(g) :
             \E k \in DOMAIN need : need[k] = x
    BY <1>a, GuestLocksReach
  <2>3. tx' = [tx EXCEPT ![s] = rec]
    BY <2>1, <1>a
  <2>. HIDE DEF need
  <2>4. /\ rec \in TxState /\ rec.pc = "guests" /\ rec.reclaim = tx[s].reclaim
        /\ rec.alloc = tx[s].alloc /\ rec.resident = tx[s].resident /\ rec.need = need
    BY <2>2, <1>a DEF TxState, Pcs
  <2>. HIDE DEF rec
  <2>5. tx'[s] = rec /\ UNCHANGED <<used, revoked, expired, deleted>>
    BY <2>1, <2>3, <1>a DEF invitationVars, registryVars
  <2>6. tx[s].alloc \in Batches /\ tx[s].resident \in Resident
    BY <2>1, <1>a DEF TxKnows, IssuerKnows
  <2>7. \A g \in Guest : Issuable(s, g)' => Issuable(s, g)
    BY <2>4, <2>5 DEF Issuable, ParentsLive
  <2>8. \A g \in Guest : Issuable(s, g)' => \A x \in ParentSet(g) : Reaches(s, x)'
    BY <2>2, <2>4, <2>5, <2>7 DEF Reaches
  <2>9. IssuerKnows(s)'
    BY <2>4, <2>5, <2>6, <2>8, <1>b DEF IssuerKnows, Reclaimable
  <2>10. TxKnows(s)'
    BY <2>4, <2>5, <2>9 DEF TxKnows, ValidatorKnows
  <2>. QED  BY <2>1, <2>3, <2>4, <2>10, <1>a, Continued
<1>. QED  BY <1>1, <1>2, <1>3

LEMMA CheckGuestsStep ==
    ASSUME AccessAssumption, AccessInv, NEW s \in Issuer, CheckGuests(s)
    PROVE  AccessInv'
<1>. DEFINE batch == DOMAIN tx[s].alloc
            r == tx[s].resident
            rec == [tx[s] EXCEPT !.pc = "insert"]
<1>a. /\ tx \in [Tx -> TxState] /\ tx[s] \in TxState /\ TxKnows(s) /\ s \in Tx
      /\ audit \in [Validator -> {"none", "negado", "permitido"}]
      /\ tx[s].pc = "guests" /\ tx[s].need = <<>>
  BY AccessTypes DEF AccessInv, Typed, Tx, CheckGuests, At
<1>1. \/ /\ token' = Reclaimed(s) /\ End(s)
         /\ UNCHANGED <<guestOf, used, revoked, expired, today, registryVars, audit, entries>>
      \/ Rollback(s)
      \/ /\ \A g \in batch : Issuable(s, g)
         /\ WithinLimit(r, Cardinality(Today(r)) + Cardinality(batch))
         /\ tx' = [tx EXCEPT ![s].pc = "insert"]
         /\ UNCHANGED <<invitationVars, registryVars, lock, audit, entries>>
  BY DEF CheckGuests
<1>2. CASE /\ token' = Reclaimed(s) /\ End(s)
           /\ UNCHANGED <<guestOf, used, revoked, expired, today, registryVars, audit, entries>>
  <2>1. /\ token' \in [Invite -> Token \cup {None}]
        /\ guestOf' \in [Invite -> Guest \cup {None}]
        /\ used' \subseteq Invite /\ revoked' \subseteq Invite /\ today' \subseteq Invite
        /\ entries' \in [Invite -> Nat] /\ \A i \in today' : guestOf'[i] # None
        /\ audit' \in [Validator -> {"none", "negado", "permitido"}]
    BY <1>2, <1>a, ReclaimedTyped DEF AccessInv, Typed, Exists
  <2>2. OneEntryPerInvitation'
    BY <1>2 DEF AccessInv, OneEntryPerInvitation
  <2>3. \A q : Today(q)' = Today(q)
    BY <1>2 DEF Today
  <2>. QED  BY <1>2, <1>a, <2>1, <2>2, <2>3, Ended
<1>3. CASE Rollback(s)
  BY <1>3, <1>a, RollbackKeeps DEF Rollback
<1>4. CASE /\ \A g \in batch : Issuable(s, g)
           /\ WithinLimit(r, Cardinality(Today(r)) + Cardinality(batch))
           /\ tx' = [tx EXCEPT ![s].pc = "insert"]
           /\ UNCHANGED <<invitationVars, registryVars, lock, audit, entries>>
  <2>1. tx' = [tx EXCEPT ![s] = rec]
    BY <1>4, <1>a
  <2>2. /\ rec \in TxState /\ rec.pc = "insert" /\ rec.reclaim = tx[s].reclaim
        /\ rec.alloc = tx[s].alloc /\ rec.resident = r /\ rec.need = tx[s].need
    BY <1>a DEF TxState, Pcs
  <2>. HIDE DEF rec
  <2>3. tx'[s] = rec /\ UNCHANGED <<guestOf, used, revoked, expired, today, deleted, limit, lock>>
    BY <1>4, <2>1, <1>a DEF invitationVars, registryVars
  <2>4. /\ tx[s].alloc \in Batches /\ r \in Resident
        /\ \A g \in Guest : Issuable(s, g) => \A x \in ParentSet(g) : Reaches(s, x)
        /\ \A i \in tx[s].reclaim : Reclaimable(i)
    BY <1>a DEF TxKnows, IssuerKnows
  <2>5. \A g : Issuable(s, g)' <=> Issuable(s, g)
    BY <2>2, <2>3 DEF Issuable, ParentsLive
  <2>6. \A x : Reaches(s, x)' <=> Reaches(s, x)
    BY <2>2, <2>3 DEF Reaches
  <2>7. \A i : Reclaimable(i)' <=> Reclaimable(i)
    BY <2>3 DEF Reclaimable
  <2>8. WithinLimit(r, Cardinality(Today(r)) + Cardinality(batch))'
    <3>1. \A q : Today(q)' = Today(q)
      BY <2>3 DEF Today
    <3>. QED  BY <1>4, <2>2, <2>3, <3>1 DEF WithinLimit, LimitOf
  <2>9. IssuerKnows(s)'
    BY <1>4, <1>a, <2>2, <2>3, <2>4, <2>5, <2>6, <2>7, <2>8 DEF IssuerKnows
  <2>10. TxKnows(s)'
    BY <2>2, <2>3, <2>9 DEF TxKnows, ValidatorKnows
  <2>. QED  BY <1>4, <1>a, <2>1, <2>2, <2>10, Continued
<1>. QED  BY <1>1, <1>2, <1>3, <1>4

\* What the INSERTs of a batch write: rows that did not exist, one for each guest.
LEMMA Inserted ==
    ASSUME AccessAssumption, AccessInv, NEW s \in Issuer, InsertInvitations(s)
    PROVE  \/ Rollback(s)
           \/ /\ guestOf' \in [Invite -> Guest \cup {None}]
              /\ token' \in [Invite -> Token \cup {None}]
              /\ \A i \in Invite : Exists(i) => guestOf'[i] = guestOf[i]
              /\ \A i \in Invite : guestOf'[i] # guestOf[i] => guestOf'[i] \in DOMAIN tx[s].alloc
              /\ \A i \in Invite : Usable(i) => token'[i] = token[i]
              /\ today \subseteq today' /\ today' \subseteq Invite
              /\ \A i \in today' \ today : guestOf'[i] \in DOMAIN tx[s].alloc
              /\ IsFiniteSet(today' \ today) /\ IsFiniteSet(DOMAIN tx[s].alloc)
              /\ Cardinality(today' \ today) <= Cardinality(DOMAIN tx[s].alloc)
              /\ End(s)
              /\ UNCHANGED <<used, revoked, expired, registryVars, audit, entries>>
<1>. DEFINE alloc == tx[s].alloc
            batch == DOMAIN alloc
<1>a. /\ alloc \in Batches /\ s \in Tx
      /\ guestOf \in [Invite -> Guest \cup {None}] /\ today \subseteq Invite
      /\ scenario.invites \subseteq Invite /\ IsFiniteSet(Guest)
  BY AccessTypes DEF AccessInv, Typed, Tx, InsertInvitations, At, TxKnows, IssuerKnows,
                     AccessAssumption
<1>b. batch \subseteq Guest /\ alloc \in [batch -> Token] /\ IsFiniteSet(batch)
  BY <1>a, BatchTyped, FS_Subset
<1>c. /\ Reclaimed(s) \in [Invite -> Token \cup {None}]
      /\ \A i \in Invite : Usable(i) => Reclaimed(s)[i] = token[i]
  BY <1>a, ReclaimedTyped
<1>1. CASE Rollback(s)
  BY <1>1
<1>2. ASSUME NEW place \in [batch -> Unborn],
             guestOf' = [i \in Invite |->
                    IF \E g \in batch : place[g] = i
                    THEN CHOOSE g \in batch : place[g] = i ELSE guestOf[i]],
             token' = [i \in Invite |->
                    IF \E g \in batch : place[g] = i
                    THEN alloc[CHOOSE g \in batch : place[g] = i] ELSE Reclaimed(s)[i]],
             today' = today \cup {place[g] : g \in batch},
             End(s), UNCHANGED <<used, revoked, expired, registryVars, audit, entries>>
      PROVE  /\ guestOf' \in [Invite -> Guest \cup {None}]
             /\ token' \in [Invite -> Token \cup {None}]
             /\ \A i \in Invite : Exists(i) => guestOf'[i] = guestOf[i]
             /\ \A i \in Invite : guestOf'[i] # guestOf[i] => guestOf'[i] \in batch
             /\ \A i \in Invite : Usable(i) => token'[i] = token[i]
             /\ today \subseteq today' /\ today' \subseteq Invite
             /\ \A i \in today' \ today : guestOf'[i] \in batch
             /\ IsFiniteSet(today' \ today) /\ IsFiniteSet(batch)
             /\ Cardinality(today' \ today) <= Cardinality(batch)
  <2>. DEFINE Placed(i) == \E g \in batch : place[g] = i
              at == [i \in Invite |-> CHOOSE g \in batch : place[g] = i]
              new == {place[g] : g \in batch}
  <2>. HIDE DEF alloc
  <2>1. \A i \in Invite : Placed(i) => at[i] \in batch
    OBVIOUS
  <2>2. /\ guestOf' = [i \in Invite |-> IF Placed(i) THEN at[i] ELSE guestOf[i]]
        /\ token' = [i \in Invite |-> IF Placed(i) THEN alloc[at[i]] ELSE Reclaimed(s)[i]]
    BY <1>2
  <2>3. new \subseteq Unborn /\ \A i \in new : Placed(i)
    OBVIOUS
  <2>4. \A i : Placed(i) => i \in Unborn
    OBVIOUS
  <2>5. Unborn \subseteq Invite /\ \A i \in Unborn : ~Exists(i) /\ ~Usable(i)
    BY <1>a DEF Unborn, Usable
  <2>. HIDE DEF Placed, at
  <2>6. guestOf' \in [Invite -> Guest \cup {None}]
    BY <1>a, <1>b, <2>1, <2>2
  <2>7. token' \in [Invite -> Token \cup {None}]
    BY <1>b, <1>c, <2>1, <2>2
  <2>8. /\ \A i \in Invite : Exists(i) => guestOf'[i] = guestOf[i]
        /\ \A i \in Invite : guestOf'[i] # guestOf[i] => guestOf'[i] \in batch
        /\ \A i \in Invite : Usable(i) => token'[i] = token[i]
    BY <1>c, <2>1, <2>2, <2>4, <2>5
  <2>9. today \subseteq today' /\ today' \subseteq Invite /\ today' \ today \subseteq new
    BY <1>2, <1>a, <2>3, <2>5
  <2>10. \A i \in new : guestOf'[i] \in batch
    BY <2>1, <2>2, <2>3, <2>5
  <2>11. IsFiniteSet(new) /\ Cardinality(new) <= Cardinality(batch)
    <3>1. place \in Surjection(batch, new)
      BY DEF Surjection
    <3>. HIDE DEF new, batch
    <3>. QED  BY <1>b, <3>1, FS_Surjection
  <2>12. IsFiniteSet(today' \ today) /\ Cardinality(today' \ today) <= Cardinality(new)
    BY <2>9, <2>11, FS_Subset
  <2>13. Cardinality(today' \ today) <= Cardinality(batch)
    BY <1>b, <2>11, <2>12, FS_CardinalityType
  <2>. QED  BY <1>b, <2>6, <2>7, <2>8, <2>9, <2>10, <2>12, <2>13
<1>3. CASE ~Rollback(s)
  <2>1. PICK place \in [batch -> Unborn] :
          /\ guestOf' = [i \in Invite |->
                 IF \E g \in batch : place[g] = i
                 THEN CHOOSE g \in batch : place[g] = i ELSE guestOf[i]]
          /\ token' = [i \in Invite |->
                 IF \E g \in batch : place[g] = i
                 THEN alloc[CHOOSE g \in batch : place[g] = i] ELSE Reclaimed(s)[i]]
          /\ today' = today \cup {place[g] : g \in batch}
          /\ End(s) /\ UNCHANGED <<used, revoked, expired, registryVars, audit, entries>>
    BY <1>3 DEF InsertInvitations
  <2>. QED  BY <1>2, <2>1
<1>. QED  BY <1>1, <1>3

LEMMA InsertStep ==
    ASSUME AccessAssumption, AccessInv, NEW s \in Issuer, InsertInvitations(s)
    PROVE  AccessInv'
<1>a. /\ tx[s].pc = "insert" /\ s \in Tx /\ None \notin Guest
      /\ tx[s].alloc \in Batches /\ DOMAIN tx[s].alloc \subseteq Guest
  BY AccessTypes, BatchTyped DEF InsertInvitations, At, Tx, Row, TxKnows, IssuerKnows
<1>1. CASE Rollback(s)
  BY <1>1, <1>a, RollbackKeeps DEF Rollback
<1>2. CASE ~Rollback(s)
  <2>1. /\ guestOf' \in [Invite -> Guest \cup {None}]
        /\ token' \in [Invite -> Token \cup {None}]
        /\ \A i \in Invite : Exists(i) => guestOf'[i] = guestOf[i]
        /\ today \subseteq today' /\ today' \subseteq Invite
        /\ \A i \in today' \ today : guestOf'[i] \in DOMAIN tx[s].alloc
        /\ End(s)
        /\ UNCHANGED <<used, revoked, expired, registryVars, audit, entries>>
    BY <1>2, Inserted
  <2>2. /\ used \subseteq Invite /\ revoked \subseteq Invite /\ today \subseteq Invite
        /\ entries \in [Invite -> Nat] /\ OneEntryPerInvitation
        /\ audit \in [Validator -> {"none", "negado", "permitido"}]
        /\ \A j \in today : Exists(j)
    BY DEF AccessInv, Typed
  <2>3. OneEntryPerInvitation'
    BY <2>1, <2>2 DEF OneEntryPerInvitation
  <2>4. \A i \in today' : guestOf'[i] # None
    BY <1>a, <2>1, <2>2 DEF Exists
  <2>5. ASSUME NEW u \in Tx \ {s}, NEW r \in Resident, tx[u].pc = "insert", tx[u].resident = r
        PROVE  Today(r)' = Today(r)
    <3>1. r # tx[s].resident
      <4>1. lock[tx[s].resident] = s
        BY <1>a, HoldsResident
      <4>2. u \in Tx /\ lock[tx[u].resident] = u
        BY <2>5, HoldsResident
      <4>. QED  BY <2>5, <4>1, <4>2
    <3>2. \A i \in today' \ today : ResidentOf[guestOf'[i]] # r
      BY <1>a, <2>1, <3>1, HoldsResident
    <3>3. \A i \in today : guestOf'[i] = guestOf[i]
      BY <2>1, <2>2
    <3>. QED  BY <2>1, <3>2, <3>3 DEF Today
  <2>. QED  BY <1>a, <2>1, <2>2, <2>3, <2>4, <2>5, Ended
<1>. QED  BY <1>1, <1>2

-----------------------------------------------------------------------------
(* revokeActive, and what else touches the rows.                           *)

LEMMA RevokeSteps ==
    ASSUME AccessAssumption, AccessInv, NEW w \in Revoker,
           Revoke(w) \/ \E i \in scenario.invites : BeginRevoke(w, i)
    PROVE  AccessInv'
<1>a. /\ tx \in [Tx -> TxState] /\ tx[w] \in TxState /\ TxKnows(w) /\ w \in Tx
      /\ audit \in [Validator -> {"none", "negado", "permitido"}]
      /\ scenario.invites \subseteq Invite
  BY AccessTypes DEF AccessInv, Typed, Tx
<1>1. ASSUME NEW i \in scenario.invites, BeginRevoke(w, i) PROVE AccessInv'
  <2>. DEFINE need == <<i>>
              rec == [Idle EXCEPT !.pc = "revoke", !.need = need, !.invite = i]
  <2>1. /\ tx' = [tx EXCEPT ![w] = rec]
        /\ UNCHANGED <<invitationVars, registryVars, lock, audit, entries>>
    BY <1>1 DEF BeginRevoke
  <2>2. need \in Seq(Row) /\ i \in Invite
    BY <1>a DEF Row
  <2>. HIDE DEF need
  <2>3. rec \in TxState /\ rec.pc = "revoke" /\ rec.reclaim = {} /\ rec.invite = i
    BY <2>2, IdleTyped DEF TxState, Idle, Pcs
  <2>. HIDE DEF rec
  <2>4. tx'[w] = rec
    BY <2>1, <1>a
  <2>5. TxKnows(w)'
    BY <2>2, <2>3, <2>4 DEF TxKnows, ValidatorKnows, IssuerKnows
  <2>. QED  BY <2>1, <2>3, <2>5, <1>a, Continued
<1>2. CASE Revoke(w)
  <2>. DEFINE i == tx[w].invite
  <2>1. /\ i \in Invite /\ End(w)
        /\ revoked' = IF Usable(i) THEN revoked \cup {i} ELSE revoked
        /\ token' = IF Usable(i) THEN [token EXCEPT ![i] = None] ELSE token
        /\ UNCHANGED <<guestOf, used, expired, today, registryVars, audit, entries>>
    BY <1>2, <1>a DEF Revoke, At, TxKnows
  <2>2. /\ guestOf \in [Invite -> Guest \cup {None}] /\ token \in [Invite -> Token \cup {None}]
        /\ used \subseteq Invite /\ revoked \subseteq Invite /\ today \subseteq Invite
        /\ entries \in [Invite -> Nat] /\ OneEntryPerInvitation
        /\ \A j \in today : guestOf[j] # None
    BY DEF AccessInv, Typed, Exists
  <2>3. /\ token' \in [Invite -> Token \cup {None}]
        /\ revoked \subseteq revoked' /\ revoked' \subseteq Invite
    BY <2>1, <2>2
  <2>4. Usable(i) => i \notin used
    BY DEF Usable
  <2>5. OneEntryPerInvitation'
    BY <2>1, <2>2, <2>4 DEF OneEntryPerInvitation
  <2>6. \A r : Today(r)' = Today(r)
    BY <2>1 DEF Today
  <2>. QED  BY <1>a, <2>1, <2>2, <2>3, <2>5, <2>6, Ended
<1>. QED  BY <1>1, <1>2

\* A single UPDATE outside the requests waits for the row's lock.
LEMMA OutsideSteps ==
    ASSUME AccessAssumption, AccessInv,
           \/ \E g \in scenario.guests : DeleteGuest(g)
           \/ \E r \in Resident \cap Registry : DeleteResident(r)
           \/ \E x \in Registry, n \in scenario.limits : SetDailyLimit(x, n)
           \/ \E c \in Condo \cap Registry : DeleteCondominium(c)
           \/ \E v \in Validator \cap scenario.requests : RevokeCredential(v)
           \/ \E i \in scenario.invites : Expire(i)
           \/ NewDay
    PROVE  AccessInv'
<1>a. /\ Typed /\ None \notin Tx
      /\ scenario.guests \subseteq Guest /\ scenario.invites \subseteq Invite
      /\ scenario.limits \subseteq Limits /\ Registry \subseteq Resident \cup Condo
  BY AccessTypes DEF AccessInv
<1>1. UNCHANGED <<guestOf, token, used, revoked, scenario, lock, tx, audit, entries>>
  BY DEF DeleteGuest, DeleteResident, SetDailyLimit, DeleteCondominium, RevokeCredential, Expire,
         NewDay, invitationVars, registryVars
<1>2. /\ \/ deleted' = deleted
         \/ \E x \in Guest \cup Resident \cup Condo : lock[x] = None /\ deleted' = deleted \cup {x}
      /\ \/ barred' = barred
         \/ \E v \in Validator : lock[v] = None /\ barred' = barred \cup {v}
      /\ \/ limit' = limit
         \/ \E x \in Resident \cup Condo, n \in Limits :
              lock[x] = None /\ limit' = [limit EXCEPT ![x] = n]
      /\ expired' = expired \/ \E i \in Invite : expired' = expired \cup {i}
      /\ today' = today \/ (today' = {} /\ \A s \in Issuer : tx[s].pc # "insert")
  BY <1>a DEF DeleteGuest, DeleteResident, SetDailyLimit, DeleteCondominium, RevokeCredential,
         Expire, NewDay, invitationVars, registryVars
<1>3. Typed'
  <2>1. deleted' \subseteq Guest \cup Resident \cup Condo /\ barred' \subseteq Validator
    BY <1>a, <1>2 DEF Typed
  <2>2. limit' \in [Resident \cup Condo -> Limits]
    <3>1. CASE limit' = limit
      BY <3>1, <1>a DEF Typed
    <3>2. ASSUME NEW x \in Resident \cup Condo, NEW n \in Limits, limit' = [limit EXCEPT ![x] = n]
          PROVE  limit' \in [Resident \cup Condo -> Limits]
      BY <3>2, <1>a DEF Typed
    <3>. QED  BY <3>1, <3>2, <1>2
  <2>3. expired' \subseteq Invite /\ today' \subseteq Invite
    BY <1>a, <1>2 DEF Typed
  <2>. QED  BY <1>a, <1>1, <2>1, <2>2, <2>3 DEF Typed
<1>4. ASSUME NEW u \in Tx PROVE TxKnows(u)'
  <2>1. /\ deleted \subseteq deleted' /\ \A x \in deleted' \ deleted : lock[x] # u
        /\ \A x \in barred' \ barred : lock[x] # u
        /\ expired \subseteq expired'
    BY <1>a, <1>2
  <2>2. \A x \in Resident \cup Condo : limit'[x] = limit[x] \/ lock[x] # u
    BY <1>a, <1>2 DEF Typed
  <2>3. ASSUME NEW r \in Resident, tx[u].pc = "insert", tx[u].resident = r
        PROVE  Today(r)' = Today(r)
    <3>1. u \in Issuer
      BY <2>3, HoldsResident
    <3>2. today' = today
      BY <1>2, <2>3, <3>1
    <3>. QED  BY <1>1, <3>2 DEF Today
  <2>4. Spares(u)
    BY <1>1, <2>1, <2>2, <2>3 DEF Spares
  <2>. QED  BY <2>4, SparedKnows
<1>5. OneEntryPerInvitation' /\ \A i \in today' : Exists(i)'
  BY <1>1, <1>2 DEF AccessInv, OneEntryPerInvitation, Exists
<1>. QED  BY <1>3, <1>4, <1>5 DEF AccessInv

-----------------------------------------------------------------------------
(* The invariant and what it implies.                                      *)

\* What each transaction knows at its statements holds in every state.
LEMMA AccessKept == ASSUME AccessAssumption PROVE Spec => []AccessInv
<1>. USE AccessAssumption
<1>1. Init => AccessInv
  <2>. SUFFICES ASSUME Init PROVE AccessInv
    OBVIOUS
  <2>1. limit \in [Resident \cup Condo -> Limits]
    BY DEF Init
  <2>2. Typed
    BY <2>1, IdleTyped DEF Init, Typed
  <2>3. None \notin Tx
    BY DEF AccessAssumption
  <2>4. ASSUME NEW t \in Tx PROVE TxKnows(t)
    BY <2>3, <2>4, IdleTyped DEF Init, TxKnows, ValidatorKnows, IssuerKnows, Held
  <2>5. OneEntryPerInvitation
    BY DEF Init, OneEntryPerInvitation
  <2>. QED  BY <2>2, <2>4, <2>5 DEF Init, AccessInv
<1>2. AccessInv /\ [Next]_vars => AccessInv'
  <2>. SUFFICES ASSUME AccessInv, [Next]_vars PROVE AccessInv'
    OBVIOUS
  <2>1. ASSUME NEW t \in Tx, DeadlockVictim(t) PROVE AccessInv'
    BY <2>1, RollbackKeeps DEF DeadlockVictim
  <2>2. CASE UNCHANGED vars
    <3>1. UNCHANGED <<guestOf, token, used, revoked, expired, today, deleted, barred, limit,
                      scenario, lock, tx, audit, entries>>
      BY <2>2 DEF vars
    <3>2. Typed' /\ OneEntryPerInvitation' /\ \A i \in today' : Exists(i)'
      BY <3>1 DEF AccessInv, Typed, OneEntryPerInvitation, Exists
    <3>3. ASSUME NEW u \in Tx PROVE TxKnows(u)'
      <4>1. Spares(u)
        BY <3>1 DEF Spares, Today
      <4>. QED  BY <4>1, SparedKnows
    <3>. QED  BY <3>2, <3>3 DEF AccessInv
  <2>. QED
    BY <2>1, <2>2, AcquireKeeps, ValidationSteps, ConsumeStep, BatchSteps, CheckGuestsStep,
       InsertStep, RevokeSteps, OutsideSteps DEF Next
<1>. QED  BY <1>1, <1>2, PTL DEF Spec

\* Every reachable state is well typed, and only an open transaction holds locks.
THEOREM TypeCorrect == AccessAssumption => (Spec => []TypeOK)
<1>. SUFFICES ASSUME AccessAssumption PROVE Spec => []TypeOK
  OBVIOUS
<1>1. Spec => []AccessInv
  BY AccessKept
<1>2. AccessInv => TypeOK
  BY DEF AccessInv, Typed, TypeOK, TxKnows, TxState
<1>. QED  BY <1>1, <1>2, PTL

\* However many devices, gatekeepers and administrators act on an invitation at the same
\* time, it opens the gate at most once, and is then used and not revoked.
THEOREM OpensOnce == AccessAssumption => (Spec => []OneEntryPerInvitation)
<1>. SUFFICES ASSUME AccessAssumption PROVE Spec => []OneEntryPerInvitation
  OBVIOUS
<1>1. Spec => []AccessInv
  BY AccessKept
<1>2. AccessInv => OneEntryPerInvitation
  BY DEF AccessInv
<1>. QED  BY <1>1, <1>2, PTL

-----------------------------------------------------------------------------
(* What a step may do to an invitation.                                    *)

\* The steps that write the invitations' rows.
LEMMA RowsWritten ==
    ASSUME Next
    PROVE  \/ UNCHANGED <<guestOf, token, used>> /\ (today' = today \/ today' = {})
           \/ \E v \in Validator : Consume(v)
           \/ \E s \in Issuer : CheckGuests(s) \/ InsertInvitations(s)
           \/ \E w \in Revoker : Revoke(w)
<1>. DEFINE Unwritten == UNCHANGED <<guestOf, token, used>> /\ (today' = today \/ today' = {})
<1>1. \A t : Acquire(t) \/ DeadlockVictim(t) => Unwritten
  BY DEF Acquire, DeadlockVictim, invitationVars
<1>2. \A v, k : BeginValidation(v, k) => Unwritten
  BY DEF BeginValidation, invitationVars
<1>3. \A v : CheckCredential(v) \/ CheckJoin(v) => Unwritten
  BY DEF CheckCredential, CheckJoin, Deny, invitationVars
<1>4. \A v : FindCandidate(v) \/ CheckCandidate(v) \/ RevokeCredential(v) => Unwritten
  BY DEF FindCandidate, CheckCandidate, RevokeCredential, Deny, invitationVars
<1>5. /\ \A s, r, alloc : BeginIssue(s, r, alloc) => Unwritten
      /\ \A s, g : ReclaimDigest(s, g) => Unwritten
      /\ \A s : SelectGuests(s) => Unwritten
      /\ \A w, i : BeginRevoke(w, i) => Unwritten
  BY DEF BeginIssue, ReclaimDigest, SelectGuests, BeginRevoke, invitationVars
<1>6. /\ \A x : DeleteGuest(x) \/ DeleteResident(x) \/ DeleteCondominium(x) \/ Expire(x) => Unwritten
      /\ \A x, n : SetDailyLimit(x, n) => Unwritten
      /\ NewDay => Unwritten
  BY DEF DeleteGuest, DeleteResident, DeleteCondominium, SetDailyLimit, Expire, NewDay, invitationVars
<1>. HIDE DEF Unwritten
<1>7. \/ Unwritten
      \/ \E v \in Validator : Consume(v)
      \/ \E s \in Issuer : CheckGuests(s) \/ InsertInvitations(s)
      \/ \E w \in Revoker : Revoke(w)
  BY <1>1, <1>2, <1>3, <1>4, <1>5, <1>6 DEF Next
<1>. QED  BY <1>7 DEF Unwritten

\* The validator that opens the gate holds what it has checked.
LEMMA ConsumerHolds ==
    ASSUME AccessAssumption, AccessInv, NEW v \in Validator, Consume(v), used' # used
    PROVE  LET i == tx[v].invite IN
           /\ used' = used \cup {i} /\ Usable(i) /\ i \in Invite
           /\ v \notin barred /\ audit'[v] = "permitido"
           /\ ParentsLive(guestOf[i]) /\ CondoOf[v] = CondoOfGuest(guestOf[i])
<1>1. /\ tx[v].pc = "consume" /\ TxKnows(v) /\ v \in Tx
      /\ audit \in [Validator -> {"none", "negado", "permitido"}]
  BY AccessTypes DEF Consume, At, Tx, AccessInv, Typed
<1>2. /\ v \notin barred /\ tx[v].invite \in Invite /\ guestOf[tx[v].invite] \in Guest
      /\ KnowsGuest(v, guestOf[tx[v].invite])
  BY <1>1 DEF TxKnows, ValidatorKnows
<1>3. /\ Usable(tx[v].invite) /\ used' = used \cup {tx[v].invite}
      /\ audit' = [audit EXCEPT ![v] = "permitido"]
  BY DEF Consume, Deny, invitationVars
<1>. QED  BY <1>1, <1>2, <1>3 DEF KnowsGuest

\* The gate opens only for an invitation that is at that instant neither expired nor revoked,
\* whose guest, resident and condominium are not deleted, presented by a credential of the same
\* condominium that is not revoked: what was read under the row locks is still so at the UPDATE.
THEOREM GateIsAuthorized == AccessAssumption => (Spec => EntryIsAuthorized)
<1>. SUFFICES ASSUME AccessAssumption PROVE Spec => EntryIsAuthorized
  OBVIOUS
<1>. DEFINE Authorized == \A i \in used' \ used :
              /\ i \notin expired \cup revoked
              /\ ParentsLive(guestOf[i])
              /\ \E v \in Validator \ barred :
                   /\ tx[v].invite = i /\ audit'[v] = "permitido"
                   /\ CondoOf[v] = CondoOfGuest(guestOf[i])
<1>1. AccessInv /\ [Next]_vars => [Authorized]_vars
  <2>. SUFFICES ASSUME AccessInv, Next, NEW i \in used' \ used
                PROVE  /\ i \notin expired \cup revoked
                       /\ ParentsLive(guestOf[i])
                       /\ \E v \in Validator \ barred :
                            /\ tx[v].invite = i /\ audit'[v] = "permitido"
                            /\ CondoOf[v] = CondoOfGuest(guestOf[i])
    OBVIOUS
  <2>1. used' # used
    OBVIOUS
  <2>2. PICK v \in Validator : Consume(v)
    <3>1. \A s \in Issuer : CheckGuests(s) \/ InsertInvitations(s) => used' = used
      BY DEF CheckGuests, InsertInvitations, Rollback, invitationVars
    <3>2. \A w \in Revoker : Revoke(w) => used' = used
      BY DEF Revoke
    <3>. QED  BY <2>1, <3>1, <3>2, RowsWritten
  <2>3. /\ used' = used \cup {tx[v].invite} /\ Usable(tx[v].invite)
        /\ v \notin barred /\ audit'[v] = "permitido"
        /\ ParentsLive(guestOf[tx[v].invite])
        /\ CondoOf[v] = CondoOfGuest(guestOf[tx[v].invite])
    BY <2>1, <2>2, ConsumerHolds
  <2>4. tx[v].invite = i
    BY <2>3
  <2>. QED  BY <2>3, <2>4 DEF Usable
<1>2. Spec => []AccessInv
  BY AccessKept
<1>. QED  BY <1>1, <1>2, PTL DEF Spec, EntryIsAuthorized

\* No issuance takes a usable invitation's digits away: only its use or its revocation does.
THEOREM TokensStay == AccessAssumption => (Spec => LiveTokenKept)
<1>. SUFFICES ASSUME AccessAssumption PROVE Spec => LiveTokenKept
  OBVIOUS
<1>. DEFINE Kept == \A i \in Invite :
         Usable(i) /\ token[i] # None /\ token'[i] # token[i] => i \in used' \cup revoked'
<1>1. AccessInv /\ [Next]_vars => [Kept]_vars
  <2>. SUFFICES ASSUME AccessInv, Next, NEW i \in Invite, Usable(i), token'[i] # token[i]
                PROVE  i \in used' \cup revoked'
    OBVIOUS
  <2>0. token \in [Invite -> Token \cup {None}]
    BY DEF AccessInv, Typed
  <2>1. CASE UNCHANGED <<guestOf, token, used>>
    BY <2>1
  <2>2. ASSUME NEW v \in Validator, Consume(v) PROVE i \in used' \cup revoked'
    BY <2>0, <2>2 DEF Consume, Deny, invitationVars
  <2>3. ASSUME NEW s \in Issuer, CheckGuests(s) PROVE FALSE
    <3>1. Reclaimed(s)[i] = token[i]
      BY ReclaimedTyped DEF Tx
    <3>2. token' = token \/ token' = Reclaimed(s)
      BY <2>3 DEF CheckGuests, Rollback, invitationVars
    <3>. QED  BY <3>1, <3>2
  <2>4. ASSUME NEW s \in Issuer, InsertInvitations(s) PROVE FALSE
    BY <2>4, Inserted DEF Rollback, invitationVars
  <2>5. ASSUME NEW w \in Revoker, Revoke(w) PROVE i \in used' \cup revoked'
    BY <2>0, <2>5 DEF Revoke
  <2>. QED  BY <2>1, <2>2, <2>3, <2>4, <2>5, RowsWritten
<1>2. Spec => []AccessInv
  BY AccessKept
<1>. QED  BY <1>1, <1>2, PTL DEF Spec, LiveTokenKept

\* No invitation is committed for a guest, resident or condominium already deleted.
THEOREM ParentsLiveAtIssuance == AccessAssumption => (Spec => IssuedToLiveParents)
<1>. SUFFICES ASSUME AccessAssumption PROVE Spec => IssuedToLiveParents
  OBVIOUS
<1>. DEFINE ToLive == \A i \in Invite : guestOf'[i] # guestOf[i] => ParentsLive(guestOf'[i])
<1>1. AccessInv /\ [Next]_vars => [ToLive]_vars
  <2>. SUFFICES ASSUME AccessInv, Next, NEW i \in Invite, guestOf'[i] # guestOf[i]
                PROVE  ParentsLive(guestOf'[i])
    OBVIOUS
  <2>1. PICK s \in Issuer : InsertInvitations(s) /\ ~Rollback(s)
    <3>1. \A v \in Validator : Consume(v) => guestOf' = guestOf
      BY DEF Consume, Deny, invitationVars
    <3>2. \A s \in Issuer : CheckGuests(s) \/ Rollback(s) => guestOf' = guestOf
      BY DEF CheckGuests, Rollback, invitationVars
    <3>3. \A w \in Revoker : Revoke(w) => guestOf' = guestOf
      BY DEF Revoke
    <3>. QED  BY <3>1, <3>2, <3>3, RowsWritten
  <2>2. guestOf'[i] \in DOMAIN tx[s].alloc
    BY <2>1, Inserted
  <2>3. \A g \in DOMAIN tx[s].alloc : ParentsLive(g)
    BY <2>1, HoldsResident DEF InsertInvitations, At, Tx
  <2>. QED  BY <2>2, <2>3
<1>2. Spec => []AccessInv
  BY AccessKept
<1>. QED  BY <1>1, <1>2, PTL DEF Spec, IssuedToLiveParents

\* No interleaving of batches and limit changes issues a resident more invitations in a civil
\* day than the limit in force when they are committed.
THEOREM LimitsAreKept == AccessAssumption => (Spec => IssuedWithinLimit)
<1>. SUFFICES ASSUME AccessAssumption PROVE Spec => IssuedWithinLimit
  OBVIOUS
<1>. DEFINE Now(r) == {i \in today' : ResidentOf[guestOf'[i]] = r}
            Within == \A r \in Resident :
              LET now == {i \in today' : ResidentOf[guestOf'[i]] = r} IN
              now \ today # {} => WithinLimit(r, Cardinality(now))
<1>1. AccessInv /\ [Next]_vars => [Within]_vars
  <2>. SUFFICES ASSUME AccessInv, Next, NEW r \in Resident, NEW j \in Now(r) \ today
                PROVE  WithinLimit(r, Cardinality(Now(r)))
    OBVIOUS
  <2>0. /\ today \subseteq Invite /\ \A i \in today : Exists(i)
        /\ limit \in [Resident \cup Condo -> Limits]
    BY DEF AccessInv, Typed
  <2>1. PICK s \in Issuer : InsertInvitations(s) /\ ~Rollback(s)
    <3>1. \A v \in Validator : Consume(v) => today' = today
      BY DEF Consume, Deny, invitationVars
    <3>2. \A s \in Issuer : CheckGuests(s) \/ Rollback(s) => today' = today
      BY DEF CheckGuests, Rollback, invitationVars
    <3>3. \A w \in Revoker : Revoke(w) => today' = today
      BY DEF Revoke
    <3>4. today' # today /\ today' # {}
      OBVIOUS
    <3>. QED  BY <3>1, <3>2, <3>3, <3>4, RowsWritten
  <2>. DEFINE batch == DOMAIN tx[s].alloc
              new == today' \ today
  <2>2. /\ s \in Tx /\ tx[s].pc = "insert" /\ TxKnows(s)
    BY <2>1, AccessTypes DEF InsertInvitations, At, Tx
  <2>3. /\ today \subseteq today' /\ today' \subseteq Invite
        /\ \A i \in Invite : Exists(i) => guestOf'[i] = guestOf[i]
        /\ \A i \in new : guestOf'[i] \in batch
        /\ IsFiniteSet(new) /\ IsFiniteSet(batch) /\ Cardinality(new) <= Cardinality(batch)
    BY <2>1, Inserted
  <2>4. \A g \in batch : ResidentOf[g] = tx[s].resident
    BY <2>2, HoldsResident
  <2>5. r = tx[s].resident
    BY <2>3, <2>4
  <2>6. Now(r) = Today(r) \cup new
    BY <2>0, <2>3, <2>4, <2>5 DEF Today
  <2>7. IsFiniteSet(Today(r)) /\ Cardinality(Today(r)) \in Nat
    BY <2>0, FS_Subset, FS_CardinalityType DEF Today, AccessAssumption
  <2>8. Today(r) \cap new = {} /\ Cardinality(new) \in Nat /\ Cardinality(batch) \in Nat
    BY <2>3, FS_CardinalityType DEF Today
  <2>9. Cardinality(Now(r)) = Cardinality(Today(r)) + Cardinality(new)
    <3>1. Cardinality(Today(r) \cup new) =
            Cardinality(Today(r)) + Cardinality(new) - Cardinality(Today(r) \cap new)
      BY <2>3, <2>7, FS_Union
    <3>2. Cardinality(Today(r) \cap new) = 0
      BY <2>8, FS_EmptySet
    <3>. HIDE DEF Now, new
    <3>. QED  BY <2>6, <2>7, <2>8, <3>1, <3>2
  <2>10. WithinLimit(r, Cardinality(Today(r)) + Cardinality(batch))
    BY <2>2, <2>5 DEF TxKnows, IssuerKnows
  <2>11. LimitOf(r) \in Nat \cup {None}
    <3>1. CondoOf[r] \in Condo /\ Limits \subseteq Nat \cup {None}
      BY DEF AccessAssumption
    <3>. QED  BY <2>0, <3>1 DEF LimitOf
  <2>. HIDE DEF Now, batch, new
  <2>. QED  BY <2>3, <2>7, <2>8, <2>9, <2>10, <2>11 DEF WithinLimit
<1>2. Spec => []AccessInv
  BY AccessKept
<1>. QED  BY <1>1, <1>2, PTL DEF Spec, IssuedWithinLimit
=============================================================================
