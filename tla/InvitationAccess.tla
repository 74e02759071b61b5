-------------------------- MODULE InvitationAccess --------------------------
(***************************************************************************)
(* Issuing, validating and revoking invitations against one PostgreSQL     *)
(* database (src/convites.ts), with the soft deletes of their parents      *)
(* (src/app.ts, src/convidados.ts) and the revocation of credentials.      *)
(*                                                                         *)
(* Every statement is a step.  Transactions run at READ COMMITTED: a       *)
(* statement picks its rows from a snapshot, waits for their locks, and    *)
(* re-checks its WHERE clause on what it then finds; locks are held, and   *)
(* writes are seen by nobody, until commit.  The rows a transaction waits  *)
(* for next are its "need", taken in order.  A cycle of waits is broken by *)
(* the database, which aborts one of the transactions.                     *)
(***************************************************************************)
EXTENDS Sequences, FiniteSets, Naturals

CONSTANTS
    Condo,          \* condominiums
    Resident,       \* residents
    Guest,          \* guests
    ById,           \* [SUBSET Guest -> Seq(Guest)]: ORDER BY id of some guests
    Invite,         \* bound: the invitations there can ever be
    Token,          \* six-digit tokens, told apart by their digests
    ResidentOf,     \* [Guest -> Resident]
    CondoOf,        \* [Resident \cup Device \cup Human -> Condo]
    Device,         \* requests validating with a device API key, one at a time each
    Human,          \* requests validating as a gatekeeper's session
    Issuer,         \* requests issuing a batch of invitations
    Revoker,        \* requests revoking an invitation
    Limits,         \* the daily limits an administrator may set, NULL among them
    Scenarios,      \* bound: what takes part in an execution, one of these records
    None            \* NULL

Validator == Device \cup Human
Tx == Validator \cup Issuer \cup Revoker
\* The lockable rows; a validator's own row is its device, or its account and membership.
Row == Invite \cup Guest \cup Resident \cup Condo \cup Validator

ASSUME AccessAssumption ==
    /\ ResidentOf \in [Guest -> Resident]
    /\ CondoOf \in [Resident \cup Validator -> Condo]
    /\ Limits \subseteq Nat \cup {None} /\ None \in Limits
    /\ Scenarios \subseteq [guests : SUBSET Guest, invites : SUBSET Invite, tokens : SUBSET Token,
                            requests : SUBSET Tx, limits : SUBSET Limits]
    /\ None \notin Row \cup Tx \cup Token \cup Nat
    /\ IsFiniteSet(Invite) /\ IsFiniteSet(Guest)
    /\ \A S \in SUBSET Guest : /\ ById[S] \in Seq(Guest)
                               /\ {ById[S][k] : k \in DOMAIN ById[S]} = S
    \* One order for every set of guests.
    /\ \A S, T \in SUBSET Guest : \A k, l \in DOMAIN ById[S], m, n \in DOMAIN ById[T] :
         k < l /\ ById[S][k] = ById[T][m] /\ ById[S][l] = ById[T][n] => m < n

VARIABLES
    scenario,   \* the guests, invitations, tokens, requests and limits of this execution
    guestOf,    \* [Invite -> Guest \cup {None}]: None while the row does not exist
    token,      \* [Invite -> Token \cup {None}]: tokenDigest
    used,       \* invitations with usedAt
    revoked,    \* invitations with revokedAt
    expired,    \* invitations whose expiresAt has passed
    today,      \* invitations created in the current civil day
    deleted,    \* guests, residents and condominiums with deletedAt
    barred,     \* validators whose device or membership was revoked
    limit,      \* [Resident \cup Condo -> Limits]: dailyInvitationLimit
    lock,       \* [Row -> Tx \cup {None}]: row locks
    tx,         \* [Tx -> record]: where each transaction is and what it holds in memory
    audit,      \* [Validator -> verdict of its last audited validation]
    entries     \* [Invite -> Nat]: permitted entries audited and notified

invitationVars == <<guestOf, token, used, revoked, expired, today>>
registryVars == <<deleted, barred, limit, scenario>>
vars == <<guestOf, token, used, revoked, expired, today, deleted, barred, limit,
          scenario, lock, tx, audit, entries>>

Idle == [pc |-> "idle", need |-> <<>>, token |-> None, invite |-> None,
         todo |-> {}, alloc |-> <<>>, resident |-> None, reclaim |-> {}]

CondoOfGuest(g) == CondoOf[ResidentOf[g]]
Parents(g) == <<g, ResidentOf[g], CondoOfGuest(g)>>
ParentsLive(g) == {g, ResidentOf[g], CondoOfGuest(g)} \cap deleted = {}
Exists(i) == guestOf[i] # None
Unborn == {i \in scenario.invites : ~Exists(i)}
\* The residents and condominiums of the guests that take part.
Registry == UNION {{ResidentOf[g], CondoOfGuest(g)} : g \in scenario.guests}
\* The conditions every use of an invitation repeats.
Usable(i) == Exists(i) /\ i \notin used \cup revoked \cup expired
\* Mutant: any invitation gives its digest up.
ReclaimableAlways(i) == Exists(i)
\* An invitation that no longer owns its digest.
Reclaimable(i) == i \in used \cup revoked \cup expired
Today(r) == {i \in today : ResidentOf[guestOf[i]] = r}
\* A resident's own limit, or else the condominium's; None: no limit.
LimitOf(r) == IF limit[r] # None THEN limit[r] ELSE limit[CondoOf[r]]
WithinLimit(r, n) == LimitOf(r) = None \/ n <= LimitOf(r)

Init ==
    /\ scenario \in Scenarios
    /\ guestOf = [i \in Invite |-> None]
    /\ token = [i \in Invite |-> None]
    /\ used = {} /\ revoked = {} /\ expired = {} /\ today = {}
    /\ deleted = {} /\ barred = {}
    /\ limit \in {n \in [Resident \cup Condo -> Limits] : \A x \in DOMAIN n :
                    n[x] \in IF x \in Registry THEN scenario.limits ELSE {None}}
    /\ lock = [x \in Row |-> None]
    /\ tx = [t \in Tx |-> Idle]
    /\ audit = [v \in Validator |-> "none"]
    /\ entries = [i \in Invite |-> 0]

-----------------------------------------------------------------------------
(* Transactions and their locks.                                           *)

Free(x, t) == lock[x] \in {None, t}
Held(t) == {x \in Row : lock[x] = t}
At(t, pc) == tx[t].pc = pc /\ tx[t].need = <<>>

\* The next row a statement locks becomes free.
Acquire(t) ==
    /\ tx[t].need # <<>> /\ Free(Head(tx[t].need), t)
    /\ lock' = [lock EXCEPT ![Head(tx[t].need)] = t]
    /\ tx' = [tx EXCEPT ![t].need = Tail(@)]
    /\ UNCHANGED <<invitationVars, registryVars, audit, entries>>

\* Commit or rollback: the locks are released.
End(t) ==
    /\ lock' = [x \in Row |-> IF lock[x] = t THEN None ELSE lock[x]]
    /\ tx' = [tx EXCEPT ![t] = Idle]

\* The database aborts a transaction on a cycle of waits.
Blocked(t) == tx[t].need # <<>> /\ ~Free(Head(tx[t].need), t)
WaitsWithin(S) == \A t \in S : Blocked(t) /\ lock[Head(tx[t].need)] \in S
DeadlockVictim(t) ==
    /\ \E S \in SUBSET {u \in Tx : Blocked(u)} :
         /\ t \in S /\ WaitsWithin(S)
         /\ \A R \in SUBSET S : R # {} /\ WaitsWithin(R) => R = S
    /\ End(t)
    /\ UNCHANGED <<invitationVars, registryVars, audit, entries>>

-----------------------------------------------------------------------------
(* validateAccess.                                                         *)

\* Mutant: a denial returns and leaves its transaction open.
DenyUnended(v) ==
    /\ audit' = [audit EXCEPT ![v] = "negado"]
    /\ tx' = [tx EXCEPT ![v] = Idle]
    /\ UNCHANGED <<invitationVars, registryVars, lock, entries>>

\* A denial commits, with an audit row.
Deny(v) ==
    /\ audit' = [audit EXCEPT ![v] = "negado"]
    /\ End(v)
    /\ UNCHANGED <<invitationVars, registryVars, entries>>

BeginValidation(v, t) ==
    /\ tx[v].pc = "idle"
    /\ tx' = [tx EXCEPT ![v] = [Idle EXCEPT !.pc = "credential", !.need = <<v>>, !.token = t]]
    /\ audit' = [audit EXCEPT ![v] = "none"]
    /\ UNCHANGED <<invitationVars, registryVars, lock, entries>>

\* The device, or account and membership, is locked and found active, or not: a device
\* that is not, or whose condominium is gone, is turned away without an audit.  A human
\* locks the condominium next.
CheckCredential(v) ==
    /\ At(v, "credential")
    /\ CASE v \in Device /\ (v \in barred \/ CondoOf[v] \in deleted) ->
              End(v) /\ UNCHANGED <<invitationVars, registryVars, audit, entries>>
         [] v \in Human /\ v \in barred -> Deny(v)
         [] OTHER ->
              /\ tx' = [tx EXCEPT ![v].pc = "tenant",
                                  ![v].need = IF v \in Human THEN <<CondoOf[v]>> ELSE <<>>]
              /\ UNCHANGED <<invitationVars, registryVars, lock, audit, entries>>

\* Mutant: the lookup by digest forgets the tenant.
CandidatesAnywhere(v) == {i \in Invite : Exists(i) /\ token[i] = tx[v].token}

\* The lookup by digest and tenant.
Candidates(v) == {i \in Invite : /\ Exists(i) /\ token[i] = tx[v].token
                                 /\ CondoOfGuest(guestOf[i]) = CondoOf[v]}

\* A human's condominium is locked and live, the token well formed: the candidate is
\* looked up.
FindCandidate(v) ==
    /\ At(v, "tenant")
    /\ IF (v \in Human /\ CondoOf[v] \in deleted) \/ tx[v].token = None \/ Candidates(v) = {}
       THEN Deny(v)
       ELSE \E i \in Candidates(v) :
              /\ tx' = [tx EXCEPT ![v].pc = "candidate", ![v].need = <<i>>,
                                  ![v].invite = i]
              /\ UNCHANGED <<invitationVars, registryVars, lock, audit, entries>>

\* Mutant: the second SELECT does not lock the parents.
JoinLocksNone(i) == <<>>

\* The rows the second SELECT locks with the candidate.
JoinLocks(i) == Parents(guestOf[i])

\* The candidate is locked; it still holds the token, and every condition holds in
\* the snapshot of the second SELECT.
CheckCandidate(v) ==
    /\ At(v, "candidate")
    /\ LET i == tx[v].invite IN
       IF token[i] = tx[v].token /\ Usable(i) /\ ParentsLive(guestOf[i])
       THEN /\ tx' = [tx EXCEPT ![v].pc = "join", ![v].need = JoinLocks(i)]
            /\ UNCHANGED <<invitationVars, registryVars, lock, audit, entries>>
       ELSE Deny(v)

\* Re-check after the waits for the parents' locks.
CheckJoin(v) ==
    /\ At(v, "join")
    /\ IF Usable(tx[v].invite) /\ ParentsLive(guestOf[tx[v].invite])
       THEN /\ tx' = [tx EXCEPT ![v].pc = "consume"]
            /\ UNCHANGED <<invitationVars, registryVars, lock, audit, entries>>
       ELSE Deny(v)

\* The consuming UPDATE, the guest's ultimoUsoEm, the audit and the notification,
\* committed together.
Consume(v) ==
    /\ At(v, "consume")
    /\ LET i == tx[v].invite IN
       IF token[i] = tx[v].token /\ Usable(i)
       THEN /\ used' = used \cup {i}
            /\ token' = [token EXCEPT ![i] = None]
            /\ entries' = [entries EXCEPT ![i] = @ + 1]
            /\ audit' = [audit EXCEPT ![v] = "permitido"]
            /\ End(v)
            /\ UNCHANGED <<guestOf, revoked, expired, today, registryVars>>
       ELSE Deny(v)

-----------------------------------------------------------------------------
(* persistBatch.                                                           *)

Rollback(s) == End(s) /\ UNCHANGED <<invitationVars, registryVars, audit, entries>>

\* Bound: a batch begins only while there are rows left for every open one.
RowsLeft(batch) ==
    Cardinality(Unborn) >=
        Cardinality(batch) + Cardinality({q \in Issuer \X Guest :
                                            q[2] \in DOMAIN tx[q[1]].alloc})

\* One batch for one resident: a token is drawn for each guest.
BeginIssue(s, r, alloc) ==
    /\ tx[s].pc = "idle"
    /\ RowsLeft(DOMAIN alloc)
    /\ tx' = [tx EXCEPT ![s] = [Idle EXCEPT !.pc = "reclaim", !.todo = DOMAIN alloc,
                                           !.alloc = alloc, !.resident = r]]
    /\ UNCHANGED <<invitationVars, registryVars, lock, audit, entries>>

\* The UPDATE that frees the digest drawn for one guest from a terminal invitation.
ReclaimDigest(s, g) ==
    /\ At(s, "reclaim") /\ g \in tx[s].todo
    /\ LET owner == {i \in Invite : token[i] = tx[s].alloc[g] /\ Reclaimable(i)} IN
       tx' = [tx EXCEPT ![s].todo = @ \ {g},
                        ![s].reclaim = @ \cup owner,
                        ![s].need = IF owner = {} THEN <<>>
                                    ELSE <<CHOOSE i \in owner : TRUE>>]
    /\ UNCHANGED <<invitationVars, registryVars, lock, audit, entries>>

\* A guest of the batch the SELECT finds: the resident's own, with every parent live.
Issuable(s, g) == g \in DOMAIN tx[s].alloc /\ ResidentOf[g] = tx[s].resident /\ ParentsLive(g)

\* Mutant: FOR UPDATE OF convidado alone.
GuestLocksOnly(s) == ById[{g \in Guest : Issuable(s, g)}]

\* FOR UPDATE OF convidado, morador, condominio ORDER BY convidado.id: the first guest
\* brings the resident and the condominium with it, then come the other guests.
GuestLocks(s) ==
    LET guests == ById[{g \in Guest : Issuable(s, g)}] IN
    IF guests = <<>> THEN <<>> ELSE Parents(Head(guests)) \o Tail(guests)

SelectGuests(s) ==
    /\ At(s, "reclaim") /\ tx[s].todo = {}
    /\ tx' = [tx EXCEPT ![s].pc = "guests", ![s].need = GuestLocks(s)]
    /\ UNCHANGED <<invitationVars, registryVars, lock, audit, entries>>

\* What the commit leaves of the digests it reclaimed; one that lost its token while
\* the UPDATE waited for it no longer matches.
Reclaimed(s) ==
    LET drawn == {tx[s].alloc[g] : g \in DOMAIN tx[s].alloc} IN
    [i \in Invite |-> IF i \in tx[s].reclaim /\ token[i] \in drawn THEN None ELSE token[i]]

\* The guests found are locked and checked again.  One missing ends the request with a
\* 404 whose reclaimed digests commit; an invalid time zone, an expiry that passed while
\* waiting, or the daily limit, rolls everything back.
CheckGuests(s) ==
    /\ At(s, "guests")
    /\ LET batch == DOMAIN tx[s].alloc
           r == tx[s].resident IN
       CASE \E g \in batch : ~Issuable(s, g) ->
              /\ token' = Reclaimed(s)
              /\ End(s)
              /\ UNCHANGED <<guestOf, used, revoked, expired, today, registryVars,
                             audit, entries>>
         [] /\ \A g \in batch : Issuable(s, g)
            /\ ~WithinLimit(r, Cardinality(Today(r)) + Cardinality(batch)) -> Rollback(s)
         [] OTHER ->
              \/ Rollback(s)
              \/ /\ tx' = [tx EXCEPT ![s].pc = "insert"]
                 /\ UNCHANGED <<invitationVars, registryVars, lock, audit, entries>>

\* The INSERTs and the commit: a digest some other invitation owns, or drawn twice in
\* the batch, violates the unique index, and the caller draws again.
InsertInvitations(s) ==
    /\ At(s, "insert")
    /\ LET alloc == tx[s].alloc
           batch == DOMAIN alloc
           collision ==
               \/ \E g \in batch, i \in Invite : Reclaimed(s)[i] = alloc[g]
               \/ \E g, h \in batch : g # h /\ alloc[g] = alloc[h] IN
       IF collision
       THEN Rollback(s)
       ELSE \E place \in [batch -> Unborn] :
              /\ \A g, h \in batch : place[g] = place[h] => g = h
              /\ guestOf' = [i \in Invite |->
                    IF \E g \in batch : place[g] = i
                    THEN CHOOSE g \in batch : place[g] = i ELSE guestOf[i]]
              /\ token' = [i \in Invite |->
                    IF \E g \in batch : place[g] = i
                    THEN alloc[CHOOSE g \in batch : place[g] = i] ELSE Reclaimed(s)[i]]
              /\ today' = today \cup {place[g] : g \in batch}
              /\ End(s)
              /\ UNCHANGED <<used, revoked, expired, registryVars, audit, entries>>

-----------------------------------------------------------------------------
(* revokeActive, and what else touches the rows.                           *)

\* The UPDATE of an invitation found revocable, its parents live in the snapshot.
BeginRevoke(w, i) ==
    /\ tx[w].pc = "idle"
    /\ Usable(i) /\ ParentsLive(guestOf[i])
    /\ tx' = [tx EXCEPT ![w] = [Idle EXCEPT !.pc = "revoke", !.need = <<i>>, !.invite = i]]
    /\ UNCHANGED <<invitationVars, registryVars, lock, audit, entries>>

\* Mutant: the revoking UPDATE does not check usedAt again.
RevokeBlindly(w) ==
    /\ At(w, "revoke")
    /\ revoked' = revoked \cup {tx[w].invite}
    /\ token' = [token EXCEPT ![tx[w].invite] = None]
    /\ End(w)
    /\ UNCHANGED <<guestOf, used, expired, today, registryVars, audit, entries>>

\* Its lock is free: the invitation's own conditions are checked again.
Revoke(w) ==
    /\ At(w, "revoke")
    /\ LET i == tx[w].invite IN
       /\ revoked' = IF Usable(i) THEN revoked \cup {i} ELSE revoked
       /\ token' = IF Usable(i) THEN [token EXCEPT ![i] = None] ELSE token
    /\ End(w)
    /\ UNCHANGED <<guestOf, used, expired, today, registryVars, audit, entries>>

\* The soft deletes of a guest, a resident and a condominium: one UPDATE each, which
\* waits for the row's lock; a child's delete needs its parents live.
DeleteGuest(g) ==
    /\ lock[g] = None /\ ParentsLive(g)
    /\ deleted' = deleted \cup {g}
    /\ UNCHANGED <<invitationVars, barred, limit, scenario, lock, tx, audit, entries>>

DeleteResident(r) ==
    /\ lock[r] = None /\ {r, CondoOf[r]} \cap deleted = {}
    /\ deleted' = deleted \cup {r}
    /\ UNCHANGED <<invitationVars, barred, limit, scenario, lock, tx, audit, entries>>

DeleteCondominium(c) ==
    /\ lock[c] = None /\ c \notin deleted
    /\ deleted' = deleted \cup {c}
    /\ UNCHANGED <<invitationVars, barred, limit, scenario, lock, tx, audit, entries>>

\* The daily limit of a resident or of a condominium.
SetDailyLimit(x, n) ==
    /\ lock[x] = None /\ limit[x] # n
    /\ x \notin deleted /\ (x \in Resident => CondoOf[x] \notin deleted)
    /\ limit' = [limit EXCEPT ![x] = n]
    /\ UNCHANGED <<invitationVars, deleted, barred, scenario, lock, tx, audit, entries>>

\* A device, or a gatekeeper's account or membership, is revoked.
RevokeCredential(v) ==
    /\ lock[v] = None /\ v \notin barred
    /\ barred' = barred \cup {v}
    /\ UNCHANGED <<invitationVars, deleted, limit, scenario, lock, tx, audit, entries>>

\* expiresAt passes, whatever is locked.
Expire(i) ==
    /\ Exists(i) /\ i \notin expired
    /\ expired' = expired \cup {i}
    /\ UNCHANGED <<guestOf, token, used, revoked, today, registryVars, lock, tx,
                   audit, entries>>

\* Midnight in the condominium's time zone.  A batch is counted and dated at one instant,
\* issuanceTime, so midnight falls before its count or after its insertion.
NewDay ==
    /\ \A s \in Issuer : tx[s].pc # "insert"
    /\ today' = {}
    /\ UNCHANGED <<guestOf, token, used, revoked, expired, registryVars, lock, tx,
                   audit, entries>>

-----------------------------------------------------------------------------
Allocations == UNION {[batch -> scenario.tokens] : batch \in (SUBSET scenario.guests) \ {{}}}

Next ==
    \/ \E t \in Tx : Acquire(t) \/ DeadlockVictim(t)
    \/ \E v \in Validator \cap scenario.requests :
         \/ \E k \in scenario.tokens \cup {None} : BeginValidation(v, k)
         \/ CheckCredential(v) \/ FindCandidate(v) \/ CheckCandidate(v)
         \/ CheckJoin(v) \/ Consume(v) \/ RevokeCredential(v)
    \/ \E s \in Issuer \cap scenario.requests :
         \/ \E r \in Resident \cap Registry, alloc \in Allocations : BeginIssue(s, r, alloc)
         \/ \E g \in scenario.guests : ReclaimDigest(s, g)
         \/ SelectGuests(s) \/ CheckGuests(s) \/ InsertInvitations(s)
    \/ \E w \in Revoker \cap scenario.requests :
         Revoke(w) \/ \E i \in scenario.invites : BeginRevoke(w, i)
    \/ \E g \in scenario.guests : DeleteGuest(g)
    \/ \E r \in Resident \cap Registry : DeleteResident(r)
    \/ \E x \in Registry, n \in scenario.limits : SetDailyLimit(x, n)
    \/ \E c \in Condo \cap Registry : DeleteCondominium(c)
    \/ \E i \in scenario.invites : Expire(i)
    \/ NewDay

Spec == Init /\ [][Next]_vars

-----------------------------------------------------------------------------
(* What invitations guarantee.                                             *)

Pcs == {"idle", "credential", "tenant", "candidate", "join", "consume",
        "reclaim", "guests", "insert", "revoke"}

\* Every variable stays within its type; only open transactions hold locks.
TypeOK ==
    /\ scenario \in Scenarios
    /\ guestOf \in [Invite -> Guest \cup {None}]
    /\ token \in [Invite -> Token \cup {None}]
    /\ used \subseteq Invite /\ revoked \subseteq Invite
    /\ expired \subseteq Invite /\ today \subseteq Invite
    /\ deleted \subseteq Guest \cup Resident \cup Condo
    /\ barred \subseteq Validator
    /\ limit \in [Resident \cup Condo -> Limits]
    /\ lock \in [Row -> Tx \cup {None}]
    /\ \A t \in Tx : tx[t].pc \in Pcs /\ (tx[t].pc = "idle" => Held(t) = {})
    /\ audit \in [Validator -> {"none", "negado", "permitido"}]
    /\ entries \in [Invite -> Nat]

\* An invitation opens the gate at most once, however many devices and gatekeepers
\* present its token at the same time, and is then used and never also revoked.
OneEntryPerInvitation ==
    \A i \in Invite : /\ entries[i] <= 1
                      /\ (entries[i] = 1) <=> (i \in used)
                      /\ i \notin used \cap revoked

\* The gate opens only for an invitation that is at that instant neither expired nor
\* revoked, whose guest, resident and condominium are not deleted, presented by a
\* credential of the same condominium that is not revoked.
EntryIsAuthorized ==
    [][\A i \in used' \ used :
         /\ i \notin expired \cup revoked
         /\ ParentsLive(guestOf[i])
         /\ \E v \in Validator \ barred :
              /\ tx[v].invite = i /\ audit'[v] = "permitido"
              /\ CondoOf[v] = CondoOfGuest(guestOf[i])]_vars

\* The token handed to a guest keeps opening the gate until the invitation is used,
\* revoked or expires: no issuance that draws the same six digits takes it away.
LiveTokenKept ==
    [][\A i \in Invite :
         Usable(i) /\ token[i] # None /\ token'[i] # token[i] => i \in used' \cup revoked']_vars

\* No interleaving of batches and limit changes issues a resident more invitations in
\* a civil day than the limit in force when they are committed.
IssuedWithinLimit ==
    [][\A r \in Resident :
         LET now == {i \in today' : ResidentOf[guestOf'[i]] = r} IN
         now \ today # {} => WithinLimit(r, Cardinality(now))]_vars

\* No invitation is committed for a guest, resident or condominium already deleted.
IssuedToLiveParents ==
    [][\A i \in Invite : guestOf'[i] # guestOf[i] => ParentsLive(guestOf'[i])]_vars
=============================================================================
