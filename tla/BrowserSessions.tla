-------------------------- MODULE BrowserSessions --------------------------
(* Browser sessions of human accounts (src/sessions.ts, src/browser-auth.ts)
   against the administration that bars them (src/human-administration.ts and
   the condominium trigger), on one PostgreSQL database.

   A transaction takes its row locks one at a time ("need"); a statement picks
   its rows from what is committed when it begins and re-checks them once it
   holds their locks. What it writes is seen by nobody before the commit, so the
   writes are applied there. A cycle of waits is broken by the database. *)
EXTENDS Naturals, Sequences, FiniteSets, Functions

CONSTANTS
    Account, Membership, Condo,
    AccountId,      \* [Account -> Nat]: the order of the accounts' ids
    AccountOf,      \* [Membership -> Account]
    CondoOf,        \* [Membership -> Condo \cup {None}]: None for a provider
    Proc,           \* requests served at the same time
    Scenarios,      \* bound: what takes part in an execution, one of these records
    MaxRequests,    \* bound on the requests received, and so on the sessions
    MaxHandoffs,    \* bound on the completed logins at the identity provider
    None            \* NULL

Kinds == {"issue", "rotate", "reauth", "logout", "logoutAll", "touch",
          "member", "disable", "suspended", "disabled", "close"}

ASSUME SessionAssumption ==
    /\ AccountId \in [Account -> Nat]
    /\ AccountOf \in [Membership -> Account]
    /\ CondoOf \in [Membership -> Condo \cup {None}]
    /\ Scenarios \subseteq
         [accounts : SUBSET Account, founding : SUBSET Membership, requests : SUBSET Kinds,
          handoffs : 0..MaxHandoffs, served : 0..MaxRequests]
    /\ MaxRequests \in Nat /\ MaxHandoffs \in Nat
    /\ IsFiniteSet(Proc) /\ IsFiniteSet(Membership)
    /\ None \notin Account \cup Membership \cup Condo \cup Proc \cup Kinds

VARIABLES
    scenario,   \* the accounts, first active memberships, kinds of request and numbers of
                \* logins and requests of this execution
    sessions,   \* Seq of rows: family, account, membership, version, auth, kind, from, idle, state
    intents,    \* Seq of rows: account, family, state: reauthentications asked for
    handoffs,   \* Seq of rows: account, auth, kind, intent, state
    status,     \* [Account -> {"active", "suspended", "disabled"}]
    version,    \* [Account -> Nat]: sessionVersion
    updated,    \* [Account -> Nat]: updatedAt
    membership, \* [Membership -> {"none", "active", "disabled"}]
    closed,     \* condominiums with deletedAt
    over,       \* families whose absolute lifetime has passed
    time,       \* the clock that orders authentications and account updates
    tx,         \* [Proc -> record]: the transaction of each request
    owned,      \* [Row -> Proc \cup {None}]: exclusive row locks
    shared,     \* [Row -> SUBSET Proc]: FOR SHARE row locks
    left,       \* families a logout was answered for, and what it found of its token
    requests    \* requests received so far

data == <<sessions, intents, handoffs, status, version, updated, membership, closed, over, left>>
vars == <<data, time, tx, owned, shared, requests, scenario>>

Ids == 1..Len(sessions)
SessionRow(s) == <<"session", s>>
HandoffRow(h) == <<"handoff", h>>
Row == Account \cup Membership \cup Condo
         \cup {SessionRow(s) : s \in 1..MaxRequests} \cup {HandoffRow(h) : h \in 1..MaxHandoffs}

Idle == [pc |-> "idle", op |-> None, need |-> <<>>, session |-> 0, handoff |-> 0,
         intent |-> 0, target |-> None, revoke |-> {}, members |-> {}, at |-> 0]

Init ==
    /\ scenario \in Scenarios
    /\ sessions = <<>> /\ intents = <<>> /\ handoffs = <<>>
    /\ status = [a \in Account |-> "active"]
    /\ version = [a \in Account |-> 0] /\ updated = [a \in Account |-> 0]
    /\ membership = [m \in Membership |-> IF m \in scenario.founding THEN "active" ELSE "none"]
    /\ closed = {} /\ over = {} /\ left = {} /\ time = 1
    /\ tx = [p \in Proc |-> Idle]
    /\ owned = [x \in Row |-> None] /\ shared = [x \in Row |-> {}]
    /\ requests = 0

-----------------------------------------------------------------------------
(* What the rows say. *)

Unrevoked == {s \in Ids : sessions[s].state = "live"}
Family(f) == {s \in Unrevoked : sessions[s].family = f}
OfAccount(a) == {s \in Unrevoked : sessions[s].account = a}
OfMembership(m) == {s \in Unrevoked : sessions[s].membership = m}
OfCondo(c) == {s \in Unrevoked : CondoOf[sessions[s].membership] = c}

ScopeLive(m) == CondoOf[m] \notin closed
Authorizes(m) == membership[m] = "active" /\ ScopeLive(m)

\* sessionDenialReason finds nothing.
Live(s) ==
    LET row == sessions[s] IN
    /\ row.state = "live" /\ row.idle = "fresh" /\ row.family \notin over
    /\ status[row.account] = "active" /\ row.version = version[row.account]
    /\ Authorizes(row.membership)

-----------------------------------------------------------------------------
(* Transactions and their locks. *)

Share(x) == <<x, "share">>
Update(x) == <<x, "update">>
\* Rows a multi-row statement locks, in whatever order its plan meets them.
Listings(S) == {q \in [1..Cardinality(S) -> S] : Range(q) = S}
Orders(S) == {[k \in DOMAIN q |-> Update(SessionRow(q[k]))] : q \in Listings(S)}

Blockers(p, lock) ==
    LET holders == IF owned[lock[1]] = None THEN {} ELSE {owned[lock[1]]}
        readers == IF lock[2] = "update" THEN shared[lock[1]] ELSE {}
    IN (holders \cup readers) \ {p}

Waiting(p) == tx[p].need # <<>>
At(p, pc) == tx[p].pc = pc /\ ~Waiting(p)

Acquire(p) ==
    /\ Waiting(p) /\ Blockers(p, Head(tx[p].need)) = {}
    /\ LET x == Head(tx[p].need)[1] IN
       IF Head(tx[p].need)[2] = "update"
       THEN owned' = [owned EXCEPT ![x] = p] /\ UNCHANGED shared
       ELSE shared' = [shared EXCEPT ![x] = @ \cup {p}] /\ UNCHANGED owned
    /\ tx' = [tx EXCEPT ![p].need = Tail(@)]
    /\ UNCHANGED <<data, time, requests, scenario>>

\* COMMIT or ROLLBACK: the locks are released.
End(p) ==
    /\ tx' = [tx EXCEPT ![p] = Idle]
    /\ owned' = [x \in Row |-> IF owned[x] = p THEN None ELSE owned[x]]
    /\ shared' = [x \in Row |-> shared[x] \ {p}]

\* The transaction goes on to its next statement.
Continue(p, record) ==
    /\ tx' = [tx EXCEPT ![p] = record]
    /\ UNCHANGED <<data, owned, shared, requests, scenario>>

Begin(p, op, record) ==
    /\ op \in scenario.requests /\ tx[p].pc = "idle" /\ requests < scenario.served
    /\ requests' = requests + 1
    /\ tx' = [tx EXCEPT ![p] = record]
    /\ UNCHANGED <<data, time, owned, shared, scenario>>

\* The connection is lost and the database rolls back.
Abort(p) ==
    /\ tx[p].pc # "idle"
    /\ End(p) /\ UNCHANGED <<data, time, requests, scenario>>

\* The database aborts a transaction on a cycle of waits.
WaitsWithin(S) ==
    \A p \in S : Waiting(p) /\ Blockers(p, Head(tx[p].need)) \cap S # {}
DeadlockVictim(p) ==
    /\ \E S \in SUBSET {q \in Proc : Waiting(q)} :
         /\ p \in S /\ WaitsWithin(S)
         /\ \A R \in SUBSET S : R # {} /\ WaitsWithin(R) => R = S
    /\ End(p) /\ UNCHANGED <<data, time, requests, scenario>>

-----------------------------------------------------------------------------
(* Writes, applied at the commit. *)

\* The rows the statement found unrevoked, once locked, are revoked.
Revoked(p, S) ==
    [s \in Ids |-> IF s \in S THEN [sessions[s] EXCEPT !.state = "revoked"] ELSE sessions[s]]

\* insertSession, in an existing family or in one of its own; "from" is the handoff it
\* was issued for, if it was.
Insert(rows, family, m, v, login, from) ==
    Append(rows, [family |-> IF family = 0 THEN Len(rows) + 1 ELSE family,
                  account |-> AccountOf[m], membership |-> m, version |-> v,
                  auth |-> login.auth, kind |-> login.kind, from |-> from,
                  idle |-> "fresh", state |-> "live"])

Consumed(h) == [handoffs EXCEPT ![h].state = "consumed"]

-----------------------------------------------------------------------------
(* issueFromHandoff. *)

\* The identity provider's callback leaves a validated handoff (src/oidc.ts), for a
\* login, a recovery, or a reauthentication that was started, at which anybody may have
\* logged in. It locks the active account; the authentication may be as old as the
\* account's last update.
Callback(a, kind, i, auth) ==
    /\ Len(handoffs) < scenario.handoffs
    /\ status[a] = "active" /\ owned[a] = None
    /\ kind = "reauth" <=> i # 0
    /\ i # 0 => intents[i].state = "started"
    /\ auth = time \/ (version[a] > 0 /\ auth = updated[a])
    /\ handoffs' = Append(handoffs, [account |-> a, auth |-> auth, kind |-> kind,
                                     intent |-> i, state |-> "fresh"])
    /\ intents' = IF i = 0 THEN intents ELSE [intents EXCEPT ![i].state = "answered"]
    /\ UNCHANGED <<sessions, status, version, updated, membership, closed, over, left,
                   time, tx, owned, shared, requests, scenario>>

BeginIssue(p, h, old) ==
    Begin(p, "issue", [Idle EXCEPT !.pc = "handoff", !.op = "issue", !.handoff = h,
                       !.session = old, !.need = <<Update(HandoffRow(h))>>])

\* Mutant: a denial returns and leaves its transaction open.
DenyUnended(p) ==
    /\ handoffs' = Consumed(tx[p].handoff)
    /\ tx' = [tx EXCEPT ![p] = Idle]
    /\ UNCHANGED <<owned, shared, sessions, intents, status, version, updated, membership, closed,
                   over, left, time, requests, scenario>>

\* A denial commits: the handoff is spent.
Deny(p) ==
    /\ handoffs' = Consumed(tx[p].handoff)
    /\ End(p)
    /\ UNCHANGED <<sessions, intents, status, version, updated, membership, closed, over, left,
                   time, requests, scenario>>

Reauth(p) == handoffs[tx[p].handoff].kind = "reauth"
Recovery(p) == handoffs[tx[p].handoff].kind = "recovery"
AccountIn(p) == handoffs[tx[p].handoff].account

\* Mutant: a spent handoff is not looked at.
HandoffNever(p) == FALSE
HandoffSpent(p) == handoffs[tx[p].handoff].state = "consumed"

\* Mutant: the accounts are read without a lock.
AccountsUnlocked(a, b) == <<>>
\* The accounts of the handoff and of the presented session, in the order of their ids.
AccountLocks(a, b) ==
    IF a = b THEN <<Update(a)>>
    ELSE IF AccountId[a] < AccountId[b] THEN <<Update(a), Update(b)>>
    ELSE <<Update(b), Update(a)>>

ConsumeHandoff(p) ==
    /\ At(p, "handoff")
    /\ IF HandoffSpent(p)
       THEN End(p) /\ UNCHANGED <<data, time, requests, scenario>>
       ELSE LET old == IF tx[p].session = 0 THEN AccountIn(p) ELSE sessions[tx[p].session].account
            IN /\ Continue(p, [tx[p] EXCEPT !.pc = "account",
                                            !.need = AccountLocks(AccountIn(p), old)])
               /\ UNCHANGED time

\* Mutant: only a suspended or disabled account is refused.
RefuseInactive(p) == status[AccountIn(p)] # "active"
\* The account is not active, or was updated after the authentication.
Refused(p) ==
    \/ status[AccountIn(p)] # "active"
    \/ version[AccountIn(p)] > 0 /\ handoffs[tx[p].handoff].auth <= updated[AccountIn(p)]

\* The memberships the next statement locks: the presented session's own, or all the live ones.
Eligible(p) ==
    IF Reauth(p)
    THEN {m \in Membership : /\ tx[p].session # 0
                             /\ m = sessions[tx[p].session].membership
                             /\ AccountOf[m] = AccountIn(p) /\ Authorizes(m)}
    ELSE {m \in Membership : AccountOf[m] = AccountIn(p) /\ Authorizes(m)}

CheckAccount(p) ==
    /\ At(p, "account") /\ tx[p].op = "issue"
    /\ IF Refused(p)
       THEN Deny(p)
       ELSE \E q \in Listings(Eligible(p)) :
              /\ Continue(p, [tx[p] EXCEPT !.pc = "membership", !.members = Eligible(p),
                                           !.need = [k \in DOMAIN q |-> Share(q[k])]])
              /\ UNCHANGED time

\* Mutant: the condominium is read without a lock.
ScopeUnlocked(m) == <<>>
\* The condominium of the membership is share-locked.
ScopeLock(m) == IF m = None \/ CondoOf[m] = None THEN <<>> ELSE <<Share(CondoOf[m])>>

\* The locked memberships are checked again and one of the active ones is taken.
ChooseMembership(p) ==
    LET found == {m \in tx[p].members : membership[m] = "active"} IN
    /\ At(p, "membership") /\ tx[p].op = "issue"
    /\ \/ found = {} /\ ~Reauth(p) /\ Deny(p)
       \/ \E m \in IF found = {} THEN {None} ELSE found :
            /\ found # {} \/ Reauth(p)
            /\ Continue(p, [tx[p] EXCEPT !.pc = "scope", !.target = m, !.need = ScopeLock(m)])
            /\ UNCHANGED time

\* The locked scope decides; the presented session is locked last.
LockSession(p) ==
    LET m == tx[p].target
        live == m # None /\ ScopeLive(m)
    IN
    /\ At(p, "scope")
    /\ IF ~live /\ tx[p].op = "issue" /\ ~Reauth(p)
       THEN Deny(p)
       ELSE /\ Continue(p, [tx[p] EXCEPT !.pc = "session", !.target = IF live THEN m ELSE None,
                              !.need = IF tx[p].session = 0 THEN <<>>
                                       ELSE <<Update(SessionRow(tx[p].session))>>])
            /\ UNCHANGED time

\* The rollout policy, the MFA policy, the session's key or the limit on new sessions
\* refuse, before anything but the handoff is written.
Refuse(p) ==
    /\ At(p, "session") /\ tx[p].op \in {"issue", "rotate"}
    /\ IF tx[p].op = "issue" THEN Deny(p) ELSE End(p) /\ UNCHANGED <<data, time, requests, scenario>>

\* The session a reauthentication continues: the presented one, alive and of the
\* family the reauthentication was started for.
Continues(p) ==
    LET s == tx[p].session IN
    /\ s # 0 /\ tx[p].target # None
    /\ sessions[s].account = AccountIn(p) /\ Live(s)
    /\ sessions[s].family = intents[handoffs[tx[p].handoff].intent].family

\* What the new session replaces: the presented session, every session of the account
\* after a recovery (which updates the account), or the presented session's family.
Replace(p) ==
    LET s == tx[p].session
        S == IF Reauth(p) THEN {s}
             ELSE IF Recovery(p) THEN OfAccount(AccountIn(p))
             ELSE IF s = 0 THEN {} ELSE Family(sessions[s].family)
    IN
    /\ At(p, "session") /\ tx[p].op = "issue"
    /\ IF Reauth(p) /\ ~Continues(p)
       THEN Deny(p)
       ELSE /\ \E locks \in Orders(S) :
                 Continue(p, [tx[p] EXCEPT !.pc = "write", !.revoke = S, !.need = locks, !.at = time])
            /\ time' = IF Recovery(p) THEN time + 1 ELSE time

Issue(p) ==
    LET h == handoffs[tx[p].handoff]
        a == AccountIn(p)
        v == IF Recovery(p) THEN version[a] + 1 ELSE version[a]
    IN
    /\ At(p, "write") /\ tx[p].op = "issue"
    /\ sessions' = Insert(Revoked(p, tx[p].revoke),
                          IF Reauth(p) THEN sessions[tx[p].session].family ELSE 0,
                          tx[p].target, v, h, tx[p].handoff)
    /\ version' = [version EXCEPT ![a] = v]
    /\ updated' = IF Recovery(p) THEN [updated EXCEPT ![a] = tx[p].at] ELSE updated
    /\ handoffs' = Consumed(tx[p].handoff)
    /\ End(p)
    /\ UNCHANGED <<intents, status, membership, closed, over, left, time, requests, scenario>>

\* The limit on new sessions refuses a recovery once it has updated the account and
\* revoked its sessions: that commits, without a session.
LimitRecovery(p) ==
    LET a == AccountIn(p) IN
    /\ At(p, "write") /\ tx[p].op = "issue" /\ Recovery(p)
    /\ sessions' = Revoked(p, tx[p].revoke)
    /\ version' = [version EXCEPT ![a] = @ + 1]
    /\ updated' = [updated EXCEPT ![a] = tx[p].at]
    /\ handoffs' = Consumed(tx[p].handoff)
    /\ End(p)
    /\ UNCHANGED <<intents, status, membership, closed, over, left, time, requests, scenario>>

-----------------------------------------------------------------------------
(* Reauthentication: a session asks for an intent, and another request of the family
   redeems it for a login at the identity provider. Both lock the session first. An
   intent that expires is one that is never redeemed. *)

Reauthentication(p, pc, s, i) ==
    /\ "reauth" \in scenario.requests /\ tx[p].pc = "idle" /\ Live(s)
    /\ tx' = [tx EXCEPT ![p] = [Idle EXCEPT !.pc = pc, !.op = "reauth", !.session = s, !.intent = i,
                                            !.need = <<Update(SessionRow(s))>>]]
    /\ UNCHANGED <<data, time, owned, shared, requests, scenario>>

\* Bound: one login at least is none of these.
BeginReauth(p, s) ==
    /\ Len(intents) + Cardinality({q \in Proc : tx[q].pc = "intent"}) + 1 < scenario.handoffs
    /\ Reauthentication(p, "intent", s, 0)

CreateIntent(p) ==
    LET s == tx[p].session IN
    /\ At(p, "intent")
    /\ intents' = IF Live(s)
                  THEN Append(intents, [account |-> sessions[s].account,
                                        family |-> sessions[s].family, state |-> "open"])
                  ELSE intents
    /\ End(p)
    /\ UNCHANGED <<sessions, handoffs, status, version, updated, membership, closed, over, left,
                   time, requests, scenario>>

BeginStart(p, s, i) == intents[i].state = "open" /\ Reauthentication(p, "start", s, i)

\* Mutant: the UPDATE does not repeat that the intent is unconsumed.
RedeemsAgain(s, i) ==
    Live(s) /\ intents[i].account = sessions[s].account /\ intents[i].family = sessions[s].family
Redeems(s, i) ==
    /\ Live(s) /\ intents[i].account = sessions[s].account /\ intents[i].family = sessions[s].family
    /\ intents[i].state = "open"

\* The login transaction that follows is as good as started: it may never be answered.
StartReauth(p) ==
    /\ At(p, "start")
    /\ intents' = IF Redeems(tx[p].session, tx[p].intent)
                  THEN [intents EXCEPT ![tx[p].intent].state = "started"] ELSE intents
    /\ End(p)
    /\ UNCHANGED <<sessions, handoffs, status, version, updated, membership, closed, over, left,
                   time, requests, scenario>>

-----------------------------------------------------------------------------
(* rotate: switching tenant or role. The route has authenticated the token in an
   earlier transaction. *)

BeginRotate(p, s, m) ==
    /\ Live(s)
    /\ Begin(p, "rotate", [Idle EXCEPT !.pc = "account", !.op = "rotate", !.session = s,
                           !.target = m, !.need = <<Update(sessions[s].account)>>])

LoadTarget(p) ==
    LET m == tx[p].target
        found == AccountOf[m] = sessions[tx[p].session].account /\ Authorizes(m)
    IN
    /\ At(p, "account") /\ tx[p].op = "rotate"
    /\ Continue(p, [tx[p] EXCEPT !.pc = "membership", !.target = IF found THEN m ELSE None,
                                 !.need = IF found THEN <<Share(m)>> ELSE <<>>])
    /\ UNCHANGED time

CheckTarget(p) ==
    LET m == IF tx[p].target # None /\ membership[tx[p].target] = "active"
             THEN tx[p].target ELSE None
    IN
    /\ At(p, "membership") /\ tx[p].op = "rotate"
    /\ Continue(p, [tx[p] EXCEPT !.pc = "scope", !.target = m, !.need = ScopeLock(m)])
    /\ UNCHANGED time

\* Mutant: the session is not looked at again once it is locked.
RotatesAnyway(p) == tx[p].target # None
\* The locked session is neither revoked by a concurrent winner nor denied.
Rotates(p) == tx[p].target # None /\ Live(tx[p].session)

Rotate(p) ==
    LET s == tx[p].session
        row == sessions[s]
    IN
    /\ At(p, "session") /\ tx[p].op = "rotate"
    /\ sessions' = IF Rotates(p)
                   THEN Insert(Revoked(p, {s}), row.family, tx[p].target, row.version, row, 0)
                   ELSE sessions
    /\ End(p)
    /\ UNCHANGED <<intents, handoffs, status, version, updated, membership, closed, over, left,
                   time, requests, scenario>>

-----------------------------------------------------------------------------
(* Logout, and the requests that bar an account, a membership or a condominium:
   each locks its row, then the sessions it revokes, and commits both. *)

\* The logout route: a live token goes to revoke; a revoked one is answered as if its
\* session were gone.
BeginLogout(p, s) ==
    \/ /\ Live(s)
       /\ Begin(p, "logout", [Idle EXCEPT !.pc = "lock", !.op = "logout", !.session = s,
                                          !.need = <<Update(SessionRow(s))>>])
    \/ /\ "logout" \in scenario.requests /\ tx[p].pc = "idle" /\ requests < scenario.served
       /\ sessions[s].state = "revoked"
       /\ left' = left \cup {<<sessions[s].family, "revoked">>} /\ requests' = requests + 1
       /\ UNCHANGED <<sessions, intents, handoffs, status, version, updated, membership, closed, over,
                      time, tx, owned, shared, scenario>>

BeginLogoutAll(p, s) ==
    /\ Live(s)
    /\ Begin(p, "logoutAll", [Idle EXCEPT !.pc = "account", !.op = "logoutAll", !.session = s,
                                          !.need = <<Update(sessions[s].account)>>])

LogoutAllSession(p) ==
    /\ At(p, "account") /\ tx[p].op = "logoutAll"
    /\ Continue(p, [tx[p] EXCEPT !.pc = "lock", !.need = <<Update(SessionRow(tx[p].session))>>])
    /\ UNCHANGED time

BeginDisable(p, m) ==
    /\ membership[m] # "none"
    /\ Begin(p, "disable", [Idle EXCEPT !.pc = "lock", !.op = "disable", !.target = m,
                                        !.need = <<Update(m)>>])

BeginSetStatus(p, a, new) ==
    Begin(p, new, [Idle EXCEPT !.pc = "account", !.op = new, !.target = a, !.need = <<Update(a)>>])

\* UPDATE "HumanAccount" matched the locked row, and the memberships go with a disabled one.
SetStatusMembers(p) ==
    LET a == tx[p].target
        S == {m \in Membership : AccountOf[m] = a /\ membership[m] = "active"}
    IN
    /\ At(p, "account") /\ tx[p].op \in {"suspended", "disabled"}
    /\ IF status[a] = "disabled"
       THEN End(p) /\ UNCHANGED <<data, time, requests, scenario>>
       ELSE /\ \E q \in Listings(IF tx[p].op = "disabled" THEN S ELSE {}) :
                 Continue(p, [tx[p] EXCEPT !.pc = "lock", !.at = time, !.members = Range(q),
                                           !.need = [k \in DOMAIN q |-> Update(q[k])]])
            /\ time' = time + 1

BeginClose(p, c) ==
    /\ c \notin closed
    /\ Begin(p, "close", [Idle EXCEPT !.pc = "lock", !.op = "close", !.target = c,
                                      !.need = <<Update(c)>>])

\* A logout of all sessions needs a session that is alive, or only revoked; its ten
\* minutes of recent authentication may be over.
MayLogoutAll(p) == sessions[tx[p].session].state = "revoked" \/ Live(tx[p].session)

LogoutAllDenied(p) ==
    /\ At(p, "lock") /\ tx[p].op = "logoutAll"
    /\ End(p) /\ UNCHANGED <<data, time, requests, scenario>>

\* The statement that revokes: the sessions it finds, each to be locked.
Doomed(p) ==
    CASE tx[p].op = "logout" -> Family(sessions[tx[p].session].family)
      [] tx[p].op = "logoutAll" -> OfAccount(sessions[tx[p].session].account)
      [] tx[p].op = "disable" -> OfMembership(tx[p].target)
      [] tx[p].op = "close" -> OfCondo(tx[p].target)
      [] OTHER -> OfAccount(tx[p].target)

FindSessions(p) ==
    /\ At(p, "lock")
    /\ tx[p].op = "logoutAll" => MayLogoutAll(p)
    /\ \E locks \in Orders(Doomed(p)) :
         Continue(p, [tx[p] EXCEPT !.pc = "write", !.revoke = Doomed(p), !.need = locks,
                                   !.at = IF tx[p].op = "logoutAll" THEN time ELSE @])
    /\ time' = IF tx[p].op = "logoutAll" THEN time + 1 ELSE time

\* The memberships the request disables.
Barred(p) ==
    IF tx[p].op = "disable" THEN {tx[p].target}
    ELSE IF tx[p].op = "disabled" THEN tx[p].members ELSE {}

Write(p) ==
    LET op == tx[p].op
        a == IF op = "logoutAll" THEN sessions[tx[p].session].account ELSE tx[p].target
        bumps == op \in {"logoutAll", "suspended", "disabled"}
    IN
    /\ At(p, "write") /\ op # "issue"
    /\ sessions' = Revoked(p, tx[p].revoke)
    /\ version' = IF bumps THEN [version EXCEPT ![a] = @ + 1] ELSE version
    /\ updated' = IF bumps THEN [updated EXCEPT ![a] = tx[p].at] ELSE updated
    /\ status' = IF op \in {"suspended", "disabled"} THEN [status EXCEPT ![a] = op] ELSE status
    /\ membership' = [m \in Membership |->
         IF m \in Barred(p) THEN "disabled" ELSE membership[m]]
    /\ closed' = IF op = "close" THEN closed \cup {tx[p].target} ELSE closed
    /\ left' = IF op = "logout" THEN left \cup {<<sessions[tx[p].session].family, "live">>} ELSE left
    /\ End(p)
    /\ UNCHANGED <<intents, handoffs, over, time, requests, scenario>>

-----------------------------------------------------------------------------
(* createMembership reads the account without a lock; its INSERT takes the
   condominium's share lock and the account's key lock, which waits for a
   SELECT FOR UPDATE and not for an UPDATE of the status. *)

BeginMember(p, m) ==
    /\ membership[m] = "none" /\ status[AccountOf[m]] # "disabled"
    /\ \A q \in Proc : ~(tx[q].op = "member" /\ tx[q].target = m)
    /\ Begin(p, "member", [Idle EXCEPT !.pc = "insert", !.op = "member", !.target = m,
                                       !.need = ScopeLock(m)])

KeyLocked(p, a) == owned[a] # None /\ tx[owned[a]].op \notin {"suspended", "disabled"}

CreateMembership(p) ==
    LET m == tx[p].target IN
    /\ At(p, "insert") /\ ~KeyLocked(p, AccountOf[m])
    /\ membership' = IF ScopeLive(m) THEN [membership EXCEPT ![m] = "active"] ELSE membership
    /\ End(p)
    /\ UNCHANGED <<sessions, intents, handoffs, status, version, updated, closed, over, left,
                   time, requests, scenario>>

-----------------------------------------------------------------------------
(* authenticate reads the session without a lock, then extends its idle time. *)

BeginTouch(p, s) ==
    /\ Live(s)
    /\ Begin(p, "touch", [Idle EXCEPT !.pc = "touch", !.op = "touch", !.session = s,
                                      !.need = <<Update(SessionRow(s))>>])

\* Mutant: the UPDATE does not repeat the expiry.
TouchesAny(s) == sessions[s].state = "live"
Touches(s) ==
    sessions[s].state = "live" /\ sessions[s].idle = "fresh" /\ sessions[s].family \notin over

Touch(p) ==
    LET s == tx[p].session IN
    /\ At(p, "touch")
    /\ sessions' = IF Touches(s) THEN [sessions EXCEPT ![s].idle = "fresh"] ELSE sessions
    /\ End(p)
    /\ UNCHANGED <<intents, handoffs, status, version, updated, membership, closed, over, left,
                   time, requests, scenario>>

\* Thirty minutes without a request, and twelve hours since the login.
IdleOut(s) ==
    /\ "touch" \in scenario.requests /\ sessions[s].state = "live" /\ sessions[s].idle = "fresh"
    /\ sessions' = [sessions EXCEPT ![s].idle = "stale"]
    /\ UNCHANGED <<intents, handoffs, status, version, updated, membership, closed, over, left,
                   time, tx, owned, shared, requests, scenario>>

FamilyOver(f) ==
    /\ "touch" \in scenario.requests /\ f \in {sessions[s].family : s \in Ids} \ over
    /\ over' = over \cup {f}
    /\ UNCHANGED <<sessions, intents, handoffs, status, version, updated, membership, closed, left,
                   time, tx, owned, shared, requests, scenario>>

-----------------------------------------------------------------------------
Step(p) ==
    \/ Acquire(p) \/ DeadlockVictim(p)
    \/ ConsumeHandoff(p) \/ CheckAccount(p) \/ ChooseMembership(p) \/ LockSession(p)
    \/ Refuse(p) \/ Replace(p) \/ Issue(p) \/ LimitRecovery(p) \/ CreateIntent(p) \/ StartReauth(p)
    \/ LoadTarget(p) \/ CheckTarget(p) \/ Rotate(p)
    \/ LogoutAllSession(p) \/ SetStatusMembers(p) \/ LogoutAllDenied(p)
    \/ FindSessions(p) \/ Write(p) \/ CreateMembership(p) \/ Touch(p)

OfScenario == {m \in Membership : AccountOf[m] \in scenario.accounts}

Request(p) ==
    \/ \E h \in 1..Len(handoffs), old \in 0..Len(sessions) : BeginIssue(p, h, old)
    \/ \E s \in Ids, m \in OfScenario : BeginRotate(p, s, m)
    \/ \E s \in Ids : BeginLogout(p, s) \/ BeginLogoutAll(p, s) \/ BeginTouch(p, s) \/ BeginReauth(p, s)
    \/ \E s \in Ids, i \in 1..Len(intents) : BeginStart(p, s, i)
    \/ \E m \in OfScenario : BeginDisable(p, m) \/ BeginMember(p, m)
    \/ \E a \in scenario.accounts, new \in {"suspended", "disabled"} : BeginSetStatus(p, a, new)
    \/ \E c \in Condo : BeginClose(p, c)

\* The bound on requests is used up and none is open: the model may rest.
Rest ==
    /\ requests = scenario.served /\ \A p \in Proc : tx[p].pc = "idle"
    /\ UNCHANGED vars

Next ==
    \/ \E p \in Proc : Request(p) \/ Step(p) \/ Abort(p)
    \/ \E a \in scenario.accounts, kind \in {"login", "recovery", "reauth"}, i \in 0..Len(intents) :
         \E auth \in {updated[a], time} : Callback(a, kind, i, auth)
    \/ \E s \in Ids : IdleOut(s) \/ FamilyOver(s)
    \/ Rest

Spec == Init /\ [][Next]_vars

-----------------------------------------------------------------------------
(* Properties. *)

\* Every variable stays within its type, and a row lock belongs to an open transaction.
TypeOK ==
    /\ scenario \in Scenarios
    /\ sessions \in Seq([family : 1..MaxRequests, account : Account, membership : Membership,
                          version : Nat, auth : Nat, kind : {"login", "recovery", "reauth"},
                          from : 0..MaxHandoffs, idle : {"fresh", "stale"}, state : {"live", "revoked"}])
    /\ handoffs \in Seq([account : Account, auth : Nat, kind : {"login", "recovery", "reauth"},
                          intent : 0..MaxHandoffs, state : {"fresh", "consumed"}])
    /\ intents \in Seq([account : Account, family : 1..MaxRequests,
                         state : {"open", "started", "answered"}])
    /\ status \in [Account -> {"active", "suspended", "disabled"}]
    /\ version \in [Account -> Nat] /\ updated \in [Account -> Nat] /\ time \in Nat
    /\ membership \in [Membership -> {"none", "active", "disabled"}]
    /\ closed \subseteq Condo /\ over \subseteq 1..MaxRequests /\ left \subseteq (1..MaxRequests) \X {"live", "revoked"}
    /\ owned \in [Row -> Proc \cup {None}] /\ shared \in [Row -> SUBSET Proc]
    /\ requests \in 0..MaxRequests
    /\ \A x \in Row : \A p \in shared[x] \cup ({owned[x]} \ {None}) : tx[p].pc # "idle"

\* Concurrent rotations and reauthentications of a session have one winner: a family
\* never has two sessions that are not revoked.
OneLivePerFamily ==
    \A s, t \in Unrevoked : sessions[s].family = sessions[t].family => s = t

\* A handoff is good for one session, however many callbacks present it, and an intent
\* for one handoff; what comes of an intent continues the family that asked for it, under
\* its account, whoever logged in at the identity provider.
OneSessionPerHandoff ==
    /\ \A s, t \in Ids : sessions[s].from # 0 /\ sessions[s].from = sessions[t].from => s = t
    /\ \A g, h \in 1..Len(handoffs) :
         handoffs[g].intent # 0 /\ handoffs[g].intent = handoffs[h].intent => g = h
    /\ \A s \in Ids : sessions[s].from # 0 /\ sessions[s].kind = "reauth" =>
         LET intent == intents[handoffs[sessions[s].from].intent] IN
         sessions[s].family = intent.family /\ sessions[s].account = intent.account

\* Whatever was barred stays barred: no session of a suspended or disabled account, of a
\* disabled membership, of a closed condominium or of an older session version is left
\* unrevoked, even if it was being issued or rotated meanwhile.
UnrevokedIsCurrent ==
    \A s \in Unrevoked :
        /\ status[sessions[s].account] = "active"
        /\ sessions[s].version = version[sessions[s].account]
        /\ Authorizes(sessions[s].membership)

\* After the sessions of an account are revoked, no login completed before can bring one
\* back: an unrevoked session was authenticated after the account's last update, unless
\* it comes of the very recovery that made it, whose version it has.
AuthenticatedAfterUpdate ==
    \A s \in Unrevoked :
        LET row == sessions[s] IN
        \/ row.auth > updated[row.account]
        \/ row.kind = "recovery" /\ row.version = version[row.account]

\* An idle session never wakes up, and a revoked one is never unrevoked.
EndedIsFinal ==
    [][\A s \in Ids : /\ sessions[s].idle = "stale" => sessions'[s].idle = "stale"
                      /\ sessions[s].state = "revoked" => sessions'[s].state = "revoked"]_vars

\* What the decision record says of logout: it ends the family of the session that was
\* live when the request was authenticated.
LogoutEndsFamily == \A f \in 1..MaxRequests : <<f, "live">> \in left => Family(f) = {}
=============================================================================
