-------------------------- MODULE HumanAuthRollout --------------------------
(* The rollout policy of human authentication (src/human-auth-rollout.ts and the
   function set_human_auth_rollout_policy of migration 0026) against the requests
   that its gates let through: sessions issued from a login, rotated, inspected and
   authenticated (src/sessions.ts), and accounts barred (src/human-administration.ts).

   A transaction takes its locks one at a time ("need"): a statement picks its rows
   from what is committed when it begins and re-checks them under their locks. What it
   writes is applied at the commit. *)
EXTENDS Naturals, Sequences, FiniteSets, Functions

CONSTANTS
    Account, Membership, Condo,
    AccountOf,      \* [Membership -> Account]
    CondoOf,        \* [Membership -> Condo \cup {None}]: None for a provider
    Cohort,         \* [Condo -> 1..100]: humanAuthTenantCohort
    Token,          \* deployment authorizations, each good for one change
    Approved,       \* [Token -> change]
    Proc,           \* requests served at the same time
    Scenarios,      \* bound: what an execution starts from and which requests it receives
    MaxRequests,    \* bound on the requests received
    None            \* NULL

Scope == {"global"} \cup Condo
States == {"disabled", "internal_provider", "pilot", "enabled"}
\* What a change asks for; only the global scope has an internal-provider stage.
Changes ==
    {c \in [scope : Scope, state : States, cohort : {0, 10, 50, 100}] :
        /\ c.scope # "global" => c.state # "internal_provider"
        /\ c.state = "pilot" <=> c.cohort # 0}

PolicyRow == [state : States, cohort : {0, 10, 50, 100}, version : Nat \ {0}]

ASSUME RolloutAssumption ==
    /\ AccountOf \in [Membership -> Account]
    /\ CondoOf \in [Membership -> Condo \cup {None}]
    /\ Cohort \in [Condo -> 1..100]
    /\ Approved \in [Token -> Changes]
    /\ MaxRequests \in Nat /\ IsFiniteSet(Membership)
    /\ None \notin Account \cup Membership \cup Scope \cup Proc \cup Token \cup PolicyRow
    /\ "global" \notin Condo

HistoryRow == [scope : Scope, version : Nat, token : Token \cup {None}]
SessionRow == [membership : Membership, state : {"live", "revoked"}]
\* login: the consumed login that left the handoff, or 0 for one left by an earlier execution.
HandoffRow == [account : Account, login : Nat, state : {"fresh", "consumed"}]

VARIABLES
    scenario,
    policy,     \* [Scope -> PolicyRow \cup {None}]
    history,    \* Seq(HistoryRow)
    spent,      \* deployment authorizations with usedAt
    sessions,   \* Seq(SessionRow)
    handoffs,   \* Seq(HandoffRow)
    status,     \* [Account -> {"none", "invited", "active", "barred"}]
    membership, \* [Membership -> {"none", "invited", "active", "disabled"}]
    tx,         \* [Proc -> record]: the transaction of each request
    locks,      \* set of <<row, mode, proc>>
    requests

rollout == <<policy, history, spent>>
people == <<status, membership>>
base == <<rollout, sessions, handoffs, people>>
rolloutVars == <<base, tx, locks, requests, scenario>>

Ids == 1..Len(sessions)
Idle == [pc |-> "idle", op |-> None, need |-> <<>>, row |-> 0, target |-> None, change |-> None,
         token |-> None, previous |-> 0, found |-> {}, ways |-> <<>>, doomed |-> {}]

RolloutInit ==
    /\ scenario \in Scenarios
    /\ policy = scenario.policy /\ history = <<>> /\ spent = {}
    /\ sessions = scenario.sessions /\ handoffs = scenario.handoffs
    /\ status = scenario.status /\ membership = scenario.membership
    /\ tx = [p \in Proc |-> Idle] /\ locks = {} /\ requests = 0

-----------------------------------------------------------------------------
(* Who the policies let in. *)

Provider(m) == CondoOf[m] = None

\* policyAllows
Allows(row, m) ==
    /\ row # None
    /\ row.state # "disabled"
    /\ row.state = "internal_provider" => Provider(m)
    /\ row.state = "pilot" /\ ~Provider(m) => Cohort[CondoOf[m]] <= row.cohort

\* effectiveDecision: the global policy, and the tenant's unless it is a provider.
Effective(rows, m) == Allows(rows["global"], m) /\ (~Provider(m) => Allows(rows[CondoOf[m]], m))

\* The criterion of the UPDATE that revokes, where NULL is not TRUE.
InPilot(row, m) ==
    row # None /\ (row.state = "enabled" \/ (row.state = "pilot" /\ Cohort[CondoOf[m]] <= row.cohort))
Retained(rows, m) ==
    IF Provider(m)
    THEN rows["global"] # None /\ rows["global"].state \in {"internal_provider", "pilot", "enabled"}
    ELSE InPilot(rows["global"], m) /\ InPilot(rows[CondoOf[m]], m)

-----------------------------------------------------------------------------
(* Transactions and their locks. *)

Share(kind, id) == <<<<kind, id>>, "share">>
Update(kind, id) == <<<<kind, id>>, "update">>

Blockers(p, lock) ==
    {l[3] : l \in {k \in locks : k[1] = lock[1] /\ "update" \in {k[2], lock[2]}}} \ {p}

Waiting(p) == tx[p].need # <<>>
At(p, op, pc) == tx[p].op = op /\ tx[p].pc = pc /\ ~Waiting(p)

Acquire(p) ==
    /\ Waiting(p) /\ Blockers(p, Head(tx[p].need)) = {}
    /\ locks' = locks \cup {<<Head(tx[p].need)[1], Head(tx[p].need)[2], p>>}
    /\ tx' = [tx EXCEPT ![p].need = Tail(@)]
    /\ UNCHANGED <<base, requests, scenario>>

\* COMMIT or ROLLBACK.
End(p) ==
    /\ tx' = [tx EXCEPT ![p] = Idle]
    /\ locks' = {l \in locks : l[3] # p}
    /\ UNCHANGED <<requests, scenario>>

\* The transaction ends and nothing was written.
Quit(p) == End(p) /\ UNCHANGED base

Begin(p, op, record) ==
    /\ op \in scenario.requests /\ tx[p].pc = "idle" /\ requests < MaxRequests
    /\ requests' = requests + 1
    /\ tx' = [tx EXCEPT ![p] = [record EXCEPT !.op = op]]
    /\ UNCHANGED <<base, locks, scenario>>

\* The next statement, which asks for these locks.
Continue(p, pc, need, record) ==
    /\ tx' = [tx EXCEPT ![p] = [record EXCEPT !.pc = pc, !.need = need]]
    /\ UNCHANGED <<base, locks, requests, scenario>>

\* COMMIT of a transaction after which the request goes on.
Commit(p, pc, record) ==
    /\ tx' = [tx EXCEPT ![p] = [record EXCEPT !.pc = pc]]
    /\ locks' = {l \in locks : l[3] # p}
    /\ UNCHANGED <<base, requests, scenario>>

\* The connection is lost, or the thirty seconds of a policy change are over.
Abort(p) == tx[p].pc # "idle" /\ Quit(p)

WaitsWithin(S) == \A p \in S : Waiting(p) /\ Blockers(p, Head(tx[p].need)) \cap S # {}
\* The database aborts a transaction on a cycle of waits.
DeadlockVictim(p) ==
    /\ \E S \in SUBSET {q \in Proc : Waiting(q)} :
         /\ p \in S /\ WaitsWithin(S)
         /\ \A R \in SUBSET S : R # {} /\ WaitsWithin(R) => R = S
    /\ Quit(p)

\* Rows a multi-row statement locks, in whatever order its plan meets them.
Listings(S) == {q \in [1..Cardinality(S) -> S] : Range(q) = S}
Orders(kind, S) == {[k \in DOMAIN q |-> Update(kind, q[k])] : q \in Listings(S)}
Revoked(S) ==
    [s \in Ids |-> IF s \in S THEN [sessions[s] EXCEPT !.state = "revoked"] ELSE sessions[s]]
Unrevoked == {s \in Ids : sessions[s].state = "live"}

-----------------------------------------------------------------------------
(* The gates: gateScope and gateMembership. *)

\* lockedPolicies: the rows there are, the global one first, share-locked.
Found(m) == {x \in {"global", CondoOf[m]} \ {None} : policy[x] # None}
\* Mutant: the policies are read without a lock.
PoliciesUnlocked(m) == <<>>
PolicyLocks(m) ==
    (IF policy["global"] = None THEN <<>> ELSE <<Share("policy", "global")>>)
    \o (IF Found(m) \ {"global"} = {} THEN <<>> ELSE <<Share("policy", CondoOf[m])>>)

Gate(p, m, record) ==
    Continue(p, "gate", PolicyLocks(m), [record EXCEPT !.target = m, !.found = Found(m)])

\* The locked rows decide; a row inserted since the statement began is not among them.
Allowed(p) ==
    Effective([x \in Scope |-> IF x \in tx[p].found THEN policy[x] ELSE None], tx[p].target)

ActiveOf(a) == {m \in Membership : AccountOf[m] = a /\ membership[m] = "active"}

-----------------------------------------------------------------------------
(* setPolicy. *)

\* Mutant: the advisory locks are not taken.
AdvisoryNone(scope) == <<>>
\* The global advisory lock, then that of the tenant, whose row may not exist yet.
Advisory(scope) ==
    <<Update("advisory", "global")>>
    \o (IF scope = "global" THEN <<>> ELSE <<Update("advisory", scope)>>)

\* By a provider's browser, whose request was authenticated before (authenticateProvider),
\* or by the command with an authorization for this very change.
BeginChange(p, c, s, t) ==
    /\ c \in scenario.changes
    /\ IF t = None
       THEN s \in Unrevoked /\ Provider(sessions[s].membership) /\ Effective(policy, sessions[s].membership)
       ELSE s = 0
    /\ Begin(p, "change", [Idle EXCEPT !.pc = "authorize", !.change = c, !.row = s, !.token = t,
                           !.need = Advisory(c.scope)])

\* The provider's session, account and membership, or the unused authorization that
\* approves the change for an active provider.
Authorized(p) ==
    IF tx[p].token = None
    THEN LET m == sessions[tx[p].row].membership IN
         /\ sessions[tx[p].row].state = "live"
         /\ status[AccountOf[m]] = "active" /\ membership[m] = "active"
    ELSE /\ tx[p].token \notin spent /\ Approved[tx[p].token] = tx[p].change
         /\ \E m \in Membership : Provider(m) /\ membership[m] = "active" /\ status[AccountOf[m]] = "active"

AuthorizationLocks(p) ==
    IF tx[p].token # None THEN <<Update("token", tx[p].token)>>
    ELSE LET m == sessions[tx[p].row].membership IN
         <<Share("session", tx[p].row), Share("account", AccountOf[m]), Share("membership", m)>>

\* The authentication of the browser, or the authorization, may also be ten minutes old.
Authorize(p) ==
    /\ At(p, "change", "authorize")
    /\ \/ Authorized(p) /\ Continue(p, "authorized", AuthorizationLocks(p), tx[p])
       \/ Quit(p)

\* SELECT ... FOR UPDATE of the policy there is.
LockPolicy(p) ==
    /\ At(p, "change", "authorized")
    /\ IF ~Authorized(p) THEN Quit(p)
       ELSE Continue(p, "policy", IF policy[tx[p].change.scope] = None THEN <<>>
                                  ELSE <<Update("policy", tx[p].change.scope)>>, tx[p])

Spend(p) == spent' = IF tx[p].token = None THEN spent ELSE spent \cup {tx[p].token}

\* No policy for a condominium that is gone: the function returns, and the
\* authorization is spent all the same.
NoCondominium(p) ==
    /\ At(p, "change", "policy") /\ tx[p].change.scope \in scenario.closed
    /\ Spend(p) /\ End(p) /\ UNCHANGED <<policy, history, sessions, handoffs, people>>

\* The upsert of the next version; a first insertion waits for another of the same scope.
Upsert(p) ==
    /\ At(p, "change", "policy") /\ tx[p].change.scope \notin scenario.closed
    /\ LET row == policy[tx[p].change.scope] IN
       Continue(p, "sweep", <<Update("policy", tx[p].change.scope)>>,
                [tx[p] EXCEPT !.previous = IF row = None THEN 0 ELSE row.version])

Changed(p) ==
    LET c == tx[p].change IN
    [policy EXCEPT ![c.scope] = [state |-> c.state, cohort |-> c.cohort, version |-> tx[p].previous + 1]]

\* The unrevoked sessions of the scope that the resulting policies exclude.
Sweep(p) ==
    LET c == tx[p].change
        S == {s \in Unrevoked : /\ c.scope \in {"global", CondoOf[sessions[s].membership]}
                                /\ ~Retained(Changed(p), sessions[s].membership)}
    IN
    /\ At(p, "change", "sweep")
    /\ \E need \in Orders("session", S) : Continue(p, "write", need, [tx[p] EXCEPT !.doomed = S])

CommitChange(p) ==
    /\ At(p, "change", "write")
    /\ policy' = Changed(p)
    /\ sessions' = Revoked(tx[p].doomed)
    /\ history' = Append(history, [scope |-> tx[p].change.scope, version |-> tx[p].previous + 1,
                                   token |-> tx[p].token])
    /\ Spend(p) /\ End(p) /\ UNCHANGED <<handoffs, people>>

-----------------------------------------------------------------------------
(* authenticate and inspect read the session without a lock and ask the gate; then
   inspect locks it, and authenticate may extend its idle time. *)

BeginLook(p, op, s) ==
    LET m == sessions[s].membership IN
    /\ op = "authenticate" => sessions[s].state = "live" /\ status[AccountOf[m]] = "active"
    /\ membership[m] = "active"
    /\ Begin(p, op, [Idle EXCEPT !.pc = "member", !.row = s, !.target = m,
                     !.need = <<Share("membership", m)>>])

LookGate(p) ==
    /\ tx[p].op \in {"authenticate", "inspect"} /\ At(p, tx[p].op, "member")
    /\ IF membership[tx[p].target] = "active" THEN Gate(p, tx[p].target, tx[p]) ELSE Quit(p)

LookSession(p) ==
    /\ tx[p].op \in {"authenticate", "inspect"} /\ At(p, tx[p].op, "gate")
    /\ \/ Allowed(p) /\ Continue(p, "held", <<Update("session", tx[p].row)>>, tx[p])
       \/ (Allowed(p) => tx[p].op = "authenticate") /\ Quit(p)

\* The touched session is written back with a later idle time, which only BrowserSessions tells apart.
Looked(p) ==
    tx[p].op \in {"authenticate", "inspect"} /\ At(p, tx[p].op, "held") /\ Quit(p)

-----------------------------------------------------------------------------
(* issueFromHandoff, for a browser without a session, and rotate. *)

BeginIssue(p, h) ==
    Begin(p, "issue", [Idle EXCEPT !.pc = "handoff", !.row = h, !.need = <<Update("handoff", h)>>])

\* Whatever refuses after the handoff was consumed commits its consumption.
Deny(p) ==
    /\ handoffs' = [handoffs EXCEPT ![tx[p].row].state = "consumed"]
    /\ End(p) /\ UNCHANGED <<rollout, sessions, people>>

IssueAccount(p) ==
    /\ At(p, "issue", "handoff")
    /\ IF handoffs[tx[p].row].state = "consumed" THEN Quit(p)
       ELSE Continue(p, "account", <<Update("account", handoffs[tx[p].row].account)>>, tx[p])

IssueMember(p) ==
    LET a == handoffs[tx[p].row].account
        live == {m \in ActiveOf(a) : CondoOf[m] \notin scenario.closed}
    IN
    /\ At(p, "issue", "account")
    /\ IF status[a] # "active" \/ live = {} THEN Deny(p)
       ELSE \E m \in live, q \in Listings(live) :
              Continue(p, "member", [k \in DOMAIN q |-> Share("membership", q[k])],
                       [tx[p] EXCEPT !.target = m])

IssueGate(p) ==
    /\ At(p, "issue", "member")
    /\ IF membership[tx[p].target] = "active" THEN Gate(p, tx[p].target, tx[p]) ELSE Deny(p)

Issue(p) ==
    /\ At(p, "issue", "gate")
    /\ IF ~Allowed(p) THEN Deny(p)
       ELSE /\ sessions' = Append(sessions, [membership |-> tx[p].target, state |-> "live"])
            /\ handoffs' = [handoffs EXCEPT ![tx[p].row].state = "consumed"]
            /\ End(p) /\ UNCHANGED <<rollout, people>>

BeginRotate(p, s, m) ==
    /\ sessions[s].state = "live" /\ AccountOf[m] = AccountOf[sessions[s].membership]
    /\ Begin(p, "rotate", [Idle EXCEPT !.pc = "account", !.row = s, !.target = m,
                           !.need = <<Update("account", AccountOf[m])>>])

\* A target that is not active, or whose condominium is gone, is denied at the end.
RotateMember(p) ==
    /\ At(p, "rotate", "account")
    /\ IF membership[tx[p].target] = "active" /\ CondoOf[tx[p].target] \notin scenario.closed
       THEN Continue(p, "member", <<Share("membership", tx[p].target)>>, tx[p])
       ELSE Quit(p)

RotateGate(p) ==
    /\ At(p, "rotate", "member")
    /\ IF membership[tx[p].target] = "active" THEN Gate(p, tx[p].target, tx[p]) ELSE Quit(p)

RotateSession(p) ==
    /\ At(p, "rotate", "gate")
    /\ IF Allowed(p) THEN Continue(p, "held", <<Update("session", tx[p].row)>>, tx[p]) ELSE Quit(p)

Rotate(p) ==
    LET old == sessions[tx[p].row].membership IN
    /\ At(p, "rotate", "held")
    /\ IF /\ sessions[tx[p].row].state = "live" /\ membership[old] = "active"
          /\ status[AccountOf[old]] = "active"
       THEN /\ sessions' = Append(Revoked({tx[p].row}), [membership |-> tx[p].target, state |-> "live"])
            /\ End(p) /\ UNCHANGED <<rollout, handoffs, people>>
       ELSE Quit(p)

-----------------------------------------------------------------------------
(* setAccountStatus, to disabled: account, memberships, sessions. *)

BeginBar(p, a) ==
    /\ status[a] # "none"
    /\ Begin(p, "bar", [Idle EXCEPT !.pc = "account", !.target = a, !.need = <<Update("account", a)>>])

BarMembers(p) ==
    LET a == tx[p].target
        S == {m \in Membership : AccountOf[m] = a /\ membership[m] \in {"invited", "active"}}
    IN
    /\ At(p, "bar", "account")
    /\ IF status[a] = "barred" THEN Quit(p)
       ELSE \E need \in Orders("membership", S) : Continue(p, "members", need, tx[p])

BarSessions(p) ==
    LET S == {s \in Unrevoked : AccountOf[sessions[s].membership] = tx[p].target} IN
    /\ At(p, "bar", "members")
    /\ \E need \in Orders("session", S) : Continue(p, "write", need, [tx[p] EXCEPT !.doomed = S])

Bar(p) ==
    LET a == tx[p].target IN
    /\ At(p, "bar", "write")
    /\ status' = [status EXCEPT ![a] = "barred"]
    /\ membership' = [m \in Membership |->
         IF AccountOf[m] = a /\ membership[m] # "none" THEN "disabled" ELSE membership[m]]
    /\ sessions' = Revoked(tx[p].doomed)
    /\ End(p) /\ UNCHANGED <<rollout, handoffs>>

-----------------------------------------------------------------------------
RolloutStep(p) ==
    \/ Acquire(p) \/ DeadlockVictim(p) \/ Abort(p)
    \/ Authorize(p) \/ LockPolicy(p) \/ NoCondominium(p) \/ Upsert(p) \/ Sweep(p) \/ CommitChange(p)
    \/ LookGate(p) \/ LookSession(p) \/ Looked(p)
    \/ IssueAccount(p) \/ IssueMember(p) \/ IssueGate(p) \/ Issue(p)
    \/ RotateMember(p) \/ RotateGate(p) \/ RotateSession(p) \/ Rotate(p)
    \/ BarMembers(p) \/ BarSessions(p) \/ Bar(p)

RolloutRequest(p) ==
    \/ \E c \in scenario.changes, s \in 0..Len(sessions), t \in Token \cup {None} : BeginChange(p, c, s, t)
    \/ \E s \in Ids : BeginLook(p, "authenticate", s) \/ BeginLook(p, "inspect", s)
    \/ \E h \in 1..Len(handoffs) : BeginIssue(p, h)
    \/ \E s \in Ids, m \in Membership : BeginRotate(p, s, m)
    \/ \E a \in Account : BeginBar(p, a)
=============================================================================
