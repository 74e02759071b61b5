------------------------------ MODULE OidcLogin ------------------------------
(* Logins at the identity provider (src/oidc.ts), the provisioning invitations they
   accept (src/human-administration.ts), and the sessions they end in, under a rollout
   policy that changes meanwhile (HumanAuthRollout).

   A login is started in one request, which leaves a transaction with a state, and
   completed in another, the callback: it consumes the transaction, exchanges the code
   with the provider outside the database, and binds what the provider says. *)
EXTENDS HumanAuthRollout

CONSTANT Subject    \* identities at the provider

VARIABLES
    identity,       \* [Subject -> Account \cup {None}]: ExternalIdentity
    invitation,     \* [Account -> {"none", "open", "consumed", "expired"}]
    logins          \* Seq(LoginRow)

LoginRow == [invited : Account \cup {None}, state : {"open", "consumed", "expired"}]
Kinds == {"change", "authenticate", "inspect", "issue", "rotate", "bar",
          "invite", "login", "accept", "callback"}

MembershipOf(a) == CHOOSE m \in Membership : AccountOf[m] = a

\* The database a scenario starts from is one that earlier requests may have left: its
\* rows have their types,
Typed(c) ==
    /\ c.policy \in [Scope -> PolicyRow \cup {None}] /\ c.changes \subseteq Changes
    /\ c.sessions \in Seq(SessionRow) /\ c.handoffs \in Seq(HandoffRow) /\ c.logins \in Seq(LoginRow)
    /\ c.status \in [Account -> {"none", "invited", "active", "barred"}]
    /\ c.membership \in [Membership -> {"none", "invited", "active", "disabled"}]
    /\ c.identity \in [Subject -> Account \cup {None}]
    /\ c.invitation \in [Account -> {"none", "open", "consumed", "expired"}]
\* nobody has got in as an account that does not exist or has not accepted its
\* invitation, an accepted one bound one identity, and the policies let every session in.
Legal(c) ==
    /\ \A a \in Account :
         /\ c.status[a] = "none" => c.invitation[a] = "none"
         /\ c.status[a] = "none" \/ c.invitation[a] \in {"open", "expired"} =>
              /\ \A s \in Subject : c.identity[s] # a
              /\ \A h \in DOMAIN c.handoffs : c.handoffs[h].account # a
              /\ \A s \in DOMAIN c.sessions : AccountOf[c.sessions[s].membership] # a
         /\ c.invitation[a] \in {"open", "expired"} =>
              /\ c.status[a] \in {"invited", "barred"}
              /\ c.membership[MembershipOf(a)] \in {"invited", "disabled"}
         /\ c.invitation[a] = "consumed" =>
              \E s \in Subject : \A t \in Subject : c.identity[t] = a <=> t = s
    /\ \A h \in DOMAIN c.handoffs : c.handoffs[h].login = 0
    /\ \A s \in DOMAIN c.sessions :
         c.sessions[s].state = "live" => Effective(c.policy, c.sessions[s].membership)

ASSUME LoginAssumption ==
    /\ None \notin Kinds
    /\ \A a \in Account : \E m \in Membership : AccountOf[m] = a
    /\ \A c \in Scenarios : Typed(c) /\ Legal(c)

loginVars == <<identity, invitation, logins>>
vars == <<rolloutVars, loginVars>>

Init ==
    /\ RolloutInit
    /\ identity = scenario.identity /\ invitation = scenario.invitation /\ logins = scenario.logins

-----------------------------------------------------------------------------
(* createInvitation: an account, its membership and an open invitation. *)

BeginInvite(p, a) ==
    /\ status[a] = "none"
    /\ \A q \in Proc : tx[q].op = "invite" => tx[q].target # a
    /\ Begin(p, "invite", [Idle EXCEPT !.pc = "insert", !.target = a])
    /\ UNCHANGED loginVars

\* Nothing for a condominium that is gone.
Invite(p) ==
    LET a == tx[p].target IN
    /\ At(p, "invite", "insert")
    /\ IF CondoOf[MembershipOf(a)] \in scenario.closed
       THEN Quit(p) /\ UNCHANGED loginVars
       ELSE /\ status' = [status EXCEPT ![a] = "invited"]
            /\ membership' = [membership EXCEPT ![MembershipOf(a)] = "invited"]
            /\ invitation' = [invitation EXCEPT ![a] = "open"]
            /\ End(p) /\ UNCHANGED <<rollout, sessions, handoffs, identity, logins>>

\* Twenty-four hours without acceptance.
ExpireInvitation(a) ==
    /\ "expire" \in scenario.requests /\ invitation[a] = "open"
    /\ invitation' = [invitation EXCEPT ![a] = "expired"]
    /\ UNCHANGED <<rolloutVars, identity, logins>>

-----------------------------------------------------------------------------
(* startLogin: a preflight of the policies, then the insertion of the transaction. *)

BeginLogin(p) ==
    /\ Begin(p, "login", [Idle EXCEPT !.pc = "preflight",
         !.need = IF policy["global"] = None THEN <<>> ELSE <<Share("policy", "global")>>])
    /\ UNCHANGED loginVars

\* preflightGlobal: any account may turn out to be let in, unless the rollout is disabled.
PreflightGlobal(p) ==
    /\ At(p, "login", "preflight")
    /\ IF policy["global"] = None \/ policy["global"].state = "disabled"
       THEN Quit(p)
       ELSE Commit(p, "create", [tx[p] EXCEPT !.target = None])
    /\ UNCHANGED loginVars

BeginInvitedLogin(p, a) ==
    /\ Begin(p, "accept", [Idle EXCEPT !.pc = "preflight", !.target = a,
         !.need = IF invitation[a] = "open"
                  THEN <<Share("invitation", a), Share("membership", MembershipOf(a))>> ELSE <<>>])
    /\ UNCHANGED loginVars

\* preflightInvitation
PreflightInvitation(p) ==
    /\ At(p, "accept", "preflight")
    /\ IF invitation[tx[p].target] = "open"
       THEN Gate(p, MembershipOf(tx[p].target), tx[p]) ELSE Quit(p)
    /\ UNCHANGED loginVars

PreflightScope(p) ==
    /\ At(p, "accept", "gate")
    /\ IF Allowed(p)
       THEN Commit(p, "create", [tx[p] EXCEPT !.target = AccountOf[@]])
       ELSE Quit(p)
    /\ UNCHANGED loginVars

CreateTransaction(p) ==
    /\ tx[p].pc = "create"
    /\ logins' = Append(logins, [invited |-> tx[p].target, state |-> "open"])
    /\ Quit(p) /\ UNCHANGED <<identity, invitation>>

\* Ten minutes without a callback.
ExpireLogin(l) ==
    /\ "expire" \in scenario.requests /\ logins[l].state = "open"
    /\ logins' = [logins EXCEPT ![l].state = "expired"]
    /\ UNCHANGED <<rolloutVars, identity, invitation>>

-----------------------------------------------------------------------------
(* completeCallback. *)

\* Mutant: the UPDATE that consumes does not look at consumedAt.
Presentable(l) == logins[l].state # "expired"
Usable(l) == logins[l].state = "open"

\* consumeTransaction: one statement of its own, once per state. The checks of the
\* callback's parameters and of the claims come later, and may refuse (ExchangeFails).
Callback(p, l) ==
    /\ Usable(l)
    /\ Begin(p, "callback", [Idle EXCEPT !.pc = "exchange", !.row = l])
    /\ logins' = [logins EXCEPT ![l].state = "consumed"] /\ UNCHANGED <<identity, invitation>>

\* The exchange fails or is refused; the transaction stays consumed.
ExchangeFails(p) ==
    At(p, "callback", "exchange") /\ Quit(p) /\ UNCHANGED loginVars

Invited(p) == logins[tx[p].row].invited

\* What the joined rows of an acceptance must say, when the statement begins.
Joined(a) ==
    invitation[a] = "open" /\ status[a] = "invited" /\ membership[MembershipOf(a)] = "invited"

\* Mutant: the rows are not looked at again under their locks.
AcceptableAnyway(a) == TRUE
\* And again, under their locks.
Acceptable(a) == Joined(a)

\* The provider has named a subject; an invitation wants its own email, verified.
FindInvitation(p, s) ==
    LET a == Invited(p) IN
    /\ At(p, "callback", "exchange") /\ a # None
    /\ IF Joined(a)
       THEN Continue(p, "invitation",
                     <<Update("invitation", a), Update("account", a), Update("membership", MembershipOf(a))>>,
                     [tx[p] EXCEPT !.token = s, !.target = a])
       ELSE Quit(p)
    /\ UNCHANGED loginVars

\* Without an invitation the subject must be known, and its account active.
FindIdentity(p, s) ==
    LET a == identity[s] IN
    /\ At(p, "callback", "exchange") /\ Invited(p) = None
    /\ IF a # None /\ status[a] = "active"
       THEN Continue(p, "identity", <<Update("identity", s), Update("account", a)>>,
                     [tx[p] EXCEPT !.token = s, !.target = a])
       ELSE Quit(p)
    /\ UNCHANGED loginVars

AcceptScope(p) ==
    /\ At(p, "callback", "invitation")
    /\ IF Acceptable(tx[p].target) THEN Gate(p, MembershipOf(tx[p].target), tx[p]) ELSE Quit(p)
    /\ UNCHANGED loginVars

\* INSERT ... ON CONFLICT DO NOTHING waits for another insertion of the subject.
BindIdentity(p) ==
    /\ At(p, "callback", "gate") /\ Invited(p) # None
    /\ IF Allowed(p) THEN Continue(p, "bind", <<Update("identity", tx[p].token)>>, tx[p]) ELSE Quit(p)
    /\ UNCHANGED loginVars

\* Mutant: a handoff is made out to the invitation's account.
HandoffOfInvited(p, a) ==
    Append(handoffs, [account |-> Invited(p), login |-> tx[p].row, state |-> "fresh"])
Handoff(p, a) == Append(handoffs, [account |-> a, login |-> tx[p].row, state |-> "fresh"])

Accept(p) ==
    LET a == Invited(p) IN
    /\ At(p, "callback", "bind")
    /\ IF identity[tx[p].token] # None
       THEN Quit(p) /\ UNCHANGED loginVars
       ELSE /\ identity' = [identity EXCEPT ![tx[p].token] = a]
            /\ invitation' = [invitation EXCEPT ![a] = "consumed"]
            /\ status' = [status EXCEPT ![a] = "active"]
            /\ membership' = [membership EXCEPT ![MembershipOf(a)] = "active"]
            /\ handoffs' = Handoff(p, a)
            /\ End(p) /\ UNCHANGED <<rollout, sessions, logins>>

\* gateIdentity: the active memberships, share-locked, providers first.
LoginMembers(p) ==
    LET a == identity[tx[p].token] IN
    /\ At(p, "callback", "identity")
    /\ IF status[a] # "active" THEN Quit(p)
       ELSE \E q \in Listings(ActiveOf(a)) :
              /\ \A i, j \in DOMAIN q : Provider(q[j]) /\ i < j => Provider(q[i])
              /\ Continue(p, "member", [k \in DOMAIN q |-> Share("membership", q[k])],
                          [tx[p] EXCEPT !.ways = q])
    /\ UNCHANGED loginVars

\* One policy evaluation after another, until a membership is let in.
LoginGate(p) ==
    /\ At(p, "callback", "member")
    /\ IF tx[p].ways = <<>> THEN Quit(p)
       ELSE Gate(p, Head(tx[p].ways), [tx[p] EXCEPT !.ways = Tail(@)])
    /\ UNCHANGED loginVars

CompleteLogin(p) ==
    LET a == identity[tx[p].token] IN
    /\ At(p, "callback", "gate") /\ Invited(p) = None
    /\ IF Allowed(p)
       THEN /\ handoffs' = Handoff(p, a)
            /\ End(p) /\ UNCHANGED <<rollout, sessions, people>>
       ELSE Continue(p, "member", <<>>, tx[p])
    /\ UNCHANGED loginVars

-----------------------------------------------------------------------------
LoginStep(p) ==
    \/ Invite(p)
    \/ PreflightGlobal(p) \/ PreflightInvitation(p) \/ PreflightScope(p) \/ CreateTransaction(p)
    \/ ExchangeFails(p) \/ (\E s \in Subject : FindInvitation(p, s) \/ FindIdentity(p, s))
    \/ AcceptScope(p) \/ BindIdentity(p) \/ Accept(p)
    \/ LoginMembers(p) \/ LoginGate(p) \/ CompleteLogin(p)

LoginRequest(p) ==
    \/ BeginLogin(p)
    \/ \E a \in Account : BeginInvite(p, a) \/ BeginInvitedLogin(p, a)
    \/ \E l \in 1..Len(logins) : Callback(p, l)

Rest ==
    /\ requests = MaxRequests /\ \A p \in Proc : tx[p].pc = "idle"
    /\ UNCHANGED vars

Next ==
    \/ \E p \in Proc : \/ (RolloutRequest(p) \/ RolloutStep(p)) /\ UNCHANGED loginVars
                       \/ LoginRequest(p) \/ LoginStep(p)
    \/ \E a \in Account : ExpireInvitation(a)
    \/ \E l \in 1..Len(logins) : ExpireLogin(l)
    \/ Rest

Spec == Init /\ [][Next]_vars

-----------------------------------------------------------------------------
(* Properties. *)

\* Every variable stays within its type, and a lock belongs to an open transaction.
TypeOK ==
    /\ scenario \in Scenarios /\ requests \in 0..MaxRequests
    /\ policy \in [Scope -> PolicyRow \cup {None}] /\ history \in Seq(HistoryRow) /\ spent \subseteq Token
    /\ sessions \in Seq(SessionRow) /\ handoffs \in Seq(HandoffRow) /\ logins \in Seq(LoginRow)
    /\ status \in [Account -> {"none", "invited", "active", "barred"}]
    /\ membership \in [Membership -> {"none", "invited", "active", "disabled"}]
    /\ identity \in [Subject -> Account \cup {None}]
    /\ invitation \in [Account -> {"none", "open", "consumed", "expired"}]
    /\ \A l \in locks : l[2] \in {"share", "update"} /\ tx[l[3]].pc # "idle"

\* Once a policy change is committed no session that it excludes is left unrevoked: not
\* one that was being issued or rotated while the change looked for sessions.
RolloutHolds == \A s \in Unrevoked : Effective(policy, sessions[s].membership)

\* A provisioning invitation binds one identity, at the moment it is consumed, and an
\* invited account gets in by no other way, however many logins carry the token and
\* whichever subjects complete them; a login leaves one handoff at most.
AcceptedOnce ==
    /\ \A a \in Account : invitation[a] # "none" =>
         LET bound == {s \in Subject : identity[s] = a} IN
         /\ Cardinality(bound) = IF invitation[a] = "consumed" THEN 1 ELSE 0
         /\ invitation[a] # "consumed" =>
              /\ status[a] \in {"invited", "barred"}
              /\ membership[MembershipOf(a)] \in {"invited", "disabled"}
              /\ \A h \in 1..Len(handoffs) : handoffs[h].account # a
              /\ \A s \in Ids : AccountOf[sessions[s].membership] # a
    /\ \A g, h \in 1..Len(handoffs) :
         handoffs[g].login = handoffs[h].login /\ handoffs[g].login # 0 => g = h

\* The version a scope started with, and its changes among the first k.
First(x) == IF scenario.policy[x] = None THEN 0 ELSE scenario.policy[x].version
ChangesOf(x, k) == {j \in 1..k : history[j].scope = x}

\* The versions of a scope follow one another in the history, the policy is at the last
\* of them, and an authorization is behind one change at most.
HistoryIsLinear ==
    /\ \A k \in DOMAIN history :
         LET x == history[k].scope IN history[k].version = First(x) + Cardinality(ChangesOf(x, k))
    /\ \A x \in Scope : policy[x] # None =>
         policy[x].version = First(x) + Cardinality(ChangesOf(x, Len(history)))
    /\ \A j, k \in DOMAIN history :
         history[j].token = history[k].token /\ history[j].token # None => j = k

\* What the comment in inspect says: policy is locked first so rollback never waits on a
\* session held by this request.
RollbackNeverWaitsOnInspect ==
    \A p, q \in Proc :
        tx[p].op = "change" /\ tx[q].op = "inspect" /\ Waiting(p) /\ Head(tx[p].need)[1][1] = "session"
            => q \notin Blockers(p, Head(tx[p].need))
=============================================================================
