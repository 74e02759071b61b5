----------------------------- MODULE MCOidcLogin -----------------------------
(* One provider (pv), one account with memberships in two condominiums (an) and one
   account that is or will be invited to the first (bo). *)
EXTENDS OidcLogin, TLC

CONSTANTS pv, an, bo, mp, a1, a2, mb, c1, c2, t1, t2, s1, s2

MCAccountOf == [m \in Membership |-> IF m = mp THEN pv ELSE IF m = mb THEN bo ELSE an]
MCCondoOf == [m \in Membership |-> IF m = mp THEN None ELSE IF m = a2 THEN c2 ELSE c1]
MCCohort == [c \in Condo |-> IF c = c1 THEN 10 ELSE 11]

Change(scope, state, cohort) == [scope |-> scope, state |-> state, cohort |-> cohort]
Tenant2 == Change(c2, "enabled", 0)
Pilot2 == Change(c2, "pilot", 10)
MCApproved == [t \in Token |-> IF t = t1 THEN Tenant2 ELSE Pilot2]

Row(state) == [state |-> state, cohort |-> 0, version |-> 1]
Session(m) == [membership |-> m, state |-> "live"]
Handoff1(a) == [account |-> a, login |-> 0, state |-> "fresh"]
Login(a) == [invited |-> a, state |-> "open"]

Scenario(global, tenant1, tenant2, bound, invited, live, fresh, open, kinds, asked, gone) ==
    [policy |-> [x \in Scope |-> IF x = "global" THEN global ELSE IF x = c1 THEN tenant1 ELSE tenant2],
     status |-> [a \in Account |-> IF a = bo THEN (IF invited = "none" THEN "none" ELSE "invited") ELSE "active"],
     membership |-> [m \in Membership |->
        IF m = mb THEN (IF invited = "none" THEN "none" ELSE "invited") ELSE "active"],
     identity |-> [s \in Subject |-> IF s = s1 THEN bound ELSE None],
     invitation |-> [a \in Account |-> IF a = bo THEN invited ELSE "none"],
     sessions |-> live, handoffs |-> fresh, logins |-> open,
     requests |-> kinds, changes |-> asked, closed |-> gone]

On == Row("enabled")
MCScenarios == {
  \* sessions issued and rotated while a change excludes one of the memberships, or all
  Scenario(On, On, On, an, "none", <<Session(mp), Session(a1)>>, <<Handoff1(an)>>, <<>>,
           {"change", "issue", "rotate"},
           {Change("global", "pilot", 10), Change(c1, "disabled", 0), Change("global", "internal_provider", 0)}, {}),
  \* tabs of the provider that changes the policy
  Scenario(On, On, None, an, "none", <<Session(mp), Session(a1)>>, <<>>, <<>>,
           {"change", "inspect", "authenticate", "rotate"},
           {Change("global", "disabled", 0), Change("global", "enabled", 0)}, {}),
  \* the first policy of a tenant, by two commands and a provider
  Scenario(Row("internal_provider"), On, None, an, "none", <<Session(mp)>>, <<Handoff1(an)>>, <<>>,
           {"change", "issue"}, {Tenant2, Pilot2, Change("global", "enabled", 0)}, {}),
  Scenario(On, None, None, an, "none", <<Session(mp)>>, <<>>, <<>>,
           {"change"}, {Tenant2, Pilot2}, {c2}),
  \* an invitation carried by two logins, or started twice, and the account barred
  Scenario(On, On, None, None, "open", <<>>, <<>>, <<Login(bo), Login(bo)>>,
           {"callback", "issue", "bar", "expire"}, {}, {}),
  Scenario(On, On, None, None, "none", <<>>, <<>>, <<>>,
           {"invite", "accept", "callback"}, {}, {}),
  Scenario(On, On, None, None, "none", <<>>, <<>>, <<>>, {"invite"}, {}, {c1}),
  \* logins under a policy that changes
  Scenario(On, On, None, an, "open", <<Session(mp)>>, <<>>, <<>>,
           {"login", "accept", "callback", "change"},
           {Change("global", "internal_provider", 0), Change("global", "disabled", 0)}, {}),
  Scenario(On, On, None, an, "none", <<Session(mp)>>, <<>>, <<Login(None)>>,
           {"callback", "issue", "bar", "change"}, {Change(c1, "disabled", 0)}, {})}

\* Requests served at the same time are interchangeable.
Symmetry == Permutations(Proc)
=============================================================================
