------------------------- MODULE MCBrowserSessions -------------------------
(* Small instances of BrowserSessions. *)
EXTENDS BrowserSessions, TLC

CONSTANTS a1, a2, m1, m2, m3, c1

\* m1 and m2 are a1's, m3 is a2's; only m2 is of a condominium.
MCAccountId == [a \in Account |-> IF a = a1 THEN 1 ELSE 2]
MCAccountOf == [m \in Membership |-> IF m = m3 THEN a2 ELSE a1]
MCCondoOf == [m \in Membership |-> IF m = m2 THEN c1 ELSE None]

\* One account switches between its memberships and logs out.
MCFamily == [accounts |-> {a1}, founding |-> {m1, m2}, requests |-> {"issue", "rotate", "logout"},
             handoffs |-> 2, served |-> 4]
\* It reauthenticates, or another account answers; and two tabs of it reauthenticate.
MCReauth == [MCFamily EXCEPT !.founding = {m1}, !.requests = {"issue", "rotate", "reauth"}]
MCIdentities == [MCReauth EXCEPT !.accounts = {a1, a2}, !.requests = {"issue", "reauth"},
                                 !.served = 3]
MCTabs == [MCReauth EXCEPT !.requests = {"issue", "reauth"}, !.handoffs = 3, !.served = 2]
\* A membership or the condominium is barred meanwhile.
MCBarred == [MCFamily EXCEPT !.requests = {"issue", "rotate", "disable", "close"},
                             !.handoffs = 1]
\* The same while two logins are served, which lock in other orders and may deadlock.
MCClosing == [MCFamily EXCEPT !.requests = {"issue", "disable", "close"}]
\* A login presents the session of another account.
MCAccounts == [accounts |-> {a1, a2}, founding |-> {m1, m3},
               requests |-> {"issue", "logoutAll"}, handoffs |-> 2, served |-> 4]
\* The sessions of the account are revoked between a login and its callback.
MCRevoked == [MCFamily EXCEPT !.founding = {m1},
                              !.requests = {"issue", "logoutAll", "suspended", "disabled"}]
\* Sessions idle out while requests extend them.
MCIdle == [MCRevoked EXCEPT !.requests = {"rotate", "issue", "touch"}, !.handoffs = 1]
\* Issuance against what takes the same locks in another order.
MCWaiting == [MCRevoked EXCEPT !.requests = {"issue", "logoutAll", "disable", "member"}]
MCSafety == {MCFamily, MCBarred, MCClosing, MCAccounts, MCRevoked, MCIdle, MCWaiting,
             MCReauth, MCIdentities, MCTabs}

\* A tab that logs out while others rotate.
MCLogout == {[MCRevoked EXCEPT !.requests = {"issue", "rotate", "logout"},
                           !.handoffs = 1]}

\* Requests served at the same time are interchangeable.
Symmetry == Permutations(Proc)
=============================================================================
