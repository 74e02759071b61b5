------------------------- MODULE MCInvitationAccess -------------------------
(* Small instances of InvitationAccess. *)
EXTENDS InvitationAccess, TLC

CONSTANTS g1, g2, g3, r1, r2, c1, c2, i1, i2, t1, t2, d1, d2, h1, s1, s2, w1

\* Two condominiums: g1 and g2 visit r1 in c1, and g3 visits r2 in c2.
MCById == [S \in SUBSET Guest |-> SelectSeq(<<g1, g2, g3>>, LAMBDA g : g \in S)]
MCResidentOf == [g \in Guest |-> IF g = g3 THEN r2 ELSE r1]
MCCondoOf == [x \in Resident \cup Validator |-> IF x \in {r2, d2} THEN c2 ELSE c1]

\* A device, a gatekeeper, an issuing and a revoking request around one invitation.
MCEntry == [guests |-> {g1}, invites |-> {i1}, tokens |-> {t1},
            requests |-> {d1, h1, s1, w1}, limits |-> {None}]
\* Two invitations that can only draw the same digits.
MCReuse == [MCEntry EXCEPT !.invites = {i1, i2}, !.requests = {d1, s1, w1}]
\* Both condominiums validate the same digits.
MCTenants == [MCEntry EXCEPT !.guests = {g1, g3}, !.requests = {d1, d2, s1}]
\* Two batches of one resident under changing limits.
MCLimits == [guests |-> {g1, g2}, invites |-> {i1, i2}, tokens |-> {t1, t2},
             requests |-> {s1, s2}, limits |-> {1, None}]
\* A batch of two guests against a gatekeeper, who locks in another order.
MCWaiting == [MCEntry EXCEPT !.guests = {g1, g2}, !.invites = {i1, i2},
                             !.requests = {h1, s1}]
MCSafety == {MCEntry, MCReuse, MCTenants, MCLimits, MCWaiting}

\* Invitations, tokens and issuing requests are interchangeable.
Symmetry == Permutations(Invite) \cup Permutations(Token) \cup Permutations(Issuer)
=============================================================================
