----------------------- MODULE MCRecoveryRevocations -----------------------
(* A small instance of RecoveryRevocations. *)
EXTENDS RecoveryRevocations

CONSTANTS e1, e2, d1, p1, p2, a1

\* A rolling deployment changes how often an event is tried.
MCMaxAttempts == [p \in Process |-> IF p = p1 THEN 1 ELSE 2]

\* Two workers of a deployment compete for an event, and one may crash.
MCCompeting == [link |-> [e \in Event |-> a1], events |-> {e1}, digests |-> {d1},
                processes |-> {p1, p2}, lanes |-> {1}, crashes |-> 1]
\* One worker serves two events of an account at the same time.
MCTwice == [MCCompeting EXCEPT !.events = {e1, e2}, !.processes = {p1}, !.lanes = Lane,
                           !.crashes = 0]
\* An event of nobody's identity, whose number comes signed for two different ones.
MCNobody == [MCCompeting EXCEPT !.link = [e \in Event |-> None], !.digests = Digest,
                                !.processes = {p2}]
MCScenarios == {MCCompeting, MCTwice, MCNobody}
=============================================================================
