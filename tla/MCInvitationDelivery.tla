------------------------ MODULE MCInvitationDelivery ------------------------
(* Small instances of InvitationDelivery. *)
EXTENDS InvitationDelivery, TLC

CONSTANTS p1, p2

\* Two processes under one configured DELIVERY_WORKER_ID.
MCSharedWorker == [p \in Proc |-> "w"]
\* Replicas that agree on the attempt budget, and replicas that do not.
MCDeployments == {[p \in Proc |-> 2], [p \in Proc |-> IF p = p2 THEN 1 ELSE 2]}
=============================================================================
