-------------------------- MODULE MCAuthRateLimits --------------------------
(* Small instances of AuthRateLimits: the time unit is the shortest backoff. *)
EXTENDS AuthRateLimits, TLC

CONSTANTS ip, digest, account, q1, q2, q3

\* callback_failure_ip and authentication_failure_ip have no backoff; the invitation
\* buckets and session_creation_account have one.
MCPolicy == [b \in Bucket |->
    CASE b = ip -> [limit |-> 2, window |-> 2, backoff |-> 0]
      [] b = digest -> [limit |-> 1, window |-> 2, backoff |-> 1]
      [] b = account -> [limit |-> 1, window |-> 1, backoff |-> 1]]

Guard == [kind |-> "guard", buckets |-> <<ip>>]
Accept == [kind |-> "accept", buckets |-> <<ip, digest>>]
Creation == [kind |-> "check", buckets |-> <<account>>]

\* Three callbacks of one prefix, acceptances of one invitation, or sessions
\* of one account.
MCGuards == [r \in Request |-> Guard]
MCAccepts == [r \in Request |-> Accept]
MCChecks == [r \in Request |-> Creation]
MCTraffic == {MCGuards, MCAccepts, MCChecks}
MCOnlyChecks == {MCChecks}

\* Requests in flight are interchangeable.
Symmetry == Permutations(Request)
=============================================================================
