--------------------------- MODULE DeliveryOutbox ---------------------------
(***************************************************************************)
(* What the delivery outbox promises about one invitation's messages,      *)
(* without workers, leases, batches or clocks: an intent is tried at most  *)
(* budget times and closes once, as delivered only if the provider has the *)
(* message, as dead_letter on a permanent error or with no try left.       *)
(***************************************************************************)
EXTENDS Naturals

CONSTANT Intent     \* the delivery intents

VARIABLES
    state,      \* [Intent -> {"open", "delivered", "dead_letter"}]
    tries,      \* [Intent -> Nat]: tries whose outcome was recorded
    taken,      \* the intents whose message the provider holds
    budget      \* tries per intent, 0 until it is fixed for good

vars == <<state, tries, taken, budget>>

Init ==
    /\ state = [i \in Intent |-> "open"]
    /\ tries = [i \in Intent |-> 0]
    /\ taken = {}
    /\ budget = 0

FixBudget ==
    /\ budget = 0
    /\ budget' \in Nat \ {0}
    /\ UNCHANGED <<state, tries, taken>>

\* The provider is idempotent: taking a message again is taking it once.
Take(i) ==
    /\ taken' = taken \cup {i}
    /\ UNCHANGED <<state, tries, budget>>

\* One recorded try of an open intent, ending in the given state.
Try(i, end) ==
    /\ state[i] = "open" /\ tries[i] < budget
    /\ tries' = [tries EXCEPT ![i] = @ + 1]
    /\ state' = [state EXCEPT ![i] = end]
    /\ UNCHANGED <<taken, budget>>

Deliver(i) == i \in taken /\ Try(i, "delivered")
Miss(i) == tries[i] + 1 < budget /\ Try(i, "open")
GiveUp(i) == Try(i, "dead_letter")

Next == FixBudget \/ \E i \in Intent : Take(i) \/ Deliver(i) \/ Miss(i) \/ GiveUp(i)

Spec == Init /\ [][Next]_vars
=============================================================================
