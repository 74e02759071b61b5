-------------------------- MODULE MCGuestRetention --------------------------
(* Small instances of GuestRetention. *)
EXTENDS GuestRetention, TLC

\* Guests, requests of a kind and scheduler instances are interchangeable.
Symmetry == Permutations(Guest) \cup Permutations(Issuer) \cup Permutations(Validator)
              \cup Permutations(Job)
=============================================================================
