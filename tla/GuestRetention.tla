--------------------------- MODULE GuestRetention ---------------------------
(***************************************************************************)
(* The anonymization of guests whose retention period has passed           *)
(* (src/jobs/anonymize-old-guests.ts) beside the requests that use the     *)
(* same guest rows: issuances and validations (src/convites.ts) and the    *)
(* edits of a resident (src/convidados.ts).                                *)
(*                                                                         *)
(* The job's SELECT decides on its snapshot who is eligible, then locks    *)
(* the guests one by one, skipping those that are locked.  A row changed   *)
(* since the snapshot is checked again, on its own columns only: the       *)
(* subqueries on the invitations still answer from the snapshot.           *)
(***************************************************************************)
EXTENDS FiniteSets, Naturals

CONSTANTS
    Guest,
    Issuer,         \* requests issuing an invitation to one guest
    Validator,      \* requests validating an invitation
    Job,            \* scheduler instances
    BatchSize,      \* ANONYMIZATION_BATCH_SIZE
    MaxRequests,    \* bound: issuances, validations and edits begun
    MaxCrashes,     \* bound: runs killed by their timeout
    None

Client == Issuer \cup Validator
Tx == Client \cup Job

ASSUME RetentionAssumption ==
    /\ BatchSize \in Nat \ {0}
    /\ MaxRequests \in Nat /\ MaxCrashes \in Nat
    /\ IsFiniteSet(Guest)
    /\ Client \cap Job = {}
    /\ None \notin Tx

VARIABLES
    contact,    \* [Guest -> {"personal", "anonymized"}]: nome, email and telefone
    last,       \* [Guest -> Ages]: its latest invitation, or its registration when it has none
    named,      \* [Guest -> Nat]: entry notifications with the guest's name
    lock,       \* [Guest -> Tx \cup {None}]
    tx,         \* [Tx -> record]
    requests, crashes

rows == <<contact, last, named>>
vars == <<contact, last, named, lock, tx, requests, crashes>>

\* An invitation that can open the gate, one that ended within the retention period of
\* the current runs, and one that ended before it.
Ages == {"active", "recent", "old"}

Idle == [pc |-> "idle", guest |-> None, name |-> "none",
         snapshot |-> {}, locked |-> {}, rewritten |-> <<>>]

Init ==
    /\ contact = [g \in Guest |-> "personal"]
    /\ last \in [Guest -> {"recent", "old"}]
    /\ named = [g \in Guest |-> 0]
    /\ lock = [g \in Guest |-> None]
    /\ tx = [t \in Tx |-> Idle]
    /\ requests = 0 /\ crashes = 0

Eligible(g) == contact[g] = "personal" /\ last[g] = "old"

-----------------------------------------------------------------------------
(* The requests: each locks one guest, then commits.                       *)

Begin ==
    /\ requests < MaxRequests
    /\ requests' = requests + 1

Locks(t, g) == lock[g] = None /\ lock' = [lock EXCEPT ![g] = t]
Ends(t) ==
    /\ lock' = [g \in Guest |-> IF lock[g] = t THEN None ELSE lock[g]]
    /\ tx' = [tx EXCEPT ![t] = Idle]

\* Mutant: the issuance locks a guest that was anonymized.
IssueToAnyone(s, g) ==
    /\ tx[s].pc = "idle" /\ Begin
    /\ Locks(s, g)
    /\ tx' = [tx EXCEPT ![s].pc = "issuing", ![s].guest = g]
    /\ UNCHANGED <<rows, crashes>>

\* persistBatch finds the guest not anonymized, once it holds its lock.
LockForIssue(s, g) ==
    /\ tx[s].pc = "idle" /\ Begin
    /\ contact[g] = "personal" /\ Locks(s, g)
    /\ tx' = [tx EXCEPT ![s].pc = "issuing", ![s].guest = g]
    /\ UNCHANGED <<rows, crashes>>

\* The invitation commits, or the daily limit rolls it back.
EndIssue(s) ==
    /\ tx[s].pc = "issuing"
    /\ last' \in {last, [last EXCEPT ![tx[s].guest] = "active"]}
    /\ Ends(s)
    /\ UNCHANGED <<contact, named, requests, crashes>>

\* Mutant: the validation reads the guest's name without its lock.
ReadName(v, g) ==
    /\ tx[v].pc = "idle" /\ Begin
    /\ last[g] = "active"
    /\ tx' = [tx EXCEPT ![v].pc = "entering", ![v].guest = g, ![v].name = contact[g]]
    /\ UNCHANGED <<rows, lock, crashes>>

\* validateAccess locks the guest of a live invitation and reads its name.
LockForEntry(v, g) ==
    /\ tx[v].pc = "idle" /\ Begin
    /\ last[g] = "active" /\ Locks(v, g)
    /\ tx' = [tx EXCEPT ![v].pc = "entering", ![v].guest = g, ![v].name = contact[g]]
    /\ UNCHANGED <<rows, crashes>>

\* The invitation is consumed and the entry notification keeps the name; or the
\* invitation expired meanwhile, and the entry is denied.
Enter(v) ==
    /\ tx[v].pc = "entering"
    /\ LET g == tx[v].guest IN
       IF last[g] = "active"
       THEN /\ last' = [last EXCEPT ![g] = "recent"]
            /\ named' = IF tx[v].name = "personal" THEN [named EXCEPT ![g] = @ + 1] ELSE named
       ELSE UNCHANGED <<last, named>>
    /\ Ends(v)
    /\ UNCHANGED <<contact, requests, crashes>>

\* A resident's edit of a guest, one UPDATE that waits for the row and asks again that it
\* is not anonymized: new personal data takes the place of the old.
EditGuest(g) ==
    /\ Begin /\ lock[g] = None
    /\ contact[g] = "personal"
    /\ UNCHANGED <<rows, lock, tx, crashes>>

\* Time passes.  The cutoff is fixed for the runs of a day:
\* what lies before it changes only between them.
Expire(g) ==
    /\ last[g] = "active"
    /\ last' = [last EXCEPT ![g] = "recent"]
    /\ UNCHANGED <<contact, named, lock, tx, requests, crashes>>

Age(g) ==
    /\ last[g] = "recent" /\ \A j \in Job : tx[j].pc = "idle"
    /\ last' = [last EXCEPT ![g] = "old"]
    /\ UNCHANGED <<contact, named, lock, tx, requests, crashes>>

-----------------------------------------------------------------------------
(* The job.                                                                *)

\* Mutant: a guest that never entered is not a candidate.
SelectVisitors(j) ==
    /\ tx[j].pc = "idle" \/ tx[j].pc = "again"
    /\ tx' = [tx EXCEPT ![j] = [Idle EXCEPT !.pc = "locking",
                    !.snapshot = {g \in Guest : Eligible(g) /\ named[g] > 0}]]
    /\ UNCHANGED <<rows, lock, requests, crashes>>

\* A run starts, or goes on after a full batch: the snapshot of the candidates.
Select(j) ==
    /\ tx[j].pc = "idle" \/ tx[j].pc = "again"
    /\ tx' = [tx EXCEPT ![j] = [Idle EXCEPT !.pc = "locking",
                                           !.snapshot = {g \in Guest : Eligible(g)}]]
    /\ UNCHANGED <<rows, lock, requests, crashes>>

\* Mutant: a locked guest is taken all the same.
LockAnyCandidate(j, g) ==
    /\ tx[j].pc = "locking" /\ g \in tx[j].snapshot
    /\ Cardinality(tx[j].locked) < BatchSize
    /\ lock' = [lock EXCEPT ![g] = j]
    /\ tx' = [tx EXCEPT ![j].snapshot = @ \ {g}, ![j].locked = @ \cup {g}]
    /\ UNCHANGED <<rows, requests, crashes>>

\* FOR UPDATE SKIP LOCKED: a locked guest is skipped; one anonymized since the snapshot is
\* dropped; any other is taken, whatever invitation it received since.
LockCandidate(j, g) ==
    /\ tx[j].pc = "locking" /\ g \in tx[j].snapshot
    /\ Cardinality(tx[j].locked) < BatchSize
    /\ LET taken == lock[g] = None /\ contact[g] = "personal" IN
       /\ lock' = IF taken THEN [lock EXCEPT ![g] = j] ELSE lock
       /\ tx' = [tx EXCEPT ![j].snapshot = @ \ {g},
                           ![j].locked = IF taken THEN @ \cup {g} ELSE @]
    /\ UNCHANGED <<rows, requests, crashes>>

\* The UPDATEs of the guests and of their notifications, of which it sees the committed
\* ones.  Nothing to do ends the run.
Rewrite(j) ==
    /\ tx[j].pc = "locking"
    /\ tx[j].snapshot = {} \/ Cardinality(tx[j].locked) = BatchSize
    /\ IF tx[j].locked = {}
       THEN Ends(j)
       ELSE /\ tx' = [tx EXCEPT ![j].pc = "commit",
                                ![j].rewritten = [g \in tx[j].locked |-> named[g]]]
            /\ UNCHANGED lock
    /\ UNCHANGED <<rows, requests, crashes>>

\* The batch commits; after a full one the run goes on.  A run that ends counts who is
\* still eligible, and fails when anybody is: it will be retried.
Commit(j) ==
    /\ tx[j].pc = "commit"
    /\ contact' = [g \in Guest |-> IF g \in tx[j].locked THEN "anonymized" ELSE contact[g]]
    /\ named' = [g \in Guest |-> IF g \in tx[j].locked
                                 THEN named[g] - tx[j].rewritten[g] ELSE named[g]]
    /\ lock' = [g \in Guest |-> IF lock[g] = j THEN None ELSE lock[g]]
    /\ tx' = [tx EXCEPT ![j] = [Idle EXCEPT
                 !.pc = IF Cardinality(tx[j].locked) = BatchSize THEN "again" ELSE "idle"]]
    /\ UNCHANGED <<last, requests, crashes>>

\* The wrapper kills a run; its transaction rolls back.
Crash(j) ==
    /\ tx[j].pc # "idle" /\ crashes < MaxCrashes
    /\ crashes' = crashes + 1
    /\ Ends(j)
    /\ UNCHANGED <<rows, requests>>

-----------------------------------------------------------------------------
JobStep(j) == Select(j) \/ (\E g \in Guest : LockCandidate(j, g)) \/ Rewrite(j) \/ Commit(j)

Next ==
    \/ \E s \in Issuer : EndIssue(s) \/ \E g \in Guest : LockForIssue(s, g)
    \/ \E v \in Validator : Enter(v) \/ \E g \in Guest : LockForEntry(v, g)
    \/ \E g \in Guest : EditGuest(g) \/ Expire(g) \/ Age(g)
    \/ \E j \in Job : \/ Select(j) \/ Rewrite(j) \/ Commit(j) \/ Crash(j)
                      \/ \E g \in Guest : LockCandidate(j, g)

Spec == Init /\ [][Next]_vars

\* Open transactions go on, and the scheduler runs the job every day.
Fairness ==
    /\ \A s \in Issuer : WF_vars(EndIssue(s))
    /\ \A v \in Validator : WF_vars(Enter(v))
    /\ \A j \in Job : WF_vars(JobStep(j))

FairSpec == Spec /\ Fairness

-----------------------------------------------------------------------------
\* Every variable stays within its type; a guest's lock is held by an open transaction
\* that took it.
TypeOK ==
    /\ contact \in [Guest -> {"personal", "anonymized"}]
    /\ last \in [Guest -> Ages]
    /\ named \in [Guest -> Nat]
    /\ lock \in [Guest -> Tx \cup {None}]
    /\ \A t \in Tx : tx[t].pc \in {"idle", "issuing", "entering", "locking", "commit", "again"}
    /\ \A g \in Guest : lock[g] # None =>
         IF lock[g] \in Job THEN g \in tx[lock[g]].locked ELSE tx[lock[g]].guest = g
    /\ requests \in 0..MaxRequests /\ crashes \in 0..MaxCrashes

\* Once a guest is anonymized, no entry notification keeps the name: a validation that
\* read it cannot commit after the rewrite, and the personal data never comes back.
NamesForgotten == \A g \in Guest : contact[g] = "anonymized" => named[g] = 0

\* Anonymization is final: no edit re-identifies the guest, and no invitation is
\* committed for it.
AnonymizedIsHistorical ==
    [][\A g \in Guest : contact[g] = "anonymized" =>
         /\ contact'[g] = "anonymized"
         /\ last'[g] = "active" => last[g] = "active"]_vars

\* Every guest whose retention period has passed is anonymized, or receives another
\* invitation, whatever batches, locks and killed runs it takes.
EventuallyForgotten == \A g \in Guest : Eligible(g) ~> ~Eligible(g)

\* What the job's comment promises: SKIP LOCKED keeps it from racing an issuance, so a
\* guest is anonymized only when its latest invitation ended before the cutoff.
OnlyStaleForgotten ==
    [][\A g \in Guest :
         contact[g] = "personal" /\ contact'[g] = "anonymized" => last[g] = "old"]_vars
=============================================================================
