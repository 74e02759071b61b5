# Specifications of egogero-condominium

TLA+ modules for the server of egogero-condominium, a multi-tenant gate-access system: a
Fastify and React application over one PostgreSQL database, with background workers and
scheduled jobs. Paths are relative to the repository's root (`src/convites.ts` is
`src/src/convites.ts` in `PROJECT.json`, whose paths begin one directory higher).

What makes this system hard is that nearly all its state is in PostgreSQL and nearly all its
writers are concurrent: replicas of the server, several workers, jobs started twice. Its
correctness rests on row locks, on WHERE clauses repeated after a wait, on unique indexes and
on leases, and a statement at READ COMMITTED sees neither what is not yet committed nor, once
it has begun, the rows committed later. The modules describe exactly that: which row each
statement waits for, what it re-checks, and what it took from an older snapshot.

## Inventory

| Component | State | Operations | Module |
|---|---|---|---|
| Delivery worker (`src/jobs/deliver-invitations.ts`) | `DeliveryIntent` rows, `SecurityKey` attempt policy, the batch in memory | verify policy, claim, renew, send, complete, fail, shut down | `InvitationDelivery`, `DeliveryOutbox` |
| Invitations (`src/convites.ts`) | `Convite`, access audits, entry notifications | issue a batch, validate, revoke | `InvitationAccess` |
| Idempotent issuance (`src/convites.ts`, `src/jobs/cleanup-idempotency.ts`) | `IdempotencyRecord` | claim a key, replay, withdraw, confirm, clean up | `IdempotentIssue` |
| Guest anonymization (`src/jobs/anonymize-old-guests.ts`) | `Convidado`, `Notificacao` | select, lock, rewrite | `GuestRetention` |
| Browser sessions (`src/sessions.ts`, `src/browser-auth.ts`) | `BrowserSession`, `OidcValidatedHandoff`, account and membership rows | issue from a handoff, reauthenticate, rotate, inspect, authenticate, revoke, revoke all, extend | `BrowserSessions`; gates and inspect in `HumanAuthRollout` |
| Human administration (`src/human-administration.ts`) | `HumanAccount`, `HumanMembership`, `HumanProvisioningInvitation`, `RecoveryWebhookEvent` | invite, create or disable a membership, suspend or disable an account, accept a recovery event | `OidcLogin`, `BrowserSessions`, `HumanAuthRollout`, `RecoveryRevocations` |
| Condominiums, residents, limits (`src/app.ts`) | `Condominio`, `Morador` | soft delete, set a limit | parts of `InvitationAccess`, `BrowserSessions` |
| Guests (`src/convidados.ts`) | `Convidado` | edit, soft delete | parts of `InvitationAccess`, `GuestRetention` |
| Devices (`src/dispositivos.ts`) | `Dispositivo`, rate-limit counters | revoke, rotate the key, limit a device | revocation in `InvitationAccess` |
| Notifications (`src/notificacoes.ts`) | `Notificacao` | list, mark as read | writes only, in the above |
| OIDC login (`src/oidc.ts`) | `OidcLoginTransaction`, `ExternalIdentity`, handoffs | start a login, accept an invitation, callback | `OidcLogin`; guards in `AuthRateLimits` |
| Rate limits (`src/auth-rate-limits.ts`) | `AuthenticationRateLimit` buckets, reservations | check, reserve, finalize, clean up | `AuthRateLimits` |
| Recovery worker (`src/jobs/process-recovery-revocations.ts`) | `RecoveryWebhookEvent` rows with leases | claim, revoke, acknowledge, fail, expire, alert | `RecoveryRevocations` |
| Rollout (`src/human-auth-rollout.ts`, `src/jobs/set-human-auth-rollout.ts`, migration 0026) | policies, their history, deployment authorizations | gate under share locks, set and sweep | `HumanAuthRollout` |
| Rollout evidence (`src/auth-rollout.ts`) | none | compare a document with thresholds | not modelled: an offline evaluator that keeps no state |
| Configuration, headers, addresses (`src/env.ts`, `src/auth.ts`, `src/client-ip.ts`, `src/server.ts`) | none | parse | not modelled: stateless |
| Observability (`src/auth-observability.ts`) | counters | count, alert | not modelled: nothing reads them to decide |
| Soft-delete client, time zones (`src/lib`, `src/timezones.ts`) | none | filter, look up | not modelled: the statements modelled carry their own filters |
| Front end, deployment, scripts (`web`, `deploy`, `scripts`) | none | render, build | not modelled |

How they interact:

- An issuance commits, in one transaction, the invitations, the digests it reclaimed, the
  idempotency record and one delivery intent per channel. The worker takes over from there.
- A validation locks its credential, the invitation and the guest's chain of parents, and
  commits the use, the audit and the resident's notification together. Administration deletes
  those parents and revokes those credentials.
- The anonymization takes the same guest locks as issuance and validation, and rewrites the
  notifications that validations wrote.
- The identity provider's callback leaves a handoff that a later request turns into a session;
  between the two, administration, a recovery or a logout may change the account.
- Accounts, memberships, condominiums and sessions are locked by session requests and by
  administration in partly different orders; the database breaks the cycles.
- Every session that is issued, rotated or looked at, and every login, passes a gate that reads the
  rollout policies under share locks; a policy change locks the policy and then sweeps the
  sessions it excludes.
- A recovery event is stored by a webhook and served by a worker, which raises the account's
  session version under the lock that issuance takes.
- Callbacks, session lookups and invitation acceptances reserve a place in one or two rate-limit
  buckets before their work and settle the reservation after it, in transactions of their own.

What makes each component correct:

- *Delivery*: one lease holder per row whatever crashes; attempts count provider outcomes and
  stay within one budget; a closed row stays closed; every intent closes.
- *Invitations*: one entry per invitation, authorized at the instant it is committed; a guest's
  token is not taken by another's issuance; the daily limit holds under concurrency.
- *Idempotency*: one batch per key and replay window; answers match their own body; no request
  waits forever.
- *Retention*: no personal name survives an anonymization; only guests past their retention
  period are anonymized; all of those are.
- *Sessions*: one unrevoked session per family; one session per handoff; nothing that was barred
  or revoked comes back, even through a request already under way.
- *Rate limits*: `reservedCount` and `count` are what the reservations and the requests say; no
  window admits more than its limit; what crashed requests leave behind ends with the window.
- *Recovery*: an acknowledgement means every older session is revoked, exactly once; outcomes are
  final; what was accepted is acknowledged or paged.
- *Rollout*: no session outside the policy outlives the commit of a change; versions and
  authorizations are used once, in order.
- *Logins*: an invitation binds one identity and lets nobody in before; a login leaves one handoff.

The hazards behind these properties are listed line by line in `PROJECT.json`.

## Plan

1. `InvitationDelivery` with the abstract `DeliveryOutbox` it implements — done, with proofs.
2. `InvitationAccess` — done.
3. `IdempotentIssue` — done.
4. `GuestRetention` — done.
5. `BrowserSessions` — done for sessions and what bars them.
6. `AuthRateLimits` — done.
7. `RecoveryRevocations` — done.
8. `HumanAuthRollout`, and `OidcLogin` which extends it with logins and provisioning — done.
9. Left: the key rotation of devices, and the checks of the session middleware (CSRF, audit rows).

Proofs, in order: `InvitationDelivery` and its refinement of `DeliveryOutbox`, `IdempotentIssue`,
`GuestRetention`, `RecoveryRevocations`, `InvitationAccess`, `AuthRateLimits`, `BrowserSessions`,
`OidcLogin` with the `HumanAuthRollout` it extends — done: each safety property of a passing run is a
theorem.
No module to be proved about declares a RECURSIVE operator.

## The modules

Every module takes its sets and bounds as CONSTANTS under a named assumption, declares its state,
has one action per statement (or per transaction where nothing observable lies between two
statements), and states its properties at its end. `MC...` modules give the constants their values.
A mutant of an operator, named in a comment, stands before it: the broken variant that the
property given for it in `PROJECT.json` must reject.

**Transactions.** In `InvitationAccess`, `BrowserSessions` and `HumanAuthRollout` a transaction is a
record `tx[t]`: the statement it is at (`pc`), the locks it still has to take for that statement, in
order (`need`), and what it holds in memory. `Acquire` takes one lock when nobody else has it; the
next statement runs once `need` is empty. Writes are invisible until the commit and so are applied
there; where a statement's choice of rows comes from an older snapshot, the choice is made when the
statement begins and kept in the record. `End` is commit or rollback; `DeadlockVictim` is the
database aborting one transaction of a minimal cycle of waits. These are the external part of the
model, and stand for documented PostgreSQL behaviour.

**`InvitationDelivery`.** `row` is the table; `nextAttempt` and `lease` are two of its timestamps
against the clock. `claim` is what a process keeps in memory between two statements: the token
and attempts its UPDATE returned, and where `processNext` is (`phase`). A lease token is a number
never drawn before, as `gen_random_uuid()` is. `VerifyDeliveryPolicy`, `ClaimDeliveries`
(both statements of `claimDeliveries`, which run in one transaction), `RenewDeliveryLease`,
`Dispatch`, `SendSettles`, `CompleteDelivery` and `FailDelivery` are the functions of those names;
`LeaseExpires` and `BackoffElapses` are the clock; `Crash`, `Stop` and a statement that throws are
faults. `configured` lets replicas be deployed with different attempt budgets.

**`DeliveryOutbox`.** What the queue promises without workers: an intent is tried at most `budget`
times, closes once, and closes as delivered only if the provider holds the message. The mapping in
`InvitationDelivery` forgets leases and batches, and reads `attempts` as the tries.

**`InvitationAccess`.** `validateAccess` is five statements (credential, tenant and lookup, candidate
under lock, second SELECT with the parents' locks, consuming UPDATE), `persistBatch` is the
reclaiming UPDATEs, the SELECT of the guests, the check with the count of the civil day, and the
INSERTs; `revokeActive` is one UPDATE that waits. Deletes, limits, revocations of credentials,
expiry and midnight happen between any two of them. Digests are tokens: the unique index and the
reclaiming compare nothing else.

**`IdempotentIssue`.** `issueIdempotent` as delete, insert, read, persist, confirm. `writer` is the
open transaction that wrote the key's record, for which an INSERT of the same key waits.

**`GuestRetention`.** The job's SELECT is two steps, the snapshot and the locking of each row, since
SKIP LOCKED re-checks a row only if it was updated since. Issuances lock a guest and do not
update it; validations and edits do.

**`BrowserSessions`.** `issueFromHandoff` is consumption of the handoff, account locks in id order,
memberships, scope, presented session, and the write; `rotate`, `revoke`, `revokeAll` and the
administration's requests follow their own lock orders. A reauthentication is an intent
(`CreateIntent`), its redemption (`StartReauth`) and a `Callback` in which anybody may have logged in.
`time` orders authentications against
`updatedAt`. `Refuse` is a refusal by the rollout policy, the MFA policy, the session's key or the
limit on new sessions, which spends a login's handoff and writes nothing else. The limit is counted after
a recovery has raised the version and revoked the account's sessions, and returns without an
exception: `LimitRecovery` is that refusal, which commits both and makes no session. `Abort` is a
lost connection at any point.

**`AuthRateLimits`.** One row per bucket, its reservations, and the clock as a number. `Check` is the
upsert of `check`; `Find`/`Reserve` and `FindReservation`/`Finalize` are what those functions do
before and under the row lock, each in a transaction of its own; `LockExpired`, `DeleteExpired` and
`Purge` are the statements of `cleanup`, one transaction that keeps its locks. A request follows a
plan: it guards work with one bucket and releases it on success (callbacks, session lookups), it
accepts an invitation and consumes two, or it only counts. `granted` and `spent` are history.
`check` without `consume`, which only reads, has no caller outside the tests and is left out; so is
the schedule of `cleanup`, which runs at any time.

**`RecoveryRevocations`.** `event` is the queue, `version` and `live` what is left of an account's
sessions, `issuing` a login that has locked its account and read the version. `Webhook`, `Claim`
(the expiring, exhausting and claiming statements, one transaction) and `FailClaim` are one step
each; the revoking transaction is `LockEvent`, `Revoke` (the account's lock) and `Acknowledge` (the
commit). `Fault` is a timeout, a refusal, an exception, or a commit whose answer is lost, after
which the lane fails what it holds. `AlertRead`, `Paged` and `PageFails` are the alert of overdue
events before and after the claims of a batch; a crash between `emit` and the UPDATE repeats an
alert, which is why it is only promised to be made. `MaxAttempts` may differ between processes of a
rolling deployment. The webhook looks the identity up before its INSERT: one linked in between is
missed, in the code as in the model, where links are fixed by the scenario.

**`HumanAuthRollout`.** Policies, their history and authorizations against the requests they gate.
`BeginChange`, `Authorize`, `LockPolicy`, `Upsert`, `Sweep` and `CommitChange` are `setPolicy`'s
advisory locks and the statements of `set_human_auth_rollout_policy` that wait or choose rows:
`Sweep` picks the sessions to revoke from what is committed and then waits for each. Issuance,
rotation, `inspect` and `authenticate` take the locks they take in the code up to the gate and the
session. What `BrowserSessions` already covers is not repeated: idle times, session versions, MFA,
issuance without a presented session, condominiums that close (here `closed` is fixed by the
scenario). `setAccountStatus` is there because it takes the same rows (`BeginBar` to `Bar`).

**`OidcLogin`.** It extends `HumanAuthRollout` with `createInvitation`, `startLogin` and its two
preflights, and the callback: `Callback` consumes the login transaction in its own commit, the
exchange with the provider happens outside the database, and `completeIdentity` looks for the
invitation or for the identity, under locks, and leaves a handoff. `identity` is a link from a
provider's subject. A callback without a usable transaction changes nothing and is not an action;
invited accounts have one membership, as `createInvitation` gives them.

## What is checked

The passing runs, each with deadlock checking on:

| Run | Instance | Shows |
|---|---|---|
| `delivery` | 2 processes sharing a worker id, 2 intents (1 unreadable), 2 lanes, budgets (2,2) or (2,1), 2 faults | fencing, attempts, schema CHECKs, refinement of the outbox, every intent closes |
| `access` | 5 scenarios (below) | one authorized entry, live tokens kept, daily limit, live parents |
| `retention` | 2 guests, 2 schedulers, batches of 1, 4 requests, 1 killed run | names forgotten, anonymized for good, everyone due is reached |
| `idempotency` | 3 requests, 1 key, 2 bodies, 1 crash | one batch per window, answers of the right body, no stuck request |
| `sessions` | 10 scenarios of 2 concurrent requests out of 4 | one live session per family, single-use handoffs and intents, nothing barred survives |
| `rate_limits` | 3 requests, 1 cleaner, buckets of limit 1 or 2 with and without backoff | exact counters, no overspent window, expired windows admit |
| `recovery` | 3 scenarios: 2 workers of budgets 1 and 2 with a crash; 2 events of one account in 2 lanes; an event of nobody, whose number is signed with two contents | acknowledged is revoked, outcomes final, every event accepted is the one settled or paged |
| `login` | 9 scenarios of 2 concurrent requests, up to 4 in all: 3 accounts, 4 memberships, 2 condominiums | no session outside the policy, single acceptance, linear history |

A *scenario* bounds one execution: which guests, accounts, tokens and kinds of request take part.
It is chosen by `Init` and never changes; a module's theorems would hold for any set of them.
`access` runs (1) a device, a gatekeeper, an issuance and a revocation around one invitation, (2)
two invitations that can only draw the same digits, (3) two condominiums that validate the same
digits, (4) two batches of one resident under limits that change, (5) a gatekeeper and a batch of two
guests, whose lock orders conflict and may need the deadlock detector. `sessions` runs (1) tenant
switches and logouts of one account, (2) a membership disabled or a condominium
closed while one login rotates, (3) the same while two logins are served, the case the database may
have to abort, (4) logins that present another account's session against a logout of all, (5)
revocations, suspension and disabling between a login and its callback, (6) sessions that idle out
while they are used, (7) logins against a logout of all, a disabled membership and a new one, (8)
reauthentications against a rotation and a login, (9) reauthentications answered by another account,
(10) two tabs that reauthenticate. The scenarios of `login` are named one by one in `MCOidcLogin`.

Why these bounds are enough for the properties they serve: each of the races is between two
transactions on one row, or two on a chain of rows (a third process is the same as the second once
it is fenced); the hazards need one reclaim after one crash, one retry after one commit, one
rotation racing one other writer, and the instances contain each of these with room for one more
step. Every property is violated by the mutant given for it, in the same run. Attempt budgets of
two tell a first failure from the last; two faults put a premature lease expiry after a crash. Four
requests let a login and a rotation be followed by two that race. Invitations are bounded by
`invites`: a batch begins only while there are rows for every open batch.

In `rate_limits` time runs over two windows and the idle time after which a bucket is deleted; in
`recovery` one budget is exhausted by a first attempt and the other by a second; in `login` each
gate meets a change that excludes its session and one that does not.

Symmetry (processes, invitations, tokens, issuers, guests, requests) is used only in runs without
liveness.

**Findings.** Four runs are expected to fail, each on a promise a document or a comment makes:

- `retention_race` — `OnlyStaleForgotten`: the anonymization decides on its snapshot who has no
  recent invitation, and takes the lock later. An issuance that commits in between locked the guest
  without updating it, so nothing is checked again and a guest with a live invitation is anonymized.
  The comment above the SELECT says SKIP LOCKED avoids this race.
- `sessions_logout` — `LogoutEndsFamily`: `revoke` does not lock the account that rotations lock. A
  logout whose UPDATE waits for a session being rotated cannot see the row the rotation inserts; the
  family keeps a live session although the logout answers 204.
- `rate_window` — `ExpiredWindowResets`: `check` decides `blockedUntil` from the old count before it
  tests whether the window is over. Where there is a backoff, a bucket whose limit was exactly used
  refuses, and blocks, the first request after its window. A test says that an expired window must
  reset; it uses a bucket without backoff.
- `rollout_wait` — `RollbackNeverWaitsOnInspect`: a comment in `inspect` says that the policy is
  locked first so that a rollback never waits for a session the request holds. A change made from a
  browser locks its own session before the policy, and waits there for an inspection of that
  session, from another tab. Met the other way round, the two wait for each other.

One more disagreement has no run: the loser of the INSERT of an idempotency record reads it in a
later statement, and when it has expired and been cleaned up before that (`Read` finding none in
`IdempotentIssue`), a retry of the very same body is told that it conflicts with a different request.

**Fairness.** `delivery`: the polling loop, its lanes, the supervisor's restart and the clock go on;
a send settles because it has a deadline; a crash, a stop, a failing statement or a premature
expiry need not happen, and are bounded by `MaxFaults` because a system that crashes forever closes
nothing. A live lease-holder's lease is not required to expire. `idempotency`: a transaction that can
go on does, and the hourly cleanup runs; keys need not expire. `retention`: open transactions go on
and the job is run again; nobody is obliged to invite, enter or edit. `recovery`: each worker runs
and is restarted after a crash (the container's restart policy is `unless-stopped`), weakly fair as a
whole since its loop waits for its lanes; time passes, since retries come due, leases end and
events age; a login that has locked its account ends, as its transaction times out; and the alert
sink, tried again in every batch, takes an alert eventually (strong fairness of `Paged`). A worker
crashes at most as often as the scenario says. No action of a client is fair anywhere.

## What is proved

A theorem holds for every value of the constants that satisfies the assumption of its module; TLC
evaluates that assumption on the constants of each run. Each proof module states an inductive
invariant, shows in one lemma per action that the action preserves it, and derives the invariants and
action properties the runs check. What is below is what is not inductive about those properties, and
what is added to make them so.

**`InvitationDeliveryProofs`**, for any processes, worker ids, intents, attempt budgets, batch
sizes, lanes and number of faults:

- `TypeCorrect`: `TypeOK`, which is inductive.
- `LeasesFence`: `OneLeaseHolder`, at most one process can pass the WHERE clause of a renewal or of a
  final update, even when both run under one worker id. It says nothing of tokens that no row
  carries yet. `LeaseTokens` adds that two processes never hold one token of a row, that no held
  token is ahead of those drawn, and that a leased row carries one.

The same module adds to `LeaseTokens` what a claim is worth while it is fenced
(`AttemptsInv`): only a working process has a batch (`BatchesInMode`), with the persisted budget
(`PolicyShared`); the `attempts` it remembers is the row's and the outcome it is about to
write is not counted yet (`LeaseIsCurrent`); a send that was answered has reached the provider
(`AnswersAreTaken`). It follows:

- `RowsPassTheChecks`, `BudgetIsKept`, `AttemptsCountOutcomes` and `GivenUpForAReason`:
  `SchemaChecks`, `AttemptsWithinPolicy`, `AttemptsAreObserved`, `DeadLetterJustified`.
- `WorkersImplementOutbox`: `ImplementsOutbox`. Initial states map to initial states, and each
  action maps to the step of `DeliveryOutbox` that it completes or to a stutter. The refinement is of
  the safety part; that every intent closes is checked by TLC.

**`IdempotentIssueProofs`**: `KeysIssueOnce` (`OneBatchPerWindow`) and `AnswersMatch`
(`AnswersTheRequest`). `IssueInv` adds that a batch that can still be replayed is the one its key's
record names (`WindowsRecorded`), that a record replays a batch of its own key (`RecordsReplay`), and
that only the writer of a key issues under it, while no live record has it (`WritersIssue`).

**`GuestRetentionProofs`**, under the assumption that requests and jobs are different processes:
`NamesAreForgotten` (`NamesForgotten`) and `AnonymizationIsFinal` (`AnonymizedIsHistorical`).
`LocksProtect` is the invariant behind them: a lock has one owner (`LockTaken`), a request that
has read a guest under lock still has it as it was read (`ClientHolds`), and a job that has selected
guests has them locked and still eligible (`JobHolds`).

**`RecoveryRevocationsProofs`**: `SettledStaysSettled` (`SettledIsFinal`) and `AcknowledgementProves`
(`AcknowledgedIsRevoked`). For the queue, a lane's claim is the row's lease or is stale (`LaneKnows`)
and one transaction at a time has a row locked (`OneLocker`). For accounts, each acknowledged
event has advanced the version by one (`VersionCounts`), a login holding the account knows its
version (`LoginHolds`), and a revocation that has yet to commit holds the account (`RevokerHolds`,
`OneRevoker`), so nothing is issued behind it.

**`InvitationAccessProofs`**: `OpensOnce` (`OneEntryPerInvitation`), `GateIsAuthorized`
(`EntryIsAuthorized`), `TokensStay` (`LiveTokenKept`), `ParentsLiveAtIssuance`
(`IssuedToLiveParents`) and `LimitsAreKept` (`IssuedWithinLimit`). `AccessInv` says what a validation
(`ValidatorKnows`) and an issuance (`IssuerKnows`) know at each statement of the rows they have locked.
The work is that no other transaction can change those rows: `Spares` is what a step
of one transaction leaves of what another has locked, and each action's lemma proves it. The order
in which guests are locked is a function the module is given (`ById`), since a filter of a sequence is a recursive
definition, about which nothing can be proved by induction here.

**`AuthRateLimitsProofs`**: `CountersAgree` (`CountersExact`), `BudgetKept` (`BudgetHolds`) and
`ExpiredAdmits` (`ExpiredWindowAdmits`). `RateInv` is a conjunction over buckets, each accounted for by
itself: its counters are the sizes of its sets of reservations (`Counts`), what its window has
granted is what it counts or has released (`Budget`), reservations belong to the current
window (`ReservationsCurrent`) or are of past ones (`GrantsPast`), and a cleanup that has a bucket
locked has it expired (`CleanerHolds`). It assumes what the code's callers do: a request has at
least one bucket and none twice, and a bucket counted by `check` is never reserved
(`AuthReservationRateLimitAction` is a type of its own).

**`BrowserSessionsProofs`**, for any accounts, memberships and condominiums, any scenario and any
finite number of processes: `OneWinner` (`OneLivePerFamily`), `HandoffSpentOnce`
(`OneSessionPerHandoff`), `BarredStaysBarred` (`UnrevokedIsCurrent`), `NoOldLogin`
(`AuthenticatedAfterUpdate`) and `EndedStaysEnded` (`EndedIsFinal`). A session of kind "recovery" may
be older than the update that its own recovery made; `NoOldLogin` allows that only while it has the
version of that update, and the next update ends it too. None of the four invariants is
inductive: an issuance writes what it has read of the account, the membership and the condominium
several statements earlier, so nothing in the rows says that it may. `SessionInv` adds

- about the rows: a family is one account's and is named after its first session (`FamiliesOK`), a
  session's handoff is consumed and a reauthentication's intent answered (`IssuedOK`), the clock is
  ahead of every update (`ClockOK`);
- about the locks: an exclusive one excludes, and an idle request has none (`LocksOK`);
- about each transaction, what it knows at its statement (`TxKnows`, one operator for each kind of
  request): the rows it has locked or waits for, what it has read of those it has (the account is
  not refused, the membership and its condominium are in force), and that the sessions to be revoked
  at the commit are all there are (`SessionsClaimed`, `OfAccount(a) \subseteq tx[u].revoke`).

The last of these is the heart: nobody can insert a session of an account, a membership or a
condominium that a revocation has locked, because every insertion holds a lock on each of the three.
`LocksRespected` says so of a step, `Spares` what the step then leaves of another transaction's
knowledge, and each action has a lemma that proves it. `CountsOK` is about the bounds alone: each open
request makes one session at most, so that the rows stay within `MaxRequests`. Assumed are that
`None` is no id and no kind of request, that processes and memberships are finite sets, and nothing
about the order of the accounts: deadlocks are broken by the detector, and the theorems do not need
their absence.

**`OidcLoginProofs`**, for any accounts, memberships, condominiums and provider subjects, any number of
requests and any scenario: `RolloutIsKept` (`RolloutHolds`), `InvitationsBindOnce` (`AcceptedOnce`) and
`HistoryLinear` (`HistoryIsLinear`). None is inductive, since a change writes versions and revokes
sessions it has read earlier, and an issuance writes what a gate let in. `LoginInv` adds what the rows
say of each other (`DataInv`: an account that has not accepted has left no trace, `NoTrace`, and a
handoff is of one login that was consumed, `HandoffsOK`), the locks (`LocksOK`), that no two callbacks have one login
(`Apart`), and what each kind of request knows at its statement (`TxKnows`):

- The advisory locks of `setPolicy` let one change at a time past its authorization, so the version
  it read is the last and its authorization is still unspent when it commits (`ChangeKnows`,
  `ChangesAlone`).
- A request that passed the gate holds share locks on the policies (`GateKnown`, `LetIn`), and a change
  past its upsert holds one of them exclusively (`Excluded`). So nobody let in under the old policy has
  yet to write when the sweep chooses its rows, and what it finds is all there is. A rotation that was
  let in keeps the policies as they were until it commits (`RotateKnows`, `SessionOpened`).
- An invitation is locked from the moment a callback finds it acceptable until the identity is bound,
  so a second login that carries it finds it accepted (`InvitedKnows`).

As in `BrowserSessionsProofs`, `Spares` says what the step of one request leaves of what another has
locked. `SweepMatchesGate` is a lemma worth its own name: the criterion of the sweep in SQL (`Retained`)
and `policyAllows` in TypeScript (`Effective`) agree on every policy. Assumed of the constants are that
memberships are finitely many, that `None` is no id, that every account has a membership, and that a
scenario begins in a database that earlier requests may have left (`Typed`, `Legal`): sessions alive
are let in by the policies, an accepted invitation has bound an identity, and no account that is
missing or has not accepted has an identity, a handoff or a session.

**With TLC only.** Liveness (`EveryIntentCloses`, `EveryRequestAnswered`, `EventuallyForgotten`,
`AcceptedIsSettled`) and the ENABLED of fairness; and whatever would take an induction over data.
`LogoutEndsFamily`, which the code violates, is of course no theorem.

## What is left out

- Encryption, hashing, cookies, CSRF, headers, response bodies, logs and metrics: no property is
  about them. A token, a body hash and a key are values that can only be compared.
- In `BrowserSessions`, when the MFA policy, the rollout gate or the limit on new sessions refuse:
  `Refuse` and `LimitRecovery` may happen whenever the code asks them. The gate itself is in
  `HumanAuthRollout`, the limit in `AuthRateLimits`.
- Discovery, key sets and the validation of tokens at the provider: their outcome is which subject a
  callback is about, or a failed exchange.
- The lifetime of intents and login transactions in `BrowserSessions` (one that expires is one that is
  never redeemed), and the sessions of a rotation that is refused after its gate, which it
  would lock without changing.
- That requests of `BrowserSessions`, `InvitationAccess`, `HumanAuthRollout` and `OidcLogin` end. Where
  they lock in opposite orders, only the database's deadlock detector and its timeouts end the wait,
  which are outside this code: the runs reach those cycles and show that a victim leaves nothing wrong
  behind, and no property would notice a detector that is missing. That a refusal keeps no lock is in
  `TypeOK`.
- Reads and listings, and updates of one row that no other component depends on.
- Real time: expiries and backoffs are events that may come at any moment at which the code could
  see them.
- A logout sent with a token already rotated, which the route answers without touching the family,
  is an action of `BrowserSessions`, and `LogoutEndsFamily` is not about it; that a membership can be
  created while its account is being disabled is in the model (`CreateMembership`) without a
  property of its own.
