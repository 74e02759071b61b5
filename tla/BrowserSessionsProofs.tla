------------------------ MODULE BrowserSessionsProofs ------------------------
(***************************************************************************)
(* Theorems about BrowserSessions, for any accounts, memberships and       *)
(* condominiums, any number of requests served at the same time and any    *)
(* scenario.                                                               *)
(***************************************************************************)
EXTENDS BrowserSessions, FiniteSetTheorems, SequenceTheorems, TLAPS

-----------------------------------------------------------------------------
(* What the variables hold. *)

SessionRec ==
    [family : 1..MaxRequests, account : Account, membership : Membership, version : Nat,
     auth : Nat, kind : {"login", "recovery", "reauth"}, from : 0..MaxHandoffs,
     idle : {"fresh", "stale"}, state : {"live", "revoked"}]
HandoffRec ==
    [account : Account, auth : Nat, kind : {"login", "recovery", "reauth"},
     intent : 0..MaxHandoffs, state : {"fresh", "consumed"}]
IntentRec ==
    [account : Account, family : 1..MaxRequests, state : {"open", "started", "answered"}]
Locks == Row \X {"share", "update"}
TxRec ==
    [pc : {"idle", "handoff", "account", "membership", "scope", "session", "write", "intent",
           "start", "lock", "insert", "touch"},
     op : Kinds \cup {None}, need : Seq(Locks), session : 0..MaxRequests,
     handoff : 0..MaxHandoffs, intent : 0..MaxHandoffs,
     target : Account \cup Membership \cup Condo \cup {None},
     revoke : SUBSET (1..MaxRequests), members : SUBSET Membership, at : Nat]

DataTyped ==
    /\ sessions \in Seq(SessionRec) /\ handoffs \in Seq(HandoffRec) /\ intents \in Seq(IntentRec)
    /\ status \in [Account -> {"active", "suspended", "disabled"}]
    /\ version \in [Account -> Nat] /\ updated \in [Account -> Nat]
    /\ membership \in [Membership -> {"none", "active", "disabled"}]
    /\ closed \subseteq Condo /\ over \subseteq 1..MaxRequests
    /\ left \subseteq (1..MaxRequests) \X {"live", "revoked"}
TxTyped ==
    /\ scenario \in Scenarios /\ time \in Nat /\ requests \in 0..MaxRequests
    /\ tx \in [Proc -> TxRec]
    /\ owned \in [Row -> Proc \cup {None}] /\ shared \in [Row -> SUBSET Proc]

-----------------------------------------------------------------------------
(* The inductive invariant: the rows. *)

\* A family is one account's, and is named after its first session.
FamiliesOK ==
    /\ \A s \in Ids : /\ sessions[s].account = AccountOf[sessions[s].membership]
                      /\ sessions[s].family <= Len(sessions)
    /\ \A s, t \in Ids : sessions[s].family = sessions[t].family =>
         sessions[s].account = sessions[t].account

\* A session was issued for a consumed handoff, which was for an answered intent of a
\* family if it was for one.
IssuedOK ==
    /\ \A s \in Ids : sessions[s].from # 0 =>
         /\ sessions[s].from <= Len(handoffs) /\ handoffs[sessions[s].from].state = "consumed"
         /\ sessions[s].kind = handoffs[sessions[s].from].kind
    /\ \A h \in 1..Len(handoffs) :
         /\ handoffs[h].auth >= 1 /\ handoffs[h].intent <= Len(intents)
         /\ handoffs[h].kind = "reauth" <=> handoffs[h].intent # 0
         /\ handoffs[h].intent # 0 => intents[handoffs[h].intent].state = "answered"
    /\ \A i \in 1..Len(intents) : \E s \in Ids :
         sessions[s].family = intents[i].family /\ sessions[s].account = intents[i].account

\* The clock is ahead of every update, and an account that was never updated has version 0.
ClockOK ==
    /\ time >= 1
    /\ \A a \in Account : version[a] = 0 <=> updated[a] = 0

\* A login follows the account's last update, but for a recovery.
LoggedInAfter ==
    \A s \in Unrevoked :
        sessions[s].auth > updated[sessions[s].account] \/ sessions[s].kind = "recovery"

DataInv ==
    /\ FamiliesOK /\ IssuedOK /\ ClockOK
    /\ OneLivePerFamily /\ OneSessionPerHandoff /\ UnrevokedIsCurrent /\ LoggedInAfter

-----------------------------------------------------------------------------
(* The inductive invariant: the transactions. *)

\* An exclusive lock excludes, and a request that is idle neither has one nor waits.
LocksOK ==
    /\ \A p \in Proc : tx[p].pc = "idle" => tx[p].need = <<>>
    /\ \A x \in Row : owned[x] # None => shared[x] \subseteq {owned[x]}
    /\ \A x \in Row : \A p \in Proc : owned[x] = p \/ p \in shared[x] => tx[p].pc # "idle"

\* Each request inserts one session or one intent at most.
Inserting == {p \in Proc : tx[p].op \in {"issue", "rotate"}}
Asking == {p \in Proc : tx[p].pc = "intent"}
CountsOK ==
    /\ Len(sessions) + Cardinality(Inserting) <= requests
    /\ Len(intents) + Cardinality(Asking) <= MaxHandoffs
    /\ Len(handoffs) <= MaxHandoffs

\* The transaction has locked the row, or its statement still waits for it.
Owns(u, x) == owned[x] = u
Claims(u, x) == owned[x] = u \/ \E k \in DOMAIN tx[u].need : tx[u].need[k] = Update(x)
Shares(u, x) == u \in shared[x]
Reads(u, x) == u \in shared[x] \/ \E k \in DOMAIN tx[u].need : tx[u].need[k] = Share(x)

\* The membership of the new session is one of the account a, locked and active.
TargetKnown(u, a) ==
    /\ tx[u].target \in Membership \cup {None}
    /\ \A m \in Membership : tx[u].target = m =>
         /\ AccountOf[m] = a /\ Shares(u, m) /\ membership[m] = "active"
         /\ \A c \in Condo : CondoOf[m] = c => Reads(u, c)
\* Its condominium is locked and open.
ScopeKnown(u) ==
    \A m \in Membership : tx[u].target = m =>
        ScopeLive(m) /\ \A c \in Condo : CondoOf[m] = c => Shares(u, c)

\* The sessions a statement found are being locked.
SessionsClaimed(u) == \A s \in tx[u].revoke : s \in Ids /\ Claims(u, SessionRow(s))

\* An issuance for the handoff h of account a, with session s presented.
IssueKnows(u, h, s, a) ==
    LET pc == tx[u].pc IN
    /\ pc \in {"handoff", "account", "membership", "scope", "session", "write"}
    /\ Claims(u, HandoffRow(h))
    /\ pc # "handoff" => Owns(u, HandoffRow(h)) /\ handoffs[h].state = "fresh" /\ Claims(u, a)
    /\ pc \in {"membership", "scope", "session", "write"} => Owns(u, a) /\ ~Refused(u)
    /\ pc = "membership" => \A m \in tx[u].members : AccountOf[m] = a /\ Reads(u, m)
    /\ pc \in {"scope", "session", "write"} => TargetKnown(u, a)
    /\ pc \in {"session", "write"} => ScopeKnown(u) /\ (tx[u].target = None => Reauth(u))
    /\ pc = "session" /\ s # 0 => Claims(u, SessionRow(s))

\* What its new session replaces at the commit.
ReplaceKnows(u, h, s, a) ==
    tx[u].pc = "write" =>
        /\ tx[u].target # None /\ SessionsClaimed(u)
        /\ Reauth(u) =>
             /\ s \in Ids /\ s \in tx[u].revoke /\ sessions[s].state = "live"
             /\ Owns(u, SessionRow(s)) /\ sessions[s].account = a
             /\ sessions[s].family = intents[handoffs[h].intent].family
        /\ Recovery(u) => OfAccount(a) \subseteq tx[u].revoke /\ tx[u].at >= 1

\* A rotation of session s of account a.
RotateKnows(u, s, a) ==
    LET pc == tx[u].pc IN
    /\ pc \in {"account", "membership", "scope", "session"} /\ Claims(u, a)
    /\ pc = "account" => tx[u].target \in Membership
    /\ pc # "account" => Owns(u, a)
    /\ pc = "membership" =>
         /\ tx[u].target \in Membership \cup {None}
         /\ \A m \in Membership : tx[u].target = m => AccountOf[m] = a /\ Reads(u, m)
    /\ pc \in {"scope", "session"} => TargetKnown(u, a)
    /\ pc = "session" => ScopeKnown(u) /\ Claims(u, SessionRow(s))

\* A request of session s of account a that ends or extends sessions, or asks for or
\* redeems an intent.
SessionKnows(u, s, a) ==
    LET pc == tx[u].pc
        op == tx[u].op
    IN
    /\ op = "logout" => pc \in {"lock", "write"}
    /\ op = "logoutAll" =>
         /\ pc \in {"account", "lock", "write"} /\ Claims(u, a)
         /\ pc # "account" => Owns(u, a)
         /\ pc = "write" => OfAccount(a) \subseteq tx[u].revoke /\ tx[u].at >= 1
    /\ op = "touch" => pc = "touch"
    /\ op = "reauth" => /\ pc \in {"intent", "start"}
                        /\ pc = "start" => tx[u].intent \in 1..Len(intents)

\* A request that bars a membership, an account or a condominium x.
DisableKnows(u, x) ==
    /\ tx[u].pc \in {"lock", "write"} /\ Claims(u, x)
    /\ tx[u].pc = "write" => Owns(u, x) /\ OfMembership(x) \subseteq tx[u].revoke
StatusKnows(u, x) ==
    LET pc == tx[u].pc IN
    /\ pc \in {"account", "lock", "write"} /\ Claims(u, x)
    /\ pc # "account" => /\ Owns(u, x) /\ tx[u].at >= 1
                         /\ \A m \in tx[u].members : AccountOf[m] = x /\ Claims(u, m)
    /\ pc = "write" => /\ OfAccount(x) \subseteq tx[u].revoke
                       /\ \A m \in tx[u].members : Owns(u, m)
CloseKnows(u, x) ==
    /\ tx[u].pc \in {"lock", "write"} /\ Claims(u, x)
    /\ tx[u].pc = "write" => Owns(u, x) /\ OfCondo(x) \subseteq tx[u].revoke

TxKnows(u) ==
    LET op == tx[u].op IN
    /\ op = None <=> tx[u].pc = "idle"
    /\ op = "issue" => \E h \in 1..Len(handoffs), s \in 0..Len(sessions), a \in Account :
         /\ tx[u].handoff = h /\ tx[u].session = s /\ handoffs[h].account = a
         /\ IssueKnows(u, h, s, a) /\ ReplaceKnows(u, h, s, a)
    /\ op = "rotate" => \E s \in Ids, a \in Account :
         tx[u].session = s /\ sessions[s].account = a /\ RotateKnows(u, s, a)
    /\ op \in {"logout", "logoutAll", "touch", "reauth"} => \E s \in Ids, a \in Account :
         tx[u].session = s /\ sessions[s].account = a /\ SessionKnows(u, s, a)
    /\ op = "disable" => \E x \in Membership : tx[u].target = x /\ DisableKnows(u, x)
    /\ op \in {"suspended", "disabled"} =>
         \E x \in Account : tx[u].target = x /\ StatusKnows(u, x)
    /\ op = "close" => \E x \in Condo : tx[u].target = x /\ CloseKnows(u, x)
    /\ op = "member" => tx[u].pc = "insert" /\ tx[u].target \in Membership
    /\ op \notin {"issue", "rotate"} /\ tx[u].pc = "write" => SessionsClaimed(u)

SessionInv ==
    /\ DataTyped /\ TxTyped /\ DataInv /\ LocksOK /\ CountsOK
    /\ \A u \in Proc : TxKnows(u)

-----------------------------------------------------------------------------
(* What a step may do to the rows, and what it leaves to a transaction that *)
(* does not take it.                                                        *)

\* Sessions, handoffs and intents are only added, one at a time; what they were made
\* with is never changed, and what has ended has ended.
RowsKept ==
    /\ Len(sessions) <= Len(sessions') /\ Len(sessions') <= Len(sessions) + 1
    /\ \A s \in Ids :
         /\ sessions'[s].family = sessions[s].family
         /\ sessions'[s].account = sessions[s].account
         /\ sessions'[s].membership = sessions[s].membership
         /\ sessions'[s].version = sessions[s].version
         /\ sessions'[s].auth = sessions[s].auth
         /\ sessions'[s].kind = sessions[s].kind
         /\ sessions'[s].from = sessions[s].from
         /\ sessions'[s].state = "live" => sessions[s].state = "live"
HandoffsKept ==
    /\ Len(handoffs) <= Len(handoffs') /\ Len(handoffs') <= Len(handoffs) + 1
    /\ \A h \in 1..Len(handoffs) :
         /\ handoffs'[h].account = handoffs[h].account
         /\ handoffs'[h].auth = handoffs[h].auth
         /\ handoffs'[h].kind = handoffs[h].kind
         /\ handoffs'[h].intent = handoffs[h].intent
         /\ handoffs[h].state = "consumed" => handoffs'[h].state = "consumed"
IntentsKept ==
    /\ Len(intents) <= Len(intents') /\ Len(intents') <= Len(intents) + 1
    /\ \A i \in 1..Len(intents) :
         /\ intents'[i].account = intents[i].account
         /\ intents'[i].family = intents[i].family
         /\ intents[i].state = "answered" => intents'[i].state = "answered"

\* Nothing changes under the locks of u.
LocksRespected(u) ==
    /\ \A s \in Ids : owned[SessionRow(s)] = u => sessions'[s].state = sessions[s].state
    /\ \A s \in 1..Len(sessions') : s \notin Ids =>
         /\ owned[sessions'[s].account] # u /\ owned[sessions'[s].membership] # u
         /\ \A c \in Condo : CondoOf[sessions'[s].membership] = c => owned[c] # u
    /\ \A h \in 1..Len(handoffs) :
         owned[HandoffRow(h)] = u => handoffs'[h].state = handoffs[h].state
    /\ \A a \in Account : owned[a] = u =>
         status'[a] = status[a] /\ version'[a] = version[a] /\ updated'[a] = updated[a]
    /\ \A m \in Membership : u \in shared[m] /\ membership[m] = "active" => membership'[m] = "active"
    /\ \A c \in closed' : c \notin closed => c \in Condo /\ u \notin shared[c]

\* The transaction is where it was, with the locks it had and those it waits for.
TxSame(u) ==
    /\ tx'[u].pc = tx[u].pc /\ tx'[u].op = tx[u].op /\ tx'[u].session = tx[u].session
    /\ tx'[u].handoff = tx[u].handoff /\ tx'[u].intent = tx[u].intent
    /\ tx'[u].target = tx[u].target /\ tx'[u].revoke = tx[u].revoke
    /\ tx'[u].members = tx[u].members /\ tx'[u].at = tx[u].at
    /\ \A x \in Row : /\ Owns(u, x) => Owns(u, x)'
                      /\ Claims(u, x) => Claims(u, x)'
                      /\ Shares(u, x) => Shares(u, x)'
                      /\ Reads(u, x) => Reads(u, x)'

Spares(u) == RowsKept /\ HandoffsKept /\ IntentsKept /\ LocksRespected(u) /\ TxSame(u)

-----------------------------------------------------------------------------
(* What the definitions give.                                              *)

\* The rows a transaction may lock, and the fields of what is stored.
LEMMA SessionTypes ==
    ASSUME SessionAssumption, DataTyped, TxTyped
    PROVE  /\ Len(sessions) \in Nat /\ Len(handoffs) \in Nat /\ Len(intents) \in Nat
           /\ \A s \in Ids : sessions[s] \in SessionRec
           /\ \A h \in 1..Len(handoffs) : handoffs[h] \in HandoffRec
           /\ \A i \in 1..Len(intents) : intents[i] \in IntentRec
           /\ \A u \in Proc : tx[u] \in TxRec
           /\ Account \subseteq Row /\ Membership \subseteq Row /\ Condo \subseteq Row
           /\ \A s \in 1..MaxRequests : SessionRow(s) \in Row
           /\ \A h \in 1..MaxHandoffs : HandoffRow(h) \in Row
           /\ \A m \in Membership : AccountOf[m] \in Account /\ CondoOf[m] \in Condo \cup {None}
           /\ None \notin Account /\ None \notin Membership /\ None \notin Condo
           /\ None \notin Proc /\ None \notin Kinds
           /\ MaxRequests \in Nat /\ MaxHandoffs \in Nat
           /\ scenario.accounts \subseteq Account /\ scenario.founding \subseteq Membership
           /\ scenario.requests \subseteq Kinds
           /\ scenario.handoffs \in 0..MaxHandoffs /\ scenario.served \in 0..MaxRequests
<1>1. /\ Len(sessions) \in Nat /\ Len(handoffs) \in Nat /\ Len(intents) \in Nat
      /\ \A s \in Ids : sessions[s] \in SessionRec
      /\ \A h \in 1..Len(handoffs) : handoffs[h] \in HandoffRec
      /\ \A i \in 1..Len(intents) : intents[i] \in IntentRec
  BY ElementOfSeq, LenProperties DEF DataTyped, Ids
<1>2. \A u \in Proc : tx[u] \in TxRec
  BY DEF TxTyped
<1>3. /\ Account \subseteq Row /\ Membership \subseteq Row /\ Condo \subseteq Row
      /\ \A s \in 1..MaxRequests : SessionRow(s) \in Row
      /\ \A h \in 1..MaxHandoffs : HandoffRow(h) \in Row
  BY DEF Row
<1>4. /\ \A m \in Membership : AccountOf[m] \in Account /\ CondoOf[m] \in Condo \cup {None}
      /\ None \notin Account /\ None \notin Membership /\ None \notin Condo
      /\ None \notin Proc /\ None \notin Kinds
      /\ MaxRequests \in Nat /\ MaxHandoffs \in Nat
  BY DEF SessionAssumption
<1>5. /\ scenario.accounts \subseteq Account /\ scenario.founding \subseteq Membership
      /\ scenario.requests \subseteq Kinds
      /\ scenario.handoffs \in 0..MaxHandoffs /\ scenario.served \in 0..MaxRequests
  <2>1. scenario \in Scenarios
    BY DEF TxTyped
  <2>2. scenario \in
         [accounts : SUBSET Account, founding : SUBSET Membership, requests : SUBSET Kinds,
          handoffs : 0..MaxHandoffs, served : 0..MaxRequests]
    BY <2>1 DEF SessionAssumption
  <2>. QED  BY <2>2
<1>. QED  BY <1>1, <1>2, <1>3, <1>4, <1>5

\* A live session of a row that u owns was there, and live.
LEMMA NoneAppears ==
    ASSUME SessionAssumption, DataTyped, TxTyped, NEW u \in Proc, Spares(u),
           NEW s \in 1..Len(sessions'), sessions'[s].state = "live",
           \/ owned[sessions'[s].account] = u
           \/ owned[sessions'[s].membership] = u
           \/ \E c \in Condo : CondoOf[sessions'[s].membership] = c /\ owned[c] = u
    PROVE  /\ s \in Ids /\ sessions[s].state = "live"
           /\ sessions'[s].account = sessions[s].account
           /\ sessions'[s].membership = sessions[s].membership
<1>1. s \in Ids
  BY DEF Spares, LocksRespected
<1>. QED  BY <1>1 DEF Spares, RowsKept

\* What there was of sessions, handoffs and intents there is.
LEMMA SparedRows ==
    ASSUME SessionAssumption, DataTyped, TxTyped, NEW u \in Proc, Spares(u)
    PROVE  /\ Ids \subseteq 1..Len(sessions') /\ 0..Len(sessions) \subseteq 0..Len(sessions')
           /\ 1..Len(handoffs) \subseteq 1..Len(handoffs')
           /\ 1..Len(intents) \subseteq 1..Len(intents')
<1>1. Len(sessions) \in Nat /\ Len(handoffs) \in Nat /\ Len(intents) \in Nat
  BY SessionTypes
<1>2. /\ Len(sessions) <= Len(sessions') /\ Len(sessions') <= Len(sessions) + 1
      /\ Len(handoffs) <= Len(handoffs') /\ Len(handoffs') <= Len(handoffs) + 1
      /\ Len(intents) <= Len(intents') /\ Len(intents') <= Len(intents) + 1
  BY DEF Spares, RowsKept, HandoffsKept, IntentsKept
<1>. QED  BY ONLY <1>1, <1>2 DEF Ids

\* The target of u stays active and its scope open.
LEMMA TargetSpared ==
    ASSUME SessionAssumption, DataTyped, TxTyped, NEW u \in Proc, Spares(u), NEW a \in Account,
           TargetKnown(u, a)
    PROVE  TargetKnown(u, a)' /\ (ScopeKnown(u) => ScopeKnown(u)')
<1>1. /\ tx'[u].target = tx[u].target
      /\ \A x \in Row : /\ Shares(u, x) => Shares(u, x)'
                        /\ Reads(u, x) => Reads(u, x)'
      /\ Membership \subseteq Row /\ Condo \subseteq Row
      /\ \A m \in Membership : CondoOf[m] \in Condo \cup {None}
      /\ None \notin Condo
  BY SessionTypes DEF Spares, TxSame
<1>2. TargetKnown(u, a)'
  <2>1. tx[u].target \in Membership \cup {None}
    BY DEF TargetKnown
  <2>2. ASSUME NEW m \in Membership, tx[u].target = m
        PROVE  /\ AccountOf[m] = a /\ Shares(u, m)' /\ membership'[m] = "active"
               /\ \A c \in Condo : CondoOf[m] = c => Reads(u, c)'
    <3>1. /\ AccountOf[m] = a /\ Shares(u, m) /\ membership[m] = "active"
          /\ \A c \in Condo : CondoOf[m] = c => Reads(u, c)
      BY <2>2 DEF TargetKnown
    <3>2. membership'[m] = "active"
      BY <3>1 DEF Shares, Spares, LocksRespected
    <3>. QED  BY <1>1, <3>1, <3>2
  <2>. QED  BY <1>1, <2>1, <2>2 DEF TargetKnown
<1>3. ASSUME ScopeKnown(u) PROVE ScopeKnown(u)'
  <2>1. ASSUME NEW m \in Membership, tx[u].target = m
        PROVE  CondoOf[m] \notin closed' /\ \A c \in Condo : CondoOf[m] = c => Shares(u, c)'
    <3>1. CondoOf[m] \notin closed /\ \A c \in Condo : CondoOf[m] = c => Shares(u, c)
      BY <1>3, <2>1 DEF ScopeKnown, ScopeLive
    <3>2. CondoOf[m] \notin closed'
      <4>. SUFFICES ASSUME NEW c \in closed', CondoOf[m] = c PROVE FALSE
        OBVIOUS
      <4>1. c \in Condo /\ u \notin shared[c]
        BY <3>1 DEF Spares, LocksRespected
      <4>. QED  BY <3>1, <4>1 DEF Shares
    <3>. QED  BY <1>1, <3>1, <3>2
  <2>. QED  BY <1>1, <2>1 DEF ScopeKnown, ScopeLive
<1>. QED  BY <1>2, <1>3

\* While another request moves, the sessions a statement found stay claimed.
LEMMA ClaimedSpared ==
    ASSUME SessionAssumption, DataTyped, TxTyped, NEW u \in Proc, Spares(u), SessionsClaimed(u)
    PROVE  SessionsClaimed(u)'
<1>1. tx[u].revoke \subseteq 1..MaxRequests /\ tx'[u].revoke = tx[u].revoke
  BY SessionTypes DEF TxRec, Spares, TxSame
<1>2. ASSUME NEW s \in tx[u].revoke PROVE s \in 1..Len(sessions') /\ Claims(u, SessionRow(s))'
  <2>1. s \in Ids /\ Claims(u, SessionRow(s))
    BY DEF SessionsClaimed
  <2>2. SessionRow(s) \in Row /\ s \in 1..Len(sessions')
    BY <1>1, <2>1, SessionTypes, SparedRows
  <2>. QED  BY <2>1, <2>2 DEF Spares, TxSame
<1>. QED  BY <1>1, <1>2 DEF SessionsClaimed, Ids

\* No session appears in the account, membership or condominium that u owns.
LEMMA NoneFound ==
    ASSUME SessionAssumption, DataTyped, TxTyped, NEW u \in Proc, Spares(u)
    PROVE  /\ \A a \in Account : Owns(u, a) => OfAccount(a)' \subseteq OfAccount(a)
           /\ \A m \in Membership : Owns(u, m) => OfMembership(m)' \subseteq OfMembership(m)
           /\ \A c \in Condo : Owns(u, c) => OfCondo(c)' \subseteq OfCondo(c)
<1>1. ASSUME NEW a \in Account, Owns(u, a) PROVE OfAccount(a)' \subseteq OfAccount(a)
  <2>1. ASSUME NEW t \in 1..Len(sessions'), sessions'[t].state = "live", sessions'[t].account = a
        PROVE  t \in Ids /\ sessions[t].state = "live" /\ sessions[t].account = a
    BY <1>1, <2>1, NoneAppears DEF Owns
  <2>. QED  BY <2>1 DEF OfAccount, Unrevoked, Ids
<1>2. ASSUME NEW m \in Membership, Owns(u, m) PROVE OfMembership(m)' \subseteq OfMembership(m)
  <2>1. ASSUME NEW t \in 1..Len(sessions'), sessions'[t].state = "live",
               sessions'[t].membership = m
        PROVE  t \in Ids /\ sessions[t].state = "live" /\ sessions[t].membership = m
    BY <1>2, <2>1, NoneAppears DEF Owns
  <2>. QED  BY <2>1 DEF OfMembership, Unrevoked, Ids
<1>3. ASSUME NEW c \in Condo, Owns(u, c) PROVE OfCondo(c)' \subseteq OfCondo(c)
  <2>1. ASSUME NEW t \in 1..Len(sessions'), sessions'[t].state = "live",
               CondoOf[sessions'[t].membership] = c
        PROVE  t \in Ids /\ sessions[t].state = "live" /\ CondoOf[sessions[t].membership] = c
    BY <1>3, <2>1, NoneAppears DEF Owns
  <2>. QED  BY <2>1 DEF OfCondo, Unrevoked, Ids
<1>. QED  BY <1>1, <1>2, <1>3

\* What an issuance knows outlives the steps that spare it.
LEMMA IssueSpared ==
    ASSUME SessionAssumption, DataTyped, TxTyped, IssuedOK, NEW u \in Proc, Spares(u),
           NEW h \in 1..Len(handoffs), NEW s \in 0..Len(sessions), NEW a \in Account,
           tx[u].handoff = h, tx[u].session = s, handoffs[h].account = a
    PROVE  /\ IssueKnows(u, h, s, a) => IssueKnows(u, h, s, a)'
           /\ IssueKnows(u, h, s, a) /\ ReplaceKnows(u, h, s, a) => ReplaceKnows(u, h, s, a)'
<1>. DEFINE pc == tx[u].pc
<1>1. /\ tx'[u].pc = pc /\ tx'[u].handoff = h /\ tx'[u].session = s
      /\ tx'[u].target = tx[u].target /\ tx'[u].members = tx[u].members
      /\ tx'[u].revoke = tx[u].revoke /\ tx'[u].at = tx[u].at
      /\ \A x \in Row : /\ Owns(u, x) => Owns(u, x)'
                        /\ Claims(u, x) => Claims(u, x)'
                        /\ Shares(u, x) => Shares(u, x)'
                        /\ Reads(u, x) => Reads(u, x)'
  BY DEF Spares, TxSame
<1>2. /\ handoffs'[h].account = a /\ handoffs'[h].auth = handoffs[h].auth
      /\ handoffs'[h].kind = handoffs[h].kind /\ handoffs'[h].intent = handoffs[h].intent
  BY DEF Spares, HandoffsKept
<1>3. AccountIn(u) = a /\ AccountIn(u)' = a /\ (Reauth(u)' <=> Reauth(u)) /\ (Recovery(u)' <=> Recovery(u))
  BY <1>1, <1>2 DEF AccountIn, Reauth, Recovery
<1>4. /\ a \in Row /\ (s # 0 => SessionRow(s) \in Row) /\ HandoffRow(h) \in Row
      /\ tx[u].members \subseteq Membership /\ Membership \subseteq Row
      /\ s \in 0..MaxRequests /\ h \in 1..MaxHandoffs
  <2>1. tx[u] \in TxRec
    BY SessionTypes
  <2>2. s \in 0..MaxRequests /\ h \in 0..MaxHandoffs /\ tx[u].members \subseteq Membership
    BY <2>1 DEF TxRec
  <2>3. h \in 1..MaxHandoffs /\ (s # 0 => s \in 1..MaxRequests)
    BY <2>2
  <2>. QED  BY <2>2, <2>3, SessionTypes
<1>5. ASSUME Owns(u, a)
      PROVE  status'[a] = status[a] /\ version'[a] = version[a] /\ updated'[a] = updated[a]
  BY <1>5 DEF Owns, Spares, LocksRespected
<1>6. ASSUME IssueKnows(u, h, s, a) PROVE IssueKnows(u, h, s, a)'
  <2>1. /\ pc \in {"handoff", "account", "membership", "scope", "session", "write"}
        /\ Claims(u, HandoffRow(h))'
    BY <1>1, <1>4, <1>6 DEF IssueKnows
  <2>2. ASSUME pc # "handoff"
        PROVE  Owns(u, HandoffRow(h))' /\ handoffs'[h].state = "fresh" /\ Claims(u, a)'
    <3>1. Owns(u, HandoffRow(h)) /\ handoffs[h].state = "fresh" /\ Claims(u, a)
      BY <1>6, <2>2 DEF IssueKnows
    <3>2. handoffs'[h].state = handoffs[h].state
      BY <3>1 DEF Owns, Spares, LocksRespected
    <3>. QED  BY <1>1, <1>4, <3>1, <3>2
  <2>3. ASSUME pc \in {"membership", "scope", "session", "write"}
        PROVE  Owns(u, a)' /\ ~Refused(u)'
    <3>1. Owns(u, a) /\ ~Refused(u)
      BY <1>6, <2>3 DEF IssueKnows
    <3>. QED  BY <1>1, <1>2, <1>3, <1>4, <1>5, <3>1 DEF Refused
  <2>4. ASSUME pc = "membership", NEW m \in tx[u].members
        PROVE  AccountOf[m] = a /\ Reads(u, m)'
    BY <1>1, <1>4, <1>6, <2>4 DEF IssueKnows
  <2>5. ASSUME pc \in {"scope", "session", "write"} PROVE TargetKnown(u, a) /\ TargetKnown(u, a)'
    BY <1>6, <2>5, TargetSpared DEF IssueKnows
  <2>6. ASSUME pc \in {"session", "write"}
        PROVE  ScopeKnown(u)' /\ (tx[u].target = None => Reauth(u)')
    <3>1. ScopeKnown(u) /\ (tx[u].target = None => Reauth(u))
      BY <1>6, <2>6 DEF IssueKnows
    <3>. QED  BY <1>3, <2>5, <2>6, <3>1, TargetSpared
  <2>7. ASSUME pc = "session", s # 0 PROVE Claims(u, SessionRow(s))'
    BY <1>1, <1>4, <1>6, <2>7 DEF IssueKnows
  <2>. QED  BY <1>1, <2>1, <2>2, <2>3, <2>4, <2>5, <2>6, <2>7 DEF IssueKnows
<1>7. ASSUME pc = "write", IssueKnows(u, h, s, a), ReplaceKnows(u, h, s, a)
      PROVE  ReplaceKnows(u, h, s, a)'
  <2>1. tx[u].target # None /\ SessionsClaimed(u)' /\ Owns(u, a)
    BY <1>7, ClaimedSpared DEF ReplaceKnows, IssueKnows
  <2>2. ASSUME Reauth(u)
        PROVE  /\ s \in 1..Len(sessions') /\ s \in tx[u].revoke /\ sessions'[s].state = "live"
               /\ Owns(u, SessionRow(s))' /\ sessions'[s].account = a
               /\ sessions'[s].family = intents'[handoffs'[h].intent].family
    <3>1. /\ s \in Ids /\ s \in tx[u].revoke /\ sessions[s].state = "live"
          /\ Owns(u, SessionRow(s)) /\ sessions[s].account = a
          /\ sessions[s].family = intents[handoffs[h].intent].family
      BY <1>7, <2>2 DEF ReplaceKnows
    <3>2. SessionRow(s) \in Row /\ s \in 1..Len(sessions')
      BY <1>4, <3>1, SparedRows DEF Ids
    <3>3. sessions'[s].state = "live"
      BY <3>1 DEF Owns, Spares, LocksRespected
    <3>4. sessions'[s].account = a /\ sessions'[s].family = sessions[s].family
      BY <3>1 DEF Spares, RowsKept
    <3>5. handoffs[h].intent \in 1..Len(intents)
      <4>1. handoffs[h].kind = "reauth" /\ handoffs[h] \in HandoffRec
        BY <2>2, SessionTypes DEF Reauth
      <4>2. handoffs[h].intent # 0 /\ handoffs[h].intent <= Len(intents)
        BY <4>1 DEF IssuedOK
      <4>. QED  BY <4>1, <4>2, SessionTypes DEF HandoffRec
    <3>6. intents'[handoffs[h].intent].family = intents[handoffs[h].intent].family
      BY <3>5 DEF Spares, IntentsKept
    <3>. QED  BY <1>1, <1>2, <3>1, <3>2, <3>3, <3>4, <3>6
  <2>3. ASSUME Recovery(u) PROVE OfAccount(a)' \subseteq tx[u].revoke /\ tx[u].at >= 1
    BY <1>7, <2>1, <2>3, NoneFound DEF ReplaceKnows
  <2>. QED  BY <1>1, <1>3, <2>1, <2>2, <2>3 DEF ReplaceKnows, Ids
<1>8. ASSUME pc # "write" PROVE ReplaceKnows(u, h, s, a)'
  BY <1>1, <1>8 DEF ReplaceKnows
<1>. QED  BY <1>6, <1>7, <1>8

\* What a rotation knows outlives the steps that spare it.
LEMMA RotateSpared ==
    ASSUME SessionAssumption, DataTyped, TxTyped, NEW u \in Proc, Spares(u),
           NEW s \in Ids, tx[u].session = s, NEW a \in Account, RotateKnows(u, s, a)
    PROVE  RotateKnows(u, s, a)'
<1>. DEFINE pc == tx[u].pc
<1>1. /\ tx'[u].pc = pc /\ tx'[u].target = tx[u].target
      /\ \A x \in Row : /\ Owns(u, x) => Owns(u, x)'
                        /\ Claims(u, x) => Claims(u, x)'
                        /\ Reads(u, x) => Reads(u, x)'
  BY DEF Spares, TxSame
<1>2. a \in Row /\ Membership \subseteq Row
  BY SessionTypes
<1>3. /\ pc \in {"account", "membership", "scope", "session"} /\ Claims(u, a)'
      /\ pc = "account" => tx[u].target \in Membership
      /\ pc # "account" => Owns(u, a)'
  BY <1>1, <1>2 DEF RotateKnows
<1>4. ASSUME pc = "membership"
      PROVE  /\ tx[u].target \in Membership \cup {None}
             /\ \A m \in Membership : tx[u].target = m => AccountOf[m] = a /\ Reads(u, m)'
  BY <1>1, <1>2, <1>4 DEF RotateKnows
<1>5. ASSUME pc \in {"scope", "session"} PROVE TargetKnown(u, a) /\ TargetKnown(u, a)'
  BY <1>5, TargetSpared DEF RotateKnows
<1>6. ASSUME pc = "session" PROVE ScopeKnown(u)' /\ Claims(u, SessionRow(s))'
  <2>1. ScopeKnown(u) /\ Claims(u, SessionRow(s))
    BY <1>6 DEF RotateKnows
  <2>2. s \in 0..MaxRequests /\ s \in 1..Len(sessions) /\ Len(sessions) \in Nat
    BY SessionTypes DEF TxRec, Ids
  <2>3. SessionRow(s) \in Row
    BY <2>2, SessionTypes
  <2>. QED  BY <1>1, <1>5, <1>6, <2>1, <2>3, TargetSpared
<1>. QED  BY <1>1, <1>3, <1>4, <1>5, <1>6 DEF RotateKnows

\* What a request made with a session knows outlives the steps that spare it.
LEMMA SessionSpared ==
    ASSUME SessionAssumption, DataTyped, TxTyped, NEW u \in Proc, Spares(u),
           NEW s \in Ids, NEW a \in Account, SessionKnows(u, s, a)
    PROVE  SessionKnows(u, s, a)'
<1>1. /\ tx'[u].pc = tx[u].pc /\ tx'[u].op = tx[u].op /\ tx'[u].intent = tx[u].intent
      /\ tx'[u].revoke = tx[u].revoke /\ tx'[u].at = tx[u].at
      /\ \A x \in Row : /\ Owns(u, x) => Owns(u, x)'
                        /\ Claims(u, x) => Claims(u, x)'
  BY DEF Spares, TxSame
<1>2. a \in Row
  BY SessionTypes
<1>3. ASSUME tx[u].op = "logoutAll"
      PROVE  /\ tx[u].pc \in {"account", "lock", "write"} /\ Claims(u, a)'
             /\ tx[u].pc # "account" => Owns(u, a)'
             /\ tx[u].pc = "write" => OfAccount(a)' \subseteq tx[u].revoke /\ tx[u].at >= 1
  BY <1>1, <1>2, <1>3, NoneFound DEF SessionKnows
<1>4. ASSUME tx[u].op = "reauth"
      PROVE  /\ tx[u].pc \in {"intent", "start"}
             /\ tx[u].pc = "start" => tx[u].intent \in 1..Len(intents')
  BY <1>4, SparedRows DEF SessionKnows
<1>5. /\ tx[u].op = "logout" => tx[u].pc \in {"lock", "write"}
      /\ tx[u].op = "touch" => tx[u].pc = "touch"
  BY DEF SessionKnows
<1>. QED  BY <1>1, <1>3, <1>4, <1>5 DEF SessionKnows

\* What an administrative request knows outlives the steps that spare it.
LEMMA BarSpared ==
    ASSUME SessionAssumption, DataTyped, TxTyped, NEW u \in Proc, Spares(u)
    PROVE  /\ \A x \in Membership : DisableKnows(u, x) => DisableKnows(u, x)'
           /\ \A x \in Account : StatusKnows(u, x) => StatusKnows(u, x)'
           /\ \A x \in Condo : CloseKnows(u, x) => CloseKnows(u, x)'
<1>1. /\ tx'[u].pc = tx[u].pc /\ tx'[u].members = tx[u].members
      /\ tx'[u].revoke = tx[u].revoke /\ tx'[u].at = tx[u].at
      /\ \A x \in Row : /\ Owns(u, x) => Owns(u, x)'
                        /\ Claims(u, x) => Claims(u, x)'
      /\ tx[u].members \subseteq Membership
      /\ Membership \subseteq Row /\ Account \subseteq Row /\ Condo \subseteq Row
  BY SessionTypes DEF Spares, TxSame, TxRec
<1>2. ASSUME NEW x \in Membership, DisableKnows(u, x) PROVE DisableKnows(u, x)'
  BY <1>1, <1>2, NoneFound DEF DisableKnows
<1>3. ASSUME NEW x \in Account, StatusKnows(u, x) PROVE StatusKnows(u, x)'
  <2>1. /\ tx[u].pc \in {"account", "lock", "write"} /\ Claims(u, x)'
        /\ tx[u].pc # "account" => Owns(u, x)' /\ tx[u].at >= 1
    BY <1>1, <1>3 DEF StatusKnows
  <2>2. ASSUME tx[u].pc # "account", NEW m \in tx[u].members
        PROVE  AccountOf[m] = x /\ Claims(u, m)'
    BY <1>1, <1>3, <2>2 DEF StatusKnows
  <2>3. ASSUME tx[u].pc = "write"
        PROVE  OfAccount(x)' \subseteq tx[u].revoke /\ \A m \in tx[u].members : Owns(u, m)'
    <3>1. Owns(u, x) /\ OfAccount(x) \subseteq tx[u].revoke /\ \A m \in tx[u].members : Owns(u, m)
      BY <1>3, <2>3 DEF StatusKnows
    <3>. QED  BY <1>1, <3>1, NoneFound
  <2>. QED  BY <1>1, <2>1, <2>2, <2>3 DEF StatusKnows
<1>4. ASSUME NEW x \in Condo, CloseKnows(u, x) PROVE CloseKnows(u, x)'
  BY <1>1, <1>4, NoneFound DEF CloseKnows
<1>. QED  BY <1>2, <1>3, <1>4

\* A step that spares a transaction leaves it what it knows.
LEMMA TxKept ==
    ASSUME SessionAssumption, DataTyped, TxTyped, IssuedOK, NEW u \in Proc, Spares(u), TxKnows(u)
    PROVE  TxKnows(u)'
<1>. DEFINE op == tx[u].op
<1>1. /\ tx'[u].pc = tx[u].pc /\ tx'[u].op = op /\ tx'[u].session = tx[u].session
      /\ tx'[u].handoff = tx[u].handoff /\ tx'[u].target = tx[u].target
  BY DEF Spares, TxSame
<1>2. ASSUME op = "issue"
      PROVE  \E h \in 1..Len(handoffs'), s \in 0..Len(sessions'), a \in Account :
               /\ tx'[u].handoff = h /\ tx'[u].session = s /\ handoffs'[h].account = a
               /\ IssueKnows(u, h, s, a)' /\ ReplaceKnows(u, h, s, a)'
  <2>1. PICK h \in 1..Len(handoffs), s \in 0..Len(sessions), a \in Account :
               /\ tx[u].handoff = h /\ tx[u].session = s /\ handoffs[h].account = a
               /\ IssueKnows(u, h, s, a) /\ ReplaceKnows(u, h, s, a)
    BY <1>2 DEF TxKnows
  <2>2. IssueKnows(u, h, s, a)' /\ ReplaceKnows(u, h, s, a)'
    BY <2>1, IssueSpared
  <2>3. h \in 1..Len(handoffs') /\ s \in 0..Len(sessions') /\ handoffs'[h].account = a
    BY <2>1, SparedRows DEF Spares, HandoffsKept
  <2>. QED  BY <1>1, <2>1, <2>2, <2>3
<1>3. ASSUME op = "rotate"
      PROVE  \E s \in Ids', a \in Account :
               tx'[u].session = s /\ sessions'[s].account = a /\ RotateKnows(u, s, a)'
  <2>1. PICK s \in Ids, a \in Account :
               tx[u].session = s /\ sessions[s].account = a /\ RotateKnows(u, s, a)
    BY <1>3 DEF TxKnows
  <2>2. RotateKnows(u, s, a)'
    BY <2>1, RotateSpared
  <2>3. s \in Ids' /\ sessions'[s].account = a
    BY <2>1, SparedRows DEF Spares, RowsKept, Ids
  <2>. QED  BY <1>1, <2>1, <2>2, <2>3
<1>4. ASSUME op \in {"logout", "logoutAll", "touch", "reauth"}
      PROVE  \E s \in Ids', a \in Account :
               tx'[u].session = s /\ sessions'[s].account = a /\ SessionKnows(u, s, a)'
  <2>1. PICK s \in Ids, a \in Account :
               tx[u].session = s /\ sessions[s].account = a /\ SessionKnows(u, s, a)
    BY <1>4 DEF TxKnows
  <2>2. SessionKnows(u, s, a)'
    BY <2>1, SessionSpared
  <2>3. s \in Ids' /\ sessions'[s].account = a
    BY <2>1, SparedRows DEF Spares, RowsKept, Ids
  <2>. QED  BY <1>1, <2>1, <2>2, <2>3
<1>5. ASSUME op = "disable" PROVE \E x \in Membership : tx'[u].target = x /\ DisableKnows(u, x)'
  BY <1>1, <1>5, BarSpared DEF TxKnows
<1>6. ASSUME op \in {"suspended", "disabled"}
      PROVE  \E x \in Account : tx'[u].target = x /\ StatusKnows(u, x)'
  BY <1>1, <1>6, BarSpared DEF TxKnows
<1>7. ASSUME op = "close" PROVE \E x \in Condo : tx'[u].target = x /\ CloseKnows(u, x)'
  BY <1>1, <1>7, BarSpared DEF TxKnows
<1>8. /\ op = None <=> tx[u].pc = "idle"
      /\ op = "member" => tx[u].pc = "insert" /\ tx[u].target \in Membership
  BY DEF TxKnows
<1>9. ASSUME op \notin {"issue", "rotate"}, tx[u].pc = "write" PROVE SessionsClaimed(u)'
  BY <1>9, ClaimedSpared DEF TxKnows
<1>. QED  BY <1>1, <1>2, <1>3, <1>4, <1>5, <1>6, <1>7, <1>8, <1>9 DEF TxKnows

-----------------------------------------------------------------------------
(* What a step does to the transaction that takes it.                      *)

LEMMA Finite ==
    ASSUME SessionAssumption, NEW S \in SUBSET Proc, NEW p \in Proc
    PROVE  /\ Cardinality(S) \in Nat
           /\ \A T \in SUBSET S : Cardinality(T) \in Nat /\ Cardinality(T) <= Cardinality(S)
           /\ Cardinality(S \cup {p}) \in Nat /\ Cardinality(S \cup {p}) <= Cardinality(S) + 1
           /\ p \in S => Cardinality(S \ {p}) = Cardinality(S) - 1
<1>1. IsFiniteSet(S)
  BY FS_Subset DEF SessionAssumption
<1>2. Cardinality(S) \in Nat /\ IsFiniteSet(S \cup {p})
  BY <1>1, FS_CardinalityType, FS_AddElement
<1>3. \A T \in SUBSET S : Cardinality(T) \in Nat /\ Cardinality(T) <= Cardinality(S)
  BY <1>1, FS_Subset, FS_CardinalityType
<1>4. Cardinality(S \cup {p}) \in Nat /\ Cardinality(S \cup {p}) <= Cardinality(S) + 1
  <2>1. Cardinality(S \cup {p}) \in Nat
    BY <1>2, FS_CardinalityType
  <2>2. Cardinality(S \cup {p}) = IF p \in S THEN Cardinality(S) ELSE Cardinality(S) + 1
    BY <1>1, FS_AddElement
  <2>. QED  BY <1>2, <2>1, <2>2
<1>5. p \in S => Cardinality(S \ {p}) = Cardinality(S) - 1
  BY <1>1, FS_RemoveElement
<1>. QED  BY <1>2, <1>3, <1>4, <1>5

\* The sessions and intents there may be yet.
LEMMA Counted ==
    ASSUME SessionAssumption, CountsOK, DataTyped, TxTyped
    PROVE  /\ Inserting \in SUBSET Proc /\ Asking \in SUBSET Proc
           /\ Cardinality(Inserting) \in Nat /\ Cardinality(Asking) \in Nat
           /\ Len(sessions) <= requests /\ Len(sessions) <= MaxRequests
           /\ Ids \subseteq 1..MaxRequests
           /\ Len(intents) <= MaxHandoffs /\ Len(handoffs) <= MaxHandoffs
           /\ \A p \in Inserting : Len(sessions) + 1 <= requests /\ Len(sessions) + 1 <= MaxRequests
           /\ \A p \in Asking : Len(intents) + 1 <= MaxHandoffs
<1>1. Inserting \in SUBSET Proc /\ Asking \in SUBSET Proc
  BY DEF Inserting, Asking
<1>2. Cardinality(Inserting) \in Nat /\ Cardinality(Asking) \in Nat
  <2>1. \A S \in SUBSET Proc : Cardinality(S) \in Nat
    BY FS_Subset, FS_CardinalityType DEF SessionAssumption
  <2>. QED  BY <1>1, <2>1
<1>3. ASSUME NEW p \in Inserting PROVE Cardinality(Inserting) >= 1
  <2>1. p \in Proc /\ Cardinality(Inserting \ {p}) = Cardinality(Inserting) - 1
    BY <1>1, Finite
  <2>2. Cardinality(Inserting \ {p}) \in Nat
    BY <1>1, <2>1, Finite
  <2>. QED  BY <1>2, <2>1, <2>2
<1>4. ASSUME NEW p \in Asking PROVE Cardinality(Asking) >= 1
  <2>1. p \in Proc /\ Cardinality(Asking \ {p}) = Cardinality(Asking) - 1
    BY <1>1, Finite
  <2>2. Cardinality(Asking \ {p}) \in Nat
    BY <1>1, <2>1, Finite
  <2>. QED  BY <1>2, <2>1, <2>2
<1>5. /\ Len(sessions) \in Nat /\ Len(intents) \in Nat /\ Len(handoffs) \in Nat
      /\ MaxRequests \in Nat /\ MaxHandoffs \in Nat /\ requests \in 0..MaxRequests
  BY SessionTypes DEF TxTyped
<1>6. /\ Len(sessions) + Cardinality(Inserting) <= requests
      /\ Len(intents) + Cardinality(Asking) <= MaxHandoffs
      /\ Len(handoffs) <= MaxHandoffs
  BY DEF CountsOK
<1>7. Len(sessions) <= requests /\ Len(sessions) <= MaxRequests /\ Len(intents) <= MaxHandoffs
  BY <1>2, <1>5, <1>6
<1>8. \A p \in Inserting : Len(sessions) + 1 <= requests /\ Len(sessions) + 1 <= MaxRequests
  BY <1>2, <1>3, <1>5, <1>6
<1>9. \A p \in Asking : Len(intents) + 1 <= MaxHandoffs
  BY <1>2, <1>4, <1>5, <1>6
<1>. QED  BY <1>1, <1>2, <1>5, <1>6, <1>7, <1>8, <1>9 DEF Ids

\* A request that is not being served is a transaction record that waits for nothing.
LEMMA IdleTyped ==
    ASSUME SessionAssumption
    PROVE  /\ Idle \in TxRec /\ Idle.pc = "idle" /\ Idle.op = None /\ Idle.need = <<>>
           /\ Idle.target = None /\ Idle.revoke = {}
<1>1. <<>> \in Seq(Locks)
  OBVIOUS
<1>2. MaxRequests \in Nat /\ MaxHandoffs \in Nat
  BY DEF SessionAssumption
<1>. QED  BY <1>1, <1>2 DEF Idle, TxRec

\* The rows do not change.
LEMMA DataSame ==
    ASSUME SessionAssumption, SessionInv, UNCHANGED data
    PROVE  /\ UNCHANGED <<sessions, intents, handoffs, status, version, updated, membership,
                          closed, over, left>>
           /\ DataTyped' /\ RowsKept /\ HandoffsKept /\ IntentsKept
           /\ \A u \in Proc : LocksRespected(u)
           /\ time' \in Nat /\ time' >= 1 => DataInv'
<1>1. UNCHANGED <<sessions, intents, handoffs, status, version, updated, membership, closed, over, left>>
  BY DEF data
<1>2. DataTyped'
  BY <1>1 DEF DataTyped, SessionInv
<1>3. RowsKept /\ HandoffsKept /\ IntentsKept
  <2>1. Len(sessions) \in Nat /\ Len(handoffs) \in Nat /\ Len(intents) \in Nat
    BY SessionTypes DEF SessionInv
  <2>. QED  BY <1>1, <2>1 DEF RowsKept, HandoffsKept, IntentsKept
<1>4. \A u \in Proc : LocksRespected(u)
  BY <1>1 DEF LocksRespected, Ids
<1>5. ASSUME time' \in Nat, time' >= 1 PROVE DataInv'
  <2>1. FamiliesOK' /\ IssuedOK' /\ ClockOK'
    BY <1>1, <1>5 DEF SessionInv, DataInv, FamiliesOK, IssuedOK, ClockOK, Ids
  <2>2. OneLivePerFamily' /\ OneSessionPerHandoff'
    BY <1>1 DEF SessionInv, DataInv, OneLivePerFamily, OneSessionPerHandoff, Unrevoked, Ids
  <2>3. UnrevokedIsCurrent' /\ LoggedInAfter'
    BY <1>1 DEF SessionInv, DataInv, UnrevokedIsCurrent, LoggedInAfter, Unrevoked, Ids,
                Authorizes, ScopeLive
  <2>. QED  BY <2>1, <2>2, <2>3 DEF DataInv
<1>. QED  BY <1>1, <1>2, <1>3, <1>4, <1>5

\* A commit or a rollback, with what it writes.
LEMMA Ended ==
    ASSUME SessionAssumption, SessionInv, NEW p \in Proc, End(p),
           time' = time, requests' = requests, scenario' = scenario,
           RowsKept, HandoffsKept, IntentsKept, DataTyped', DataInv',
           Len(handoffs') = Len(handoffs),
           Len(sessions') = Len(sessions) \/ tx[p].op \in {"issue", "rotate"},
           Len(intents') = Len(intents) \/ tx[p].pc = "intent",
           \A u \in Proc \ {p} : LocksRespected(u)
    PROVE  SessionInv'
<1>1. /\ tx \in [Proc -> TxRec] /\ tx' = [tx EXCEPT ![p] = Idle]
      /\ owned \in [Row -> Proc \cup {None}] /\ shared \in [Row -> SUBSET Proc]
      /\ owned' = [x \in Row |-> IF owned[x] = p THEN None ELSE owned[x]]
      /\ shared' = [x \in Row |-> shared[x] \ {p}]
      /\ Idle \in TxRec /\ Idle.pc = "idle" /\ Idle.op = None /\ Idle.need = <<>>
      /\ None \notin Proc /\ None \notin Kinds
      /\ DataTyped /\ TxTyped /\ CountsOK /\ LocksOK /\ IssuedOK
      /\ \A u \in Proc : TxKnows(u)
  BY IdleTyped DEF SessionInv, TxTyped, End, SessionAssumption, DataInv
<1>2. ASSUME NEW u \in Proc, u # p PROVE TxKnows(u)'
  <2>1. tx'[u] = tx[u]
    BY <1>1, <1>2
  <2>2. ASSUME NEW x \in Row
        PROVE  /\ Owns(u, x) => Owns(u, x)'
               /\ Claims(u, x) => Claims(u, x)'
               /\ Shares(u, x) => Shares(u, x)'
               /\ Reads(u, x) => Reads(u, x)'
    BY <1>1, <1>2, <2>1 DEF Owns, Claims, Shares, Reads
  <2>3. Spares(u)
    BY <1>2, <2>1, <2>2 DEF Spares, TxSame
  <2>. QED  BY <1>1, <2>3, TxKept
<1>3. tx'[p] = Idle
  BY <1>1
<1>4. TxKnows(p)'
  BY <1>1, <1>3 DEF TxKnows, Kinds
<1>5. TxTyped'
  BY <1>1 DEF TxTyped
<1>6. LocksOK'
  <2>1. \A x \in Row : owned'[x] # None => shared'[x] \subseteq {owned'[x]}
    BY <1>1 DEF LocksOK
  <2>2. ASSUME NEW x \in Row, NEW u \in Proc, owned'[x] = u \/ u \in shared'[x]
        PROVE  tx'[u].pc # "idle"
    <3>1. u # p /\ (owned[x] = u \/ u \in shared[x])
      BY <1>1, <2>2
    <3>. QED  BY <1>1, <3>1 DEF LocksOK
  <2>3. \A u \in Proc : tx'[u].pc = "idle" => tx'[u].need = <<>>
    BY <1>1 DEF LocksOK
  <2>. QED  BY <2>1, <2>2, <2>3 DEF LocksOK
<1>7. CountsOK'
  <2>1. Inserting' = Inserting \ {p} /\ Asking' = Asking \ {p}
    BY <1>1 DEF Inserting, Asking, Kinds
  <2>2. /\ Inserting \in SUBSET Proc /\ Asking \in SUBSET Proc
        /\ Cardinality(Inserting) \in Nat /\ Cardinality(Asking) \in Nat
    BY <1>1, Counted
  <2>3. /\ Cardinality(Inserting') \in Nat /\ Cardinality(Inserting') <= Cardinality(Inserting)
        /\ p \in Inserting => Cardinality(Inserting') = Cardinality(Inserting) - 1
    <3>1. Inserting \ {p} \in SUBSET Inserting
      OBVIOUS
    <3>. QED  BY <2>1, <2>2, <3>1, Finite
  <2>4. /\ Cardinality(Asking') \in Nat /\ Cardinality(Asking') <= Cardinality(Asking)
        /\ p \in Asking => Cardinality(Asking') = Cardinality(Asking) - 1
    <3>1. Asking \ {p} \in SUBSET Asking
      OBVIOUS
    <3>. QED  BY <2>1, <2>2, <3>1, Finite
  <2>5. /\ Len(sessions) \in Nat /\ Len(intents) \in Nat /\ requests \in Nat /\ MaxHandoffs \in Nat
        /\ Len(sessions') \in Nat /\ Len(intents') \in Nat
        /\ Len(sessions') <= Len(sessions) + 1 /\ Len(intents') <= Len(intents) + 1
    <3>1. Len(sessions') \in Nat /\ Len(intents') \in Nat
      BY LenProperties DEF DataTyped
    <3>2. requests \in Nat
      BY <1>1, SessionTypes DEF TxTyped
    <3>. QED  BY <1>1, <3>1, <3>2, SessionTypes DEF RowsKept, IntentsKept
  <2>6. Len(sessions') + Cardinality(Inserting') <= requests
    <3>1. Len(sessions) + Cardinality(Inserting) <= requests
      BY <1>1 DEF CountsOK
    <3>2. CASE Len(sessions') = Len(sessions)
      BY <2>2, <2>3, <2>5, <3>1, <3>2
    <3>3. CASE tx[p].op \in {"issue", "rotate"}
      <4>1. p \in Inserting
        BY <3>3 DEF Inserting
      <4>2. Cardinality(Inserting') = Cardinality(Inserting) - 1
        BY ONLY <2>3, <4>1
      <4>. QED  BY ONLY <2>2, <2>5, <3>1, <4>2
    <3>. QED  BY <3>2, <3>3
  <2>7. Len(intents') + Cardinality(Asking') <= MaxHandoffs
    <3>1. Len(intents) + Cardinality(Asking) <= MaxHandoffs
      BY <1>1 DEF CountsOK
    <3>2. CASE Len(intents') = Len(intents)
      BY <2>2, <2>4, <2>5, <3>1, <3>2
    <3>3. CASE tx[p].pc = "intent"
      <4>1. p \in Asking
        BY <3>3 DEF Asking
      <4>2. Cardinality(Asking') = Cardinality(Asking) - 1
        BY ONLY <2>4, <4>1
      <4>. QED  BY ONLY <2>2, <2>5, <3>1, <4>2
    <3>. QED  BY <3>2, <3>3
  <2>8. Len(handoffs') <= MaxHandoffs
    BY <1>1 DEF CountsOK
  <2>. QED  BY <2>6, <2>7, <2>8 DEF CountsOK
<1>. QED  BY <1>2, <1>4, <1>5, <1>6, <1>7 DEF SessionInv

\* A transaction that ends without a write leaves the invariant.
LEMMA RolledBack ==
    ASSUME SessionAssumption, SessionInv, NEW p \in Proc, End(p),
           UNCHANGED <<data, time, requests, scenario>>
    PROVE  SessionInv'
<1>1. /\ time' = time /\ requests' = requests /\ scenario' = scenario
      /\ time \in Nat /\ time >= 1
  BY DEF SessionInv, TxTyped, DataInv, ClockOK
<1>2. /\ UNCHANGED <<sessions, intents, handoffs>>
      /\ DataTyped' /\ RowsKept /\ HandoffsKept /\ IntentsKept /\ DataInv'
      /\ \A u \in Proc : LocksRespected(u)
  BY <1>1, DataSame
<1>. QED  BY <1>1, <1>2, Ended

\* Another transaction goes on: no row changes, nor do the locks.
LEMMA OthersKept ==
    ASSUME SessionAssumption, SessionInv, NEW p \in Proc, NEW rec \in TxRec,
           tx' = [tx EXCEPT ![p] = rec], UNCHANGED <<data, owned, shared>>
    PROVE  /\ tx'[p] = rec /\ tx' \in [Proc -> TxRec]
           /\ \A u \in Proc \ {p} : tx'[u] = tx[u] /\ TxKnows(u)'
<1>1. tx \in [Proc -> TxRec] /\ owned' = owned /\ shared' = shared
  BY DEF SessionInv, TxTyped
<1>2. ASSUME NEW u \in Proc, u # p PROVE tx'[u] = tx[u] /\ TxKnows(u)'
  <2>1. tx'[u] = tx[u]
    BY <1>1, <1>2
  <2>2. ASSUME NEW x \in Row
        PROVE  /\ Owns(u, x) => Owns(u, x)'
               /\ Claims(u, x) => Claims(u, x)'
               /\ Shares(u, x) => Shares(u, x)'
               /\ Reads(u, x) => Reads(u, x)'
    BY <1>1, <2>1 DEF Owns, Claims, Shares, Reads
  <2>3. Spares(u)
    BY <2>1, <2>2, DataSame DEF Spares, TxSame
  <2>. QED  BY <2>1, <2>3, TxKept DEF SessionInv, DataInv
<1>. QED  BY <1>1, <1>2

\* A transaction goes on to its next statement.
LEMMA Continued ==
    ASSUME SessionAssumption, SessionInv, NEW p \in Proc, NEW rec \in TxRec, Continue(p, rec),
           time' = time \/ time' = time + 1,
           rec.op = tx[p].op, rec.pc # "idle", rec.pc # "intent", TxKnows(p)'
    PROVE  SessionInv'
<1>1. /\ tx' = [tx EXCEPT ![p] = rec] /\ UNCHANGED data
      /\ owned' = owned /\ shared' = shared /\ requests' = requests /\ scenario' = scenario
      /\ DataTyped /\ TxTyped /\ CountsOK /\ LocksOK
  BY DEF Continue, SessionInv
<1>2. /\ tx'[p] = rec /\ tx' \in [Proc -> TxRec]
      /\ \A u \in Proc \ {p} : tx'[u] = tx[u] /\ TxKnows(u)'
  BY <1>1, OthersKept
<1>3. time' \in Nat /\ time' >= 1
  BY DEF SessionInv, TxTyped, DataInv, ClockOK
<1>4. /\ DataTyped' /\ DataInv' /\ UNCHANGED <<sessions, intents, handoffs>>
  BY <1>1, <1>3, DataSame
<1>5. TxTyped'
  BY <1>1, <1>2, <1>3 DEF TxTyped
<1>6. LocksOK'
  BY <1>1, <1>2 DEF LocksOK
<1>7. CountsOK'
  <2>1. Inserting' = Inserting /\ Asking' \in SUBSET Asking
    BY <1>2 DEF Inserting, Asking
  <2>2. /\ Cardinality(Asking') \in Nat /\ Cardinality(Asking') <= Cardinality(Asking)
        /\ Cardinality(Asking) \in Nat
    BY <1>1, <2>1, Counted, Finite
  <2>3. Len(intents) \in Nat /\ MaxHandoffs \in Nat
    BY <1>1, SessionTypes
  <2>. QED  BY <1>1, <1>4, <2>1, <2>2, <2>3 DEF CountsOK
<1>. QED  BY <1>2, <1>4, <1>5, <1>6, <1>7 DEF SessionInv

\* A request is received, and its transaction begins.
LEMMA Begun ==
    ASSUME SessionAssumption, SessionInv, NEW p \in Proc, NEW op \in Kinds, NEW rec \in TxRec,
           Begin(p, op, rec), rec.pc # "idle", rec.pc # "intent", TxKnows(p)'
    PROVE  SessionInv'
<1>1. /\ tx' = [tx EXCEPT ![p] = rec] /\ UNCHANGED data
      /\ owned' = owned /\ shared' = shared /\ requests' = requests + 1 /\ scenario' = scenario
      /\ time' = time /\ requests < scenario.served
      /\ DataTyped /\ TxTyped /\ CountsOK /\ LocksOK
  BY DEF Begin, SessionInv
<1>2. /\ tx'[p] = rec /\ tx' \in [Proc -> TxRec]
      /\ \A u \in Proc \ {p} : tx'[u] = tx[u] /\ TxKnows(u)'
  BY <1>1, OthersKept
<1>3. time' \in Nat /\ time' >= 1
  BY <1>1 DEF SessionInv, TxTyped, DataInv, ClockOK
<1>4. /\ DataTyped' /\ DataInv' /\ UNCHANGED <<sessions, intents, handoffs>>
  BY <1>1, <1>3, DataSame
<1>5. /\ scenario.served \in 0..MaxRequests /\ requests \in 0..MaxRequests
      /\ Len(sessions) \in Nat /\ Len(intents) \in Nat /\ MaxHandoffs \in Nat /\ MaxRequests \in Nat
  BY <1>1, SessionTypes DEF TxTyped
<1>6. TxTyped'
  BY <1>1, <1>2, <1>3, <1>5 DEF TxTyped
<1>7. LocksOK'
  BY <1>1, <1>2 DEF LocksOK
<1>8. CountsOK'
  <2>1. Inserting' \in SUBSET (Inserting \cup {p}) /\ Asking' \in SUBSET Asking
    BY <1>2 DEF Inserting, Asking
  <2>2. Inserting \in SUBSET Proc /\ Cardinality(Inserting) \in Nat /\ Cardinality(Asking) \in Nat
    BY <1>1, Counted
  <2>3. /\ Cardinality(Asking') \in Nat /\ Cardinality(Asking') <= Cardinality(Asking)
    BY <1>1, <2>1, Counted, Finite
  <2>4. /\ Cardinality(Inserting \cup {p}) \in Nat
        /\ Cardinality(Inserting \cup {p}) <= Cardinality(Inserting) + 1
    BY <2>2, Finite
  <2>5. /\ Cardinality(Inserting') \in Nat
        /\ Cardinality(Inserting') <= Cardinality(Inserting \cup {p})
    <3>1. Inserting \cup {p} \in SUBSET Proc
      BY <2>2
    <3>. QED  BY <2>1, <3>1, Finite
  <2>6. /\ Len(sessions) + Cardinality(Inserting) <= requests
        /\ Len(intents) + Cardinality(Asking) <= MaxHandoffs /\ Len(handoffs) <= MaxHandoffs
    BY <1>1 DEF CountsOK
  <2>7. Len(sessions) + Cardinality(Inserting') <= requests + 1
    BY <1>5, <2>2, <2>4, <2>5, <2>6
  <2>8. Len(intents) + Cardinality(Asking') <= MaxHandoffs
    BY <1>5, <2>2, <2>3, <2>6
  <2>. QED  BY <1>1, <1>4, <2>6, <2>7, <2>8 DEF CountsOK
<1>. QED  BY <1>2, <1>4, <1>6, <1>7, <1>8 DEF SessionInv

\* A lock is granted: the transaction knows what it knew.
LEMMA AcquireKeeps ==
    ASSUME SessionAssumption, SessionInv, NEW p \in Proc, Acquire(p)
    PROVE  SessionInv'
<1>0. /\ DataTyped /\ TxTyped /\ CountsOK /\ LocksOK /\ IssuedOK /\ tx[p] \in TxRec
      /\ tx \in [Proc -> TxRec] /\ None \notin Proc
      /\ owned \in [Row -> Proc \cup {None}] /\ shared \in [Row -> SUBSET Proc]
      /\ \A u \in Proc : TxKnows(u)
  BY DEF SessionInv, TxTyped, DataInv, SessionAssumption
<1>1. tx[p].need \in Seq(Locks) /\ tx[p].need # <<>>
  BY <1>0 DEF TxRec, Acquire, Waiting
<1>2. PICK x \in Row, mode \in {"share", "update"} :
        Head(tx[p].need) = <<x, mode>> /\ tx[p].need[1] = <<x, mode>>
  <2>1. Head(tx[p].need) \in Locks /\ Head(tx[p].need) = tx[p].need[1]
    BY <1>1, HeadTailProperties
  <2>. QED  BY <2>1 DEF Locks
<1>3. PICK rest \in Seq(Locks) :
        /\ rest = Tail(tx[p].need)
        /\ \A k \in DOMAIN tx[p].need : k # 1 => /\ k - 1 \in DOMAIN rest
                                                /\ rest[k - 1] = tx[p].need[k]
  <2>1. /\ Tail(tx[p].need) \in Seq(Locks) /\ Len(Tail(tx[p].need)) = Len(tx[p].need) - 1
        /\ \A k \in 1..Len(Tail(tx[p].need)) : Tail(tx[p].need)[k] = tx[p].need[k + 1]
    BY <1>1, HeadTailProperties
  <2>2. /\ DOMAIN tx[p].need = 1..Len(tx[p].need) /\ Len(tx[p].need) \in Nat
        /\ DOMAIN Tail(tx[p].need) = 1..Len(Tail(tx[p].need))
    BY <1>1, <2>1, LenProperties
  <2>3. ASSUME NEW k \in DOMAIN tx[p].need, k # 1
        PROVE  /\ k - 1 \in DOMAIN Tail(tx[p].need)
               /\ Tail(tx[p].need)[k - 1] = tx[p].need[k]
    <3>1. k - 1 \in 1..Len(Tail(tx[p].need)) /\ (k - 1) + 1 = k
      BY <2>1, <2>2, <2>3
    <3>. QED  BY <2>1, <2>2, <3>1
  <2>. QED  BY <2>1, <2>3
<1>4. PICK rec \in TxRec : rec = [tx[p] EXCEPT !.need = rest]
  BY <1>0 DEF TxRec
<1>5. /\ rec.need = rest /\ rec.pc = tx[p].pc /\ rec.op = tx[p].op /\ rec.session = tx[p].session
      /\ rec.handoff = tx[p].handoff /\ rec.intent = tx[p].intent /\ rec.target = tx[p].target
      /\ rec.revoke = tx[p].revoke /\ rec.members = tx[p].members /\ rec.at = tx[p].at
  BY <1>0, <1>4 DEF TxRec
<1>6. /\ tx' = [tx EXCEPT ![p] = rec] /\ UNCHANGED data /\ time' = time /\ requests' = requests
      /\ scenario' = scenario
  <2>1. tx' = [tx EXCEPT ![p].need = Tail(@)]
    BY DEF Acquire
  <2>. QED  BY <1>0, <1>3, <1>4, <2>1 DEF Acquire
<1>7. tx'[p] = rec /\ \A u \in Proc \ {p} : tx'[u] = tx[u]
  BY <1>0, <1>6
<1>8. /\ owned[x] = None \/ owned[x] = p
      /\ mode = "update" => shared[x] \subseteq {p}
      /\ mode = "update" => owned' = [owned EXCEPT ![x] = p] /\ shared' = shared
      /\ mode = "share" => shared' = [shared EXCEPT ![x] = @ \cup {p}] /\ owned' = owned
  <2>. DEFINE head == Head(tx[p].need)
  <2>1. head[1] = x /\ head[2] = mode
    BY <1>2
  <2>2. /\ Blockers(p, head) = {}
        /\ IF head[2] = "update"
           THEN owned' = [owned EXCEPT ![head[1]] = p] /\ shared' = shared
           ELSE shared' = [shared EXCEPT ![head[1]] = @ \cup {p}] /\ owned' = owned
    BY DEF Acquire
  <2>. HIDE DEF head
  <2>3. /\ (IF owned[x] = None THEN {} ELSE {owned[x]}) \subseteq {p}
        /\ (IF mode = "update" THEN shared[x] ELSE {}) \subseteq {p}
    BY <2>1, <2>2 DEF Blockers
  <2>4. (owned[x] = None \/ owned[x] = p) /\ (mode = "update" => shared[x] \subseteq {p})
    BY <2>3
  <2>5. /\ mode = "update" => owned' = [owned EXCEPT ![x] = p] /\ shared' = shared
        /\ mode = "share" => shared' = [shared EXCEPT ![x] = @ \cup {p}] /\ owned' = owned
    BY <2>1, <2>2
  <2>. QED  BY <2>4, <2>5
<1>9. /\ owned' \in [Row -> Proc \cup {None}] /\ shared' \in [Row -> SUBSET Proc]
      /\ \A y \in Row : y # x => owned'[y] = owned[y] /\ shared'[y] = shared[y]
      /\ mode = "update" => owned'[x] = p /\ shared'[x] = shared[x]
      /\ mode = "share" => p \in shared'[x] /\ shared'[x] = shared[x] \cup {p} /\ owned'[x] = owned[x]
  <2>1. CASE mode = "update"
    BY <1>0, <1>8, <2>1
  <2>2. CASE mode = "share"
    <3>1. shared' = [shared EXCEPT ![x] = shared[x] \cup {p}] /\ owned' = owned
      BY <1>8, <2>2
    <3>2. shared[x] \cup {p} \in SUBSET Proc
      BY <1>0
    <3>. QED  BY <1>0, <2>2, <3>1, <3>2
  <2>. QED  BY <2>1, <2>2
<1>10. DataTyped' /\ DataInv' /\ UNCHANGED <<sessions, intents, handoffs>>
  BY <1>0, <1>6, DataSame DEF SessionInv, TxTyped, DataInv, ClockOK
<1>11. ASSUME NEW u \in Proc PROVE TxKnows(u)'
  <2>1. ASSUME NEW y \in Row
        PROVE  /\ Owns(u, y) => Owns(u, y)'
               /\ Shares(u, y) => Shares(u, y)'
    BY <1>0, <1>8, <1>9 DEF Owns, Shares
  <2>2. ASSUME NEW y \in Row, Claims(u, y) PROVE Claims(u, y)'
    <3>1. CASE owned[y] = u
      BY <2>1, <3>1 DEF Owns, Claims
    <3>2. CASE u # p
      BY <1>7, <2>1, <2>2, <3>2 DEF Owns, Claims
    <3>3. ASSUME u = p, NEW k \in DOMAIN tx[p].need, tx[p].need[k] = Update(y)
          PROVE  Claims(u, y)'
      <4>1. CASE k = 1
        <5>1. x = y /\ mode = "update"
          BY <1>1, <1>2, <3>3, <4>1 DEF Update
        <5>. QED  BY <1>9, <3>3, <5>1 DEF Claims
      <4>2. CASE k # 1
        <5>1. k - 1 \in DOMAIN rest /\ rest[k - 1] = Update(y)
          BY <1>3, <3>3, <4>2
        <5>. QED  BY <1>5, <1>7, <3>3, <5>1 DEF Claims
      <4>. QED  BY <4>1, <4>2
    <3>. QED  BY <2>2, <3>1, <3>2, <3>3 DEF Claims
  <2>3. ASSUME NEW y \in Row, Reads(u, y) PROVE Reads(u, y)'
    <3>1. CASE u \in shared[y]
      BY <2>1, <3>1 DEF Shares, Reads
    <3>2. CASE u # p
      BY <1>7, <2>1, <2>3, <3>2 DEF Shares, Reads
    <3>3. ASSUME u = p, NEW k \in DOMAIN tx[p].need, tx[p].need[k] = Share(y)
          PROVE  Reads(u, y)'
      <4>1. CASE k = 1
        <5>1. x = y /\ mode = "share"
          BY <1>1, <1>2, <3>3, <4>1 DEF Share
        <5>. QED  BY <1>9, <3>3, <5>1 DEF Reads
      <4>2. CASE k # 1
        <5>1. k - 1 \in DOMAIN rest /\ rest[k - 1] = Share(y)
          BY <1>3, <3>3, <4>2
        <5>. QED  BY <1>5, <1>7, <3>3, <5>1 DEF Reads
      <4>. QED  BY <4>1, <4>2
    <3>. QED  BY <2>3, <3>1, <3>2, <3>3 DEF Reads
  <2>4. TxSame(u)
    BY <1>5, <1>7, <2>1, <2>2, <2>3 DEF TxSame
  <2>5. Spares(u)
    BY <1>6, <2>4, DataSame DEF Spares
  <2>. QED  BY <1>0, <2>5, TxKept
<1>12. TxTyped'
  <2>1. tx' \in [Proc -> TxRec]
    BY <1>0, <1>6
  <2>. QED  BY <1>0, <1>6, <1>9, <2>1 DEF TxTyped
<1>13. LocksOK'
  <2>1. tx[p].pc # "idle"
    BY <1>0, <1>1 DEF LocksOK
  <2>2. \A u \in Proc : tx'[u].pc = tx[u].pc
    BY <1>5, <1>7
  <2>3. ASSUME NEW y \in Row, owned'[y] # None PROVE shared'[y] \subseteq {owned'[y]}
    <3>1. CASE y # x
      BY <1>0, <1>9, <2>3, <3>1 DEF LocksOK
    <3>2. CASE y = x
      BY <1>0, <1>8, <1>9, <2>3, <3>2 DEF LocksOK
    <3>. QED  BY <3>1, <3>2
  <2>4. ASSUME NEW y \in Row, NEW u \in Proc, owned'[y] = u \/ u \in shared'[y]
        PROVE  tx'[u].pc # "idle"
    <3>1. u = p \/ owned[y] = u \/ u \in shared[y]
      BY <1>9, <2>4
    <3>. QED  BY <1>0, <2>1, <2>2, <3>1 DEF LocksOK
  <2>. QED  BY <2>1, <2>2, <2>3, <2>4, <1>0, <1>7 DEF LocksOK
<1>14. CountsOK'
  <2>1. \A u \in Proc : tx'[u].op = tx[u].op /\ tx'[u].pc = tx[u].pc
    BY <1>5, <1>7
  <2>2. Inserting' = Inserting
    BY ONLY <2>1 DEF Inserting
  <2>3. Asking' = Asking
    BY ONLY <2>1 DEF Asking
  <2>. QED  BY <1>0, <1>6, <1>10, <2>2, <2>3 DEF CountsOK
<1>. QED  BY <1>10, <1>11, <1>12, <1>13, <1>14 DEF SessionInv

-----------------------------------------------------------------------------
(* The statements of a transaction.                                        *)

\* Once it waits for nothing, a transaction has what its statement was to lock.
LEMMA AtOwns ==
    ASSUME NEW p \in Proc, ~Waiting(p)
    PROVE  \A x \in Row : (Claims(p, x) => Owns(p, x)) /\ (Reads(p, x) => Shares(p, x))
<1>1. tx[p].need = <<>>
  BY DEF Waiting
<1>2. DOMAIN tx[p].need = {}
  BY <1>1
<1>. QED  BY <1>2 DEF Claims, Owns, Reads, Shares

\* The request each statement belongs to.
LEMMA Statements ==
    ASSUME SessionAssumption, TxTyped, NEW p \in Proc, TxKnows(p)
    PROVE  /\ tx[p].op \in Kinds \cup {None}
           /\ tx[p].op = None <=> tx[p].pc = "idle"
           /\ tx[p].pc = "handoff" => tx[p].op = "issue"
           /\ tx[p].pc \in {"scope", "session"} => tx[p].op \in {"issue", "rotate"}
           /\ tx[p].pc \in {"lock", "write"} /\ tx[p].op # "issue" =>
                tx[p].op \in {"logout", "logoutAll", "disable", "suspended", "disabled", "close"}
           /\ tx[p].pc = "lock" => tx[p].op # "issue"
           /\ tx[p].pc \in {"intent", "start"} => tx[p].op = "reauth"
           /\ tx[p].pc = "insert" => tx[p].op = "member"
           /\ tx[p].pc = "touch" => tx[p].op = "touch"
<1>. DEFINE op == tx[p].op
            pc == tx[p].pc
<1>1. tx[p] \in TxRec
  BY DEF TxTyped
<1>2. op \in Kinds \cup {None} /\ None \notin Kinds /\ (op = None <=> pc = "idle")
  BY <1>1 DEF TxRec, SessionAssumption, TxKnows
<1>3. op = "issue" => pc \in {"handoff", "account", "membership", "scope", "session", "write"}
  BY DEF TxKnows, IssueKnows
<1>4. op = "rotate" => pc \in {"account", "membership", "scope", "session"}
  BY DEF TxKnows, RotateKnows
<1>5. /\ op = "logout" => pc \in {"lock", "write"}
      /\ op = "logoutAll" => pc \in {"account", "lock", "write"}
      /\ op = "touch" => pc = "touch"
      /\ op = "reauth" => pc \in {"intent", "start"}
  BY DEF TxKnows, SessionKnows
<1>6. op = "disable" => pc \in {"lock", "write"}
  BY DEF TxKnows, DisableKnows
<1>7. op \in {"suspended", "disabled"} => pc \in {"account", "lock", "write"}
  BY DEF TxKnows, StatusKnows
<1>8. op = "close" => pc \in {"lock", "write"}
  BY DEF TxKnows, CloseKnows
<1>9. op = "member" => pc = "insert"
  BY DEF TxKnows
<1>10. op \in {"issue", "rotate", "reauth", "logout", "logoutAll", "touch",
               "member", "disable", "suspended", "disabled", "close", None}
  BY <1>2 DEF Kinds
<1>. HIDE DEF op, pc
<1>11. /\ pc = "handoff" => op = "issue"
       /\ pc \in {"scope", "session"} => op \in {"issue", "rotate"}
       /\ pc \in {"lock", "write"} /\ op # "issue" =>
            op \in {"logout", "logoutAll", "disable", "suspended", "disabled", "close"}
       /\ pc = "lock" => op # "issue"
       /\ pc \in {"intent", "start"} => op = "reauth"
       /\ pc = "insert" => op = "member"
       /\ pc = "touch" => op = "touch"
  BY <1>2, <1>3, <1>4, <1>5, <1>6, <1>7, <1>8, <1>9, <1>10
<1>. QED  BY <1>2, <1>11 DEF op, pc

\* A statement that locks several rows, in any order.
LEMMA Listed ==
    ASSUME NEW S \in SUBSET Row, IsFiniteSet(S), NEW q \in Listings(S)
    PROVE  /\ Range(q) = S
           /\ [k \in DOMAIN q |-> Share(q[k])] \in Seq(Locks)
           /\ [k \in DOMAIN q |-> Update(q[k])] \in Seq(Locks)
           /\ \A x \in S : \E k \in DOMAIN q : q[k] = x
<1>1. /\ q \in [1..Cardinality(S) -> S] /\ Range(q) = S /\ Cardinality(S) \in Nat
  BY FS_CardinalityType DEF Listings
<1>2. \A x \in S : \E k \in DOMAIN q : q[k] = x
  BY <1>1 DEF Range
<1>3. \A k \in DOMAIN q : Share(q[k]) \in Locks /\ Update(q[k]) \in Locks
  BY <1>1 DEF Share, Update, Locks
<1>4. DOMAIN q = 1..Cardinality(S)
  BY <1>1
<1>. QED  BY <1>1, <1>2, <1>3, <1>4

\* Whatever order a statement meets its rows in, it asks for the lock of each.
LEMMA Ordered ==
    ASSUME SessionAssumption, NEW S \in SUBSET (1..MaxRequests), NEW locks \in Orders(S)
    PROVE  /\ locks \in Seq(Locks)
           /\ \A s \in S : \E k \in DOMAIN locks : locks[k] = Update(SessionRow(s))
<1>1. PICK q \in Listings(S) : locks = [k \in DOMAIN q |-> Update(SessionRow(q[k]))]
  BY DEF Orders
<1>2. IsFiniteSet(S)
  <2>1. MaxRequests \in Nat
    BY DEF SessionAssumption
  <2>2. IsFiniteSet(1..MaxRequests)
    BY <2>1, FS_Interval
  <2>. QED  BY <2>2, FS_Subset
<1>3. q \in [1..Cardinality(S) -> S] /\ Range(q) = S /\ Cardinality(S) \in Nat
  BY <1>2, FS_CardinalityType DEF Listings
<1>4. \A k \in 1..Cardinality(S) : Update(SessionRow(q[k])) \in Locks
  <2>1. \A s \in 1..MaxRequests : SessionRow(s) \in Row
    BY DEF Row
  <2>. QED  BY <1>3, <2>1 DEF Update, Locks
<1>5. DOMAIN q = 1..Cardinality(S)
  BY <1>3
<1>6. locks \in Seq(Locks)
  BY <1>1, <1>3, <1>4, <1>5
<1>7. ASSUME NEW s \in S PROVE \E k \in DOMAIN locks : locks[k] = Update(SessionRow(s))
  <2>1. PICK k \in DOMAIN q : q[k] = s
    BY <1>3 DEF Range
  <2>. QED  BY <1>1, <2>1
<1>. QED  BY <1>6, <1>7

\* A request for which an issuance has nothing to know.
LEMMA IssueOnly ==
    ASSUME SessionAssumption, NEW p \in Proc, tx'[p].op = "issue", tx'[p].pc # "idle",
           NEW h \in 1..Len(handoffs'), NEW s \in 0..Len(sessions'), NEW a \in Account,
           tx'[p].handoff = h, tx'[p].session = s, handoffs'[h].account = a,
           IssueKnows(p, h, s, a)', ReplaceKnows(p, h, s, a)'
    PROVE  TxKnows(p)'
<1>1. None \notin Kinds
  BY DEF SessionAssumption
<1>2. "issue" # None
  BY <1>1 DEF Kinds
<1>. QED  BY <1>2 DEF TxKnows

\* Of a rotation nothing else has to be known.
LEMMA RotateOnly ==
    ASSUME SessionAssumption, NEW p \in Proc, tx'[p].op = "rotate", tx'[p].pc # "idle",
           NEW s \in 1..Len(sessions'), NEW a \in Account,
           tx'[p].session = s, sessions'[s].account = a, RotateKnows(p, s, a)'
    PROVE  TxKnows(p)'
<1>1. None \notin Kinds
  BY DEF SessionAssumption
<1>2. "rotate" # None
  BY <1>1 DEF Kinds
<1>. QED  BY <1>2 DEF TxKnows, Ids

\* Of a request made with a session nothing else has to be known.
LEMMA SessionOnly ==
    ASSUME SessionAssumption, NEW p \in Proc,
           tx'[p].op \in {"logout", "logoutAll", "touch", "reauth"}, tx'[p].pc # "idle",
           NEW s \in 1..Len(sessions'), NEW a \in Account,
           tx'[p].session = s, sessions'[s].account = a, SessionKnows(p, s, a)',
           tx'[p].pc = "write" => SessionsClaimed(p)'
    PROVE  TxKnows(p)'
<1>1. None \notin Kinds
  BY DEF SessionAssumption
<1>2. tx'[p].op # None
  BY <1>1 DEF Kinds
<1>. QED  BY <1>2 DEF TxKnows, Ids

\* Of an administrative request nothing else has to be known.
LEMMA BarOnly ==
    ASSUME SessionAssumption, NEW p \in Proc, tx'[p].pc # "idle", NEW x, tx'[p].target = x,
           \/ tx'[p].op = "disable" /\ x \in Membership /\ DisableKnows(p, x)'
           \/ tx'[p].op \in {"suspended", "disabled"} /\ x \in Account /\ StatusKnows(p, x)'
           \/ tx'[p].op = "close" /\ x \in Condo /\ CloseKnows(p, x)'
           \/ tx'[p].op = "member" /\ x \in Membership /\ tx'[p].pc = "insert",
           tx'[p].pc = "write" => SessionsClaimed(p)'
    PROVE  TxKnows(p)'
<1>1. None \notin Kinds
  BY DEF SessionAssumption
<1>2. tx'[p].op # None
  BY <1>1 DEF Kinds
<1>. QED  BY <1>2 DEF TxKnows

-----------------------------------------------------------------------------
(* What the rows promise, when some are added.                             *)

LEMMA IssuedKept ==
    ASSUME SessionAssumption, DataTyped, TxTyped, DataTyped', IssuedOK, OneSessionPerHandoff,
           RowsKept, HandoffsKept, IntentsKept,
           \A s \in 1..Len(sessions') : s \notin Ids /\ sessions'[s].from # 0 =>
             \E h \in 1..Len(handoffs) :
               /\ sessions'[s].from = h /\ sessions'[s].kind = handoffs[h].kind
               /\ handoffs[h].state = "fresh" /\ handoffs'[h].state = "consumed"
               /\ handoffs[h].kind = "reauth" =>
                    /\ sessions'[s].family = intents[handoffs[h].intent].family
                    /\ sessions'[s].account = intents[handoffs[h].intent].account,
           \A h \in 1..Len(handoffs') : h \notin 1..Len(handoffs) =>
             /\ handoffs'[h].auth >= 1 /\ (handoffs'[h].kind = "reauth" <=> handoffs'[h].intent # 0)
             /\ handoffs'[h].intent # 0 =>
                  /\ handoffs'[h].intent \in 1..Len(intents)
                  /\ intents[handoffs'[h].intent].state # "answered"
                  /\ intents'[handoffs'[h].intent].state = "answered",
           \A i \in 1..Len(intents') : i \notin 1..Len(intents) =>
             \E s \in Ids : /\ sessions[s].family = intents'[i].family
                            /\ sessions[s].account = intents'[i].account
    PROVE  IssuedOK' /\ OneSessionPerHandoff'
<1>1. /\ Len(sessions) \in Nat /\ Len(handoffs) \in Nat /\ Len(intents) \in Nat
      /\ Len(sessions') \in Nat /\ Len(handoffs') \in Nat /\ Len(intents') \in Nat
      /\ Len(sessions) <= Len(sessions') /\ Len(handoffs) <= Len(handoffs')
      /\ Len(intents) <= Len(intents')
      /\ Len(sessions') <= Len(sessions) + 1 /\ Len(handoffs') <= Len(handoffs) + 1
  <2>1. Len(sessions') \in Nat /\ Len(handoffs') \in Nat /\ Len(intents') \in Nat
    BY LenProperties DEF DataTyped
  <2>. QED  BY <2>1, SessionTypes DEF RowsKept, HandoffsKept, IntentsKept
<1>2. /\ \A s, t \in 1..Len(sessions') : s \notin Ids /\ t \notin Ids => s = t
      /\ \A g, h \in 1..Len(handoffs') : g \notin 1..Len(handoffs) /\ h \notin 1..Len(handoffs) => g = h
      /\ \A s \in Ids : s \in 1..Len(sessions')
      /\ \A h \in 1..Len(handoffs) : h \in 1..Len(handoffs')
  BY <1>1 DEF Ids
<1>3. \A h \in 1..Len(handoffs) :
        /\ handoffs[h].intent \in 0..Len(intents)
        /\ handoffs[h].intent # 0 => handoffs[h].intent \in 1..Len(intents)
  <2>. SUFFICES ASSUME NEW h \in 1..Len(handoffs) PROVE handoffs[h].intent \in 0..Len(intents)
    BY <1>1
  <2>1. handoffs[h].intent \in 0..MaxHandoffs /\ handoffs[h].intent <= Len(intents)
    BY SessionTypes DEF HandoffRec, IssuedOK
  <2>. QED  BY <1>1, <2>1
<1>4. ASSUME NEW s \in Ids, sessions[s].from # 0
      PROVE  /\ sessions[s].from \in 1..Len(handoffs)
             /\ handoffs[sessions[s].from].state = "consumed"
             /\ handoffs'[sessions[s].from].state = "consumed"
             /\ sessions[s].kind = handoffs[sessions[s].from].kind
             /\ handoffs'[sessions[s].from].kind = handoffs[sessions[s].from].kind
             /\ handoffs'[sessions[s].from].intent = handoffs[sessions[s].from].intent
  <2>1. sessions[s].from \in 0..MaxHandoffs /\ sessions[s].from <= Len(handoffs)
    BY <1>4, SessionTypes DEF SessionRec, IssuedOK
  <2>2. sessions[s].from \in 1..Len(handoffs)
    BY <1>1, <1>4, <2>1
  <2>. QED  BY <1>4, <2>2 DEF IssuedOK, HandoffsKept
<1>5. ASSUME NEW s \in 1..Len(sessions'), sessions'[s].from # 0
      PROVE  /\ sessions'[s].from \in 1..Len(handoffs)
             /\ handoffs'[sessions'[s].from].state = "consumed"
             /\ sessions'[s].kind = handoffs[sessions'[s].from].kind
             /\ handoffs'[sessions'[s].from].kind = handoffs[sessions'[s].from].kind
             /\ handoffs'[sessions'[s].from].intent = handoffs[sessions'[s].from].intent
             /\ s \notin Ids => handoffs[sessions'[s].from].state = "fresh"
  <2>1. CASE s \in Ids
    <3>1. sessions'[s].from = sessions[s].from /\ sessions'[s].kind = sessions[s].kind
      BY <2>1 DEF RowsKept
    <3>. QED  BY <1>4, <1>5, <2>1, <3>1
  <2>2. CASE s \notin Ids
    BY <1>5, <2>2 DEF HandoffsKept
  <2>. QED  BY <2>1, <2>2
<1>6. ASSUME NEW h \in 1..Len(handoffs')
      PROVE  /\ handoffs'[h].auth >= 1 /\ handoffs'[h].intent <= Len(intents')
             /\ handoffs'[h].kind = "reauth" <=> handoffs'[h].intent # 0
             /\ handoffs'[h].intent # 0 => /\ handoffs'[h].intent \in 1..Len(intents)
                                           /\ intents'[handoffs'[h].intent].state = "answered"
  <2>1. CASE h \in 1..Len(handoffs)
    <3>1. /\ handoffs'[h].auth = handoffs[h].auth /\ handoffs'[h].intent = handoffs[h].intent
          /\ handoffs'[h].kind = handoffs[h].kind
      BY <2>1 DEF HandoffsKept
    <3>2. /\ handoffs[h].auth >= 1 /\ (handoffs[h].kind = "reauth" <=> handoffs[h].intent # 0)
          /\ handoffs[h].intent # 0 => intents[handoffs[h].intent].state = "answered"
      BY <2>1 DEF IssuedOK
    <3>3. handoffs[h].intent # 0 => intents'[handoffs[h].intent].state = "answered"
      BY <1>3, <2>1, <3>2 DEF IntentsKept
    <3>4. handoffs[h].intent \in 0..Len(intents)
      BY <1>3, <2>1
    <3>. QED  BY <1>1, <3>1, <3>2, <3>3, <3>4
  <2>2. CASE h \notin 1..Len(handoffs)
    <3>1. /\ handoffs'[h].auth >= 1 /\ (handoffs'[h].kind = "reauth" <=> handoffs'[h].intent # 0)
          /\ handoffs'[h].intent # 0 => /\ handoffs'[h].intent \in 1..Len(intents)
                                        /\ intents'[handoffs'[h].intent].state = "answered"
      BY <2>2
    <3>. QED  BY <1>1, <3>1
  <2>. QED  BY <2>1, <2>2
<1>7. ASSUME NEW i \in 1..Len(intents')
      PROVE  \E s \in 1..Len(sessions') : /\ sessions'[s].family = intents'[i].family
                                          /\ sessions'[s].account = intents'[i].account
  <2>1. PICK s \in Ids : /\ sessions[s].family = intents'[i].family
                         /\ sessions[s].account = intents'[i].account
    <3>1. CASE i \in 1..Len(intents)
      BY <3>1 DEF IssuedOK, IntentsKept
    <3>2. CASE i \notin 1..Len(intents)
      BY <3>2
    <3>. QED  BY <3>1, <3>2
  <2>2. /\ s \in 1..Len(sessions')
        /\ sessions'[s].family = sessions[s].family /\ sessions'[s].account = sessions[s].account
    BY <1>2 DEF RowsKept
  <2>. QED  BY ONLY <2>1, <2>2
<1>8. IssuedOK'
  <2>1. \A s \in 1..Len(sessions') : sessions'[s].from # 0 => sessions'[s].from <= Len(handoffs')
    BY <1>1, <1>5
  <2>. QED  BY <1>5, <1>6, <1>7, <2>1 DEF IssuedOK, Ids
<1>9. ASSUME NEW s \in 1..Len(sessions'), NEW t \in 1..Len(sessions'),
             sessions'[s].from # 0, sessions'[s].from = sessions'[t].from
      PROVE  s = t
  <2>1. CASE s \in Ids /\ t \in Ids
    BY <1>9, <2>1 DEF OneSessionPerHandoff, RowsKept
  <2>2. ASSUME NEW x \in 1..Len(sessions'), NEW y \in 1..Len(sessions'), x \in Ids, y \notin Ids,
               sessions'[x].from # 0, sessions'[x].from = sessions'[y].from
        PROVE  FALSE
    <3>1. sessions'[x].from = sessions[x].from
      BY <2>2 DEF RowsKept
    <3>2. handoffs[sessions[x].from].state = "consumed"
      BY <1>4, <2>2, <3>1
    <3>3. handoffs[sessions'[y].from].state = "fresh"
      BY <1>5, <2>2
    <3>. QED  BY <2>2, <3>1, <3>2, <3>3
  <2>. QED  BY <1>2, <1>9, <2>1, <2>2
<1>10. ASSUME NEW g \in 1..Len(handoffs'), NEW h \in 1..Len(handoffs'),
              handoffs'[g].intent # 0, handoffs'[g].intent = handoffs'[h].intent
       PROVE  g = h
  <2>1. CASE g \in 1..Len(handoffs) /\ h \in 1..Len(handoffs)
    <3>1. handoffs'[g].intent = handoffs[g].intent /\ handoffs'[h].intent = handoffs[h].intent
      BY <2>1 DEF HandoffsKept
    <3>2. \A x, y \in 1..Len(handoffs) :
            handoffs[x].intent # 0 /\ handoffs[x].intent = handoffs[y].intent => x = y
      BY DEF OneSessionPerHandoff
    <3>3. handoffs[g].intent # 0 /\ handoffs[g].intent = handoffs[h].intent
      BY <1>10, <3>1
    <3>. QED  BY ONLY <2>1, <3>2, <3>3
  <2>2. ASSUME NEW x \in 1..Len(handoffs), NEW y \in 1..Len(handoffs'), y \notin 1..Len(handoffs),
               handoffs'[y].intent # 0, handoffs'[x].intent = handoffs'[y].intent
        PROVE  FALSE
    <3>1. handoffs'[x].intent = handoffs[x].intent
      BY DEF HandoffsKept
    <3>2. intents[handoffs[x].intent].state = "answered"
      BY <2>2, <3>1 DEF IssuedOK
    <3>3. intents[handoffs'[y].intent].state # "answered"
      BY <2>2
    <3>. QED  BY <2>2, <3>1, <3>2, <3>3
  <2>3. CASE g \in 1..Len(handoffs) /\ h \notin 1..Len(handoffs)
    <3>1. handoffs'[h].intent # 0
      BY <1>10
    <3>. QED  BY <1>10, <2>2, <2>3, <3>1
  <2>4. CASE g \notin 1..Len(handoffs) /\ h \in 1..Len(handoffs)
    <3>1. handoffs'[h].intent = handoffs'[g].intent
      BY <1>10
    <3>. QED  BY <1>10, <2>2, <2>4, <3>1
  <2>5. CASE g \notin 1..Len(handoffs) /\ h \notin 1..Len(handoffs)
    BY <1>2, <2>5
  <2>. QED  BY <2>1, <2>3, <2>4, <2>5
<1>11. ASSUME NEW s \in 1..Len(sessions'), sessions'[s].from # 0, sessions'[s].kind = "reauth"
       PROVE  /\ sessions'[s].family = intents'[handoffs'[sessions'[s].from].intent].family
              /\ sessions'[s].account = intents'[handoffs'[sessions'[s].from].intent].account
  <2>1. PICK h \in 1..Len(handoffs) : h = sessions'[s].from
    BY <1>5, <1>11
  <2>2. handoffs[h].kind = "reauth" /\ handoffs'[h].intent = handoffs[h].intent
    BY <1>5, <1>11, <2>1
  <2>3. PICK i \in 1..Len(intents) : i = handoffs[h].intent
    BY <1>3, <2>2 DEF IssuedOK
  <2>4. sessions'[s].family = intents[i].family /\ sessions'[s].account = intents[i].account
    <3>1. CASE s \in Ids
      <4>1. /\ sessions[s].from = h /\ sessions[s].kind = "reauth" /\ sessions[s].from # 0
            /\ sessions'[s].family = sessions[s].family /\ sessions'[s].account = sessions[s].account
        BY <1>11, <2>1, <3>1 DEF RowsKept
      <4>2. /\ sessions[s].family = intents[handoffs[sessions[s].from].intent].family
            /\ sessions[s].account = intents[handoffs[sessions[s].from].intent].account
        BY <3>1, <4>1 DEF OneSessionPerHandoff
      <4>. QED  BY <2>3, <4>1, <4>2
    <3>2. CASE s \notin Ids
      <4>1. PICK g \in 1..Len(handoffs) :
               /\ sessions'[s].from = g
               /\ handoffs[g].kind = "reauth" =>
                    /\ sessions'[s].family = intents[handoffs[g].intent].family
                    /\ sessions'[s].account = intents[handoffs[g].intent].account
        BY <1>11, <3>2
      <4>2. g = h
        BY <2>1, <4>1
      <4>. QED  BY <2>2, <2>3, <4>1, <4>2
    <3>. QED  BY <3>1, <3>2
  <2>5. intents'[i].family = intents[i].family /\ intents'[i].account = intents[i].account
    BY DEF IntentsKept
  <2>. QED  BY <2>1, <2>2, <2>3, <2>4, <2>5
<1>12. OneSessionPerHandoff'
  BY <1>9, <1>10, <1>11 DEF OneSessionPerHandoff, Ids
<1>. QED  BY <1>8, <1>12

\* New sessions of a family with no unrevoked one, or of a family of their own,
\* leave the families as they should be.
LEMMA FamiliesKept ==
    ASSUME SessionAssumption, DataTyped, TxTyped, DataTyped', FamiliesOK, OneLivePerFamily, RowsKept,
           \A s \in 1..Len(sessions') : s \notin Ids =>
             /\ sessions'[s].account = AccountOf[sessions'[s].membership]
             /\ \/ sessions'[s].family = s
                \/ \E t \in Ids : /\ sessions'[s].family = sessions[t].family
                                  /\ sessions'[s].account = sessions[t].account
             /\ \A t \in Ids : sessions'[t].state = "live" =>
                  sessions'[t].family # sessions'[s].family
    PROVE  FamiliesOK' /\ OneLivePerFamily'
<1>1. /\ Len(sessions) \in Nat /\ Len(sessions') \in Nat
      /\ Len(sessions) <= Len(sessions') /\ Len(sessions') <= Len(sessions) + 1
  <2>1. Len(sessions') \in Nat
    BY LenProperties DEF DataTyped
  <2>. QED  BY <2>1, SessionTypes DEF RowsKept
<1>2. /\ \A s, t \in 1..Len(sessions') : s \notin Ids /\ t \notin Ids => s = t
      /\ \A s \in 1..Len(sessions') : s \notin Ids => s = Len(sessions) + 1
      /\ \A s \in Ids : s \in 1..Len(sessions')
  BY <1>1 DEF Ids
<1>3. ASSUME NEW s \in Ids
      PROVE  /\ sessions[s].account = AccountOf[sessions[s].membership]
             /\ sessions[s].family \in 1..Len(sessions)
             /\ sessions'[s].family = sessions[s].family /\ sessions'[s].account = sessions[s].account
             /\ sessions'[s].membership = sessions[s].membership
  <2>1. sessions[s].family \in 1..MaxRequests /\ sessions[s].family <= Len(sessions)
    BY SessionTypes DEF SessionRec, FamiliesOK
  <2>2. sessions[s].family \in 1..Len(sessions)
    BY <1>1, <2>1
  <2>. QED  BY <2>2 DEF FamiliesOK, RowsKept
<1>4. ASSUME NEW s \in 1..Len(sessions')
      PROVE  /\ sessions'[s].account = AccountOf[sessions'[s].membership]
             /\ sessions'[s].family <= Len(sessions')
  <2>1. CASE s \in Ids
    BY <1>1, <1>3, <2>1
  <2>2. CASE s \notin Ids
    BY <1>1, <1>2, <1>3, <2>2
  <2>. QED  BY <2>1, <2>2
<1>5. ASSUME NEW s \in 1..Len(sessions'), NEW t \in 1..Len(sessions'),
             sessions'[s].family = sessions'[t].family
      PROVE  sessions'[s].account = sessions'[t].account
  <2>1. CASE s \in Ids /\ t \in Ids
    BY <1>3, <1>5, <2>1 DEF FamiliesOK
  <2>2. ASSUME NEW x \in Ids, NEW y \in 1..Len(sessions'), y \notin Ids,
               sessions'[x].family = sessions'[y].family
        PROVE  sessions'[x].account = sessions'[y].account
    <3>1. sessions'[y].family # y
      BY <1>1, <1>2, <1>3, <2>2
    <3>2. PICK t2 \in Ids : /\ sessions'[y].family = sessions[t2].family
                            /\ sessions'[y].account = sessions[t2].account
      BY <2>2, <3>1
    <3>3. sessions[x].family = sessions[t2].family
      BY <1>3, <2>2, <3>2
    <3>4. sessions[x].account = sessions[t2].account
      BY <3>3 DEF FamiliesOK
    <3>. QED  BY <1>3, <3>2, <3>4
  <2>. QED  BY <1>2, <1>5, <2>1, <2>2
<1>6. ASSUME NEW s \in 1..Len(sessions'), NEW t \in 1..Len(sessions'),
             sessions'[s].state = "live", sessions'[t].state = "live",
             sessions'[s].family = sessions'[t].family
      PROVE  s = t
  <2>1. CASE s \in Ids /\ t \in Ids
    <3>1. sessions[s].state = "live" /\ sessions[t].state = "live"
      BY <1>6, <2>1 DEF RowsKept
    <3>. QED  BY <1>3, <1>6, <2>1, <3>1 DEF OneLivePerFamily, Unrevoked
  <2>. QED  BY <1>2, <1>6, <2>1
<1>. QED  BY <1>4, <1>5, <1>6 DEF FamiliesOK, OneLivePerFamily, Unrevoked, Ids

\* Sessions, accounts, memberships and condominiums do not change.
LEMMA RegistrySame ==
    ASSUME SessionAssumption, SessionInv,
           sessions' = sessions, status' = status, version' = version, updated' = updated,
           membership' = membership, closed' = closed, time' = time
    PROVE  /\ FamiliesOK' /\ ClockOK' /\ OneLivePerFamily' /\ UnrevokedIsCurrent'
           /\ LoggedInAfter' /\ RowsKept
           /\ Len(sessions') = Len(sessions) /\ Ids = 1..Len(sessions')
<1>1. DataInv /\ Len(sessions) \in Nat
  BY SessionTypes DEF SessionInv
<1>2. FamiliesOK' /\ ClockOK' /\ OneLivePerFamily'
  BY <1>1 DEF DataInv, FamiliesOK, ClockOK, OneLivePerFamily, Unrevoked, Ids
<1>3. UnrevokedIsCurrent' /\ LoggedInAfter'
  BY <1>1 DEF DataInv, UnrevokedIsCurrent, LoggedInAfter, Unrevoked, Ids,
              Authorizes, ScopeLive
<1>4. RowsKept
  BY <1>1 DEF RowsKept
<1>. QED  BY <1>2, <1>3, <1>4 DEF Ids

-----------------------------------------------------------------------------
(* issueFromHandoff.                                                       *)

LEMMA HandoffSpends ==
    ASSUME SessionAssumption, DataTyped, NEW h \in 1..Len(handoffs),
           handoffs' = [handoffs EXCEPT ![h].state = "consumed"]
    PROVE  /\ handoffs' \in Seq(HandoffRec) /\ Len(handoffs') = Len(handoffs) /\ HandoffsKept
           /\ handoffs'[h].state = "consumed"
           /\ \A g \in 1..Len(handoffs) : g # h => handoffs'[g] = handoffs[g]
<1>1. handoffs \in Seq(HandoffRec) /\ Len(handoffs) \in Nat /\ DOMAIN handoffs = 1..Len(handoffs)
      /\ handoffs[h] \in HandoffRec
  BY LenProperties, ElementOfSeq DEF DataTyped
<1>2. PICK row \in HandoffRec : row = [handoffs[h] EXCEPT !.state = "consumed"]
  BY <1>1 DEF HandoffRec
<1>3. /\ row.account = handoffs[h].account /\ row.auth = handoffs[h].auth
      /\ row.kind = handoffs[h].kind /\ row.intent = handoffs[h].intent /\ row.state = "consumed"
  BY <1>1, <1>2 DEF HandoffRec
<1>4. handoffs' = [handoffs EXCEPT ![h] = row]
  BY <1>2
<1>5. handoffs' \in Seq(HandoffRec) /\ Len(handoffs') = Len(handoffs)
  <2>1. /\ [handoffs EXCEPT ![h] = row] \in Seq(HandoffRec)
        /\ Len([handoffs EXCEPT ![h] = row]) = Len(handoffs)
    BY <1>1, ExceptSeq
  <2>. QED  BY <1>4, <2>1
<1>6. handoffs'[h] = row /\ \A g \in 1..Len(handoffs) : g # h => handoffs'[g] = handoffs[g]
  BY <1>1, <1>4
<1>7. HandoffsKept
  <2>1. \A g \in 1..Len(handoffs) :
         /\ handoffs'[g].account = handoffs[g].account
         /\ handoffs'[g].auth = handoffs[g].auth
         /\ handoffs'[g].kind = handoffs[g].kind
         /\ handoffs'[g].intent = handoffs[g].intent
         /\ handoffs[g].state = "consumed" => handoffs'[g].state = "consumed"
    BY <1>3, <1>6
  <2>. QED  BY <1>1, <1>5, <2>1 DEF HandoffsKept
<1>. QED  BY <1>3, <1>5, <1>6, <1>7

\* What an issuance knows, by name.
LEMMA Issuing ==
    ASSUME SessionAssumption, SessionInv, NEW p \in Proc, tx[p].op = "issue"
    PROVE  \E h \in 1..Len(handoffs), s \in 0..Len(sessions), a \in Account :
             /\ tx[p].handoff = h /\ tx[p].session = s /\ handoffs[h].account = a
             /\ AccountIn(p) = a /\ IssueKnows(p, h, s, a) /\ ReplaceKnows(p, h, s, a)
             /\ a \in Row /\ HandoffRow(h) \in Row /\ s \in 0..MaxRequests
             /\ s # 0 => s \in Ids /\ SessionRow(s) \in Row /\ sessions[s] \in SessionRec
             /\ handoffs[h] \in HandoffRec /\ tx[p] \in TxRec
<1>0. DataTyped /\ TxTyped /\ TxKnows(p)
  BY DEF SessionInv
<1>1. PICK h \in 1..Len(handoffs), s \in 0..Len(sessions), a \in Account :
             /\ tx[p].handoff = h /\ tx[p].session = s /\ handoffs[h].account = a
             /\ IssueKnows(p, h, s, a) /\ ReplaceKnows(p, h, s, a)
  BY <1>0 DEF TxKnows
<1>2. AccountIn(p) = a
  BY <1>1 DEF AccountIn
<1>3. tx[p] \in TxRec /\ handoffs[h] \in HandoffRec /\ a \in Row
  BY <1>0, SessionTypes
<1>4. s \in 0..MaxRequests /\ h \in 0..MaxHandoffs
  BY <1>1, <1>3 DEF TxRec
<1>5. h \in 1..MaxHandoffs /\ (s # 0 => s \in Ids /\ s \in 1..MaxRequests)
  BY <1>4 DEF Ids
<1>6. HandoffRow(h) \in Row /\ (s # 0 => SessionRow(s) \in Row /\ sessions[s] \in SessionRec)
  BY <1>0, <1>5, SessionTypes
<1>. QED  BY <1>1, <1>2, <1>3, <1>4, <1>5, <1>6

\* A denied issuance consumes its handoff and leaves the invariant.
LEMMA DenyKeeps ==
    ASSUME SessionAssumption, SessionInv, NEW p \in Proc, tx[p].op = "issue", tx[p].pc # "handoff",
           Deny(p)
    PROVE  SessionInv'
<1>1. PICK h \in 1..Len(handoffs), s \in 0..Len(sessions), a \in Account :
             tx[p].handoff = h /\ IssueKnows(p, h, s, a)
  BY Issuing
<1>2. /\ handoffs' = [handoffs EXCEPT ![h].state = "consumed"] /\ End(p)
      /\ sessions' = sessions /\ intents' = intents /\ status' = status /\ version' = version
      /\ updated' = updated /\ membership' = membership /\ closed' = closed /\ over' = over
      /\ left' = left /\ time' = time /\ requests' = requests /\ scenario' = scenario
  BY <1>1 DEF Deny, Consumed
<1>3. DataTyped /\ TxTyped /\ DataInv /\ LocksOK
  BY DEF SessionInv
<1>4. /\ handoffs' \in Seq(HandoffRec) /\ Len(handoffs') = Len(handoffs) /\ HandoffsKept
      /\ handoffs'[h].state = "consumed"
      /\ \A g \in 1..Len(handoffs) : g # h => handoffs'[g] = handoffs[g]
  BY <1>2, <1>3, HandoffSpends
<1>5. DataTyped'
  BY <1>2, <1>3, <1>4 DEF DataTyped
<1>6. /\ FamiliesOK' /\ ClockOK' /\ OneLivePerFamily' /\ UnrevokedIsCurrent'
      /\ LoggedInAfter' /\ RowsKept
      /\ Len(sessions') = Len(sessions) /\ Ids = 1..Len(sessions')
  BY <1>2, RegistrySame
<1>7. IntentsKept
  BY <1>2, <1>3, SessionTypes DEF IntentsKept
<1>8. IssuedOK' /\ OneSessionPerHandoff'
  <2>1. \A x \in 1..Len(sessions') : x \in Ids
    BY <1>6
  <2>2. \A g \in 1..Len(handoffs') : g \in 1..Len(handoffs)
    BY <1>4
  <2>3. \A i \in 1..Len(intents') : i \in 1..Len(intents)
    BY <1>2
  <2>. QED  BY <1>3, <1>4, <1>5, <1>6, <1>7, <2>1, <2>2, <2>3, IssuedKept DEF DataInv
<1>9. Owns(p, HandoffRow(h))
  BY <1>1 DEF IssueKnows
<1>10. ASSUME NEW u \in Proc \ {p} PROVE LocksRespected(u)
  <2>1. \A g \in 1..Len(handoffs) : owned[HandoffRow(g)] = u => handoffs'[g].state = handoffs[g].state
    BY <1>4, <1>9 DEF Owns
  <2>. QED  BY <1>2, <1>6, <2>1 DEF LocksRespected, Ids
<1>11. DataInv'
  BY <1>6, <1>8 DEF DataInv
<1>. QED  BY <1>2, <1>4, <1>5, <1>6, <1>7, <1>10, <1>11, Ended

\* The invariant is kept by the consumption of the handoff.
LEMMA ConsumeHandoffStep ==
    ASSUME SessionAssumption, SessionInv, NEW p \in Proc, ConsumeHandoff(p)
    PROVE  SessionInv'
<1>0. /\ DataTyped /\ TxTyped /\ TxKnows(p) /\ tx[p].pc = "handoff" /\ ~Waiting(p)
  BY DEF SessionInv, ConsumeHandoff, At
<1>1. tx[p].op = "issue"
  BY <1>0, Statements
<1>2. PICK h \in 1..Len(handoffs), s \in 0..Len(sessions), a \in Account :
             /\ tx[p].handoff = h /\ tx[p].session = s /\ handoffs[h].account = a
             /\ AccountIn(p) = a /\ IssueKnows(p, h, s, a)
             /\ a \in Row /\ HandoffRow(h) \in Row /\ s \in 0..MaxRequests
             /\ s # 0 => s \in Ids /\ SessionRow(s) \in Row /\ sessions[s] \in SessionRec
             /\ handoffs[h] \in HandoffRec /\ tx[p] \in TxRec
  BY <1>1, Issuing
<1>3. CASE HandoffSpent(p)
  <2>1. End(p) /\ UNCHANGED <<data, time, requests, scenario>>
    BY <1>3 DEF ConsumeHandoff
  <2>. QED  BY <2>1, RolledBack
<1>4. CASE ~HandoffSpent(p)
  <2>1. handoffs[h].state = "fresh" /\ Owns(p, HandoffRow(h))
    BY <1>0, <1>2, <1>4, AtOwns DEF HandoffSpent, HandoffRec, IssueKnows
  <2>2. PICK old \in Account : old = IF s = 0 THEN a ELSE sessions[s].account
    BY <1>2 DEF SessionRec
  <2>3. PICK need \in Seq(Locks) :
          need = AccountLocks(a, old) /\ \E k \in DOMAIN need : need[k] = Update(a)
    <3>1. Update(a) \in Locks /\ Update(old) \in Locks
      BY <1>0, <1>2, SessionTypes DEF Update, Locks
    <3>2. /\ <<Update(a)>> \in Seq(Locks) /\ <<Update(a), Update(old)>> \in Seq(Locks)
          /\ <<Update(old), Update(a)>> \in Seq(Locks)
      BY <3>1
    <3>3. /\ 1 \in DOMAIN <<Update(a)>> /\ <<Update(a)>>[1] = Update(a)
          /\ 1 \in DOMAIN <<Update(a), Update(old)>> /\ <<Update(a), Update(old)>>[1] = Update(a)
          /\ 2 \in DOMAIN <<Update(old), Update(a)>> /\ <<Update(old), Update(a)>>[2] = Update(a)
      OBVIOUS
    <3>4. AccountLocks(a, old) \in {<<Update(a)>>, <<Update(a), Update(old)>>, <<Update(old), Update(a)>>}
      BY DEF AccountLocks
    <3>5. /\ AccountLocks(a, old) \in Seq(Locks)
          /\ \E k \in DOMAIN AccountLocks(a, old) : AccountLocks(a, old)[k] = Update(a)
      BY <3>2, <3>3, <3>4
    <3>. QED  BY <3>5
  <2>4. PICK rec \in TxRec : rec = [tx[p] EXCEPT !.pc = "account", !.need = need]
    BY <1>2 DEF TxRec
  <2>5. /\ rec.pc = "account" /\ rec.need = need /\ rec.op = "issue" /\ rec.handoff = h
        /\ rec.session = s
    BY <1>1, <1>2, <2>4 DEF TxRec
  <2>6. Continue(p, rec) /\ time' = time
    BY <1>2, <1>4, <2>2, <2>3, <2>4 DEF ConsumeHandoff
  <2>7. tx'[p] = rec /\ handoffs' = handoffs /\ sessions' = sessions /\ owned' = owned
    BY <1>0, <2>6 DEF Continue, data, TxTyped
  <2>8. IssueKnows(p, h, s, a)' /\ ReplaceKnows(p, h, s, a)'
    <3>1. Owns(p, HandoffRow(h))' /\ Claims(p, HandoffRow(h))' /\ Claims(p, a)'
      BY <2>1, <2>3, <2>5, <2>7 DEF Owns, Claims
    <3>. QED  BY <2>1, <2>5, <2>7, <3>1 DEF IssueKnows, ReplaceKnows
  <2>9. TxKnows(p)'
    BY <1>2, <2>5, <2>7, <2>8, IssueOnly
  <2>. QED  BY <1>1, <2>5, <2>6, <2>9, Continued
<1>. QED  BY <1>3, <1>4

\* The invariant is kept by the check of the account.
LEMMA CheckAccountStep ==
    ASSUME SessionAssumption, SessionInv, NEW p \in Proc, CheckAccount(p)
    PROVE  SessionInv'
<1>0. /\ DataTyped /\ TxTyped /\ tx[p].pc = "account" /\ ~Waiting(p) /\ tx[p].op = "issue"
  BY DEF SessionInv, CheckAccount, At
<1>2. PICK h \in 1..Len(handoffs), s \in 0..Len(sessions), a \in Account :
             /\ tx[p].handoff = h /\ tx[p].session = s /\ handoffs[h].account = a
             /\ AccountIn(p) = a /\ IssueKnows(p, h, s, a)
             /\ a \in Row /\ HandoffRow(h) \in Row /\ s \in 0..MaxRequests
             /\ s # 0 => s \in Ids /\ SessionRow(s) \in Row /\ sessions[s] \in SessionRec
             /\ handoffs[h] \in HandoffRec /\ tx[p] \in TxRec
  BY <1>0, Issuing
<1>3. CASE Refused(p)
  BY <1>0, <1>3, DenyKeeps DEF CheckAccount
<1>4. CASE ~Refused(p)
  <2>1. PICK S \in SUBSET Membership :
          S = Eligible(p) /\ \A m \in S : AccountOf[m] = a
    <3>1. \A m \in Eligible(p) : m \in Membership /\ AccountOf[m] = AccountIn(p)
      BY Zenon DEF Eligible
    <3>2. Eligible(p) \in SUBSET Membership /\ \A m \in Eligible(p) : AccountOf[m] = a
      BY <1>2, <3>1
    <3>. QED  BY <3>2
  <2>2. PICK q \in Listings(S) :
          /\ Continue(p, [tx[p] EXCEPT !.pc = "membership", !.members = S,
                                       !.need = [k \in DOMAIN q |-> Share(q[k])]])
          /\ time' = time
    BY <1>4, <2>1 DEF CheckAccount
  <2>3. S \in SUBSET Row /\ IsFiniteSet(S)
    BY <1>0, SessionTypes, FS_Subset DEF SessionAssumption
  <2>4. PICK need \in Seq(Locks) :
          /\ need = [k \in DOMAIN q |-> Share(q[k])]
          /\ \A m \in S : \E k \in DOMAIN need : need[k] = Share(m)
    <3>0. q \in Listings(S)
      OBVIOUS
    <3>1. [k \in DOMAIN q |-> Share(q[k])] \in Seq(Locks) /\ \A m \in S : \E k \in DOMAIN q : q[k] = m
      BY ONLY <2>3, <3>0, Listed
    <3>2. \A m \in S : \E k \in DOMAIN [j \in DOMAIN q |-> Share(q[j])] :
             [j \in DOMAIN q |-> Share(q[j])][k] = Share(m)
      BY <3>1
    <3>. QED  BY <3>1, <3>2
  <2>5. PICK rec \in TxRec : rec = [tx[p] EXCEPT !.pc = "membership", !.members = S, !.need = need]
    BY <1>2 DEF TxRec
  <2>6. /\ rec.pc = "membership" /\ rec.need = need /\ rec.op = "issue" /\ rec.handoff = h
        /\ rec.session = s /\ rec.members = S
    BY <1>0, <1>2, <2>5 DEF TxRec
  <2>7. Continue(p, rec) /\ time' = time
    BY <2>2, <2>4, <2>5
  <2>8. /\ tx'[p] = rec /\ handoffs' = handoffs /\ sessions' = sessions /\ owned' = owned
        /\ status' = status /\ version' = version /\ updated' = updated /\ shared' = shared
    BY <1>0, <2>7 DEF Continue, data, TxTyped
  <2>9. Owns(p, HandoffRow(h)) /\ handoffs[h].state = "fresh" /\ Owns(p, a)
    BY <1>0, <1>2, AtOwns DEF IssueKnows
  <2>10. /\ Owns(p, HandoffRow(h))' /\ Claims(p, HandoffRow(h))' /\ Claims(p, a)' /\ Owns(p, a)'
         /\ \A m \in S : Reads(p, m)'
    BY <2>4, <2>6, <2>8, <2>9 DEF Owns, Claims, Reads
  <2>11. ~Refused(p)'
    <3>1. tx'[p].handoff = tx[p].handoff
      BY <1>2, <2>6, <2>8
    <3>. QED  BY <1>4, <2>8, <3>1 DEF Refused, AccountIn
  <2>12. IssueKnows(p, h, s, a)' /\ ReplaceKnows(p, h, s, a)'
    BY <2>1, <2>6, <2>8, <2>9, <2>10, <2>11 DEF IssueKnows, ReplaceKnows
  <2>13. TxKnows(p)'
    BY <1>2, <2>6, <2>8, <2>12, IssueOnly
  <2>. QED  BY <1>0, <2>6, <2>7, <2>13, Continued
<1>. QED  BY <1>3, <1>4

\* The lock of a membership's scope, if it has one.
LEMMA ScopeLockTyped ==
    ASSUME SessionAssumption, DataTyped, TxTyped, NEW m \in Membership \cup {None}
    PROVE  \E need \in Seq(Locks) :
             /\ need = ScopeLock(m)
             /\ \A c \in Condo : m \in Membership /\ CondoOf[m] = c =>
                  \E k \in DOMAIN need : need[k] = Share(c)
<1>1. <<>> \in Seq(Locks)
  OBVIOUS
<1>2. CASE m = None \/ CondoOf[m] = None
  <2>1. ScopeLock(m) = <<>>
    BY <1>2 DEF ScopeLock
  <2>2. \A c \in Condo : ~(m \in Membership /\ CondoOf[m] = c)
    BY <1>2, SessionTypes
  <2>. QED  BY <1>1, <2>1, <2>2
<1>3. CASE ~(m = None \/ CondoOf[m] = None)
  <2>1. ScopeLock(m) = <<Share(CondoOf[m])>>
    BY <1>3 DEF ScopeLock
  <2>2. PICK c \in Condo : c = CondoOf[m]
    BY <1>3, SessionTypes
  <2>3. Share(c) \in Locks
    BY <2>2, SessionTypes DEF Share, Locks
  <2>4. <<Share(c)>> \in Seq(Locks) /\ 1 \in DOMAIN <<Share(c)>> /\ <<Share(c)>>[1] = Share(c)
    BY <2>3
  <2>. QED  BY <2>1, <2>2, <2>4
<1>. QED  BY <1>2, <1>3

\* What an issuance that goes on to its next statement leaves.
IssueMoved(p, h, a, rec) ==
    /\ tx'[p] = rec /\ sessions' = sessions /\ handoffs' = handoffs /\ intents' = intents
    /\ membership' = membership /\ closed' = closed
    /\ status' = status /\ version' = version /\ updated' = updated
    /\ owned' = owned /\ shared' = shared /\ requests' = requests /\ scenario' = scenario
    /\ handoffs'[h].state = "fresh"
    /\ Owns(p, HandoffRow(h))' /\ Claims(p, HandoffRow(h))' /\ Owns(p, a)' /\ Claims(p, a)'
    /\ Refused(p)' <=> Refused(p)
    /\ Reauth(p)' <=> Reauth(p)
    /\ Recovery(p)' <=> Recovery(p)

\* A transaction that goes on to its next statement keeps the locks it has.
LEMMA IssueMoves ==
    ASSUME SessionAssumption, SessionInv, NEW p \in Proc, ~Waiting(p), tx[p].pc # "handoff",
           NEW h \in 1..Len(handoffs), NEW s \in 0..Len(sessions), NEW a \in Account,
           tx[p].handoff = h, handoffs[h].account = a, IssueKnows(p, h, s, a),
           NEW rec \in TxRec, Continue(p, rec), rec.handoff = h
    PROVE  IssueMoved(p, h, a, rec)
<1>0. DataTyped /\ TxTyped
  BY DEF SessionInv
<1>1. /\ tx'[p] = rec /\ sessions' = sessions /\ handoffs' = handoffs /\ intents' = intents
      /\ membership' = membership /\ closed' = closed
      /\ status' = status /\ version' = version /\ updated' = updated
      /\ owned' = owned /\ shared' = shared /\ requests' = requests /\ scenario' = scenario
  BY <1>0 DEF Continue, data, TxTyped
<1>2. a \in Row /\ HandoffRow(h) \in Row
  BY <1>0, SessionTypes DEF SessionInv, CountsOK
<1>3. handoffs[h].state = "fresh" /\ Owns(p, HandoffRow(h)) /\ Owns(p, a)
  BY <1>2, AtOwns DEF IssueKnows
<1>4. Owns(p, HandoffRow(h))' /\ Claims(p, HandoffRow(h))' /\ Owns(p, a)' /\ Claims(p, a)'
  BY <1>1, <1>3 DEF Owns, Claims
<1>5. tx'[p].handoff = tx[p].handoff
  BY <1>1
<1>6. /\ Refused(p)' <=> Refused(p)
      /\ Reauth(p)' <=> Reauth(p)
      /\ Recovery(p)' <=> Recovery(p)
  BY <1>1, <1>5 DEF Refused, Reauth, Recovery, AccountIn
<1>. QED  BY <1>1, <1>3, <1>4, <1>6 DEF IssueMoved

\* The invariant is kept by the choice of the membership.
LEMMA ChooseMembershipStep ==
    ASSUME SessionAssumption, SessionInv, NEW p \in Proc, ChooseMembership(p)
    PROVE  SessionInv'
<1>0. /\ DataTyped /\ TxTyped /\ tx[p].pc = "membership" /\ ~Waiting(p) /\ tx[p].op = "issue"
  BY DEF SessionInv, ChooseMembership, At
<1>2. PICK h \in 1..Len(handoffs), s \in 0..Len(sessions), a \in Account :
             /\ tx[p].handoff = h /\ tx[p].session = s /\ handoffs[h].account = a
             /\ AccountIn(p) = a /\ IssueKnows(p, h, s, a)
             /\ a \in Row /\ HandoffRow(h) \in Row /\ s \in 0..MaxRequests
             /\ s # 0 => s \in Ids /\ SessionRow(s) \in Row /\ sessions[s] \in SessionRec
             /\ handoffs[h] \in HandoffRec /\ tx[p] \in TxRec
  BY <1>0, Issuing
<1>3. CASE Deny(p)
  BY <1>0, <1>3, DenyKeeps
<1>4. CASE ~Deny(p)
  <2>1. PICK m \in {x \in tx[p].members : membership[x] = "active"} \cup {None} :
          /\ Continue(p, [tx[p] EXCEPT !.pc = "scope", !.target = m, !.need = ScopeLock(m)])
          /\ time' = time
    BY <1>4 DEF ChooseMembership
  <2>2. /\ m \in Membership \cup {None}
        /\ m \in Membership => m \in tx[p].members /\ membership[m] = "active"
    BY <1>0, <1>2, <2>1, SessionTypes DEF TxRec
  <2>3. PICK need \in Seq(Locks) :
          /\ need = ScopeLock(m)
          /\ \A c \in Condo : m \in Membership /\ CondoOf[m] = c => \E k \in DOMAIN need : need[k] = Share(c)
    BY <1>0, <2>2, ScopeLockTyped
  <2>4. PICK rec \in TxRec : rec = [tx[p] EXCEPT !.pc = "scope", !.target = m, !.need = need]
    BY <1>2, <2>2 DEF TxRec
  <2>5. /\ rec.pc = "scope" /\ rec.need = need /\ rec.op = "issue" /\ rec.handoff = h
        /\ rec.session = s /\ rec.target = m
    BY <1>0, <1>2, <2>4 DEF TxRec
  <2>6. Continue(p, rec) /\ time' = time
    BY <2>1, <2>3, <2>4
  <2>7. /\ tx'[p] = rec /\ sessions' = sessions /\ handoffs' = handoffs
        /\ membership' = membership /\ shared' = shared /\ handoffs'[h].state = "fresh"
        /\ Owns(p, HandoffRow(h))' /\ Claims(p, HandoffRow(h))' /\ Owns(p, a)' /\ Claims(p, a)'
        /\ Refused(p)' <=> Refused(p)
    <3>1. /\ SessionAssumption /\ SessionInv /\ p \in Proc /\ ~Waiting(p) /\ tx[p].pc # "handoff"
          /\ h \in 1..Len(handoffs) /\ s \in 0..Len(sessions) /\ a \in Account
          /\ tx[p].handoff = h /\ handoffs[h].account = a /\ IssueKnows(p, h, s, a)
          /\ rec \in TxRec /\ Continue(p, rec) /\ rec.handoff = h
      BY <1>0, <1>2, <2>5, <2>6
    <3>2. IssueMoved(p, h, a, rec)
      BY ONLY <3>1, IssueMoves
    <3>. QED  BY <3>2 DEF IssueMoved
  <2>8. ~Refused(p) /\ \A x \in tx[p].members : AccountOf[x] = a /\ Reads(p, x)
    BY <1>0, <1>2 DEF IssueKnows
  <2>9. m \in Membership => Shares(p, m) /\ AccountOf[m] = a
    BY <1>0, <2>2, <2>8, AtOwns, SessionTypes
  <2>10. TargetKnown(p, a)'
    <3>1. \A c \in Condo : m \in Membership /\ CondoOf[m] = c => Reads(p, c)'
      BY <2>3, <2>5, <2>7 DEF Reads
    <3>. QED  BY <2>2, <2>5, <2>7, <2>9, <3>1 DEF TargetKnown, Shares
  <2>11. IssueKnows(p, h, s, a)' /\ ReplaceKnows(p, h, s, a)'
    BY <2>5, <2>7, <2>8, <2>10 DEF IssueKnows, ReplaceKnows
  <2>12. TxKnows(p)'
    BY <1>2, <2>5, <2>7, <2>11, IssueOnly
  <2>. QED  BY <1>0, <2>5, <2>6, <2>12, Continued
<1>. QED  BY <1>3, <1>4

\* A locked membership whose locked scope is open may be given a session.
LEMMA ScopeChecked ==
    ASSUME SessionAssumption, SessionInv, NEW p \in Proc, ~Waiting(p),
           NEW a \in Account, TargetKnown(p, a), NEW rec \in TxRec, Continue(p, rec),
           \/ rec.target = None
           \/ rec.target = tx[p].target /\ ScopeLive(rec.target)
    PROVE  TargetKnown(p, a)' /\ ScopeKnown(p)'
<1>0. DataTyped /\ TxTyped
  BY DEF SessionInv
<1>1. tx'[p] = rec /\ membership' = membership /\ closed' = closed /\ shared' = shared
  BY <1>0 DEF Continue, data, TxTyped
<1>2. CASE rec.target = None
  <2>1. tx'[p].target = None /\ None \notin Membership
    BY <1>0, <1>1, <1>2, SessionTypes
  <2>. QED  BY <2>1 DEF TargetKnown, ScopeKnown
<1>3. CASE rec.target = tx[p].target /\ ScopeLive(rec.target)
  <2>1. tx'[p].target = tx[p].target
    BY <1>1, <1>3
  <2>2. \A m \in Membership : tx[p].target = m =>
         /\ AccountOf[m] = a /\ Shares(p, m) /\ membership[m] = "active" /\ ScopeLive(m)
         /\ \A c \in Condo : CondoOf[m] = c => Shares(p, c)
    BY <1>0, <1>3, AtOwns, SessionTypes DEF TargetKnown
  <2>3. \A x : (Shares(p, x)' <=> Shares(p, x)) /\ (Shares(p, x)' => Reads(p, x)')
    BY <1>1 DEF Shares, Reads
  <2>4. \A x : ScopeLive(x)' <=> ScopeLive(x)
    BY <1>1 DEF ScopeLive
  <2>. QED  BY <1>1, <2>1, <2>2, <2>3, <2>4 DEF TargetKnown, ScopeKnown
<1>. QED  BY <1>2, <1>3

\* What the invariant gives of a rotation.
LEMMA Rotating ==
    ASSUME SessionAssumption, SessionInv, NEW p \in Proc, tx[p].op = "rotate"
    PROVE  \E s \in Ids, a \in Account :
             /\ tx[p].session = s /\ sessions[s].account = a /\ RotateKnows(p, s, a)
             /\ a \in Row /\ SessionRow(s) \in Row /\ s \in 1..MaxRequests
             /\ sessions[s] \in SessionRec /\ tx[p] \in TxRec
<1>0. DataTyped /\ TxTyped /\ CountsOK /\ TxKnows(p)
  BY DEF SessionInv
<1>1. PICK s \in Ids, a \in Account :
         tx[p].session = s /\ sessions[s].account = a /\ RotateKnows(p, s, a)
  BY <1>0 DEF TxKnows
<1>2. s \in 1..MaxRequests
  BY <1>0, Counted
<1>. QED  BY <1>0, <1>1, <1>2, SessionTypes

\* A rotation that goes on to its next statement changes its own record only.
LEMMA RotateMoves ==
    ASSUME SessionAssumption, SessionInv, NEW p \in Proc, ~Waiting(p),
           NEW s \in Ids, NEW a \in Account, a \in Row, RotateKnows(p, s, a),
           NEW rec \in TxRec, Continue(p, rec)
    PROVE  /\ tx'[p] = rec /\ sessions' = sessions /\ handoffs' = handoffs
           /\ membership' = membership /\ closed' = closed /\ owned' = owned /\ shared' = shared
           /\ Owns(p, a)' /\ Claims(p, a)'
<1>0. DataTyped /\ TxTyped
  BY DEF SessionInv
<1>1. /\ tx'[p] = rec /\ sessions' = sessions /\ handoffs' = handoffs
      /\ membership' = membership /\ closed' = closed /\ owned' = owned /\ shared' = shared
  BY <1>0 DEF Continue, data, TxTyped
<1>2. Owns(p, a)
  BY AtOwns DEF RotateKnows
<1>. QED  BY <1>1, <1>2 DEF Owns, Claims

\* The invariant is kept by the lock of the presented session.
LEMMA LockSessionStep ==
    ASSUME SessionAssumption, SessionInv, NEW p \in Proc, LockSession(p)
    PROVE  SessionInv'
<1>0. /\ DataTyped /\ TxTyped /\ tx[p].pc = "scope" /\ ~Waiting(p) /\ TxKnows(p)
  BY DEF SessionInv, LockSession, At
<1>1. tx[p].op \in {"issue", "rotate"}
  BY <1>0, Statements
<1>2. ASSUME ~(tx[p].op = "issue" /\ Deny(p))
      PROVE  \E t \in {None, tx[p].target} :
               /\ t # None => t = tx[p].target /\ ScopeLive(t)
               /\ t = None => tx[p].op # "issue" \/ Reauth(p)
               /\ Continue(p, [tx[p] EXCEPT !.pc = "session", !.target = t,
                              !.need = IF tx[p].session = 0 THEN <<>>
                                       ELSE <<Update(SessionRow(tx[p].session))>>])
               /\ time' = time
  <2>1. ~(~(tx[p].target # None /\ ScopeLive(tx[p].target)) /\ tx[p].op = "issue" /\ ~Reauth(p))
    BY <1>2 DEF LockSession
  <2>2. CASE tx[p].target # None /\ ScopeLive(tx[p].target)
    BY <2>1, <2>2 DEF LockSession
  <2>3. CASE ~(tx[p].target # None /\ ScopeLive(tx[p].target))
    BY <2>1, <2>3 DEF LockSession
  <2>. QED  BY <2>2, <2>3
<1>3. ASSUME NEW s \in 0..MaxRequests, s # 0 => SessionRow(s) \in Row
      PROVE  \E need \in Seq(Locks) :
               /\ need = IF s = 0 THEN <<>> ELSE <<Update(SessionRow(s))>>
               /\ s # 0 => \E k \in DOMAIN need : need[k] = Update(SessionRow(s))
  <2>1. CASE s = 0
    <3>1. <<>> \in Seq(Locks)
      OBVIOUS
    <3>. QED  BY <2>1, <3>1
  <2>2. CASE s # 0
    <3>1. Update(SessionRow(s)) \in Locks
      BY <1>3, <2>2 DEF Update, Locks
    <3>2. /\ <<Update(SessionRow(s))>> \in Seq(Locks) /\ 1 \in DOMAIN <<Update(SessionRow(s))>>
          /\ <<Update(SessionRow(s))>>[1] = Update(SessionRow(s))
      BY <3>1
    <3>. QED  BY <2>2, <3>2
  <2>. QED  BY <2>1, <2>2
<1>4. CASE tx[p].op = "issue" /\ Deny(p)
  BY <1>0, <1>4, DenyKeeps
<1>5. CASE tx[p].op = "issue" /\ ~Deny(p)
  <2>1. PICK h \in 1..Len(handoffs), s \in 0..Len(sessions), a \in Account :
             /\ tx[p].handoff = h /\ tx[p].session = s /\ handoffs[h].account = a
             /\ AccountIn(p) = a /\ IssueKnows(p, h, s, a)
             /\ a \in Row /\ HandoffRow(h) \in Row /\ s \in 0..MaxRequests
             /\ s # 0 => s \in Ids /\ SessionRow(s) \in Row /\ sessions[s] \in SessionRec
             /\ handoffs[h] \in HandoffRec /\ tx[p] \in TxRec
    BY <1>5, Issuing
  <2>2. PICK t \in {None, tx[p].target} :
               /\ t # None => t = tx[p].target /\ ScopeLive(t)
               /\ t = None => tx[p].op # "issue" \/ Reauth(p)
               /\ Continue(p, [tx[p] EXCEPT !.pc = "session", !.target = t,
                              !.need = IF tx[p].session = 0 THEN <<>>
                                       ELSE <<Update(SessionRow(tx[p].session))>>])
               /\ time' = time
    BY <1>2, <1>5
  <2>3. PICK need \in Seq(Locks) :
               /\ need = IF s = 0 THEN <<>> ELSE <<Update(SessionRow(s))>>
               /\ s # 0 => \E k \in DOMAIN need : need[k] = Update(SessionRow(s))
    BY <1>3, <2>1
  <2>4. PICK rec \in TxRec : rec = [tx[p] EXCEPT !.pc = "session", !.target = t, !.need = need]
    BY <2>1, <2>2 DEF TxRec
  <2>5. /\ rec.pc = "session" /\ rec.need = need /\ rec.op = "issue" /\ rec.handoff = h
        /\ rec.session = s /\ rec.target = t
    BY <1>5, <2>1, <2>4 DEF TxRec
  <2>6. Continue(p, rec) /\ time' = time
    BY <2>1, <2>2, <2>3, <2>4
  <2>7. /\ tx'[p] = rec /\ sessions' = sessions /\ handoffs' = handoffs
        /\ handoffs'[h].state = "fresh"
        /\ Owns(p, HandoffRow(h))' /\ Claims(p, HandoffRow(h))' /\ Owns(p, a)' /\ Claims(p, a)'
        /\ Refused(p)' <=> Refused(p)
        /\ Reauth(p)' <=> Reauth(p)
    <3>1. /\ SessionAssumption /\ SessionInv /\ p \in Proc /\ ~Waiting(p) /\ tx[p].pc # "handoff"
          /\ h \in 1..Len(handoffs) /\ s \in 0..Len(sessions) /\ a \in Account
          /\ tx[p].handoff = h /\ handoffs[h].account = a /\ IssueKnows(p, h, s, a)
          /\ rec \in TxRec /\ Continue(p, rec) /\ rec.handoff = h
      BY <1>0, <2>1, <2>5, <2>6
    <3>2. IssueMoved(p, h, a, rec)
      BY ONLY <3>1, IssueMoves
    <3>. QED  BY <3>2 DEF IssueMoved
  <2>8. ~Refused(p) /\ TargetKnown(p, a)
    BY <1>0, <2>1 DEF IssueKnows
  <2>9. TargetKnown(p, a)' /\ ScopeKnown(p)'
    <3>1. rec.target = None \/ (rec.target = tx[p].target /\ ScopeLive(rec.target))
      BY <2>2, <2>5
    <3>. QED  BY <1>0, <2>6, <2>8, <3>1, ScopeChecked
  <2>10. tx'[p].target = None => Reauth(p)'
    BY <1>5, <2>2, <2>5, <2>7
  <2>11. s # 0 => Claims(p, SessionRow(s))'
    BY <2>3, <2>5, <2>7 DEF Claims
  <2>12. IssueKnows(p, h, s, a)' /\ ReplaceKnows(p, h, s, a)'
    BY <2>5, <2>7, <2>8, <2>9, <2>10, <2>11 DEF IssueKnows, ReplaceKnows
  <2>13. TxKnows(p)'
    BY <2>1, <2>5, <2>7, <2>12, IssueOnly
  <2>. QED  BY <1>5, <2>5, <2>6, <2>13, Continued
<1>6. CASE tx[p].op = "rotate"
  <2>1. PICK s \in Ids, a \in Account :
             /\ tx[p].session = s /\ sessions[s].account = a /\ RotateKnows(p, s, a)
             /\ a \in Row /\ SessionRow(s) \in Row /\ s \in 1..MaxRequests
             /\ sessions[s] \in SessionRec /\ tx[p] \in TxRec
    BY <1>6, Rotating
  <2>2. PICK t \in {None, tx[p].target} :
               /\ t # None => t = tx[p].target /\ ScopeLive(t)
               /\ Continue(p, [tx[p] EXCEPT !.pc = "session", !.target = t,
                              !.need = IF tx[p].session = 0 THEN <<>>
                                       ELSE <<Update(SessionRow(tx[p].session))>>])
               /\ time' = time
    BY <1>2, <1>6
  <2>3. PICK need \in Seq(Locks) :
               /\ need = IF s = 0 THEN <<>> ELSE <<Update(SessionRow(s))>>
               /\ s # 0 => \E k \in DOMAIN need : need[k] = Update(SessionRow(s))
    <3>1. s \in 0..MaxRequests
      BY <2>1
    <3>. QED  BY <1>3, <2>1, <3>1
  <2>4. PICK rec \in TxRec : rec = [tx[p] EXCEPT !.pc = "session", !.target = t, !.need = need]
    BY <2>1, <2>2 DEF TxRec
  <2>5. /\ rec.pc = "session" /\ rec.need = need /\ rec.op = "rotate" /\ rec.session = s
        /\ rec.target = t
    BY <1>6, <2>1, <2>4 DEF TxRec
  <2>6. Continue(p, rec) /\ time' = time
    BY <2>1, <2>2, <2>3, <2>4
  <2>7. tx'[p] = rec /\ sessions' = sessions /\ Owns(p, a)' /\ Claims(p, a)'
    BY <1>0, <2>1, <2>6, RotateMoves
  <2>8. TargetKnown(p, a)
    BY <1>0, <2>1 DEF RotateKnows
  <2>9. TargetKnown(p, a)' /\ ScopeKnown(p)'
    <3>1. rec.target = None \/ (rec.target = tx[p].target /\ ScopeLive(rec.target))
      BY <2>2, <2>5
    <3>. QED  BY <1>0, <2>6, <2>8, <3>1, ScopeChecked
  <2>10. Claims(p, SessionRow(s))'
    <3>1. s # 0
      BY <2>1
    <3>. QED  BY <2>3, <2>5, <2>7, <3>1 DEF Claims
  <2>11. RotateKnows(p, s, a)'
    BY <2>5, <2>7, <2>9, <2>10 DEF RotateKnows
  <2>12. TxKnows(p)'
    BY <2>1, <2>5, <2>7, <2>11, RotateOnly DEF Ids
  <2>. QED  BY <1>6, <2>5, <2>6, <2>12, Continued
<1>. QED  BY <1>1, <1>4, <1>5, <1>6

\* A request for reauthentication, a policy or the session's key may refuse.
LEMMA RefuseStep ==
    ASSUME SessionAssumption, SessionInv, NEW p \in Proc, Refuse(p)
    PROVE  SessionInv'
<1>1. tx[p].pc = "session"
  BY DEF Refuse, At
<1>2. CASE tx[p].op = "issue"
  BY <1>1, <1>2, DenyKeeps DEF Refuse
<1>3. CASE tx[p].op # "issue"
  BY <1>3, RolledBack DEF Refuse
<1>. QED  BY <1>2, <1>3

\* The invariant is kept by the lock of the sessions to be replaced.
LEMMA ReplaceStep ==
    ASSUME SessionAssumption, SessionInv, NEW p \in Proc, Replace(p)
    PROVE  SessionInv'
<1>0. /\ DataTyped /\ TxTyped /\ CountsOK /\ ClockOK /\ time \in Nat
      /\ tx[p].pc = "session" /\ ~Waiting(p) /\ tx[p].op = "issue"
  BY DEF SessionInv, DataInv, TxTyped, Replace, At
<1>1. PICK h \in 1..Len(handoffs), s \in 0..Len(sessions), a \in Account :
             /\ tx[p].handoff = h /\ tx[p].session = s /\ handoffs[h].account = a
             /\ AccountIn(p) = a /\ IssueKnows(p, h, s, a)
             /\ a \in Row /\ HandoffRow(h) \in Row /\ s \in 0..MaxRequests
             /\ s # 0 => s \in Ids /\ SessionRow(s) \in Row /\ sessions[s] \in SessionRec
             /\ handoffs[h] \in HandoffRec /\ tx[p] \in TxRec
  BY <1>0, Issuing
<1>2. CASE Deny(p)
  BY <1>0, <1>2, DenyKeeps
<1>3. CASE ~Deny(p)
  <2> DEFINE S == IF Reauth(p) THEN {s}
                  ELSE IF Recovery(p) THEN OfAccount(a)
                  ELSE IF s = 0 THEN {} ELSE Family(sessions[s].family)
  <2>1. Reauth(p) => Continues(p)
    BY <1>3 DEF Replace
  <2>2. /\ \E locks \in Orders(S) :
             Continue(p, [tx[p] EXCEPT !.pc = "write", !.revoke = S, !.need = locks, !.at = time])
        /\ time' = IF Recovery(p) THEN time + 1 ELSE time
    BY <1>1, <1>3, <2>1 DEF Replace
  <2>3. S \in SUBSET Ids
    <3>1. Reauth(p) => {s} \in SUBSET Ids
      BY <1>1, <2>1 DEF Continues
    <3>2. OfAccount(a) \in SUBSET Ids /\ \A f : Family(f) \in SUBSET Ids
      BY DEF OfAccount, Family, Unrevoked
    <3>. QED  BY <3>1, <3>2
  <2>4. /\ Reauth(p) => s \in S
        /\ ~Reauth(p) /\ Recovery(p) => S = OfAccount(a)
    OBVIOUS
  <2>5. PICK R \in SUBSET Ids :
          /\ R = S
          /\ Reauth(p) => s \in R
          /\ ~Reauth(p) /\ Recovery(p) => R = OfAccount(a)
    BY <2>3, <2>4
  <2>6. R \in SUBSET (1..MaxRequests)
    BY <1>0, Counted
  <2>7. PICK locks \in Orders(R) :
             Continue(p, [tx[p] EXCEPT !.pc = "write", !.revoke = R, !.need = locks, !.at = time])
    BY <2>2, <2>5
  <2>8. locks \in Seq(Locks) /\ \A x \in R : \E k \in DOMAIN locks : locks[k] = Update(SessionRow(x))
    BY <2>6, Ordered
  <2> HIDE DEF S
  <2>9. PICK rec \in TxRec :
          rec = [tx[p] EXCEPT !.pc = "write", !.revoke = R, !.need = locks, !.at = time]
    BY <1>0, <1>1, <2>6, <2>8 DEF TxRec
  <2>10. /\ rec.pc = "write" /\ rec.need = locks /\ rec.op = "issue" /\ rec.handoff = h
         /\ rec.session = s /\ rec.target = tx[p].target /\ rec.revoke = R /\ rec.at = time
    BY <1>0, <1>1, <2>9 DEF TxRec
  <2>11. Continue(p, rec) /\ (time' = time \/ time' = time + 1)
    BY <2>2, <2>7, <2>9
  <2>12. /\ tx'[p] = rec /\ sessions' = sessions /\ handoffs' = handoffs /\ intents' = intents
         /\ membership' = membership /\ closed' = closed
         /\ owned' = owned /\ shared' = shared
         /\ handoffs'[h].state = "fresh"
         /\ Owns(p, HandoffRow(h))' /\ Claims(p, HandoffRow(h))' /\ Owns(p, a)' /\ Claims(p, a)'
         /\ Refused(p)' <=> Refused(p)
         /\ Reauth(p)' <=> Reauth(p)
         /\ Recovery(p)' <=> Recovery(p)
    <3>1. /\ SessionAssumption /\ SessionInv /\ p \in Proc /\ ~Waiting(p) /\ tx[p].pc # "handoff"
          /\ h \in 1..Len(handoffs) /\ s \in 0..Len(sessions) /\ a \in Account
          /\ tx[p].handoff = h /\ handoffs[h].account = a /\ IssueKnows(p, h, s, a)
          /\ rec \in TxRec /\ Continue(p, rec) /\ rec.handoff = h
      BY <1>0, <1>1, <2>10, <2>11
    <3>2. IssueMoved(p, h, a, rec)
      BY ONLY <3>1, IssueMoves
    <3>. QED  BY <3>2 DEF IssueMoved
  <2>13. /\ ~Refused(p) /\ TargetKnown(p, a) /\ ScopeKnown(p)
         /\ tx[p].target = None => Reauth(p)
         /\ s # 0 => Claims(p, SessionRow(s))
    BY <1>0, <1>1 DEF IssueKnows
  <2>14. TargetKnown(p, a)' /\ ScopeKnown(p)'
    <3>1. rec.target = None \/ (rec.target = tx[p].target /\ ScopeLive(rec.target))
      BY <2>10, <2>13 DEF TargetKnown, ScopeKnown
    <3>. QED  BY <1>0, <2>11, <2>13, <3>1, ScopeChecked
  <2>15. IssueKnows(p, h, s, a)'
    BY <1>1, <2>10, <2>12, <2>13, <2>14 DEF IssueKnows
  <2>16. tx'[p].target # None
    BY <2>1, <2>10, <2>12, <2>13 DEF Continues
  <2>17. SessionsClaimed(p)'
    BY <2>8, <2>10, <2>12 DEF SessionsClaimed, Claims, Ids
  <2>18. ASSUME Reauth(p)
         PROVE  /\ s \in Ids' /\ s \in tx'[p].revoke /\ sessions'[s].state = "live"
                /\ Owns(p, SessionRow(s))' /\ sessions'[s].account = a
                /\ sessions'[s].family = intents'[handoffs'[h].intent].family
    <3>1. /\ s # 0 /\ sessions[s].account = a /\ sessions[s].state = "live"
          /\ sessions[s].family = intents[handoffs[h].intent].family
      BY <1>1, <2>1, <2>18 DEF Continues, Live
    <3>2. s \in Ids /\ Owns(p, SessionRow(s))
      BY <1>0, <1>1, <2>13, <3>1, AtOwns
    <3>. QED  BY <2>5, <2>10, <2>12, <2>18, <3>1, <3>2 DEF Owns, Ids
  <2>19. ASSUME Recovery(p) PROVE OfAccount(a)' \subseteq tx'[p].revoke /\ tx'[p].at >= 1
    <3>1. ~Reauth(p)
      BY <2>19 DEF Recovery, Reauth
    <3>2. OfAccount(a)' = OfAccount(a)
      BY <2>12 DEF OfAccount, Unrevoked, Ids
    <3>. QED  BY <1>0, <2>5, <2>10, <2>12, <2>19, <3>1, <3>2 DEF ClockOK
  <2>20. ReplaceKnows(p, h, s, a)'
    BY <2>12, <2>16, <2>17, <2>18, <2>19 DEF ReplaceKnows
  <2>21. TxKnows(p)'
    BY <1>1, <2>10, <2>12, <2>15, <2>20, IssueOnly
  <2>. QED  BY <1>0, <2>10, <2>11, <2>21, Continued
<1>. QED  BY <1>2, <1>3

-----------------------------------------------------------------------------
(* A new session.                                                          *)

\* Revoking changes nothing but the state of the rows.
LEMMA RevokedRows ==
    ASSUME SessionAssumption, DataTyped, TxTyped, NEW p, NEW R, NEW rows, rows = Revoked(p, R)
    PROVE  /\ rows \in Seq(SessionRec) /\ Len(rows) = Len(sessions)
           /\ \A s \in Ids :
                /\ rows[s] \in SessionRec
                /\ rows[s].family = sessions[s].family /\ rows[s].account = sessions[s].account
                /\ rows[s].membership = sessions[s].membership
                /\ rows[s].version = sessions[s].version /\ rows[s].auth = sessions[s].auth
                /\ rows[s].kind = sessions[s].kind /\ rows[s].from = sessions[s].from
                /\ rows[s].idle = sessions[s].idle
                /\ rows[s].state = "live" <=> sessions[s].state = "live" /\ s \notin R
<1>1. \A s \in Ids : sessions[s] \in SessionRec
  BY SessionTypes
<1>2. ASSUME NEW s \in Ids
      PROVE  /\ rows[s] \in SessionRec
             /\ rows[s].family = sessions[s].family /\ rows[s].account = sessions[s].account
             /\ rows[s].membership = sessions[s].membership
             /\ rows[s].version = sessions[s].version /\ rows[s].auth = sessions[s].auth
             /\ rows[s].kind = sessions[s].kind /\ rows[s].from = sessions[s].from
             /\ rows[s].idle = sessions[s].idle
             /\ rows[s].state = "live" <=> sessions[s].state = "live" /\ s \notin R
  <2>1. sessions[s] \in SessionRec
    BY <1>1
  <2>2. CASE s \in R
    <3>1. rows[s] = [sessions[s] EXCEPT !.state = "revoked"]
      BY <2>2 DEF Revoked
    <3>. QED  BY <2>1, <2>2, <3>1 DEF SessionRec
  <2>3. CASE s \notin R
    <3>1. rows[s] = sessions[s]
      BY <2>3 DEF Revoked
    <3>. QED  BY <2>1, <2>3, <3>1
  <2>. QED  BY <2>2, <2>3
<1>3. Len(sessions) \in Nat
  BY SessionTypes
<1>4. rows = [s \in 1..Len(sessions) |-> rows[s]]
  BY DEF Revoked, Ids
<1>5. rows \in Seq(SessionRec)
  <2>1. \A s \in 1..Len(sessions) : rows[s] \in SessionRec
    BY <1>2 DEF Ids
  <2>2. rows \in [1..Len(sessions) -> SessionRec]
    BY <1>4, <2>1
  <2>. QED  BY <1>3, <2>2, SeqDef
<1>6. Len(rows) = Len(sessions)
  <2>1. DOMAIN rows = 1..Len(sessions)
    BY <1>4
  <2>. QED  BY <1>3, <1>5, <2>1, LenProperties
<1>. QED  BY <1>2, <1>5, <1>6

\* The sessions R are revoked and a row is added, under the locks of nobody but p.
SessionAdded(p, R, row) ==
    /\ sessions' \in Seq(SessionRec) /\ Len(sessions') = Len(sessions) + 1 /\ RowsKept
    /\ \A s \in Ids : sessions'[s].state = "live" <=> sessions[s].state = "live" /\ s \notin R
    /\ \A s \in Ids : sessions'[s].idle = sessions[s].idle
    /\ \A s \in 1..Len(sessions') : s \notin Ids => s = Len(sessions) + 1 /\ sessions'[s] = row
    /\ \A u \in Proc \ {p} :
         /\ \A s \in Ids : owned[SessionRow(s)] = u => sessions'[s].state = sessions[s].state
         /\ \A s \in 1..Len(sessions') : s \notin Ids =>
              /\ owned[sessions'[s].account] # u /\ owned[sessions'[s].membership] # u
              /\ \A c \in Condo : CondoOf[sessions'[s].membership] = c => owned[c] # u

\* A session in place of the sessions R, for an account that p has locked and a membership
\* and a condominium it has locked in share, is under the locks of nobody else.
LEMMA Added ==
    ASSUME SessionAssumption, SessionInv, NEW p \in Proc, NEW R \in SUBSET Ids,
           \A s \in R : Owns(p, SessionRow(s)),
           NEW row \in SessionRec, Owns(p, row.account), Shares(p, row.membership),
           \A c \in Condo : CondoOf[row.membership] = c => Shares(p, c),
           sessions' = Append(Revoked(p, R), row)
    PROVE  SessionAdded(p, R, row)
<1>0. DataTyped /\ TxTyped /\ LocksOK
  BY DEF SessionInv
<1>1. PICK rows \in Seq(SessionRec) :
        /\ rows = Revoked(p, R) /\ Len(rows) = Len(sessions)
        /\ \A s \in Ids :
                /\ rows[s] \in SessionRec
                /\ rows[s].family = sessions[s].family /\ rows[s].account = sessions[s].account
                /\ rows[s].membership = sessions[s].membership
                /\ rows[s].version = sessions[s].version /\ rows[s].auth = sessions[s].auth
                /\ rows[s].kind = sessions[s].kind /\ rows[s].from = sessions[s].from
                /\ rows[s].idle = sessions[s].idle
                /\ rows[s].state = "live" <=> sessions[s].state = "live" /\ s \notin R
  BY <1>0, RevokedRows
<1>2. Len(sessions) \in Nat /\ Ids = 1..Len(sessions) /\ \A s \in Ids : sessions[s] \in SessionRec
  BY <1>0, SessionTypes DEF Ids
<1>3. /\ Append(rows, row) \in Seq(SessionRec) /\ Len(Append(rows, row)) = Len(rows) + 1
      /\ \A s \in 1..Len(rows) : Append(rows, row)[s] = rows[s]
      /\ Append(rows, row)[Len(rows) + 1] = row
  BY AppendProperties
<1>4. /\ sessions' \in Seq(SessionRec) /\ Len(sessions') = Len(sessions) + 1
      /\ \A s \in Ids : sessions'[s] = rows[s]
      /\ sessions'[Len(sessions) + 1] = row
  BY <1>1, <1>2, <1>3
<1>5. \A s \in 1..Len(sessions') : s \notin Ids => s = Len(sessions) + 1 /\ sessions'[s] = row
  BY <1>2, <1>4
<1>6. RowsKept
  BY <1>1, <1>2, <1>4 DEF RowsKept
<1>7. /\ \A s \in Ids : sessions'[s].state = "live" <=> sessions[s].state = "live" /\ s \notin R
      /\ \A s \in Ids : sessions'[s].idle = sessions[s].idle
  <2>1. ASSUME NEW s \in Ids
        PROVE  /\ sessions'[s].state = "live" <=> sessions[s].state = "live" /\ s \notin R
               /\ sessions'[s].idle = sessions[s].idle
    <3>1. sessions'[s] = rows[s]
      BY <1>4
    <3>2. /\ rows[s].state = "live" <=> sessions[s].state = "live" /\ s \notin R
          /\ rows[s].idle = sessions[s].idle
      BY <1>1
    <3>. QED  BY <3>1, <3>2
  <2>. QED  BY <2>1
<1>8. ASSUME NEW u \in Proc \ {p}
      PROVE  /\ \A s \in Ids : owned[SessionRow(s)] = u => sessions'[s].state = sessions[s].state
             /\ \A s \in 1..Len(sessions') : s \notin Ids =>
                  /\ owned[sessions'[s].account] # u /\ owned[sessions'[s].membership] # u
                  /\ \A c \in Condo : CondoOf[sessions'[s].membership] = c => owned[c] # u
  <2>1. ASSUME NEW s \in Ids, owned[SessionRow(s)] = u PROVE sessions'[s].state = sessions[s].state
    <3>1. s \notin R
      BY <1>8, <2>1 DEF Owns
    <3>2. rows[s] = sessions[s]
      BY <1>1, <3>1 DEF Revoked
    <3>. QED  BY <1>4, <3>2
  <2>2. \A x \in Row : Shares(p, x) => owned[x] # u
    BY <1>0, <1>8, SessionTypes DEF LocksOK, Shares
  <2>3. /\ owned[row.membership] # u
        /\ \A c \in Condo : CondoOf[row.membership] = c => owned[c] # u
    <3>1. row.membership \in Membership
      BY DEF SessionRec
    <3>. QED  BY <1>0, <2>2, <3>1, SessionTypes
  <2>4. owned[row.account] # u
    BY <1>8 DEF Owns
  <2>. QED  BY <1>5, <2>1, <2>3, <2>4
<1>. QED  BY <1>4, <1>5, <1>6, <1>7, <1>8 DEF SessionAdded

\* The invariant is kept by the insertion of the new session.
LEMMA IssueStep ==
    ASSUME SessionAssumption, SessionInv, NEW p \in Proc, Issue(p)
    PROVE  SessionInv'
<1>0. /\ DataTyped /\ TxTyped /\ DataInv /\ LocksOK /\ CountsOK /\ ClockOK
      /\ tx[p].pc = "write" /\ ~Waiting(p) /\ tx[p].op = "issue" /\ TxKnows(p)
      /\ FamiliesOK /\ IssuedOK /\ OneLivePerFamily /\ OneSessionPerHandoff
      /\ UnrevokedIsCurrent /\ LoggedInAfter
  BY DEF SessionInv, DataInv, TxTyped, Issue, At
<1>1. PICK h \in 1..Len(handoffs), s \in 0..Len(sessions), a \in Account :
             /\ tx[p].handoff = h /\ tx[p].session = s /\ handoffs[h].account = a
             /\ AccountIn(p) = a /\ IssueKnows(p, h, s, a) /\ ReplaceKnows(p, h, s, a)
             /\ a \in Row /\ HandoffRow(h) \in Row /\ s \in 0..MaxRequests
             /\ s # 0 => s \in Ids /\ SessionRow(s) \in Row /\ sessions[s] \in SessionRec
             /\ handoffs[h] \in HandoffRec /\ tx[p] \in TxRec
  BY <1>0, Issuing
<1>2. /\ Owns(p, HandoffRow(h)) /\ handoffs[h].state = "fresh" /\ Owns(p, a) /\ ~Refused(p)
      /\ TargetKnown(p, a) /\ ScopeKnown(p)
      /\ tx[p].target # None /\ SessionsClaimed(p)
  BY <1>0, <1>1 DEF IssueKnows, ReplaceKnows
<1>3. PICK R \in SUBSET Ids : R = tx[p].revoke /\ \A t \in R : Owns(p, SessionRow(t))
  <2>1. \A t \in tx[p].revoke : t \in Ids /\ SessionRow(t) \in Row
    BY <1>0, <1>2, Counted, SessionTypes DEF SessionsClaimed
  <2>. QED  BY <1>0, <1>2, <2>1, AtOwns DEF SessionsClaimed
<1>4. PICK m \in Membership :
        /\ tx[p].target = m /\ AccountOf[m] = a /\ Shares(p, m) /\ membership[m] = "active"
        /\ ScopeLive(m) /\ \A c \in Condo : CondoOf[m] = c => Shares(p, c)
  BY <1>2 DEF TargetKnown, ScopeKnown
<1>5. PICK v \in Nat :
        /\ v = IF Recovery(p) THEN version[a] + 1 ELSE version[a]
        /\ Recovery(p) => v = version[a] + 1
        /\ ~Recovery(p) => v = version[a]
  BY <1>0 DEF DataTyped
<1>6. PICK r \in Nat :
        /\ r = IF Reauth(p) THEN sessions[s].family ELSE 0
        /\ Reauth(p) => r = sessions[s].family /\ r \in 1..MaxRequests
        /\ ~Reauth(p) => r = 0
  <2>1. Reauth(p) => sessions[s] \in SessionRec
    BY <1>0, <1>1, SessionTypes DEF ReplaceKnows
  <2>2. Reauth(p) => sessions[s].family \in 1..MaxRequests /\ sessions[s].family \in Nat
    BY <2>1 DEF SessionRec
  <2>. QED  BY <2>2
<1>7. /\ Len(sessions) \in Nat /\ Len(sessions) + 1 <= MaxRequests /\ Len(handoffs) <= MaxHandoffs
      /\ MaxRequests \in Nat /\ MaxHandoffs \in Nat
  <2>1. p \in Inserting
    BY <1>0 DEF Inserting
  <2>. QED  BY <1>0, <2>1, Counted, SessionTypes
<1>8. Len(Revoked(p, R)) = Len(sessions)
  BY <1>0, RevokedRows
<1>9. PICK row \in SessionRec :
        /\ sessions' = Append(Revoked(p, R), row)
        /\ row.account = a /\ row.membership = m /\ row.version = v /\ row.from = h
        /\ row.auth = handoffs[h].auth /\ row.kind = handoffs[h].kind
        /\ Reauth(p) => row.family = sessions[s].family
        /\ ~Reauth(p) => row.family = Len(sessions) + 1
  <2> DEFINE row0 == [family |-> IF r = 0 THEN Len(Revoked(p, R)) + 1 ELSE r,
                      account |-> AccountOf[m], membership |-> m, version |-> v,
                      auth |-> handoffs[h].auth, kind |-> handoffs[h].kind, from |-> h,
                      idle |-> "fresh", state |-> "live"]
  <2>1. sessions' = Insert(Revoked(p, R), r, m, v, handoffs[h], h)
    BY <1>1, <1>3, <1>4, <1>5, <1>6 DEF Issue
  <2>2. sessions' = Append(Revoked(p, R), row0)
    BY <2>1 DEF Insert
  <2>3. /\ handoffs[h].auth \in Nat /\ handoffs[h].kind \in {"login", "recovery", "reauth"}
        /\ h \in 0..MaxHandoffs
    BY <1>1, <1>7 DEF HandoffRec
  <2>4. /\ Reauth(p) => row0.family = sessions[s].family /\ row0.family \in 1..MaxRequests
        /\ ~Reauth(p) => row0.family = Len(sessions) + 1 /\ row0.family \in 1..MaxRequests
    BY <1>6, <1>7, <1>8
  <2>5. row0 \in SessionRec
    BY <1>4, <2>3, <2>4 DEF SessionRec
  <2>. QED  BY <1>4, <2>2, <2>4, <2>5
<1>10. /\ sessions' \in Seq(SessionRec) /\ Len(sessions') = Len(sessions) + 1 /\ RowsKept
       /\ \A t \in Ids : sessions'[t].state = "live" <=> sessions[t].state = "live" /\ t \notin R
       /\ \A t \in 1..Len(sessions') : t \notin Ids => t = Len(sessions) + 1 /\ sessions'[t] = row
       /\ \A u \in Proc \ {p} :
            /\ \A t \in Ids : owned[SessionRow(t)] = u => sessions'[t].state = sessions[t].state
            /\ \A t \in 1..Len(sessions') : t \notin Ids =>
                 /\ owned[sessions'[t].account] # u /\ owned[sessions'[t].membership] # u
                 /\ \A c \in Condo : CondoOf[sessions'[t].membership] = c => owned[c] # u
  <2>1. /\ SessionAssumption /\ SessionInv /\ p \in Proc /\ R \in SUBSET Ids
        /\ \A t \in R : Owns(p, SessionRow(t))
        /\ row \in SessionRec /\ Owns(p, row.account) /\ Shares(p, row.membership)
        /\ \A c \in Condo : CondoOf[row.membership] = c => Shares(p, c)
        /\ sessions' = Append(Revoked(p, R), row)
    BY <1>2, <1>3, <1>4, <1>9
  <2>2. SessionAdded(p, R, row)
    BY ONLY <2>1, Added
  <2>. QED  BY <2>2 DEF SessionAdded
<1>11. /\ handoffs' = [handoffs EXCEPT ![h].state = "consumed"] /\ End(p)
       /\ version' = [version EXCEPT ![a] = v]
       /\ updated' = IF Recovery(p) THEN [updated EXCEPT ![a] = tx[p].at] ELSE updated
       /\ intents' = intents /\ status' = status /\ membership' = membership /\ closed' = closed
       /\ over' = over /\ left' = left /\ time' = time /\ requests' = requests
       /\ scenario' = scenario
  BY <1>1, <1>5 DEF Issue, Consumed
<1>12. /\ handoffs' \in Seq(HandoffRec) /\ Len(handoffs') = Len(handoffs) /\ HandoffsKept
       /\ handoffs'[h].state = "consumed"
       /\ \A g \in 1..Len(handoffs) : g # h => handoffs'[g] = handoffs[g]
  BY <1>0, <1>11, HandoffSpends
<1>13. PICK w \in Nat :
         /\ Recovery(p) => w = tx[p].at /\ w >= 1
         /\ ~Recovery(p) => w = updated[a]
         /\ updated' = [updated EXCEPT ![a] = w]
  <2>1. CASE Recovery(p)
    <3>1. tx[p].at >= 1 /\ tx[p].at \in Nat
      BY <1>0, <1>1, <2>1 DEF ReplaceKnows, TxRec
    <3>. QED  BY <1>11, <2>1, <3>1
  <2>2. CASE ~Recovery(p)
    <3>1. updated = [updated EXCEPT ![a] = updated[a]] /\ updated[a] \in Nat
      BY <1>0 DEF DataTyped
    <3>. QED  BY <1>11, <2>2, <3>1
  <2>. QED  BY <2>1, <2>2
<1>14. /\ version' \in [Account -> Nat] /\ updated' \in [Account -> Nat]
       /\ version'[a] = v /\ updated'[a] = w
       /\ \A b \in Account \ {a} : version'[b] = version[b] /\ updated'[b] = updated[b]
  <2>1. /\ version \in [Account -> Nat] /\ updated \in [Account -> Nat]
        /\ a \in Account /\ v \in Nat /\ w \in Nat
        /\ version' = [version EXCEPT ![a] = v] /\ updated' = [updated EXCEPT ![a] = w]
    BY <1>0, <1>11, <1>13 DEF DataTyped
  <2>. QED  BY ONLY <2>1
<1>15. DataTyped'
  BY <1>0, <1>10, <1>11, <1>12, <1>14 DEF DataTyped
<1>16. IntentsKept
  BY <1>0, <1>11, SessionTypes DEF IntentsKept
<1>17. ASSUME Reauth(p)
       PROVE  /\ s \in Ids /\ s \in R /\ sessions[s].state = "live" /\ sessions[s].account = a
              /\ sessions[s].family = intents[handoffs[h].intent].family
              /\ intents[handoffs[h].intent].account = a
  <2>1. /\ s \in Ids /\ s \in R /\ sessions[s].state = "live" /\ sessions[s].account = a
        /\ sessions[s].family = intents[handoffs[h].intent].family
    BY <1>0, <1>1, <1>3, <1>17 DEF ReplaceKnows
  <2>2. handoffs[h].intent \in 1..Len(intents)
    <3>1. handoffs[h].kind = "reauth"
      BY <1>1, <1>17 DEF Reauth
    <3>2. handoffs[h].intent # 0 /\ handoffs[h].intent <= Len(intents)
      BY <1>0, <3>1 DEF IssuedOK
    <3>3. handoffs[h].intent \in Nat /\ Len(intents) \in Nat
      BY <1>0, <1>1, SessionTypes DEF HandoffRec
    <3>. QED  BY <3>2, <3>3
  <2>3. PICK t \in Ids : /\ sessions[t].family = intents[handoffs[h].intent].family
                         /\ sessions[t].account = intents[handoffs[h].intent].account
    BY <1>0, <2>2 DEF IssuedOK
  <2>4. sessions[t].account = sessions[s].account
    BY <1>0, <2>1, <2>3 DEF FamiliesOK
  <2>. QED  BY <2>1, <2>3, <2>4
<1>18. IssuedOK' /\ OneSessionPerHandoff'
  <2>1. \A t \in 1..Len(sessions') : t \notin Ids /\ sessions'[t].from # 0 =>
             \E g \in 1..Len(handoffs) :
               /\ sessions'[t].from = g /\ sessions'[t].kind = handoffs[g].kind
               /\ handoffs[g].state = "fresh" /\ handoffs'[g].state = "consumed"
               /\ handoffs[g].kind = "reauth" =>
                    /\ sessions'[t].family = intents[handoffs[g].intent].family
                    /\ sessions'[t].account = intents[handoffs[g].intent].account
    <3>1. handoffs[h].kind = "reauth" => Reauth(p)
      BY <1>1 DEF Reauth
    <3>. QED  BY <1>2, <1>9, <1>10, <1>12, <1>17, <3>1
  <2>2. \A g \in 1..Len(handoffs') : g \in 1..Len(handoffs)
    BY <1>12
  <2>3. \A i \in 1..Len(intents') : i \in 1..Len(intents)
    BY <1>11
  <2>. QED  BY <1>0, <1>10, <1>12, <1>15, <1>16, <2>1, <2>2, <2>3, IssuedKept
<1>19. FamiliesOK' /\ OneLivePerFamily'
  <2>1. /\ row.account = AccountOf[row.membership]
        /\ \/ row.family = Len(sessions) + 1
           \/ \E t \in Ids : /\ row.family = sessions[t].family
                             /\ row.account = sessions[t].account
    BY <1>4, <1>9, <1>17
  <2>2. ASSUME NEW t \in Ids, sessions'[t].state = "live"
        PROVE  sessions'[t].family # row.family
    <3>1. sessions'[t].family = sessions[t].family /\ sessions[t].state = "live" /\ t \notin R
      BY <1>10, <2>2 DEF RowsKept
    <3>2. CASE Reauth(p)
      <4>1. s \in Unrevoked /\ t \in Unrevoked /\ s # t
        BY <1>17, <3>1, <3>2 DEF Unrevoked
      <4>2. sessions[t].family # sessions[s].family
        BY <1>0, <4>1 DEF OneLivePerFamily
      <4>. QED  BY <1>9, <3>1, <3>2, <4>2
    <3>3. CASE ~Reauth(p)
      <4>1. sessions[t].family <= Len(sessions) /\ sessions[t].family \in Nat
        <5>1. sessions[t] \in SessionRec
          BY <1>0, SessionTypes
        <5>2. sessions[t].family \in 1..MaxRequests
          BY <5>1 DEF SessionRec
        <5>. QED  BY <1>0, <1>7, <5>2 DEF FamiliesOK
      <4>. QED  BY <1>7, <1>9, <3>1, <3>3, <4>1
    <3>. QED  BY <3>2, <3>3
  <2>3. \A t \in 1..Len(sessions') : t \notin Ids =>
             /\ sessions'[t].account = AccountOf[sessions'[t].membership]
             /\ \/ sessions'[t].family = t
                \/ \E x \in Ids : /\ sessions'[t].family = sessions[x].family
                                  /\ sessions'[t].account = sessions[x].account
             /\ \A x \in Ids : sessions'[x].state = "live" =>
                  sessions'[x].family # sessions'[t].family
    BY <1>10, <2>1, <2>2
  <2>. QED  BY <1>0, <1>10, <1>15, <2>3, FamiliesKept
<1>20. ClockOK'
  <2>1. version'[a] = 0 <=> updated'[a] = 0
    <3>1. CASE Recovery(p)
      <4>1. version[a] \in Nat
        BY <1>0 DEF DataTyped
      <4>. QED  BY <1>5, <1>13, <1>14, <3>1, <4>1
    <3>2. CASE ~Recovery(p)
      BY <1>0, <1>5, <1>13, <1>14, <3>2 DEF ClockOK
    <3>. QED  BY <3>1, <3>2
  <2>. QED  BY <1>0, <1>11, <1>14, <2>1 DEF ClockOK
<1>21. ASSUME NEW t \in Ids, sessions'[t].state = "live"
       PROVE  /\ t \in Unrevoked /\ sessions[t].account \in Account
              /\ version'[sessions[t].account] = version[sessions[t].account]
              /\ updated'[sessions[t].account] = updated[sessions[t].account]
  <2>1. t \in Unrevoked /\ t \notin R
    BY <1>10, <1>21 DEF Unrevoked
  <2>2. sessions[t].account \in Account
    BY <1>0, SessionTypes DEF SessionRec
  <2>3. Recovery(p) => sessions[t].account # a
    BY <1>0, <1>1, <1>3, <2>1 DEF ReplaceKnows, OfAccount
  <2>. QED  BY <1>5, <1>13, <1>14, <2>1, <2>2, <2>3
<1>22. UnrevokedIsCurrent'
  <2>1. status[a] = "active"
    BY <1>1, <1>2 DEF Refused
  <2>2. \A x \in Membership : Authorizes(x)' <=> Authorizes(x)
    BY <1>11 DEF Authorizes, ScopeLive
  <2>3. ASSUME NEW t \in Unrevoked'
        PROVE  /\ status'[sessions'[t].account] = "active"
               /\ sessions'[t].version = version'[sessions'[t].account]
               /\ membership'[sessions'[t].membership] = "active"
               /\ CondoOf[sessions'[t].membership] \notin closed'
    <3>1. t \in 1..Len(sessions') /\ sessions'[t].state = "live"
      BY DEF Unrevoked, Ids
    <3>2. CASE t \in Ids
      <4>1. /\ sessions'[t].account = sessions[t].account
            /\ sessions'[t].membership = sessions[t].membership
            /\ sessions'[t].version = sessions[t].version
        BY <1>10, <3>2 DEF RowsKept
      <4>2. /\ status[sessions[t].account] = "active"
            /\ sessions[t].version = version[sessions[t].account]
            /\ Authorizes(sessions[t].membership)
        BY <1>0, <1>21, <3>1, <3>2 DEF UnrevokedIsCurrent
      <4>. QED  BY <1>11, <1>21, <3>1, <3>2, <4>1, <4>2 DEF Authorizes, ScopeLive
    <3>3. CASE t \notin Ids
      BY <1>4, <1>9, <1>10, <1>11, <1>14, <2>1, <3>1, <3>3 DEF ScopeLive
    <3>. QED  BY <3>2, <3>3
  <2>. QED  BY <2>3 DEF UnrevokedIsCurrent, Authorizes, ScopeLive
<1>23. LoggedInAfter'
  <2>1. ASSUME NEW t \in Unrevoked'
        PROVE  sessions'[t].auth > updated'[sessions'[t].account] \/ sessions'[t].kind = "recovery"
    <3>1. t \in 1..Len(sessions') /\ sessions'[t].state = "live"
      BY DEF Unrevoked, Ids
    <3>2. CASE t \in Ids
      <4>1. /\ sessions'[t].account = sessions[t].account /\ sessions'[t].auth = sessions[t].auth
            /\ sessions'[t].kind = sessions[t].kind
        BY <1>10, <3>2 DEF RowsKept
      <4>2. sessions[t].auth > updated[sessions[t].account] \/ sessions[t].kind = "recovery"
        BY <1>0, <1>21, <3>1, <3>2 DEF LoggedInAfter
      <4>. QED  BY <1>21, <3>1, <3>2, <4>1, <4>2
    <3>3. CASE t \notin Ids
      <4>1. /\ sessions'[t].account = a /\ sessions'[t].auth = handoffs[h].auth
            /\ sessions'[t].kind = handoffs[h].kind
        BY <1>9, <1>10, <3>1, <3>3
      <4>2. CASE Recovery(p)
        BY <1>1, <4>1, <4>2 DEF Recovery
      <4>3. CASE ~Recovery(p)
        <5>1. /\ handoffs[h].auth \in Nat /\ updated[a] \in Nat /\ version[a] \in Nat
              /\ handoffs[h].auth >= 1 /\ (version[a] = 0 => updated[a] = 0)
          BY <1>0, <1>1 DEF HandoffRec, DataTyped, IssuedOK, ClockOK
        <5>2. ~(version[a] > 0 /\ handoffs[h].auth <= updated[a])
          BY <1>1, <1>2 DEF Refused
        <5>3. handoffs[h].auth > updated[a]
          BY ONLY <5>1, <5>2
        <5>. QED  BY <1>13, <1>14, <4>1, <4>3, <5>3
      <4>. QED  BY <4>2, <4>3
    <3>. QED  BY <3>2, <3>3
  <2>. QED  BY <2>1 DEF LoggedInAfter
<1>24. ASSUME NEW u \in Proc \ {p} PROVE LocksRespected(u)
  <2>1. \A g \in 1..Len(handoffs) : owned[HandoffRow(g)] = u => handoffs'[g].state = handoffs[g].state
    BY <1>2, <1>12, <1>24 DEF Owns
  <2>2. \A b \in Account : owned[b] = u =>
         status'[b] = status[b] /\ version'[b] = version[b] /\ updated'[b] = updated[b]
    BY <1>2, <1>11, <1>14, <1>24 DEF Owns
  <2>3. /\ \A x \in Membership : u \in shared[x] /\ membership[x] = "active" => membership'[x] = "active"
        /\ \A c \in closed' : c \notin closed => c \in Condo /\ u \notin shared[c]
    BY <1>11
  <2>. QED  BY <1>10, <1>24, <2>1, <2>2, <2>3 DEF LocksRespected
<1>25. DataInv'
  BY <1>18, <1>19, <1>20, <1>22, <1>23 DEF DataInv
<1>. QED  BY <1>0, <1>10, <1>11, <1>12, <1>15, <1>16, <1>24, <1>25, Ended

\* The invariant is kept by a recovery that revokes and gets no session.
LEMMA LimitRecoveryStep ==
    ASSUME SessionAssumption, SessionInv, NEW p \in Proc, LimitRecovery(p)
    PROVE  SessionInv'
<1>0. /\ DataTyped /\ TxTyped /\ DataInv /\ LocksOK /\ CountsOK /\ ClockOK
      /\ tx[p].pc = "write" /\ ~Waiting(p) /\ tx[p].op = "issue" /\ TxKnows(p) /\ Recovery(p)
      /\ FamiliesOK /\ IssuedOK /\ OneLivePerFamily /\ OneSessionPerHandoff
      /\ UnrevokedIsCurrent /\ LoggedInAfter
  BY DEF SessionInv, DataInv, TxTyped, LimitRecovery, At
<1>1. PICK h \in 1..Len(handoffs), s \in 0..Len(sessions), a \in Account :
             /\ tx[p].handoff = h /\ AccountIn(p) = a
             /\ IssueKnows(p, h, s, a) /\ ReplaceKnows(p, h, s, a) /\ tx[p] \in TxRec
  BY <1>0, Issuing
<1>2. /\ Owns(p, HandoffRow(h)) /\ Owns(p, a) /\ SessionsClaimed(p)
      /\ OfAccount(a) \subseteq tx[p].revoke
  BY <1>0, <1>1 DEF IssueKnows, ReplaceKnows
<1>3. PICK R \in SUBSET Ids : R = tx[p].revoke /\ \A t \in R : Owns(p, SessionRow(t))
  <2>1. \A t \in tx[p].revoke : t \in Ids /\ SessionRow(t) \in Row
    BY <1>0, <1>2, Counted, SessionTypes DEF SessionsClaimed
  <2>. QED  BY <1>0, <1>2, <2>1, AtOwns DEF SessionsClaimed
<1>4. PICK w \in Nat : w = tx[p].at /\ w >= 1
  BY <1>0, <1>1 DEF ReplaceKnows, TxRec
<1>5. /\ sessions' = Revoked(p, R) /\ handoffs' = [handoffs EXCEPT ![h].state = "consumed"]
      /\ version' = [version EXCEPT ![a] = @ + 1] /\ updated' = [updated EXCEPT ![a] = w]
      /\ End(p) /\ intents' = intents /\ status' = status /\ membership' = membership
      /\ closed' = closed /\ over' = over /\ left' = left /\ time' = time
      /\ requests' = requests /\ scenario' = scenario
  BY <1>1, <1>3, <1>4 DEF LimitRecovery, Consumed
<1>6. /\ sessions' \in Seq(SessionRec) /\ Len(sessions') = Len(sessions)
      /\ \A t \in Ids :
           /\ sessions'[t].family = sessions[t].family /\ sessions'[t].account = sessions[t].account
           /\ sessions'[t].membership = sessions[t].membership
           /\ sessions'[t].version = sessions[t].version /\ sessions'[t].auth = sessions[t].auth
           /\ sessions'[t].kind = sessions[t].kind /\ sessions'[t].from = sessions[t].from
           /\ sessions'[t].state = "live" <=> sessions[t].state = "live" /\ t \notin R
  BY <1>0, <1>5, RevokedRows
<1>7. /\ handoffs' \in Seq(HandoffRec) /\ Len(handoffs') = Len(handoffs) /\ HandoffsKept
      /\ \A g \in 1..Len(handoffs) : g # h => handoffs'[g] = handoffs[g]
  BY <1>0, <1>5, HandoffSpends
<1>8. /\ version' \in [Account -> Nat] /\ updated' \in [Account -> Nat]
      /\ version'[a] # 0 /\ updated'[a] # 0
      /\ \A b \in Account \ {a} : version'[b] = version[b] /\ updated'[b] = updated[b]
  <2>1. /\ version \in [Account -> Nat] /\ updated \in [Account -> Nat]
        /\ a \in Account /\ w \in Nat /\ w >= 1
        /\ version' = [version EXCEPT ![a] = @ + 1] /\ updated' = [updated EXCEPT ![a] = w]
    BY <1>0, <1>4, <1>5 DEF DataTyped
  <2>. QED  BY ONLY <2>1
<1>9. DataTyped'
  BY <1>0, <1>5, <1>6, <1>7, <1>8 DEF DataTyped
<1>10. RowsKept /\ IntentsKept
  BY <1>0, <1>5, <1>6, SessionTypes DEF RowsKept, IntentsKept
<1>11. \A t \in 1..Len(sessions') : t \in Ids
  BY <1>6 DEF Ids
<1>12. FamiliesOK' /\ OneLivePerFamily'
  BY <1>0, <1>9, <1>10, <1>11, FamiliesKept
<1>13. IssuedOK' /\ OneSessionPerHandoff'
  <2>1. /\ \A g \in 1..Len(handoffs') : g \in 1..Len(handoffs)
        /\ \A i \in 1..Len(intents') : i \in 1..Len(intents)
    BY <1>5, <1>7
  <2>. QED  BY <1>0, <1>7, <1>9, <1>10, <1>11, <2>1, IssuedKept
<1>14. ClockOK'
  BY <1>0, <1>5, <1>8 DEF ClockOK
<1>15. ASSUME NEW t \in Unrevoked'
       PROVE  /\ t \in Unrevoked /\ sessions[t].account \in Account \ {a}
              /\ sessions'[t].account = sessions[t].account
              /\ sessions'[t].membership = sessions[t].membership
              /\ sessions'[t].version = sessions[t].version
              /\ sessions'[t].auth = sessions[t].auth /\ sessions'[t].kind = sessions[t].kind
  <2>1. t \in Ids /\ t \in Unrevoked /\ t \notin R
    BY <1>6, <1>11 DEF Unrevoked, Ids
  <2>2. sessions[t].account \in Account
    BY <1>0, <2>1, SessionTypes DEF SessionRec
  <2>3. sessions[t].account # a
    BY <1>2, <1>3, <2>1 DEF OfAccount
  <2>. QED  BY <1>6, <2>1, <2>2, <2>3
<1>16. UnrevokedIsCurrent'
  <2>1. ASSUME NEW t \in Unrevoked'
        PROVE  /\ status'[sessions'[t].account] = "active"
               /\ sessions'[t].version = version'[sessions'[t].account]
               /\ membership'[sessions'[t].membership] = "active"
               /\ CondoOf[sessions'[t].membership] \notin closed'
    <3>1. /\ status[sessions[t].account] = "active"
          /\ sessions[t].version = version[sessions[t].account]
          /\ membership[sessions[t].membership] = "active"
          /\ CondoOf[sessions[t].membership] \notin closed
      BY <1>0, <1>15 DEF UnrevokedIsCurrent, Authorizes, ScopeLive
    <3>. QED  BY <1>5, <1>8, <1>15, <3>1
  <2>. QED  BY <2>1 DEF UnrevokedIsCurrent, Authorizes, ScopeLive
<1>17. LoggedInAfter'
  <2>1. ASSUME NEW t \in Unrevoked'
        PROVE  sessions'[t].auth > updated'[sessions'[t].account] \/ sessions'[t].kind = "recovery"
    <3>1. sessions[t].auth > updated[sessions[t].account] \/ sessions[t].kind = "recovery"
      BY <1>0, <1>15 DEF LoggedInAfter
    <3>. QED  BY <1>8, <1>15, <3>1
  <2>. QED  BY <2>1 DEF LoggedInAfter
<1>18. ASSUME NEW u \in Proc \ {p} PROVE LocksRespected(u)
  <2>1. ASSUME NEW t \in Ids, owned[SessionRow(t)] = u PROVE sessions'[t].state = sessions[t].state
    <3>1. t \notin R
      BY <1>3, <1>18, <2>1 DEF Owns
    <3>. QED  BY <1>5, <3>1 DEF Revoked
  <2>2. \A g \in 1..Len(handoffs) : owned[HandoffRow(g)] = u => handoffs'[g].state = handoffs[g].state
    BY <1>2, <1>7, <1>18 DEF Owns
  <2>3. \A b \in Account : owned[b] = u =>
         status'[b] = status[b] /\ version'[b] = version[b] /\ updated'[b] = updated[b]
    BY <1>2, <1>5, <1>8, <1>18 DEF Owns
  <2>. QED  BY <1>5, <1>11, <2>1, <2>2, <2>3 DEF LocksRespected
<1>19. DataInv'
  BY <1>12, <1>13, <1>14, <1>16, <1>17 DEF DataInv
<1>. QED  BY <1>0, <1>5, <1>6, <1>7, <1>9, <1>10, <1>18, <1>19, Ended

\* The invariant is kept by the rotation.
LEMMA RotateStep ==
    ASSUME SessionAssumption, SessionInv, NEW p \in Proc, Rotate(p)
    PROVE  SessionInv'
<1>0. /\ DataTyped /\ TxTyped /\ DataInv /\ LocksOK /\ CountsOK /\ ClockOK
      /\ tx[p].pc = "session" /\ ~Waiting(p) /\ tx[p].op = "rotate" /\ TxKnows(p)
      /\ FamiliesOK /\ IssuedOK /\ OneLivePerFamily /\ OneSessionPerHandoff
      /\ UnrevokedIsCurrent /\ LoggedInAfter
  BY DEF SessionInv, DataInv, TxTyped, Rotate, At
<1>1. PICK s \in Ids, a \in Account :
             /\ tx[p].session = s /\ sessions[s].account = a /\ RotateKnows(p, s, a)
             /\ a \in Row /\ SessionRow(s) \in Row /\ s \in 1..MaxRequests
             /\ sessions[s] \in SessionRec /\ tx[p] \in TxRec
  BY <1>0, Rotating
<1>2. CASE ~Rotates(p)
  <2>1. End(p) /\ UNCHANGED <<data, time, requests, scenario>>
    BY <1>2 DEF Rotate, data
  <2>. QED  BY <2>1, RolledBack
<1>3. CASE Rotates(p)
  <2>1. /\ TargetKnown(p, a) /\ ScopeKnown(p) /\ Owns(p, a) /\ Owns(p, SessionRow(s))
        /\ tx[p].target # None /\ Live(s)
    BY <1>0, <1>1, <1>3, AtOwns DEF RotateKnows, Rotates
  <2>2. PICK m \in Membership :
        /\ tx[p].target = m /\ AccountOf[m] = a /\ Shares(p, m) /\ membership[m] = "active"
        /\ ScopeLive(m) /\ \A c \in Condo : CondoOf[m] = c => Shares(p, c)
    BY <2>1 DEF TargetKnown, ScopeKnown
  <2>3. PICK R \in SUBSET Ids : R = {s}
    BY <1>1
  <2>4. Len(sessions) \in Nat /\ Len(sessions) + 1 <= MaxRequests /\ MaxHandoffs \in Nat
    <3>1. p \in Inserting
      BY <1>0 DEF Inserting
    <3>. QED  BY <1>0, <3>1, Counted, SessionTypes
  <2>5. PICK row \in SessionRec :
          /\ sessions' = Append(Revoked(p, R), row)
          /\ row.account = a /\ row.membership = m /\ row.version = sessions[s].version
          /\ row.from = 0 /\ row.auth = sessions[s].auth /\ row.kind = sessions[s].kind
          /\ row.family = sessions[s].family
    <3> DEFINE row0 == [family |-> sessions[s].family, account |-> a, membership |-> m,
                        version |-> sessions[s].version, auth |-> sessions[s].auth,
                        kind |-> sessions[s].kind, from |-> 0, idle |-> "fresh", state |-> "live"]
    <3>1. /\ sessions[s].family \in 1..MaxRequests /\ sessions[s].version \in Nat
          /\ sessions[s].auth \in Nat /\ sessions[s].kind \in {"login", "recovery", "reauth"}
      BY <1>1 DEF SessionRec
    <3>2. sessions' = Insert(Revoked(p, R), sessions[s].family, m, sessions[s].version, sessions[s], 0)
      BY <1>1, <1>3, <2>2, <2>3 DEF Rotate
    <3>3. sessions[s].family # 0
      BY <3>1
    <3>4. sessions' = Append(Revoked(p, R), row0)
      BY <2>2, <3>2, <3>3 DEF Insert
    <3>5. row0 \in SessionRec
      BY <2>4, <3>1 DEF SessionRec
    <3>. QED  BY <3>4, <3>5
  <2>6. SessionAdded(p, R, row)
    <3>1. /\ SessionAssumption /\ SessionInv /\ p \in Proc /\ R \in SUBSET Ids
          /\ \A t \in R : Owns(p, SessionRow(t))
          /\ row \in SessionRec /\ Owns(p, row.account) /\ Shares(p, row.membership)
          /\ \A c \in Condo : CondoOf[row.membership] = c => Shares(p, c)
          /\ sessions' = Append(Revoked(p, R), row)
      BY <2>1, <2>2, <2>3, <2>5
    <3>. QED  BY ONLY <3>1, Added
  <2>7. /\ sessions' \in Seq(SessionRec) /\ Len(sessions') = Len(sessions) + 1 /\ RowsKept
        /\ \A t \in Ids : sessions'[t].state = "live" <=> sessions[t].state = "live" /\ t \notin R
        /\ \A t \in 1..Len(sessions') : t \notin Ids => t = Len(sessions) + 1 /\ sessions'[t] = row
        /\ \A u \in Proc \ {p} :
             /\ \A t \in Ids : owned[SessionRow(t)] = u => sessions'[t].state = sessions[t].state
             /\ \A t \in 1..Len(sessions') : t \notin Ids =>
                  /\ owned[sessions'[t].account] # u /\ owned[sessions'[t].membership] # u
                  /\ \A c \in Condo : CondoOf[sessions'[t].membership] = c => owned[c] # u
    BY <2>6 DEF SessionAdded
  <2>8. /\ handoffs' = handoffs /\ End(p) /\ version' = version /\ updated' = updated
        /\ intents' = intents /\ status' = status /\ membership' = membership /\ closed' = closed
        /\ over' = over /\ left' = left /\ time' = time /\ requests' = requests
        /\ scenario' = scenario
    BY DEF Rotate
  <2>9. DataTyped'
    BY <1>0, <2>7, <2>8 DEF DataTyped
  <2>10. IntentsKept /\ HandoffsKept
    BY <1>0, <2>8, SessionTypes DEF IntentsKept, HandoffsKept
  <2>11. sessions[s].state = "live" /\ s \in Unrevoked
    BY <1>1, <2>1 DEF Live, Unrevoked
  <2>12. IssuedOK' /\ OneSessionPerHandoff'
    <3>1. \A t \in 1..Len(sessions') : ~(t \notin Ids /\ sessions'[t].from # 0)
      BY <2>5, <2>7
    <3>2. \A g \in 1..Len(handoffs') : g \in 1..Len(handoffs)
      BY <2>8
    <3>3. \A i \in 1..Len(intents') : i \in 1..Len(intents)
      BY <2>8
    <3>. QED  BY <1>0, <2>7, <2>9, <2>10, <3>1, <3>2, <3>3, IssuedKept
  <2>13. FamiliesOK' /\ OneLivePerFamily'
    <3>1. ASSUME NEW t \in Ids, sessions'[t].state = "live"
          PROVE  sessions'[t].family # row.family
      <4>1. sessions'[t].family = sessions[t].family /\ t \in Unrevoked /\ s # t
        BY <2>3, <2>7, <3>1 DEF RowsKept, Unrevoked
      <4>2. sessions[t].family # sessions[s].family
        BY <1>0, <2>11, <4>1 DEF OneLivePerFamily
      <4>. QED  BY <2>5, <4>1, <4>2
    <3>2. \A t \in 1..Len(sessions') : t \notin Ids =>
             /\ sessions'[t].account = AccountOf[sessions'[t].membership]
             /\ \/ sessions'[t].family = t
                \/ \E x \in Ids : /\ sessions'[t].family = sessions[x].family
                                  /\ sessions'[t].account = sessions[x].account
             /\ \A x \in Ids : sessions'[x].state = "live" =>
                  sessions'[x].family # sessions'[t].family
      <4>1. /\ row.account = AccountOf[row.membership]
            /\ row.family = sessions[s].family /\ row.account = sessions[s].account
        BY <1>1, <2>2, <2>5
      <4>2. \A x \in 1..Len(sessions') : x \notin Ids => sessions'[x] = row
        BY <2>7
      <4>. QED  BY <1>1, <3>1, <4>1, <4>2
    <3>. QED  BY <1>0, <2>7, <2>9, <3>2, FamiliesKept
  <2>14. ClockOK'
    BY <1>0, <2>8 DEF ClockOK
  <2>15. ASSUME NEW t \in Unrevoked'
         PROVE  \/ /\ t \in Unrevoked
                   /\ sessions'[t].account = sessions[t].account
                   /\ sessions'[t].membership = sessions[t].membership
                   /\ sessions'[t].version = sessions[t].version
                   /\ sessions'[t].auth = sessions[t].auth /\ sessions'[t].kind = sessions[t].kind
                \/ /\ sessions'[t].account = a /\ sessions'[t].membership = m
                   /\ sessions'[t].version = sessions[s].version
                   /\ sessions'[t].auth = sessions[s].auth /\ sessions'[t].kind = sessions[s].kind
    <3>1. t \in 1..Len(sessions') /\ sessions'[t].state = "live"
      BY DEF Unrevoked, Ids
    <3>2. CASE t \in Ids
      BY <2>7, <3>1, <3>2 DEF RowsKept, Unrevoked
    <3>3. CASE t \notin Ids
      BY <2>5, <2>7, <3>1, <3>3
    <3>. QED  BY <3>2, <3>3
  <2>16. UnrevokedIsCurrent'
    <3>1. /\ status[a] = "active" /\ sessions[s].version = version[a]
      BY <1>0, <1>1, <2>11 DEF UnrevokedIsCurrent
    <3>2. \A x : Authorizes(x)' <=> Authorizes(x)
      BY <2>8 DEF Authorizes, ScopeLive
    <3>3. Authorizes(m)
      BY <2>2 DEF Authorizes
    <3>4. ASSUME NEW t \in Unrevoked'
          PROVE  /\ status'[sessions'[t].account] = "active"
                 /\ sessions'[t].version = version'[sessions'[t].account]
                 /\ membership'[sessions'[t].membership] = "active"
                 /\ CondoOf[sessions'[t].membership] \notin closed'
      <4>1. CASE t \in Unrevoked /\ sessions'[t].account = sessions[t].account
                   /\ sessions'[t].membership = sessions[t].membership
                   /\ sessions'[t].version = sessions[t].version
        BY <1>0, <2>8, <4>1 DEF UnrevokedIsCurrent, Authorizes, ScopeLive
      <4>2. CASE sessions'[t].account = a /\ sessions'[t].membership = m
                   /\ sessions'[t].version = sessions[s].version
        BY <2>8, <3>1, <3>3, <4>2 DEF Authorizes, ScopeLive
      <4>. QED  BY <2>15, <4>1, <4>2
    <3>. QED  BY <3>4 DEF UnrevokedIsCurrent, Authorizes, ScopeLive
  <2>17. LoggedInAfter'
    <3>1. sessions[s].auth > updated[a] \/ sessions[s].kind = "recovery"
      BY <1>0, <1>1, <2>11 DEF LoggedInAfter
    <3>2. ASSUME NEW t \in Unrevoked'
          PROVE  sessions'[t].auth > updated'[sessions'[t].account] \/ sessions'[t].kind = "recovery"
      <4>1. CASE t \in Unrevoked /\ sessions'[t].account = sessions[t].account
                   /\ sessions'[t].auth = sessions[t].auth /\ sessions'[t].kind = sessions[t].kind
        BY <1>0, <2>8, <4>1 DEF LoggedInAfter
      <4>2. CASE sessions'[t].account = a /\ sessions'[t].auth = sessions[s].auth
                   /\ sessions'[t].kind = sessions[s].kind
        BY <2>8, <3>1, <4>2
      <4>. QED  BY <2>15, <4>1, <4>2
    <3>. QED  BY <3>2 DEF LoggedInAfter
  <2>18. ASSUME NEW u \in Proc \ {p} PROVE LocksRespected(u)
    BY <2>7, <2>8, <2>18 DEF LocksRespected
  <2>19. DataInv'
    BY <2>12, <2>13, <2>14, <2>16, <2>17 DEF DataInv
  <2>. QED  BY <1>0, <2>7, <2>8, <2>9, <2>10, <2>18, <2>19, Ended
<1>. QED  BY <1>2, <1>3

\* The invariant is kept by the lock of the membership a rotation goes to.
LEMMA LoadTargetStep ==
    ASSUME SessionAssumption, SessionInv, NEW p \in Proc, LoadTarget(p)
    PROVE  SessionInv'
<1>0. /\ DataTyped /\ TxTyped /\ tx[p].pc = "account" /\ ~Waiting(p) /\ tx[p].op = "rotate"
  BY DEF SessionInv, LoadTarget, At
<1>1. PICK s \in Ids, a \in Account :
             /\ tx[p].session = s /\ sessions[s].account = a /\ RotateKnows(p, s, a)
             /\ a \in Row /\ SessionRow(s) \in Row /\ s \in 1..MaxRequests
             /\ sessions[s] \in SessionRec /\ tx[p] \in TxRec
  BY <1>0, Rotating
<1>2. PICK m \in Membership : m = tx[p].target
  BY <1>0, <1>1 DEF RotateKnows
<1>3. PICK t \in Membership \cup {None} :
        t = IF AccountOf[m] = a /\ Authorizes(m) THEN m ELSE None
  OBVIOUS
<1>4. PICK need \in Seq(Locks) :
        /\ need = IF AccountOf[m] = a /\ Authorizes(m) THEN <<Share(m)>> ELSE <<>>
        /\ AccountOf[m] = a /\ Authorizes(m) => \E k \in DOMAIN need : need[k] = Share(m)
  <2>1. Share(m) \in Locks
    BY <1>0, SessionTypes DEF Share, Locks
  <2>2. /\ <<Share(m)>> \in Seq(Locks) /\ 1 \in DOMAIN <<Share(m)>> /\ <<Share(m)>>[1] = Share(m)
        /\ <<>> \in Seq(Locks)
    BY <2>1
  <2>. QED  BY <2>2
<1>5. PICK rec \in TxRec : rec = [tx[p] EXCEPT !.pc = "membership", !.target = t, !.need = need]
  BY <1>1 DEF TxRec
<1>6. /\ rec.pc = "membership" /\ rec.need = need /\ rec.op = "rotate" /\ rec.session = s
      /\ rec.target = t
  BY <1>0, <1>1, <1>5 DEF TxRec
<1>7. Continue(p, rec) /\ time' = time
  BY <1>1, <1>2, <1>3, <1>4, <1>5 DEF LoadTarget
<1>8. tx'[p] = rec /\ sessions' = sessions /\ Owns(p, a)' /\ Claims(p, a)'
  BY <1>0, <1>1, <1>7, RotateMoves
<1>9. ASSUME NEW x \in Membership, t = x PROVE AccountOf[x] = a /\ Reads(p, x)'
  <2>1. AccountOf[m] = a /\ Authorizes(m) /\ x = m
    <3>1. x # None
      BY <1>0, SessionTypes
    <3>. QED  BY <1>3, <1>9, <3>1
  <2>. QED  BY <1>4, <1>6, <1>8, <2>1 DEF Reads
<1>10. RotateKnows(p, s, a)'
  BY <1>6, <1>8, <1>9 DEF RotateKnows
<1>11. TxKnows(p)'
  BY <1>1, <1>6, <1>8, <1>10, RotateOnly DEF Ids
<1>. QED  BY <1>0, <1>6, <1>7, <1>11, Continued

\* The invariant is kept by the check of that membership.
LEMMA CheckTargetStep ==
    ASSUME SessionAssumption, SessionInv, NEW p \in Proc, CheckTarget(p)
    PROVE  SessionInv'
<1>0. /\ DataTyped /\ TxTyped /\ tx[p].pc = "membership" /\ ~Waiting(p) /\ tx[p].op = "rotate"
  BY DEF SessionInv, CheckTarget, At
<1>1. PICK s \in Ids, a \in Account :
             /\ tx[p].session = s /\ sessions[s].account = a /\ RotateKnows(p, s, a)
             /\ a \in Row /\ SessionRow(s) \in Row /\ s \in 1..MaxRequests
             /\ sessions[s] \in SessionRec /\ tx[p] \in TxRec
  BY <1>0, Rotating
<1>2. /\ tx[p].target \in Membership \cup {None}
      /\ \A m \in Membership : tx[p].target = m => AccountOf[m] = a /\ Reads(p, m)
  BY <1>0, <1>1 DEF RotateKnows
<1>3. PICK t \in Membership \cup {None} :
        /\ t = IF tx[p].target # None /\ membership[tx[p].target] = "active"
               THEN tx[p].target ELSE None
        /\ t # None => t = tx[p].target /\ membership[t] = "active"
  BY <1>2
<1>4. PICK need \in Seq(Locks) :
        /\ need = ScopeLock(t)
        /\ \A c \in Condo : t \in Membership /\ CondoOf[t] = c => \E k \in DOMAIN need : need[k] = Share(c)
  BY <1>0, ScopeLockTyped
<1>5. PICK rec \in TxRec : rec = [tx[p] EXCEPT !.pc = "scope", !.target = t, !.need = need]
  BY <1>1 DEF TxRec
<1>6. /\ rec.pc = "scope" /\ rec.need = need /\ rec.op = "rotate" /\ rec.session = s
      /\ rec.target = t
  BY <1>0, <1>1, <1>5 DEF TxRec
<1>7. Continue(p, rec) /\ time' = time
  BY <1>3, <1>4, <1>5 DEF CheckTarget
<1>8. /\ tx'[p] = rec /\ sessions' = sessions /\ membership' = membership /\ shared' = shared
      /\ Owns(p, a)' /\ Claims(p, a)'
  BY <1>0, <1>1, <1>7, RotateMoves
<1>9. TargetKnown(p, a)'
  <2>1. ASSUME NEW m \in Membership, t = m
        PROVE  /\ AccountOf[m] = a /\ Shares(p, m)' /\ membership'[m] = "active"
               /\ \A c \in Condo : CondoOf[m] = c => Reads(p, c)'
    <3>1. m = tx[p].target /\ membership[m] = "active"
      BY <1>0, <1>3, <2>1, SessionTypes
    <3>2. AccountOf[m] = a /\ Shares(p, m)
      BY <1>0, <1>2, <3>1, AtOwns, SessionTypes
    <3>3. \A c \in Condo : CondoOf[m] = c => Reads(p, c)'
      BY <1>4, <1>6, <1>8, <2>1 DEF Reads
    <3>. QED  BY <1>8, <3>1, <3>2, <3>3 DEF Shares
  <2>. QED  BY <1>6, <1>8, <2>1 DEF TargetKnown
<1>10. RotateKnows(p, s, a)'
  BY <1>6, <1>8, <1>9 DEF RotateKnows
<1>11. TxKnows(p)'
  BY <1>1, <1>6, <1>8, <1>10, RotateOnly DEF Ids
<1>. QED  BY <1>0, <1>6, <1>7, <1>11, Continued

-----------------------------------------------------------------------------
(* A request is received.                                                  *)

LEMMA OneLock ==
    ASSUME NEW x \in Row, NEW p \in Proc
    PROVE  /\ <<Update(x)>> \in Seq(Locks)
           /\ tx'[p].need = <<Update(x)>> => Claims(p, x)'
<1>1. Update(x) \in Locks
  BY DEF Update, Locks
<1>2. <<Update(x)>> \in Seq(Locks) /\ 1 \in DOMAIN <<Update(x)>> /\ <<Update(x)>>[1] = Update(x)
  BY <1>1
<1>. QED  BY <1>2 DEF Claims

\* The begin of a request writes no session, handoff or intent.
LEMMA BegunSame ==
    ASSUME SessionInv, NEW p \in Proc, NEW op, NEW rec, Begin(p, op, rec)
    PROVE  /\ tx'[p] = rec /\ op \in scenario.requests
           /\ sessions' = sessions /\ handoffs' = handoffs /\ intents' = intents
BY DEF SessionInv, TxTyped, Begin, data

\* The invariant is kept by the begin of an issuance.
LEMMA BeginIssueStep ==
    ASSUME SessionAssumption, SessionInv, NEW p \in Proc,
           NEW h \in 1..Len(handoffs), NEW old \in 0..Len(sessions), BeginIssue(p, h, old)
    PROVE  SessionInv'
<1>0. DataTyped /\ TxTyped /\ CountsOK
  BY DEF SessionInv
<1>1. /\ HandoffRow(h) \in Row /\ h \in 0..MaxHandoffs /\ old \in 0..MaxRequests
      /\ "issue" \in Kinds
  BY <1>0, SessionTypes, Counted DEF Kinds
<1>2. PICK a \in Account : a = handoffs[h].account
  BY <1>0, SessionTypes DEF HandoffRec
<1>3. PICK rec \in TxRec :
        rec = [Idle EXCEPT !.pc = "handoff", !.op = "issue", !.handoff = h,
                       !.session = old, !.need = <<Update(HandoffRow(h))>>]
  BY <1>1, IdleTyped, OneLock DEF TxRec
<1>4. /\ rec.pc = "handoff" /\ rec.op = "issue" /\ rec.handoff = h /\ rec.session = old
      /\ rec.need = <<Update(HandoffRow(h))>>
  BY <1>3 DEF Idle
<1>5. Begin(p, "issue", rec)
  BY <1>3 DEF BeginIssue
<1>6. tx'[p] = rec /\ sessions' = sessions /\ handoffs' = handoffs
  BY <1>5, BegunSame
<1>7. IssueKnows(p, h, old, a)' /\ ReplaceKnows(p, h, old, a)'
  <2>1. Claims(p, HandoffRow(h))'
    BY <1>1, <1>4, <1>6, OneLock
  <2>. QED  BY <1>4, <1>6, <2>1 DEF IssueKnows, ReplaceKnows
<1>8. TxKnows(p)'
  BY <1>2, <1>4, <1>6, <1>7, IssueOnly
<1>. QED  BY <1>1, <1>4, <1>5, <1>8, Begun

\* The invariant is kept by the begin of a rotation.
LEMMA BeginRotateStep ==
    ASSUME SessionAssumption, SessionInv, NEW p \in Proc,
           NEW s \in Ids, NEW m \in Membership, BeginRotate(p, s, m)
    PROVE  SessionInv'
<1>0. DataTyped /\ TxTyped /\ CountsOK
  BY DEF SessionInv
<1>1. s \in 0..MaxRequests /\ "rotate" \in Kinds
  BY <1>0, Counted, SessionTypes DEF Kinds, Ids
<1>2. PICK a \in Account : a = sessions[s].account /\ a \in Row
  BY <1>0, SessionTypes DEF SessionRec
<1>3. PICK rec \in TxRec :
        rec = [Idle EXCEPT !.pc = "account", !.op = "rotate", !.session = s,
                           !.target = m, !.need = <<Update(a)>>]
  BY <1>1, <1>2, IdleTyped, OneLock DEF TxRec
<1>4. /\ rec.pc = "account" /\ rec.op = "rotate" /\ rec.session = s /\ rec.target = m
      /\ rec.need = <<Update(a)>>
  BY <1>3 DEF Idle
<1>5. Begin(p, "rotate", rec)
  BY <1>2, <1>3 DEF BeginRotate
<1>6. tx'[p] = rec /\ sessions' = sessions
  BY <1>5, BegunSame
<1>7. RotateKnows(p, s, a)'
  <2>1. Claims(p, a)'
    BY <1>2, <1>4, <1>6, OneLock
  <2>. QED  BY <1>4, <1>6, <2>1 DEF RotateKnows
<1>8. TxKnows(p)'
  BY <1>2, <1>4, <1>6, <1>7, RotateOnly DEF Ids
<1>. QED  BY <1>1, <1>4, <1>5, <1>8, Begun

\* Nothing but what a logout answered, the families that are over and the count of the
\* requests changes, or rows are added by nobody's transaction.
LEMMA Stood ==
    ASSUME SessionAssumption, SessionInv, tx' = tx, owned' = owned, shared' = shared,
           time' = time, scenario' = scenario,
           requests' = requests \/ (requests' = requests + 1 /\ requests < MaxRequests),
           RowsKept, HandoffsKept, IntentsKept, DataTyped', DataInv',
           Len(sessions') = Len(sessions), Len(intents') = Len(intents),
           Len(handoffs') <= MaxHandoffs,
           \A u \in Proc : LocksRespected(u)
    PROVE  SessionInv'
<1>1. DataTyped /\ TxTyped /\ CountsOK /\ LocksOK /\ IssuedOK /\ \A u \in Proc : TxKnows(u)
  BY DEF SessionInv, DataInv
<1>2. ASSUME NEW u \in Proc PROVE TxKnows(u)'
  <2>1. ASSUME NEW x \in Row
        PROVE  /\ Owns(u, x) => Owns(u, x)'
               /\ Claims(u, x) => Claims(u, x)'
               /\ Shares(u, x) => Shares(u, x)'
               /\ Reads(u, x) => Reads(u, x)'
    BY DEF Owns, Claims, Shares, Reads
  <2>2. Spares(u)
    BY <2>1 DEF Spares, TxSame
  <2>. QED  BY <1>1, <2>2, TxKept
<1>3. /\ requests \in 0..MaxRequests /\ MaxRequests \in Nat
      /\ Len(sessions) \in Nat /\ Cardinality(Inserting) \in Nat
  BY <1>1, SessionTypes, Counted DEF TxTyped
<1>4. TxTyped'
  <2>1. requests' \in 0..MaxRequests
    BY <1>3
  <2>. QED  BY <1>1, <2>1 DEF TxTyped
<1>5. LocksOK'
  BY <1>1 DEF LocksOK
<1>6. CountsOK'
  <2>1. Inserting' = Inserting /\ Asking' = Asking
    BY DEF Inserting, Asking
  <2>2. Len(sessions) + Cardinality(Inserting) <= requests'
    BY <1>1, <1>3 DEF CountsOK
  <2>. QED  BY <1>1, <2>1, <2>2 DEF CountsOK
<1>. QED  BY <1>2, <1>4, <1>5, <1>6 DEF SessionInv

\* Steps of the environment that touch no row a transaction knows of leave the invariant.
LEMMA RegistryStood ==
    ASSUME SessionAssumption, SessionInv, tx' = tx, owned' = owned, shared' = shared,
           sessions' = sessions, handoffs' = handoffs, intents' = intents,
           status' = status, version' = version, updated' = updated,
           membership' = membership, closed' = closed, time' = time, scenario' = scenario,
           over' \subseteq 1..MaxRequests, left' \subseteq (1..MaxRequests) \X {"live", "revoked"},
           requests' = requests \/ (requests' = requests + 1 /\ requests < MaxRequests)
    PROVE  SessionInv'
<1>0. DataTyped /\ TxTyped /\ DataInv /\ CountsOK
  BY DEF SessionInv
<1>1. /\ FamiliesOK' /\ ClockOK' /\ OneLivePerFamily' /\ UnrevokedIsCurrent'
      /\ LoggedInAfter' /\ RowsKept
  BY RegistrySame
<1>2. IssuedOK' /\ OneSessionPerHandoff'
  BY <1>0 DEF DataInv, IssuedOK, OneSessionPerHandoff, Ids
<1>3. DataTyped'
  BY <1>0 DEF DataTyped
<1>4. HandoffsKept /\ IntentsKept
  BY <1>0, SessionTypes DEF HandoffsKept, IntentsKept
<1>5. \A u \in Proc : LocksRespected(u)
  BY DEF LocksRespected, Ids
<1>6. DataInv' /\ Len(handoffs') <= MaxHandoffs
  BY <1>0, <1>1, <1>2 DEF DataInv, CountsOK
<1>. QED  BY <1>1, <1>3, <1>4, <1>5, <1>6, Stood

\* What a request of a session starts with.
LEMMA SessionBegun ==
    ASSUME SessionAssumption, SessionInv, NEW p \in Proc, NEW s \in Ids
    PROVE  /\ s \in 0..MaxRequests /\ SessionRow(s) \in Row
           /\ \E a \in Account : sessions[s].account = a /\ a \in Row
<1>1. DataTyped /\ TxTyped /\ CountsOK
  BY DEF SessionInv
<1>2. s \in 1..MaxRequests
  BY <1>1, Counted
<1>3. sessions[s].account \in Account
  BY <1>1, SessionTypes DEF SessionRec
<1>. QED  BY <1>1, <1>2, <1>3, SessionTypes

\* The invariant is kept by the begin of a logout.
LEMMA BeginLogoutStep ==
    ASSUME SessionAssumption, SessionInv, NEW p \in Proc, NEW s \in Ids, BeginLogout(p, s)
    PROVE  SessionInv'
<1>0. DataTyped /\ TxTyped /\ CountsOK
  BY DEF SessionInv
<1>1. CASE Begin(p, "logout", [Idle EXCEPT !.pc = "lock", !.op = "logout", !.session = s,
                                           !.need = <<Update(SessionRow(s))>>])
  <2>1. PICK a \in Account : sessions[s].account = a
    BY SessionBegun
  <2>2. s \in 0..MaxRequests /\ SessionRow(s) \in Row /\ "logout" \in Kinds
    BY SessionBegun DEF Kinds
  <2>3. PICK rec \in TxRec :
          rec = [Idle EXCEPT !.pc = "lock", !.op = "logout", !.session = s,
                             !.need = <<Update(SessionRow(s))>>]
    BY <2>2, IdleTyped, OneLock DEF TxRec
  <2>4. rec.pc = "lock" /\ rec.op = "logout" /\ rec.session = s
    BY <2>3 DEF Idle
  <2>5. Begin(p, "logout", rec)
    BY <1>1, <2>3
  <2>6. tx'[p] = rec /\ sessions' = sessions
    BY <2>5, BegunSame
  <2>7. SessionKnows(p, s, a)'
    BY <2>4, <2>6 DEF SessionKnows
  <2>8. TxKnows(p)'
    BY <2>1, <2>4, <2>6, <2>7, SessionOnly DEF Ids
  <2>. QED  BY <2>2, <2>4, <2>5, <2>8, Begun
<1>2. CASE /\ "logout" \in scenario.requests /\ tx[p].pc = "idle" /\ requests < scenario.served
           /\ sessions[s].state = "revoked"
           /\ left' = left \cup {<<sessions[s].family, "revoked">>} /\ requests' = requests + 1
           /\ UNCHANGED <<sessions, intents, handoffs, status, version, updated, membership,
                          closed, over, time, tx, owned, shared, scenario>>
  <2>1. sessions[s].family \in 1..MaxRequests
    BY <1>0, SessionTypes DEF SessionRec
  <2>2. left' \subseteq (1..MaxRequests) \X {"live", "revoked"} /\ over' \subseteq 1..MaxRequests
    BY <1>0, <1>2, <2>1 DEF DataTyped
  <2>3. requests < MaxRequests
    BY <1>0, <1>2, SessionTypes DEF TxTyped
  <2>. QED  BY <1>2, <2>2, <2>3, RegistryStood
<1>. QED  BY <1>1, <1>2 DEF BeginLogout

\* The invariant is kept by the begin of a logout of all.
LEMMA BeginLogoutAllStep ==
    ASSUME SessionAssumption, SessionInv, NEW p \in Proc, NEW s \in Ids, BeginLogoutAll(p, s)
    PROVE  SessionInv'
<1>1. PICK a \in Account : sessions[s].account = a /\ a \in Row
  BY SessionBegun
<1>2. s \in 0..MaxRequests /\ "logoutAll" \in Kinds
  BY SessionBegun DEF Kinds
<1>3. PICK rec \in TxRec :
        rec = [Idle EXCEPT !.pc = "account", !.op = "logoutAll", !.session = s,
                           !.need = <<Update(a)>>]
  BY <1>1, <1>2, IdleTyped, OneLock DEF TxRec
<1>4. rec.pc = "account" /\ rec.op = "logoutAll" /\ rec.session = s /\ rec.need = <<Update(a)>>
  BY <1>3 DEF Idle
<1>5. Begin(p, "logoutAll", rec)
  BY <1>1, <1>3 DEF BeginLogoutAll
<1>6. tx'[p] = rec /\ sessions' = sessions
  BY <1>5, BegunSame
<1>7. SessionKnows(p, s, a)'
  <2>1. Claims(p, a)'
    BY <1>1, <1>4, <1>6, OneLock
  <2>. QED  BY <1>4, <1>6, <2>1 DEF SessionKnows
<1>8. TxKnows(p)'
  BY <1>1, <1>4, <1>6, <1>7, SessionOnly DEF Ids
<1>. QED  BY <1>2, <1>4, <1>5, <1>8, Begun

\* The invariant is kept by the begin of an authenticated request.
LEMMA BeginTouchStep ==
    ASSUME SessionAssumption, SessionInv, NEW p \in Proc, NEW s \in Ids, BeginTouch(p, s)
    PROVE  SessionInv'
<1>1. PICK a \in Account : sessions[s].account = a
  BY SessionBegun
<1>2. s \in 0..MaxRequests /\ SessionRow(s) \in Row /\ "touch" \in Kinds
  BY SessionBegun DEF Kinds
<1>3. PICK rec \in TxRec :
        rec = [Idle EXCEPT !.pc = "touch", !.op = "touch", !.session = s,
                           !.need = <<Update(SessionRow(s))>>]
  BY <1>2, IdleTyped, OneLock DEF TxRec
<1>4. rec.pc = "touch" /\ rec.op = "touch" /\ rec.session = s
  BY <1>3 DEF Idle
<1>5. Begin(p, "touch", rec)
  BY <1>3 DEF BeginTouch
<1>6. tx'[p] = rec /\ sessions' = sessions
  BY <1>5, BegunSame
<1>7. SessionKnows(p, s, a)'
  BY <1>4, <1>6 DEF SessionKnows
<1>8. TxKnows(p)'
  BY <1>1, <1>4, <1>6, <1>7, SessionOnly DEF Ids
<1>. QED  BY <1>2, <1>4, <1>5, <1>8, Begun

\* The invariant is kept by the begin of the disabling of a membership.
LEMMA BeginDisableStep ==
    ASSUME SessionAssumption, SessionInv, NEW p \in Proc, NEW m \in Membership, BeginDisable(p, m)
    PROVE  SessionInv'
<1>1. m \in Row /\ "disable" \in Kinds
  BY SessionTypes DEF Kinds, SessionInv
<1>2. PICK rec \in TxRec :
        rec = [Idle EXCEPT !.pc = "lock", !.op = "disable", !.target = m, !.need = <<Update(m)>>]
  BY <1>1, IdleTyped, OneLock DEF TxRec
<1>3. rec.pc = "lock" /\ rec.op = "disable" /\ rec.target = m /\ rec.need = <<Update(m)>>
  BY <1>2 DEF Idle
<1>4. Begin(p, "disable", rec)
  BY <1>2 DEF BeginDisable
<1>5. tx'[p] = rec
  BY <1>4, BegunSame
<1>6. DisableKnows(p, m)'
  <2>1. Claims(p, m)'
    BY <1>1, <1>3, <1>5, OneLock
  <2>. QED  BY <1>3, <1>5, <2>1 DEF DisableKnows
<1>7. TxKnows(p)'
  BY <1>3, <1>5, <1>6, BarOnly
<1>. QED  BY <1>1, <1>3, <1>4, <1>7, Begun

\* The invariant is kept by the begin of a change of status.
LEMMA BeginSetStatusStep ==
    ASSUME SessionAssumption, SessionInv, NEW p \in Proc, NEW a \in Account,
           NEW new \in {"suspended", "disabled"}, BeginSetStatus(p, a, new)
    PROVE  SessionInv'
<1>1. a \in Row /\ new \in Kinds
  BY SessionTypes DEF Kinds, SessionInv
<1>2. PICK rec \in TxRec :
        rec = [Idle EXCEPT !.pc = "account", !.op = new, !.target = a, !.need = <<Update(a)>>]
  BY <1>1, IdleTyped, OneLock DEF TxRec
<1>3. rec.pc = "account" /\ rec.op = new /\ rec.target = a /\ rec.need = <<Update(a)>>
  BY <1>2 DEF Idle
<1>4. Begin(p, new, rec)
  BY <1>2 DEF BeginSetStatus
<1>5. tx'[p] = rec
  BY <1>4, BegunSame
<1>6. StatusKnows(p, a)'
  <2>1. Claims(p, a)'
    BY <1>1, <1>3, <1>5, OneLock
  <2>. QED  BY <1>3, <1>5, <2>1 DEF StatusKnows
<1>7. TxKnows(p)'
  BY <1>3, <1>5, <1>6, BarOnly
<1>. QED  BY <1>1, <1>3, <1>4, <1>7, Begun

\* The invariant is kept by the begin of the disabling of a condominium.
LEMMA BeginCloseStep ==
    ASSUME SessionAssumption, SessionInv, NEW p \in Proc, NEW c \in Condo, BeginClose(p, c)
    PROVE  SessionInv'
<1>1. c \in Row /\ "close" \in Kinds
  BY SessionTypes DEF Kinds, SessionInv
<1>2. PICK rec \in TxRec :
        rec = [Idle EXCEPT !.pc = "lock", !.op = "close", !.target = c, !.need = <<Update(c)>>]
  BY <1>1, IdleTyped, OneLock DEF TxRec
<1>3. rec.pc = "lock" /\ rec.op = "close" /\ rec.target = c /\ rec.need = <<Update(c)>>
  BY <1>2 DEF Idle
<1>4. Begin(p, "close", rec)
  BY <1>2 DEF BeginClose
<1>5. tx'[p] = rec
  BY <1>4, BegunSame
<1>6. CloseKnows(p, c)'
  <2>1. Claims(p, c)'
    BY <1>1, <1>3, <1>5, OneLock
  <2>. QED  BY <1>3, <1>5, <2>1 DEF CloseKnows
<1>7. TxKnows(p)'
  BY <1>3, <1>5, <1>6, BarOnly
<1>. QED  BY <1>1, <1>3, <1>4, <1>7, Begun

\* The invariant is kept by the begin of a new membership.
LEMMA BeginMemberStep ==
    ASSUME SessionAssumption, SessionInv, NEW p \in Proc, NEW m \in Membership, BeginMember(p, m)
    PROVE  SessionInv'
<1>0. DataTyped /\ TxTyped
  BY DEF SessionInv
<1>1. "member" \in Kinds
  BY DEF Kinds
<1>2. PICK need \in Seq(Locks) : need = ScopeLock(m)
  BY <1>0, ScopeLockTyped
<1>3. PICK rec \in TxRec :
        rec = [Idle EXCEPT !.pc = "insert", !.op = "member", !.target = m, !.need = need]
  BY <1>1, IdleTyped DEF TxRec
<1>4. rec.pc = "insert" /\ rec.op = "member" /\ rec.target = m
  BY <1>3 DEF Idle
<1>5. Begin(p, "member", rec)
  BY <1>2, <1>3 DEF BeginMember
<1>6. tx'[p] = rec
  BY <1>5, BegunSame
<1>7. TxKnows(p)'
  BY <1>4, <1>6, BarOnly
<1>. QED  BY <1>1, <1>4, <1>5, <1>7, Begun

\* A reauthentication is asked for, or its intent redeemed: nothing is counted as a request.
LEMMA ReauthBegun ==
    ASSUME SessionAssumption, SessionInv, NEW p \in Proc, NEW s \in Ids,
           NEW pc \in {"intent", "start"}, NEW i \in 0..Len(intents),
           pc = "start" => i # 0,
           pc = "intent" => Len(intents) + Cardinality(Asking) + 1 <= MaxHandoffs,
           Reauthentication(p, pc, s, i)
    PROVE  SessionInv'
<1>0. DataTyped /\ TxTyped /\ CountsOK /\ LocksOK
  BY DEF SessionInv
<1>1. PICK a \in Account : sessions[s].account = a
  BY SessionBegun
<1>2. s \in 0..MaxRequests /\ SessionRow(s) \in Row /\ "reauth" \in Kinds /\ i \in 0..MaxHandoffs
  <2>1. i \in 0..MaxHandoffs
    BY <1>0, Counted, SessionTypes
  <2>. QED  BY <2>1, SessionBegun DEF Kinds
<1>3. PICK rec \in TxRec :
        rec = [Idle EXCEPT !.pc = pc, !.op = "reauth", !.session = s, !.intent = i,
                           !.need = <<Update(SessionRow(s))>>]
  BY <1>2, IdleTyped, OneLock DEF TxRec
<1>4. rec.pc = pc /\ rec.op = "reauth" /\ rec.session = s /\ rec.intent = i
  BY <1>3 DEF Idle
<1>5. /\ tx' = [tx EXCEPT ![p] = rec] /\ UNCHANGED data
      /\ owned' = owned /\ shared' = shared /\ requests' = requests /\ scenario' = scenario
      /\ time' = time /\ tx[p].pc = "idle"
  BY <1>3 DEF Reauthentication
<1>6. /\ tx'[p] = rec /\ tx' \in [Proc -> TxRec]
      /\ \A u \in Proc \ {p} : tx'[u] = tx[u] /\ TxKnows(u)'
  BY <1>5, OthersKept
<1>7. time' \in Nat /\ time' >= 1
  BY <1>5 DEF SessionInv, TxTyped, DataInv, ClockOK
<1>8. /\ DataTyped' /\ DataInv' /\ sessions' = sessions /\ intents' = intents /\ handoffs' = handoffs
  BY <1>5, <1>7, DataSame
<1>9. TxTyped'
  BY <1>0, <1>5, <1>6, <1>7 DEF TxTyped
<1>10. LocksOK'
  BY <1>0, <1>4, <1>5, <1>6 DEF LocksOK
<1>11. SessionKnows(p, s, a)'
  <2>1. pc = "start" => i \in 1..Len(intents)
    BY <1>0, SessionTypes
  <2>. QED  BY <1>4, <1>6, <1>8, <2>1 DEF SessionKnows
<1>12. TxKnows(p)'
  BY <1>1, <1>4, <1>6, <1>8, <1>11, SessionOnly DEF Ids
<1>13. CountsOK'
  <2>1. /\ Inserting' \in SUBSET Inserting
        /\ pc = "start" => Asking' \in SUBSET Asking
        /\ Asking' \in SUBSET (Asking \cup {p})
    BY <1>4, <1>6 DEF Inserting, Asking
  <2>2. /\ Inserting \in SUBSET Proc /\ Asking \in SUBSET Proc
        /\ Cardinality(Inserting) \in Nat /\ Cardinality(Asking) \in Nat
    BY <1>0, Counted
  <2>3. Cardinality(Inserting') \in Nat /\ Cardinality(Inserting') <= Cardinality(Inserting)
    BY <2>1, <2>2, Finite
  <2>4. /\ Cardinality(Asking \cup {p}) \in Nat
        /\ Cardinality(Asking \cup {p}) <= Cardinality(Asking) + 1
    BY <2>2, Finite
  <2>5. /\ Cardinality(Asking') \in Nat
        /\ Cardinality(Asking') <= Cardinality(Asking \cup {p})
    <3>1. Asking \cup {p} \in SUBSET Proc
      BY <2>2
    <3>. QED  BY <2>1, <3>1, Finite
  <2>6. pc = "start" => Cardinality(Asking') <= Cardinality(Asking)
    BY <2>1, <2>2, Finite
  <2>7. /\ Len(sessions) \in Nat /\ Len(intents) \in Nat /\ MaxHandoffs \in Nat /\ requests \in Nat
    BY <1>0, SessionTypes DEF TxTyped
  <2>8. /\ Len(sessions) + Cardinality(Inserting) <= requests
        /\ Len(intents) + Cardinality(Asking) <= MaxHandoffs /\ Len(handoffs) <= MaxHandoffs
    BY <1>0 DEF CountsOK
  <2>9. Len(sessions) + Cardinality(Inserting') <= requests
    BY <2>2, <2>3, <2>7, <2>8
  <2>10. Len(intents) + Cardinality(Asking') <= MaxHandoffs
    <3>1. CASE pc = "start"
      BY <2>2, <2>5, <2>6, <2>7, <2>8, <3>1
    <3>2. CASE pc = "intent"
      BY <2>2, <2>4, <2>5, <2>7, <3>2
    <3>. QED  BY <3>1, <3>2
  <2>. QED  BY <1>5, <1>8, <2>8, <2>9, <2>10 DEF CountsOK
<1>. QED  BY <1>6, <1>8, <1>9, <1>10, <1>12, <1>13 DEF SessionInv

\* The invariant is kept by the begin of a reauthentication intent.
LEMMA BeginReauthStep ==
    ASSUME SessionAssumption, SessionInv, NEW p \in Proc, NEW s \in Ids, BeginReauth(p, s)
    PROVE  SessionInv'
<1>0. DataTyped /\ TxTyped /\ CountsOK
  BY DEF SessionInv
<1>1. Len(intents) + Cardinality(Asking) + 1 <= MaxHandoffs
  <2>1. /\ Len(intents) \in Nat /\ MaxHandoffs \in Nat /\ Cardinality(Asking) \in Nat
        /\ scenario.handoffs \in 0..MaxHandoffs
    BY <1>0, SessionTypes, Counted
  <2>2. Len(intents) + Cardinality(Asking) + 1 < scenario.handoffs
    BY DEF BeginReauth, Asking
  <2>. QED  BY <2>1, <2>2
<1>2. 0 \in 0..Len(intents)
  BY <1>0, SessionTypes
<1>3. Reauthentication(p, "intent", s, 0)
  BY DEF BeginReauth
<1>. QED  BY <1>1, <1>2, <1>3, ReauthBegun

\* The invariant is kept by the begin of the start of a reauthentication.
LEMMA BeginStartStep ==
    ASSUME SessionAssumption, SessionInv, NEW p \in Proc, NEW s \in Ids, NEW i \in 1..Len(intents),
           BeginStart(p, s, i)
    PROVE  SessionInv'
<1>1. i \in 0..Len(intents) /\ i # 0
  OBVIOUS
<1>2. Reauthentication(p, "start", s, i)
  BY DEF BeginStart
<1>. QED  BY <1>1, <1>2, ReauthBegun

-----------------------------------------------------------------------------
(* A logout of all sessions, and what bars an account.                     *)

\* What the invariant gives of a request of a session that ends or extends sessions.
LEMMA OfSession ==
    ASSUME SessionAssumption, SessionInv, NEW p \in Proc,
           tx[p].op \in {"logout", "logoutAll", "touch", "reauth"}
    PROVE  \E s \in Ids, a \in Account :
             /\ tx[p].session = s /\ sessions[s].account = a /\ SessionKnows(p, s, a)
             /\ a \in Row /\ SessionRow(s) \in Row /\ s \in 1..MaxRequests
             /\ sessions[s] \in SessionRec /\ tx[p] \in TxRec
             /\ tx[p].pc = "write" => SessionsClaimed(p)
<1>0. DataTyped /\ TxTyped /\ CountsOK /\ TxKnows(p)
  BY DEF SessionInv
<1>1. PICK s \in Ids, a \in Account :
         tx[p].session = s /\ sessions[s].account = a /\ SessionKnows(p, s, a)
  BY <1>0 DEF TxKnows
<1>2. s \in 1..MaxRequests
  BY <1>0, Counted
<1>3. tx[p].pc = "write" => SessionsClaimed(p)
  BY <1>0 DEF TxKnows
<1>. QED  BY <1>0, <1>1, <1>2, <1>3, SessionTypes

\* A transaction that goes on keeps the exclusive locks it has.
LEMMA Moves ==
    ASSUME SessionInv, NEW p \in Proc, NEW rec, Continue(p, rec)
    PROVE  /\ tx'[p] = rec /\ sessions' = sessions /\ owned' = owned
           /\ \A x : Owns(p, x) => Owns(p, x)' /\ Claims(p, x)'
BY DEF SessionInv, TxTyped, Continue, data, Owns, Claims

\* The invariant is kept by the lock of the session that asks for a logout of all.
LEMMA LogoutAllSessionStep ==
    ASSUME SessionAssumption, SessionInv, NEW p \in Proc, LogoutAllSession(p)
    PROVE  SessionInv'
<1>0. /\ DataTyped /\ TxTyped /\ tx[p].pc = "account" /\ ~Waiting(p) /\ tx[p].op = "logoutAll"
  BY DEF SessionInv, LogoutAllSession, At
<1>1. PICK s \in Ids, a \in Account :
             /\ tx[p].session = s /\ sessions[s].account = a /\ SessionKnows(p, s, a)
             /\ a \in Row /\ SessionRow(s) \in Row /\ s \in 1..MaxRequests
             /\ sessions[s] \in SessionRec /\ tx[p] \in TxRec
  BY <1>0, OfSession
<1>2. Owns(p, a)
  BY <1>0, <1>1, AtOwns DEF SessionKnows
<1>3. PICK rec \in TxRec :
        rec = [tx[p] EXCEPT !.pc = "lock", !.need = <<Update(SessionRow(s))>>]
  BY <1>1, OneLock DEF TxRec
<1>4. rec.pc = "lock" /\ rec.op = "logoutAll" /\ rec.session = s
  BY <1>0, <1>1, <1>3 DEF TxRec
<1>5. Continue(p, rec) /\ time' = time
  BY <1>1, <1>3 DEF LogoutAllSession
<1>6. tx'[p] = rec /\ sessions' = sessions /\ Owns(p, a)' /\ Claims(p, a)'
  BY <1>2, <1>5, Moves
<1>7. SessionKnows(p, s, a)'
  BY <1>4, <1>6 DEF SessionKnows
<1>8. TxKnows(p)'
  BY <1>1, <1>4, <1>6, <1>7, SessionOnly DEF Ids
<1>. QED  BY <1>0, <1>4, <1>5, <1>8, Continued

\* The invariant is kept by the update of the account and its memberships.
LEMMA SetStatusMembersStep ==
    ASSUME SessionAssumption, SessionInv, NEW p \in Proc, SetStatusMembers(p)
    PROVE  SessionInv'
<1>0. /\ DataTyped /\ TxTyped /\ ClockOK /\ tx[p].pc = "account" /\ ~Waiting(p)
      /\ tx[p].op \in {"suspended", "disabled"} /\ TxKnows(p) /\ tx[p] \in TxRec /\ time \in Nat
  BY DEF SessionInv, DataInv, TxTyped, SetStatusMembers, At
<1>1. PICK a \in Account : tx[p].target = a /\ StatusKnows(p, a)
  BY <1>0 DEF TxKnows
<1>2. a \in Row
  BY <1>0, SessionTypes
<1>3. Owns(p, a)
  BY <1>1, <1>0, <1>2, AtOwns DEF StatusKnows
<1>4. CASE status[a] = "disabled"
  BY <1>1, <1>4, RolledBack DEF SetStatusMembers
<1>5. CASE status[a] # "disabled"
  <2>1. PICK S \in SUBSET Membership :
          /\ \A m \in S : AccountOf[m] = a
          /\ \E q \in Listings(S) :
               Continue(p, [tx[p] EXCEPT !.pc = "lock", !.at = time, !.members = Range(q),
                                         !.need = [k \in DOMAIN q |-> Update(q[k])]])
          /\ time' = time + 1
    <3> DEFINE M == {m \in Membership : AccountOf[m] = tx[p].target /\ membership[m] = "active"}
               S == IF tx[p].op = "disabled" THEN M ELSE {}
    <3>1. /\ \E q \in Listings(S) :
               Continue(p, [tx[p] EXCEPT !.pc = "lock", !.at = time, !.members = Range(q),
                                         !.need = [k \in DOMAIN q |-> Update(q[k])]])
          /\ time' = time + 1
      <4>1. status[tx[p].target] # "disabled"
        BY <1>1, <1>5
      <4>. QED  BY <4>1, Zenon DEF SetStatusMembers
    <3>2. S \in SUBSET Membership /\ \A m \in S : AccountOf[m] = a
      BY <1>1
    <3> HIDE DEF S
    <3>. QED  BY <3>1, <3>2
  <2>2. PICK q \in Listings(S) :
          Continue(p, [tx[p] EXCEPT !.pc = "lock", !.at = time, !.members = Range(q),
                                    !.need = [k \in DOMAIN q |-> Update(q[k])]])
    BY <2>1
  <2>3. S \in SUBSET Row /\ IsFiniteSet(S)
    BY <1>0, SessionTypes, FS_Subset DEF SessionAssumption
  <2>4. PICK need \in Seq(Locks) :
          /\ need = [k \in DOMAIN q |-> Update(q[k])] /\ Range(q) = S
          /\ \A m \in S : \E k \in DOMAIN need : need[k] = Update(m)
    <3>0. q \in Listings(S)
      OBVIOUS
    <3>1. /\ [k \in DOMAIN q |-> Update(q[k])] \in Seq(Locks) /\ Range(q) = S
          /\ \A m \in S : \E k \in DOMAIN q : q[k] = m
      BY ONLY <2>3, <3>0, Listed
    <3>2. \A m \in S : \E k \in DOMAIN [j \in DOMAIN q |-> Update(q[j])] :
             [j \in DOMAIN q |-> Update(q[j])][k] = Update(m)
      BY <3>1
    <3>. QED  BY <3>1, <3>2
  <2>5. PICK rec \in TxRec :
          rec = [tx[p] EXCEPT !.pc = "lock", !.at = time, !.members = S, !.need = need]
    BY <1>0 DEF TxRec
  <2>6. /\ rec.pc = "lock" /\ rec.need = need /\ rec.op = tx[p].op /\ rec.target = a
        /\ rec.members = S /\ rec.at = time
    BY <1>0, <1>1, <2>5 DEF TxRec
  <2>7. Continue(p, rec) /\ time' = time + 1
    BY <2>1, <2>2, <2>4, <2>5
  <2>8. tx'[p] = rec /\ Owns(p, a)' /\ Claims(p, a)'
    BY <1>3, <2>7, Moves
  <2>9. \A m \in S : AccountOf[m] = a /\ Claims(p, m)'
    BY <2>1, <2>4, <2>6, <2>8 DEF Claims
  <2>10. StatusKnows(p, a)'
    BY <1>0, <2>6, <2>8, <2>9 DEF StatusKnows, ClockOK
  <2>11. TxKnows(p)'
    BY <1>0, <2>6, <2>8, <2>10, BarOnly
  <2>. QED  BY <1>0, <2>6, <2>7, <2>11, Continued
<1>. QED  BY <1>4, <1>5

-----------------------------------------------------------------------------
(* The statement that revokes, and the commit.                             *)

LEMMA DoomedIs ==
    ASSUME SessionAssumption, NEW p \in Proc
    PROVE  /\ Doomed(p) \in SUBSET Ids
           /\ tx[p].op = "logoutAll" => Doomed(p) = OfAccount(sessions[tx[p].session].account)
           /\ tx[p].op = "disable" => Doomed(p) = OfMembership(tx[p].target)
           /\ tx[p].op = "close" => Doomed(p) = OfCondo(tx[p].target)
           /\ tx[p].op \in {"suspended", "disabled"} => Doomed(p) = OfAccount(tx[p].target)
<1>1. /\ \A x : /\ Family(x) \in SUBSET Ids /\ OfAccount(x) \in SUBSET Ids
                /\ OfMembership(x) \in SUBSET Ids /\ OfCondo(x) \in SUBSET Ids
  BY DEF Family, OfAccount, OfMembership, OfCondo, Unrevoked
<1>2. Doomed(p) \in SUBSET Ids
  <2>1. CASE tx[p].op = "logout"
    BY <1>1, <2>1 DEF Doomed
  <2>2. CASE tx[p].op = "logoutAll"
    BY <1>1, <2>2 DEF Doomed
  <2>3. CASE tx[p].op = "disable"
    BY <1>1, <2>3 DEF Doomed
  <2>4. CASE tx[p].op = "close"
    BY <1>1, <2>4 DEF Doomed
  <2>5. CASE tx[p].op \notin {"logout", "logoutAll", "disable", "close"}
    BY <1>1, <2>5 DEF Doomed
  <2>. QED  BY <2>1, <2>2, <2>3, <2>4, <2>5
<1>3. tx[p].op = "logoutAll" => Doomed(p) = OfAccount(sessions[tx[p].session].account)
  BY DEF Doomed
<1>4. tx[p].op = "disable" => Doomed(p) = OfMembership(tx[p].target)
  BY DEF Doomed
<1>5. tx[p].op = "close" => Doomed(p) = OfCondo(tx[p].target)
  BY DEF Doomed
<1>6. tx[p].op \in {"suspended", "disabled"} => Doomed(p) = OfAccount(tx[p].target)
  BY DEF Doomed
<1>. QED  BY <1>2, <1>3, <1>4, <1>5, <1>6

\* The invariant is kept by the statement that finds the sessions to revoke.
LEMMA FindSessionsStep ==
    ASSUME SessionAssumption, SessionInv, NEW p \in Proc, FindSessions(p)
    PROVE  SessionInv'
<1>0. /\ DataTyped /\ TxTyped /\ CountsOK /\ ClockOK /\ tx[p].pc = "lock" /\ ~Waiting(p)
      /\ TxKnows(p) /\ tx[p] \in TxRec /\ time \in Nat
  BY DEF SessionInv, DataInv, TxTyped, FindSessions, At
<1>1. tx[p].op \in {"logout", "logoutAll", "disable", "suspended", "disabled", "close"}
  BY <1>0, Statements
<1>2. PICK R \in SUBSET Ids : R = Doomed(p)
  BY DoomedIs
<1>3. R \in SUBSET (1..MaxRequests)
  BY <1>0, Counted
<1>4. PICK at \in Nat : /\ at = IF tx[p].op = "logoutAll" THEN time ELSE tx[p].at
                        /\ tx[p].op = "logoutAll" => at = time
                        /\ tx[p].op # "logoutAll" => at = tx[p].at
  BY <1>0 DEF TxRec
<1>5. PICK locks \in Orders(R) :
        Continue(p, [tx[p] EXCEPT !.pc = "write", !.revoke = R, !.need = locks, !.at = at])
  <2>1. PICK locks \in Orders(Doomed(p)) :
           Continue(p, [tx[p] EXCEPT !.pc = "write", !.revoke = Doomed(p), !.need = locks,
                                     !.at = IF tx[p].op = "logoutAll" THEN time ELSE @])
    BY DEF FindSessions
  <2>2. [tx[p] EXCEPT !.pc = "write", !.revoke = Doomed(p), !.need = locks,
                      !.at = IF tx[p].op = "logoutAll" THEN time ELSE @]
          = [tx[p] EXCEPT !.pc = "write", !.revoke = R, !.need = locks, !.at = at]
    BY <1>0, <1>2, <1>4 DEF TxRec
  <2>. QED  BY <1>2, <2>1, <2>2
<1>6. time' = time \/ time' = time + 1
  BY DEF FindSessions
<1>7. locks \in Seq(Locks) /\ \A x \in R : \E k \in DOMAIN locks : locks[k] = Update(SessionRow(x))
  BY <1>3, Ordered
<1>8. PICK rec \in TxRec :
        rec = [tx[p] EXCEPT !.pc = "write", !.revoke = R, !.need = locks, !.at = at]
  BY <1>0, <1>3, <1>7 DEF TxRec
<1>9. /\ rec.pc = "write" /\ rec.need = locks /\ rec.op = tx[p].op /\ rec.session = tx[p].session
      /\ rec.target = tx[p].target /\ rec.revoke = R /\ rec.at = at /\ rec.members = tx[p].members
  BY <1>0, <1>8 DEF TxRec
<1>10. Continue(p, rec)
  BY <1>5, <1>8
<1>11. /\ tx'[p] = rec /\ sessions' = sessions /\ owned' = owned
       /\ \A x : Owns(p, x) => Owns(p, x)' /\ Claims(p, x)'
  BY <1>10, Moves
<1>12. SessionsClaimed(p)'
  BY <1>7, <1>9, <1>11 DEF SessionsClaimed, Claims, Ids
<1>13. \A x : /\ OfAccount(x)' = OfAccount(x) /\ OfMembership(x)' = OfMembership(x)
              /\ OfCondo(x)' = OfCondo(x)
  BY <1>11 DEF OfAccount, OfMembership, OfCondo, Unrevoked, Ids
<1>14. CASE tx[p].op \in {"logout", "logoutAll"}
  <2>1. PICK s \in Ids, a \in Account :
             /\ tx[p].session = s /\ sessions[s].account = a /\ SessionKnows(p, s, a)
             /\ a \in Row
    BY <1>14, OfSession
  <2>2. tx[p].op = "logoutAll" =>
          Owns(p, a)' /\ Claims(p, a)' /\ OfAccount(a)' \subseteq R /\ at >= 1
    <3>1. ASSUME tx[p].op = "logoutAll" PROVE Owns(p, a)
      BY <1>0, <2>1, <3>1 DEF SessionKnows
    <3>2. ASSUME tx[p].op = "logoutAll" PROVE R = OfAccount(a)
      BY <1>2, <2>1, <3>2, DoomedIs
    <3>3. ASSUME tx[p].op = "logoutAll" PROVE at >= 1
      BY <1>0, <1>4, <3>3 DEF ClockOK
    <3>. QED  BY <1>11, <1>13, <3>1, <3>2, <3>3
  <2>3. SessionKnows(p, s, a)'
    BY <1>9, <1>11, <1>14, <2>2 DEF SessionKnows
  <2>4. TxKnows(p)'
    BY <1>9, <1>11, <1>12, <1>14, <2>1, <2>3, SessionOnly DEF Ids
  <2>. QED  BY <1>0, <1>6, <1>9, <1>10, <2>4, Continued
<1>15. CASE tx[p].op = "disable"
  <2>1. PICK x \in Membership : tx[p].target = x /\ DisableKnows(p, x)
    BY <1>0, <1>15 DEF TxKnows
  <2>2. Owns(p, x)
    BY <1>0, <2>1, AtOwns, SessionTypes DEF DisableKnows
  <2>3. DisableKnows(p, x)'
    BY <1>2, <1>9, <1>11, <1>13, <1>15, <2>1, <2>2, DoomedIs DEF DisableKnows
  <2>4. TxKnows(p)'
    BY <1>9, <1>11, <1>12, <1>15, <2>1, <2>3, BarOnly
  <2>. QED  BY <1>0, <1>6, <1>9, <1>10, <2>4, Continued
<1>16. CASE tx[p].op \in {"suspended", "disabled"}
  <2>1. PICK x \in Account : tx[p].target = x /\ StatusKnows(p, x)
    BY <1>0, <1>16 DEF TxKnows
  <2>2. /\ Owns(p, x) /\ tx[p].at >= 1
        /\ \A m \in tx[p].members : AccountOf[m] = x /\ Claims(p, m)
    BY <1>0, <2>1 DEF StatusKnows
  <2>3. \A m \in tx[p].members : Owns(p, m)
    <3>1. tx[p].members \in SUBSET Row
      BY <1>0, SessionTypes DEF TxRec
    <3>. QED  BY <1>0, <2>2, <3>1, AtOwns
  <2>4. StatusKnows(p, x)'
    <3>1. OfAccount(x)' \subseteq R
      BY <1>2, <1>13, <1>16, <2>1, DoomedIs
    <3>2. at >= 1
      BY <1>4, <1>16, <2>2
    <3>. QED  BY <1>9, <1>11, <2>2, <2>3, <3>1, <3>2 DEF StatusKnows
  <2>5. TxKnows(p)'
    BY <1>9, <1>11, <1>12, <1>16, <2>1, <2>4, BarOnly
  <2>. QED  BY <1>0, <1>6, <1>9, <1>10, <2>5, Continued
<1>17. CASE tx[p].op = "close"
  <2>1. PICK x \in Condo : tx[p].target = x /\ CloseKnows(p, x)
    BY <1>0, <1>17 DEF TxKnows
  <2>2. Owns(p, x)
    BY <1>0, <2>1, AtOwns, SessionTypes DEF CloseKnows
  <2>3. CloseKnows(p, x)'
    BY <1>2, <1>9, <1>11, <1>13, <1>17, <2>1, <2>2, DoomedIs DEF CloseKnows
  <2>4. TxKnows(p)'
    BY <1>9, <1>11, <1>12, <1>17, <2>1, <2>3, BarOnly
  <2>. QED  BY <1>0, <1>6, <1>9, <1>10, <2>4, Continued
<1>. QED  BY <1>1, <1>14, <1>15, <1>16, <1>17

\* The commit changes accounts A, bars memberships B and closes condominiums C, all of which
\* it has locked; it revokes every session of theirs.
Writes(p, R, A, B, C) ==
    /\ \A b \in A : Owns(p, b) /\ OfAccount(b) \subseteq R
    /\ \A m \in B : Owns(p, m) /\ OfMembership(m) \subseteq R
    /\ \A c \in C : Owns(p, c) /\ OfCondo(c) \subseteq R
    /\ status' \in [Account -> {"active", "suspended", "disabled"}]
    /\ version' \in [Account -> Nat] /\ updated' \in [Account -> Nat]
    /\ \A b \in Account \ A :
         status'[b] = status[b] /\ version'[b] = version[b] /\ updated'[b] = updated[b]
    /\ \A b \in A : version'[b] # 0 /\ updated'[b] # 0
    /\ membership' \in [Membership -> {"none", "active", "disabled"}]
    /\ \A m \in Membership \ B : membership'[m] = membership[m]
    /\ closed' = closed \cup C
    /\ left' \subseteq (1..MaxRequests) \X {"live", "revoked"}

\* Every statement that revokes sessions bars some accounts, memberships or
\* condominiums, and revokes all their sessions it has found.
LEMMA WriteWrites ==
    ASSUME SessionAssumption, SessionInv, NEW p \in Proc, Write(p),
           NEW R \in SUBSET Ids, R = tx[p].revoke
    PROVE  \E A \in SUBSET Account, B \in SUBSET Membership, C \in SUBSET Condo :
             Writes(p, R, A, B, C)
<1>0. /\ DataTyped /\ TxTyped /\ ClockOK /\ FamiliesOK /\ CountsOK /\ tx[p].pc = "write"
      /\ ~Waiting(p) /\ tx[p].op # "issue" /\ TxKnows(p) /\ tx[p] \in TxRec
  BY DEF SessionInv, DataInv, TxTyped, Write, At
<1>1. tx[p].op \in {"logout", "logoutAll", "disable", "suspended", "disabled", "close"}
  BY <1>0, Statements
<1>2. /\ status \in [Account -> {"active", "suspended", "disabled"}]
      /\ version \in [Account -> Nat] /\ updated \in [Account -> Nat]
      /\ membership \in [Membership -> {"none", "active", "disabled"}]
      /\ left \subseteq (1..MaxRequests) \X {"live", "revoked"}
  BY <1>0 DEF DataTyped
<1>3. /\ tx[p].op \notin {"logoutAll", "suspended", "disabled"} =>
           version' = version /\ updated' = updated
      /\ tx[p].op \notin {"suspended", "disabled"} => status' = status
      /\ tx[p].op # "close" => closed' = closed
      /\ tx[p].op # "logout" => left' = left
      /\ membership' = [m \in Membership |-> IF m \in Barred(p) THEN "disabled" ELSE membership[m]]
  BY DEF Write
<1>4. /\ membership' \in [Membership -> {"none", "active", "disabled"}]
      /\ \A m \in Membership : m \notin Barred(p) => membership'[m] = membership[m]
  BY <1>2, <1>3
<1>5. ASSUME NEW a \in Account, Owns(p, a), OfAccount(a) \subseteq R, tx[p].at >= 1,
             version' = [version EXCEPT ![a] = @ + 1], updated' = [updated EXCEPT ![a] = tx[p].at]
      PROVE  /\ version' \in [Account -> Nat] /\ updated' \in [Account -> Nat]
             /\ \A b \in Account \ {a} : version'[b] = version[b] /\ updated'[b] = updated[b]
             /\ version'[a] # 0 /\ updated'[a] # 0
  <2>1. tx[p].at \in Nat
    BY <1>0 DEF TxRec
  <2>. QED  BY <1>2, <1>5, <2>1
<1>6. CASE tx[p].op = "logout"
  <2>1. PICK s \in Ids, a \in Account :
             tx[p].session = s /\ sessions[s] \in SessionRec
    BY <1>6, OfSession
  <2>2. left' \subseteq (1..MaxRequests) \X {"live", "revoked"}
    <3>1. left' = left \cup {<<sessions[s].family, "live">>}
      BY <1>6, <2>1 DEF Write
    <3>2. sessions[s].family \in 1..MaxRequests
      BY <2>1 DEF SessionRec
    <3>. QED  BY <1>2, <3>1, <3>2
  <2>3. Barred(p) = {}
    BY <1>6 DEF Barred
  <2>4. Writes(p, R, {}, {}, {})
    BY <1>2, <1>3, <1>4, <1>6, <2>2, <2>3 DEF Writes
  <2>. QED  BY <2>4
<1>7. CASE tx[p].op = "logoutAll"
  <2>1. PICK s \in Ids, a \in Account :
             tx[p].session = s /\ sessions[s].account = a /\ SessionKnows(p, s, a) /\ a \in Row
    BY <1>7, OfSession
  <2>2. Owns(p, a) /\ OfAccount(a) \subseteq R /\ tx[p].at >= 1
    BY <1>0, <1>7, <2>1 DEF SessionKnows
  <2>3. version' = [version EXCEPT ![a] = @ + 1] /\ updated' = [updated EXCEPT ![a] = tx[p].at]
    BY <1>7, <2>1 DEF Write
  <2>4. /\ version' \in [Account -> Nat] /\ updated' \in [Account -> Nat]
        /\ \A b \in Account \ {a} : version'[b] = version[b] /\ updated'[b] = updated[b]
        /\ version'[a] # 0 /\ updated'[a] # 0
    BY <1>5, <2>2, <2>3
  <2>5. Barred(p) = {}
    BY <1>7 DEF Barred
  <2>6. Writes(p, R, {a}, {}, {})
    BY <1>2, <1>3, <1>4, <1>7, <2>2, <2>4, <2>5 DEF Writes
  <2>. QED  BY <2>6
<1>8. CASE tx[p].op = "disable"
  <2>1. PICK x \in Membership : tx[p].target = x /\ DisableKnows(p, x)
    BY <1>0, <1>8 DEF TxKnows
  <2>2. Owns(p, x) /\ OfMembership(x) \subseteq R
    BY <1>0, <2>1 DEF DisableKnows
  <2>3. Barred(p) = {x}
    BY <1>8, <2>1 DEF Barred
  <2>4. Writes(p, R, {}, {x}, {})
    BY <1>2, <1>3, <1>4, <1>8, <2>2, <2>3 DEF Writes
  <2>. QED  BY <2>4
<1>9. CASE tx[p].op \in {"suspended", "disabled"}
  <2>1. PICK x \in Account : tx[p].target = x /\ StatusKnows(p, x)
    BY <1>0, <1>9 DEF TxKnows
  <2>2. /\ Owns(p, x) /\ OfAccount(x) \subseteq R /\ tx[p].at >= 1
        /\ \A m \in tx[p].members : AccountOf[m] = x /\ Owns(p, m)
    BY <1>0, <2>1 DEF StatusKnows
  <2>3. /\ version' = [version EXCEPT ![x] = @ + 1] /\ updated' = [updated EXCEPT ![x] = tx[p].at]
        /\ status' = [status EXCEPT ![x] = tx[p].op]
    BY <1>9, <2>1 DEF Write
  <2>4. /\ version' \in [Account -> Nat] /\ updated' \in [Account -> Nat]
        /\ \A b \in Account \ {x} : version'[b] = version[b] /\ updated'[b] = updated[b]
        /\ version'[x] # 0 /\ updated'[x] # 0
    BY <1>5, <2>2, <2>3
  <2>5. /\ status' \in [Account -> {"active", "suspended", "disabled"}]
        /\ \A b \in Account \ {x} : status'[b] = status[b]
    BY <1>2, <1>9, <2>3
  <2>6. PICK B \in SUBSET Membership : B = Barred(p) /\ \A m \in B : AccountOf[m] = x /\ Owns(p, m)
    <3>1. CASE tx[p].op = "suspended"
      <4>1. Barred(p) = {}
        BY <3>1 DEF Barred
      <4>. QED  BY <4>1
    <3>2. CASE tx[p].op = "disabled"
      <4>1. Barred(p) = tx[p].members
        BY <3>2 DEF Barred
      <4>2. tx[p].members \in SUBSET Membership
        BY <1>0 DEF TxRec
      <4>. QED  BY <2>2, <4>1, <4>2
    <3>. QED  BY <1>9, <3>1, <3>2
  <2>7. ASSUME NEW m \in B PROVE OfMembership(m) \subseteq R
    <3>1. OfMembership(m) \subseteq OfAccount(x)
      BY <1>0, <2>6, <2>7 DEF OfMembership, OfAccount, Unrevoked, FamiliesOK
    <3>. QED  BY <2>2, <3>1
  <2>8. Writes(p, R, {x}, B, {})
    BY <1>2, <1>3, <1>4, <1>9, <2>2, <2>4, <2>5, <2>6, <2>7 DEF Writes
  <2>. QED  BY <2>8
<1>10. CASE tx[p].op = "close"
  <2>1. PICK x \in Condo : tx[p].target = x /\ CloseKnows(p, x)
    BY <1>0, <1>10 DEF TxKnows
  <2>2. Owns(p, x) /\ OfCondo(x) \subseteq R
    BY <1>0, <2>1 DEF CloseKnows
  <2>3. closed' = closed \cup {x}
    BY <1>10, <2>1 DEF Write
  <2>4. Barred(p) = {}
    BY <1>10 DEF Barred
  <2>5. Writes(p, R, {}, {}, {x})
    BY <1>2, <1>3, <1>4, <1>10, <2>2, <2>3, <2>4 DEF Writes
  <2>. QED  BY <2>5
<1>. QED  BY <1>1, <1>6, <1>7, <1>8, <1>9, <1>10

\* The invariant is kept by the revocation and its commit.
LEMMA WriteStep ==
    ASSUME SessionAssumption, SessionInv, NEW p \in Proc, Write(p)
    PROVE  SessionInv'
<1>0. /\ DataTyped /\ TxTyped /\ DataInv /\ LocksOK /\ CountsOK /\ ClockOK
      /\ tx[p].pc = "write" /\ ~Waiting(p) /\ tx[p].op # "issue" /\ TxKnows(p)
      /\ FamiliesOK /\ IssuedOK /\ OneLivePerFamily /\ OneSessionPerHandoff
      /\ UnrevokedIsCurrent /\ LoggedInAfter
  BY DEF SessionInv, DataInv, TxTyped, Write, At
<1>1. tx[p].op \notin {"issue", "rotate"} /\ SessionsClaimed(p)
  <2>1. tx[p].op \in {"logout", "logoutAll", "disable", "suspended", "disabled", "close"}
    BY <1>0, Statements
  <2>. QED  BY <1>0, <2>1 DEF TxKnows
<1>2. PICK R \in SUBSET Ids : R = tx[p].revoke /\ \A t \in R : Owns(p, SessionRow(t))
  <2>1. \A t \in tx[p].revoke : t \in Ids /\ SessionRow(t) \in Row
    BY <1>0, <1>1, Counted, SessionTypes DEF SessionsClaimed
  <2>. QED  BY <1>0, <1>1, <2>1, AtOwns DEF SessionsClaimed
<1>3. PICK A \in SUBSET Account, B \in SUBSET Membership, C \in SUBSET Condo :
        Writes(p, R, A, B, C)
  BY <1>2, WriteWrites
<1>4. /\ sessions' \in Seq(SessionRec) /\ Len(sessions') = Len(sessions)
      /\ \A s \in Ids :
           /\ sessions'[s].family = sessions[s].family /\ sessions'[s].account = sessions[s].account
           /\ sessions'[s].membership = sessions[s].membership
           /\ sessions'[s].version = sessions[s].version /\ sessions'[s].auth = sessions[s].auth
           /\ sessions'[s].kind = sessions[s].kind /\ sessions'[s].from = sessions[s].from
           /\ sessions'[s].state = "live" <=> sessions[s].state = "live" /\ s \notin R
  <2>1. sessions' = Revoked(p, R)
    BY <1>2 DEF Write
  <2>. QED  BY <1>0, <2>1, RevokedRows
<1>5. /\ handoffs' = handoffs /\ intents' = intents /\ End(p) /\ over' = over /\ time' = time
      /\ requests' = requests /\ scenario' = scenario
  BY DEF Write
<1>6. DataTyped'
  BY <1>0, <1>3, <1>4, <1>5 DEF DataTyped, Writes
<1>7. RowsKept /\ HandoffsKept /\ IntentsKept
  BY <1>0, <1>4, <1>5, SessionTypes DEF RowsKept, HandoffsKept, IntentsKept
<1>8. \A t \in 1..Len(sessions') : t \in Ids
  BY <1>4 DEF Ids
<1>9. FamiliesOK' /\ OneLivePerFamily'
  BY <1>0, <1>6, <1>7, <1>8, FamiliesKept
<1>10. IssuedOK' /\ OneSessionPerHandoff'
  <2>1. \A g \in 1..Len(handoffs') : g \in 1..Len(handoffs)
    BY <1>5
  <2>2. \A i \in 1..Len(intents') : i \in 1..Len(intents)
    BY <1>5
  <2>. QED  BY <1>0, <1>6, <1>7, <1>8, <2>1, <2>2, IssuedKept
<1>11. ClockOK'
  BY <1>0, <1>3, <1>5 DEF ClockOK, Writes
<1>12. ASSUME NEW t \in Unrevoked'
       PROVE  /\ t \in Unrevoked /\ sessions[t].account \in Account \ A
              /\ sessions[t].membership \in Membership \ B
              /\ CondoOf[sessions[t].membership] \notin C
              /\ sessions'[t].account = sessions[t].account
              /\ sessions'[t].membership = sessions[t].membership
              /\ sessions'[t].version = sessions[t].version
              /\ sessions'[t].auth = sessions[t].auth /\ sessions'[t].kind = sessions[t].kind
  <2>1. t \in Ids /\ t \in Unrevoked /\ t \notin R
    BY <1>4, <1>8 DEF Unrevoked, Ids
  <2>2. sessions[t].account \in Account /\ sessions[t].membership \in Membership
    BY <1>0, <2>1, SessionTypes DEF SessionRec
  <2>3. /\ t \in OfAccount(sessions[t].account) /\ t \in OfMembership(sessions[t].membership)
        /\ t \in OfCondo(CondoOf[sessions[t].membership])
    BY <2>1 DEF OfAccount, OfMembership, OfCondo
  <2>4. /\ sessions[t].account \notin A /\ sessions[t].membership \notin B
        /\ CondoOf[sessions[t].membership] \notin C
    BY <1>3, <2>1, <2>3 DEF Writes
  <2>. QED  BY <1>4, <2>1, <2>2, <2>4
<1>13. UnrevokedIsCurrent'
  <2>1. ASSUME NEW t \in Unrevoked'
        PROVE  /\ status'[sessions'[t].account] = "active"
               /\ sessions'[t].version = version'[sessions'[t].account]
               /\ membership'[sessions'[t].membership] = "active"
               /\ CondoOf[sessions'[t].membership] \notin closed'
    <3>1. /\ status[sessions[t].account] = "active"
          /\ sessions[t].version = version[sessions[t].account]
          /\ membership[sessions[t].membership] = "active"
          /\ CondoOf[sessions[t].membership] \notin closed
      BY <1>0, <1>12 DEF UnrevokedIsCurrent, Authorizes, ScopeLive
    <3>. QED  BY <1>3, <1>12, <3>1 DEF Writes
  <2>. QED  BY <2>1 DEF UnrevokedIsCurrent, Authorizes, ScopeLive
<1>14. LoggedInAfter'
  <2>1. ASSUME NEW t \in Unrevoked'
        PROVE  sessions'[t].auth > updated'[sessions'[t].account] \/ sessions'[t].kind = "recovery"
    <3>1. sessions[t].auth > updated[sessions[t].account] \/ sessions[t].kind = "recovery"
      BY <1>0, <1>12 DEF LoggedInAfter
    <3>. QED  BY <1>3, <1>12, <3>1 DEF Writes
  <2>. QED  BY <2>1 DEF LoggedInAfter
<1>15. ASSUME NEW u \in Proc \ {p} PROVE LocksRespected(u)
  <2>1. ASSUME NEW s \in Ids, owned[SessionRow(s)] = u PROVE sessions'[s].state = sessions[s].state
    <3>1. s \notin R
      BY <1>2, <1>15, <2>1 DEF Owns
    <3>2. sessions'[s] = sessions[s]
      BY <1>2, <3>1 DEF Write, Revoked
    <3>. QED  BY <3>2
  <2>2. \A b \in Account : owned[b] = u =>
         status'[b] = status[b] /\ version'[b] = version[b] /\ updated'[b] = updated[b]
    BY <1>3, <1>15 DEF Writes, Owns
  <2>3. \A x \in Row : Owns(p, x) => u \notin shared[x]
    BY <1>0, <1>15, SessionTypes DEF LocksOK, Owns
  <2>4. /\ \A m \in Membership : u \in shared[m] /\ membership[m] = "active" => membership'[m] = "active"
        /\ \A c \in closed' : c \notin closed => c \in Condo /\ u \notin shared[c]
    BY <1>0, <1>3, <2>3, SessionTypes DEF Writes
  <2>. QED  BY <1>5, <1>8, <2>1, <2>2, <2>4 DEF LocksRespected
<1>16. DataInv'
  BY <1>9, <1>10, <1>11, <1>13, <1>14 DEF DataInv
<1>. QED  BY <1>0, <1>1, <1>4, <1>5, <1>6, <1>7, <1>15, <1>16, Ended

-----------------------------------------------------------------------------
(* Memberships, idle times and intents.                                    *)

LEMMA CreateMembershipStep ==
    ASSUME SessionAssumption, SessionInv, NEW p \in Proc, CreateMembership(p)
    PROVE  SessionInv'
<1>0. /\ DataTyped /\ TxTyped /\ DataInv /\ TxKnows(p) /\ tx[p].pc = "insert"
      /\ IssuedOK /\ UnrevokedIsCurrent /\ FamiliesOK /\ ClockOK /\ OneLivePerFamily
      /\ OneSessionPerHandoff /\ LoggedInAfter
  BY DEF SessionInv, DataInv, CreateMembership, At
<1>1. tx[p].op = "member"
  BY <1>0, Statements
<1>2. PICK m \in Membership : tx[p].target = m
  BY <1>0, <1>1 DEF TxKnows
<1>3. /\ sessions' = sessions /\ intents' = intents /\ handoffs' = handoffs /\ status' = status
      /\ version' = version /\ updated' = updated /\ closed' = closed /\ over' = over
      /\ left' = left /\ time' = time /\ requests' = requests /\ scenario' = scenario /\ End(p)
  BY DEF CreateMembership
<1>4. /\ membership' \in [Membership -> {"none", "active", "disabled"}]
      /\ \A x \in Membership : membership[x] = "active" => membership'[x] = "active"
  <2>1. membership' = membership \/ membership' = [membership EXCEPT ![m] = "active"]
    BY <1>2 DEF CreateMembership
  <2>. QED  BY <1>0, <2>1 DEF DataTyped
<1>5. DataTyped'
  BY <1>0, <1>3, <1>4 DEF DataTyped
<1>6. RowsKept /\ HandoffsKept /\ IntentsKept
  BY <1>0, <1>3, SessionTypes DEF RowsKept, HandoffsKept, IntentsKept
<1>7. \A u \in Proc : LocksRespected(u)
  BY <1>3, <1>4 DEF LocksRespected, Ids
<1>8. FamiliesOK' /\ IssuedOK' /\ ClockOK' /\ OneLivePerFamily' /\ OneSessionPerHandoff'
  <2>1. FamiliesOK' /\ ClockOK'
    BY <1>0, <1>3 DEF FamiliesOK, ClockOK, Ids
  <2>2. IssuedOK'
    BY <1>0, <1>3 DEF IssuedOK, Ids
  <2>3. OneLivePerFamily' /\ OneSessionPerHandoff'
    BY <1>0, <1>3 DEF OneLivePerFamily, OneSessionPerHandoff, Unrevoked, Ids
  <2>. QED  BY <2>1, <2>2, <2>3
<1>9. LoggedInAfter'
  BY <1>0, <1>3 DEF LoggedInAfter, Unrevoked, Ids
<1>10. UnrevokedIsCurrent'
  <2>1. \A t \in Unrevoked : sessions[t].membership \in Membership
    BY <1>0, SessionTypes DEF Unrevoked, SessionRec
  <2>. QED  BY <1>0, <1>3, <1>4, <2>1
            DEF UnrevokedIsCurrent, Unrevoked, Ids, Authorizes, ScopeLive
<1>11. DataInv'
  BY <1>8, <1>9, <1>10 DEF DataInv
<1>. QED  BY <1>3, <1>5, <1>6, <1>7, <1>11, Ended

\* The idle time of a session decides nothing but whether it is live.
LEMMA IdleKeeps ==
    ASSUME SessionAssumption, SessionInv, NEW s \in Ids, NEW i \in {"fresh", "stale"},
           sessions' = [sessions EXCEPT ![s].idle = i],
           handoffs' = handoffs, intents' = intents, status' = status, version' = version,
           updated' = updated, membership' = membership, closed' = closed, over' = over,
           left' = left, time' = time
    PROVE  /\ DataTyped' /\ DataInv' /\ RowsKept /\ HandoffsKept /\ IntentsKept
           /\ Len(sessions') = Len(sessions) /\ \A u \in Proc : LocksRespected(u)
           /\ \A t \in Ids : t # s => sessions'[t] = sessions[t]
           /\ sessions'[s].state = sessions[s].state /\ sessions'[s].idle = i
<1>0. /\ DataTyped /\ TxTyped /\ DataInv
      /\ IssuedOK /\ UnrevokedIsCurrent /\ FamiliesOK /\ ClockOK /\ OneLivePerFamily
      /\ OneSessionPerHandoff /\ LoggedInAfter
  BY DEF SessionInv, DataInv
<1>1. s \in 1..Len(sessions) /\ sessions[s] \in SessionRec /\ sessions \in Seq(SessionRec)
  BY <1>0, SessionTypes DEF Ids, DataTyped
<1>2. PICK row \in SessionRec : row = [sessions[s] EXCEPT !.idle = i]
  BY <1>1 DEF SessionRec
<1>3. /\ row.family = sessions[s].family /\ row.account = sessions[s].account
      /\ row.membership = sessions[s].membership /\ row.version = sessions[s].version
      /\ row.auth = sessions[s].auth /\ row.kind = sessions[s].kind /\ row.from = sessions[s].from
      /\ row.state = sessions[s].state /\ row.idle = i
  BY <1>1, <1>2 DEF SessionRec
<1>4. sessions' = [sessions EXCEPT ![s] = row]
  BY <1>2
<1>5. /\ [sessions EXCEPT ![s] = row] \in Seq(SessionRec)
      /\ Len([sessions EXCEPT ![s] = row]) = Len(sessions)
      /\ \A t \in 1..Len(sessions) :
            [sessions EXCEPT ![s] = row][t] = IF t = s THEN row ELSE sessions[t]
  BY <1>1, ExceptSeq
<1>6. /\ sessions' \in Seq(SessionRec) /\ Len(sessions') = Len(sessions)
      /\ sessions'[s] = row /\ \A t \in Ids : t # s => sessions'[t] = sessions[t]
  BY <1>1, <1>4, <1>5 DEF Ids
<1>7. \A t \in Ids :
        /\ sessions'[t].family = sessions[t].family /\ sessions'[t].account = sessions[t].account
        /\ sessions'[t].membership = sessions[t].membership
        /\ sessions'[t].version = sessions[t].version /\ sessions'[t].auth = sessions[t].auth
        /\ sessions'[t].kind = sessions[t].kind /\ sessions'[t].from = sessions[t].from
        /\ sessions'[t].state = sessions[t].state
  BY <1>3, <1>6
<1>8. DataTyped'
  BY <1>0, <1>6 DEF DataTyped
<1>9. RowsKept /\ HandoffsKept /\ IntentsKept
  BY <1>0, <1>6, <1>7, SessionTypes DEF RowsKept, HandoffsKept, IntentsKept
<1>10. \A t \in 1..Len(sessions') : t \in Ids
  BY <1>6 DEF Ids
<1>11. \A u \in Proc : LocksRespected(u)
  BY <1>7, <1>10 DEF LocksRespected
<1>12. FamiliesOK' /\ OneLivePerFamily'
  BY <1>0, <1>8, <1>9, <1>10, FamiliesKept
<1>13. IssuedOK' /\ OneSessionPerHandoff'
  <2>1. \A g \in 1..Len(handoffs') : g \in 1..Len(handoffs)
    OBVIOUS
  <2>2. \A j \in 1..Len(intents') : j \in 1..Len(intents)
    OBVIOUS
  <2>. QED  BY <1>0, <1>8, <1>9, <1>10, <2>1, <2>2, IssuedKept
<1>14. ClockOK'
  BY <1>0 DEF ClockOK
<1>15. ASSUME NEW t \in Unrevoked' PROVE t \in Unrevoked /\ t \in Ids
  BY <1>7, <1>10 DEF Unrevoked, Ids
<1>16. UnrevokedIsCurrent'
  <2>1. ASSUME NEW t \in Unrevoked'
        PROVE  /\ status'[sessions'[t].account] = "active"
               /\ sessions'[t].version = version'[sessions'[t].account]
               /\ membership'[sessions'[t].membership] = "active"
               /\ CondoOf[sessions'[t].membership] \notin closed'
    BY <1>0, <1>7, <1>15 DEF UnrevokedIsCurrent, Authorizes, ScopeLive
  <2>. QED  BY <2>1 DEF UnrevokedIsCurrent, Authorizes, ScopeLive
<1>17. LoggedInAfter'
  <2>1. ASSUME NEW t \in Unrevoked'
        PROVE  sessions'[t].auth > updated'[sessions'[t].account] \/ sessions'[t].kind = "recovery"
    BY <1>0, <1>7, <1>15 DEF LoggedInAfter
  <2>. QED  BY <2>1 DEF LoggedInAfter
<1>18. DataInv'
  BY <1>12, <1>13, <1>14, <1>16, <1>17 DEF DataInv
<1>. QED  BY <1>3, <1>6, <1>8, <1>9, <1>11, <1>18

\* The invariant is kept by the extension of a session in use.
LEMMA TouchStep ==
    ASSUME SessionAssumption, SessionInv, NEW p \in Proc, Touch(p)
    PROVE  SessionInv'
<1>0. DataTyped /\ TxTyped /\ TxKnows(p) /\ tx[p].pc = "touch"
  BY DEF SessionInv, Touch, At
<1>1. tx[p].op = "touch"
  BY <1>0, Statements
<1>2. PICK s \in Ids : tx[p].session = s
  BY <1>1, OfSession
<1>3. CASE ~Touches(s)
  <2>1. End(p) /\ UNCHANGED <<data, time, requests, scenario>>
    BY <1>2, <1>3 DEF Touch, data
  <2>. QED  BY <2>1, RolledBack
<1>4. CASE Touches(s)
  <2>1. /\ sessions' = [sessions EXCEPT ![s].idle = "fresh"] /\ End(p)
        /\ handoffs' = handoffs /\ intents' = intents /\ status' = status /\ version' = version
        /\ updated' = updated /\ membership' = membership /\ closed' = closed /\ over' = over
        /\ left' = left /\ time' = time /\ requests' = requests /\ scenario' = scenario
    BY <1>2, <1>4 DEF Touch
  <2>2. /\ DataTyped' /\ DataInv' /\ RowsKept /\ HandoffsKept /\ IntentsKept
        /\ Len(sessions') = Len(sessions) /\ \A u \in Proc : LocksRespected(u)
    BY <2>1, IdleKeeps
  <2>. QED  BY <2>1, <2>2, Ended
<1>. QED  BY <1>3, <1>4

\* The invariant is kept by the passing of a session's idle time.
LEMMA IdleOutStep ==
    ASSUME SessionAssumption, SessionInv, NEW s \in Ids, IdleOut(s)
    PROVE  SessionInv'
<1>1. /\ sessions' = [sessions EXCEPT ![s].idle = "stale"]
      /\ handoffs' = handoffs /\ intents' = intents /\ status' = status /\ version' = version
      /\ updated' = updated /\ membership' = membership /\ closed' = closed /\ over' = over
      /\ left' = left /\ time' = time /\ requests' = requests /\ scenario' = scenario
      /\ tx' = tx /\ owned' = owned /\ shared' = shared
  BY DEF IdleOut
<1>2. /\ DataTyped' /\ DataInv' /\ RowsKept /\ HandoffsKept /\ IntentsKept
      /\ Len(sessions') = Len(sessions) /\ \A u \in Proc : LocksRespected(u)
  BY <1>1, IdleKeeps
<1>3. Len(handoffs') <= MaxHandoffs
  BY <1>1 DEF SessionInv, CountsOK
<1>4. /\ requests' = requests \/ (requests' = requests + 1 /\ requests < MaxRequests)
      /\ Len(intents') = Len(intents)
  BY <1>1
<1>. QED  BY ONLY SessionAssumption, SessionInv, <1>1, <1>2, <1>3, <1>4, Stood

\* The invariant is kept by the passing of a family's lifetime.
LEMMA FamilyOverStep ==
    ASSUME SessionAssumption, SessionInv, NEW f, FamilyOver(f)
    PROVE  SessionInv'
<1>0. DataTyped /\ TxTyped
  BY DEF SessionInv
<1>1. f \in 1..MaxRequests
  BY <1>0, SessionTypes DEF FamilyOver, SessionRec
<1>2. over' \subseteq 1..MaxRequests /\ left' \subseteq (1..MaxRequests) \X {"live", "revoked"}
  BY <1>0, <1>1 DEF FamilyOver, DataTyped
<1>3. /\ sessions' = sessions
      /\ handoffs' = handoffs /\ intents' = intents /\ status' = status /\ version' = version
      /\ updated' = updated /\ membership' = membership /\ closed' = closed
      /\ time' = time /\ requests' = requests /\ scenario' = scenario
      /\ tx' = tx /\ owned' = owned /\ shared' = shared
  BY DEF FamilyOver
<1>4. requests' = requests \/ (requests' = requests + 1 /\ requests < MaxRequests)
  BY <1>3
<1>. QED  BY ONLY SessionAssumption, SessionInv, <1>2, <1>3, <1>4, RegistryStood

\* The invariant is kept by the insertion of a reauthentication intent.
LEMMA CreateIntentStep ==
    ASSUME SessionAssumption, SessionInv, NEW p \in Proc, CreateIntent(p)
    PROVE  SessionInv'
<1>0. /\ DataTyped /\ TxTyped /\ DataInv /\ CountsOK /\ TxKnows(p) /\ tx[p].pc = "intent"
      /\ IssuedOK /\ OneSessionPerHandoff
  BY DEF SessionInv, DataInv, CreateIntent, At
<1>1. tx[p].op = "reauth"
  BY <1>0, Statements
<1>2. PICK s \in Ids : tx[p].session = s /\ sessions[s] \in SessionRec
  BY <1>1, OfSession
<1>3. /\ sessions' = sessions /\ handoffs' = handoffs /\ status' = status /\ version' = version
      /\ updated' = updated /\ membership' = membership /\ closed' = closed /\ over' = over
      /\ left' = left /\ time' = time /\ requests' = requests /\ scenario' = scenario /\ End(p)
  BY DEF CreateIntent
<1>4. CASE ~Live(s)
  <2>1. UNCHANGED <<data, time, requests, scenario>>
    BY <1>2, <1>3, <1>4 DEF CreateIntent, data
  <2>. QED  BY <1>3, <2>1, RolledBack
<1>5. CASE Live(s)
  <2>1. PICK i \in IntentRec :
          /\ i.account = sessions[s].account /\ i.family = sessions[s].family
          /\ intents' = Append(intents, i)
    <3> DEFINE j == [account |-> sessions[s].account, family |-> sessions[s].family, state |-> "open"]
    <3>1. j \in IntentRec
      BY <1>2 DEF SessionRec, IntentRec
    <3>2. intents' = Append(intents, j)
      BY <1>2, <1>5 DEF CreateIntent
    <3>. QED  BY <3>1, <3>2
  <2>2. /\ intents' \in Seq(IntentRec) /\ Len(intents') = Len(intents) + 1
        /\ \A k \in 1..Len(intents) : intents'[k] = intents[k]
        /\ intents'[Len(intents) + 1] = i
    <3>1. intents \in Seq(IntentRec)
      BY <1>0 DEF DataTyped
    <3>. QED  BY <2>1, <3>1, AppendProperties
  <2>3. DataTyped'
    BY <1>0, <1>3, <2>2 DEF DataTyped
  <2>4. /\ FamiliesOK' /\ ClockOK' /\ OneLivePerFamily' /\ UnrevokedIsCurrent'
        /\ LoggedInAfter' /\ RowsKept
        /\ Len(sessions') = Len(sessions) /\ Ids = 1..Len(sessions')
    BY <1>3, RegistrySame
  <2>5. HandoffsKept /\ IntentsKept
    BY <1>0, <1>3, <2>2, SessionTypes DEF HandoffsKept, IntentsKept
  <2>6. IssuedOK' /\ OneSessionPerHandoff'
    <3>1. \A x \in 1..Len(sessions') : x \in Ids
      BY <2>4
    <3>2. \A g \in 1..Len(handoffs') : g \in 1..Len(handoffs)
      BY <1>3
    <3>3. \A k \in 1..Len(intents') : k \notin 1..Len(intents) =>
             \E x \in Ids : /\ sessions[x].family = intents'[k].family
                            /\ sessions[x].account = intents'[k].account
      <4>1. \A k \in 1..Len(intents') : k \notin 1..Len(intents) => k = Len(intents) + 1
        BY <1>0, <2>2, SessionTypes
      <4>. QED  BY <1>2, <2>1, <2>2, <4>1
    <3>. QED  BY <1>0, <2>3, <2>4, <2>5, <3>1, <3>2, <3>3, IssuedKept
  <2>7. \A u \in Proc \ {p} : LocksRespected(u)
    BY <1>3, <2>4 DEF LocksRespected
  <2>8. DataInv'
    BY <2>4, <2>6 DEF DataInv
  <2>9. Len(sessions') = Len(sessions) /\ Len(handoffs') = Len(handoffs)
    BY <1>3
  <2>. QED  BY <1>0, <1>3, <2>3, <2>4, <2>5, <2>7, <2>8, <2>9, Ended
<1>. QED  BY <1>4, <1>5

\* An intent changes its state, and nothing else of it.
LEMMA IntentMarked ==
    ASSUME SessionAssumption, DataTyped, TxTyped, NEW i \in 1..Len(intents),
           NEW state \in {"open", "started", "answered"},
           intents[i].state # "answered",
           intents' = [intents EXCEPT ![i].state = state]
    PROVE  /\ intents' \in Seq(IntentRec) /\ Len(intents') = Len(intents) /\ IntentsKept
           /\ intents'[i].state = state
<1>1. intents[i] \in IntentRec /\ intents \in Seq(IntentRec) /\ Len(intents) \in Nat
  BY SessionTypes DEF DataTyped
<1>2. PICK row \in IntentRec : row = [intents[i] EXCEPT !.state = state]
  BY <1>1 DEF IntentRec
<1>3. row.account = intents[i].account /\ row.family = intents[i].family /\ row.state = state
  BY <1>1, <1>2 DEF IntentRec
<1>4. intents' = [intents EXCEPT ![i] = row]
  BY <1>2
<1>5. /\ [intents EXCEPT ![i] = row] \in Seq(IntentRec)
      /\ Len([intents EXCEPT ![i] = row]) = Len(intents)
      /\ \A t \in 1..Len(intents) :
            [intents EXCEPT ![i] = row][t] = IF t = i THEN row ELSE intents[t]
  BY <1>1, ExceptSeq
<1>6. /\ intents' \in Seq(IntentRec) /\ Len(intents') = Len(intents)
      /\ intents'[i] = row /\ \A t \in 1..Len(intents) : t # i => intents'[t] = intents[t]
  BY <1>4, <1>5
<1>7. IntentsKept
  BY <1>1, <1>3, <1>6 DEF IntentsKept
<1>. QED  BY <1>3, <1>6, <1>7

\* The invariant is kept by the start of a reauthentication.
LEMMA StartReauthStep ==
    ASSUME SessionAssumption, SessionInv, NEW p \in Proc, StartReauth(p)
    PROVE  SessionInv'
<1>0. /\ DataTyped /\ TxTyped /\ DataInv /\ CountsOK /\ TxKnows(p) /\ tx[p].pc = "start"
      /\ IssuedOK /\ OneSessionPerHandoff
  BY DEF SessionInv, DataInv, StartReauth, At
<1>1. tx[p].op = "reauth"
  BY <1>0, Statements
<1>2. PICK i \in 1..Len(intents) : tx[p].intent = i
  <2>1. PICK s \in Ids, a \in Account : SessionKnows(p, s, a)
    BY <1>1, OfSession
  <2>. QED  BY <1>0, <1>1, <2>1 DEF SessionKnows
<1>3. /\ sessions' = sessions /\ handoffs' = handoffs /\ status' = status /\ version' = version
      /\ updated' = updated /\ membership' = membership /\ closed' = closed /\ over' = over
      /\ left' = left /\ time' = time /\ requests' = requests /\ scenario' = scenario /\ End(p)
  BY DEF StartReauth
<1>4. CASE ~Redeems(tx[p].session, i)
  <2>1. UNCHANGED <<data, time, requests, scenario>>
    BY <1>2, <1>3, <1>4 DEF StartReauth, data
  <2>. QED  BY <1>3, <2>1, RolledBack
<1>5. CASE Redeems(tx[p].session, i)
  <2>1. intents' = [intents EXCEPT ![i].state = "started"] /\ intents[i].state # "answered"
    BY <1>2, <1>5 DEF StartReauth, Redeems
  <2>2. /\ intents' \in Seq(IntentRec) /\ Len(intents') = Len(intents) /\ IntentsKept
    BY <1>0, <2>1, IntentMarked
  <2>3. DataTyped'
    BY <1>0, <1>3, <2>2 DEF DataTyped
  <2>4. /\ FamiliesOK' /\ ClockOK' /\ OneLivePerFamily' /\ UnrevokedIsCurrent'
        /\ LoggedInAfter' /\ RowsKept
        /\ Len(sessions') = Len(sessions) /\ Ids = 1..Len(sessions')
    BY <1>3, RegistrySame
  <2>5. HandoffsKept
    BY <1>0, <1>3, SessionTypes DEF HandoffsKept
  <2>6. IssuedOK' /\ OneSessionPerHandoff'
    <3>1. \A x \in 1..Len(sessions') : x \in Ids
      BY <2>4
    <3>2. \A g \in 1..Len(handoffs') : g \in 1..Len(handoffs)
      BY <1>3
    <3>3. \A k \in 1..Len(intents') : k \in 1..Len(intents)
      BY <2>2
    <3>. QED  BY <1>0, <2>2, <2>3, <2>4, <2>5, <3>1, <3>2, <3>3, IssuedKept
  <2>7. \A u \in Proc \ {p} : LocksRespected(u)
    BY <1>3, <2>4 DEF LocksRespected
  <2>8. DataInv'
    BY <2>4, <2>6 DEF DataInv
  <2>9. Len(handoffs') = Len(handoffs)
    BY <1>3
  <2>. QED  BY <1>0, <1>3, <2>2, <2>3, <2>4, <2>5, <2>7, <2>8, <2>9, Ended
<1>. QED  BY <1>4, <1>5

\* The invariant is kept by the handoff of a callback.
LEMMA CallbackStep ==
    ASSUME SessionAssumption, SessionInv, NEW a \in Account,
           NEW kind \in {"login", "recovery", "reauth"}, NEW i \in 0..Len(intents),
           NEW auth \in {updated[a], time}, Callback(a, kind, i, auth)
    PROVE  SessionInv'
<1>0. /\ DataTyped /\ TxTyped /\ DataInv /\ CountsOK /\ IssuedOK /\ OneSessionPerHandoff /\ ClockOK
      /\ time \in Nat
  BY DEF SessionInv, DataInv, TxTyped
<1>1. /\ sessions' = sessions /\ status' = status /\ version' = version
      /\ updated' = updated /\ membership' = membership /\ closed' = closed /\ over' = over
      /\ left' = left /\ time' = time /\ requests' = requests /\ scenario' = scenario
      /\ tx' = tx /\ owned' = owned /\ shared' = shared
      /\ (kind = "reauth" <=> i # 0) /\ (i # 0 => intents[i].state = "started")
      /\ auth = time \/ (version[a] > 0 /\ auth = updated[a])
  BY DEF Callback
<1>2. auth \in Nat /\ auth >= 1
  <2>1. updated[a] \in Nat /\ version[a] \in Nat
    BY <1>0 DEF DataTyped
  <2>2. version[a] = 0 <=> updated[a] = 0
    BY <1>0 DEF ClockOK
  <2>3. time >= 1
    BY <1>0 DEF ClockOK
  <2>4. CASE auth = time
    BY <1>0, <2>3, <2>4
  <2>5. CASE version[a] > 0 /\ auth = updated[a]
    BY <2>1, <2>2, <2>5
  <2>. QED  BY <1>1, <2>4, <2>5
<1>3. /\ Len(handoffs) \in Nat /\ Len(intents) \in Nat /\ Len(intents) <= MaxHandoffs
      /\ MaxHandoffs \in Nat /\ Len(handoffs) < MaxHandoffs
  <2>1. Len(handoffs) < scenario.handoffs
    BY DEF Callback
  <2>2. /\ Len(handoffs) \in Nat /\ Len(intents) \in Nat /\ MaxHandoffs \in Nat
        /\ scenario.handoffs \in 0..MaxHandoffs
    BY <1>0, SessionTypes
  <2>3. Len(intents) <= MaxHandoffs
    BY <1>0, Counted
  <2>. QED  BY ONLY <2>1, <2>2, <2>3
<1>4. PICK row \in HandoffRec :
        /\ row.account = a /\ row.auth = auth /\ row.kind = kind /\ row.intent = i
        /\ handoffs' = Append(handoffs, row)
  <2> DEFINE j == [account |-> a, auth |-> auth, kind |-> kind, intent |-> i, state |-> "fresh"]
  <2>1. j \in HandoffRec
    BY <1>2, <1>3 DEF HandoffRec
  <2>2. handoffs' = Append(handoffs, j)
    BY DEF Callback
  <2>. QED  BY <2>1, <2>2
<1>5. /\ handoffs' \in Seq(HandoffRec) /\ Len(handoffs') = Len(handoffs) + 1
      /\ \A h \in 1..Len(handoffs) : handoffs'[h] = handoffs[h]
      /\ handoffs'[Len(handoffs) + 1] = row
  <2>1. handoffs \in Seq(HandoffRec)
    BY <1>0 DEF DataTyped
  <2>. QED  BY <1>4, <2>1, AppendProperties
<1>6. /\ intents' \in Seq(IntentRec) /\ Len(intents') = Len(intents) /\ IntentsKept
      /\ i # 0 => i \in 1..Len(intents) /\ intents[i].state # "answered"
                  /\ intents'[i].state = "answered"
  <2>1. CASE i = 0
    <3>1. intents' = intents
      BY <2>1 DEF Callback
    <3>. QED  BY <1>0, <1>3, <2>1, <3>1 DEF IntentsKept, DataTyped
  <2>2. CASE i # 0
    <3>1. i \in 1..Len(intents) /\ intents' = [intents EXCEPT ![i].state = "answered"]
      BY <1>3, <2>2 DEF Callback
    <3>2. intents[i].state # "answered"
      BY <1>1, <2>2
    <3>. QED  BY <1>0, <3>1, <3>2, IntentMarked
  <2>. QED  BY <2>1, <2>2
<1>7. DataTyped'
  BY <1>0, <1>1, <1>5, <1>6 DEF DataTyped
<1>8. /\ FamiliesOK' /\ ClockOK' /\ OneLivePerFamily' /\ UnrevokedIsCurrent'
      /\ LoggedInAfter' /\ RowsKept
      /\ Len(sessions') = Len(sessions) /\ Ids = 1..Len(sessions')
  BY <1>1, RegistrySame
<1>9. HandoffsKept
  BY <1>3, <1>5 DEF HandoffsKept
<1>10. IssuedOK' /\ OneSessionPerHandoff'
  <2>1. \A x \in 1..Len(sessions') : x \in Ids
    BY <1>8
  <2>2. \A h \in 1..Len(handoffs') : h \notin 1..Len(handoffs) =>
             /\ handoffs'[h].auth >= 1 /\ (handoffs'[h].kind = "reauth" <=> handoffs'[h].intent # 0)
             /\ handoffs'[h].intent # 0 =>
                  /\ handoffs'[h].intent \in 1..Len(intents)
                  /\ intents[handoffs'[h].intent].state # "answered"
                  /\ intents'[handoffs'[h].intent].state = "answered"
    <3>1. \A h \in 1..Len(handoffs') : h \notin 1..Len(handoffs) => h = Len(handoffs) + 1
      BY <1>3, <1>5
    <3>. QED  BY <1>1, <1>2, <1>4, <1>5, <1>6, <3>1
  <2>3. \A k \in 1..Len(intents') : k \in 1..Len(intents)
    BY <1>6
  <2>. QED  BY <1>0, <1>6, <1>7, <1>8, <1>9, <2>1, <2>2, <2>3, IssuedKept
<1>11. \A u \in Proc : LocksRespected(u)
  BY <1>1, <1>5, <1>8 DEF LocksRespected
<1>12. DataInv' /\ Len(handoffs') <= MaxHandoffs
  BY <1>3, <1>5, <1>8, <1>10 DEF DataInv
<1>13. requests' = requests \/ (requests' = requests + 1 /\ requests < MaxRequests)
  BY <1>1
<1>. QED  BY ONLY SessionAssumption, SessionInv, <1>1, <1>6, <1>7, <1>8, <1>9, <1>11, <1>12, <1>13, Stood

\* So does a rollback, whoever asked for it.
LEMMA EndOnly ==
    ASSUME SessionAssumption, SessionInv, NEW p \in Proc,
           Abort(p) \/ DeadlockVictim(p) \/ LogoutAllDenied(p)
    PROVE  SessionInv'
BY RolledBack DEF Abort, DeadlockVictim, LogoutAllDenied

-----------------------------------------------------------------------------
(* The invariant is inductive.                                             *)

LEMMA SessionInit ==
    ASSUME SessionAssumption, Init
    PROVE  SessionInv
<1>0. /\ scenario \in Scenarios
      /\ sessions = <<>> /\ intents = <<>> /\ handoffs = <<>>
      /\ status = [a \in Account |-> "active"]
      /\ version = [a \in Account |-> 0] /\ updated = [a \in Account |-> 0]
      /\ membership = [m \in Membership |-> IF m \in scenario.founding THEN "active" ELSE "none"]
      /\ closed = {} /\ over = {} /\ left = {} /\ time = 1
      /\ tx = [p \in Proc |-> Idle]
      /\ owned = [x \in Row |-> None] /\ shared = [x \in Row |-> {}]
      /\ requests = 0
  BY DEF Init
<1>1. /\ MaxRequests \in Nat /\ MaxHandoffs \in Nat /\ None \notin Proc /\ None \notin Kinds
      /\ Idle \in TxRec /\ Idle.pc = "idle" /\ Idle.op = None /\ Idle.need = <<>>
  BY IdleTyped DEF SessionAssumption
<1>2. Len(sessions) = 0 /\ Len(handoffs) = 0 /\ Len(intents) = 0 /\ Ids = {}
  BY <1>0 DEF Ids
<1>3. DataTyped
  <2>1. sessions \in Seq(SessionRec) /\ handoffs \in Seq(HandoffRec) /\ intents \in Seq(IntentRec)
    BY <1>0
  <2>2. membership \in [Membership -> {"none", "active", "disabled"}]
    BY <1>0
  <2>3. /\ status \in [Account -> {"active", "suspended", "disabled"}]
        /\ version \in [Account -> Nat] /\ updated \in [Account -> Nat]
    BY <1>0
  <2>4. /\ closed \subseteq Condo /\ over \subseteq 1..MaxRequests
        /\ left \subseteq (1..MaxRequests) \X {"live", "revoked"}
    BY <1>0
  <2>. QED  BY <2>1, <2>2, <2>3, <2>4 DEF DataTyped
<1>4. TxTyped
  BY <1>0, <1>1 DEF TxTyped
<1>5. FamiliesOK /\ IssuedOK /\ ClockOK
  BY <1>0, <1>2 DEF FamiliesOK, IssuedOK, ClockOK
<1>6. OneLivePerFamily /\ OneSessionPerHandoff /\ UnrevokedIsCurrent /\ LoggedInAfter
  <2>1. Unrevoked = {}
    BY <1>2 DEF Unrevoked
  <2>. QED  BY <1>2, <2>1 DEF OneLivePerFamily, OneSessionPerHandoff, UnrevokedIsCurrent,
                              LoggedInAfter
<1>7. LocksOK
  BY <1>0, <1>1 DEF LocksOK
<1>8. CountsOK
  <2>1. Inserting = {} /\ Asking = {}
    BY <1>0, <1>1 DEF Inserting, Asking, Kinds
  <2>2. Cardinality({}) = 0
    BY FS_EmptySet
  <2>. QED  BY <1>0, <1>1, <1>2, <2>1, <2>2 DEF CountsOK
<1>9. \A u \in Proc : TxKnows(u)
  BY <1>0, <1>1 DEF TxKnows, Kinds
<1>. QED  BY <1>3, <1>4, <1>5, <1>6, <1>7, <1>8, <1>9 DEF SessionInv, DataInv

\* A request that is received keeps the invariant.
LEMMA RequestStep ==
    ASSUME SessionAssumption, SessionInv, NEW p \in Proc, Request(p)
    PROVE  SessionInv'
<1>0. DataTyped /\ TxTyped
  BY DEF SessionInv
<1>1. OfScenario \subseteq Membership /\ scenario.accounts \subseteq Account
  BY <1>0, SessionTypes DEF OfScenario
<1>2. ASSUME NEW h \in 1..Len(handoffs), NEW old \in 0..Len(sessions), BeginIssue(p, h, old)
      PROVE  SessionInv'
  BY <1>2, BeginIssueStep
<1>3. ASSUME NEW s \in Ids, NEW m \in OfScenario, BeginRotate(p, s, m)
      PROVE  SessionInv'
  BY <1>1, <1>3, BeginRotateStep
<1>4. ASSUME NEW s \in Ids,
             BeginLogout(p, s) \/ BeginLogoutAll(p, s) \/ BeginTouch(p, s) \/ BeginReauth(p, s)
      PROVE  SessionInv'
  BY <1>4, BeginLogoutStep, BeginLogoutAllStep, BeginTouchStep, BeginReauthStep
<1>5. ASSUME NEW s \in Ids, NEW i \in 1..Len(intents), BeginStart(p, s, i)
      PROVE  SessionInv'
  BY <1>5, BeginStartStep
<1>6. ASSUME NEW m \in OfScenario, BeginDisable(p, m) \/ BeginMember(p, m)
      PROVE  SessionInv'
  BY <1>1, <1>6, BeginDisableStep, BeginMemberStep
<1>7. ASSUME NEW a \in scenario.accounts, NEW new \in {"suspended", "disabled"},
             BeginSetStatus(p, a, new)
      PROVE  SessionInv'
  BY <1>1, <1>7, BeginSetStatusStep
<1>8. ASSUME NEW c \in Condo, BeginClose(p, c)
      PROVE  SessionInv'
  BY <1>8, BeginCloseStep
<1>. QED  BY <1>2, <1>3, <1>4, <1>5, <1>6, <1>7, <1>8 DEF Request

\* A statement or a commit of a request keeps it.
LEMMA StepStep ==
    ASSUME SessionAssumption, SessionInv, NEW p \in Proc, Step(p)
    PROVE  SessionInv'
<1>1. CASE Acquire(p)
  BY <1>1, AcquireKeeps
<1>2. CASE DeadlockVictim(p) \/ LogoutAllDenied(p)
  BY <1>2, EndOnly
<1>3. CASE ConsumeHandoff(p)
  BY <1>3, ConsumeHandoffStep
<1>4. CASE CheckAccount(p)
  BY <1>4, CheckAccountStep
<1>5. CASE ChooseMembership(p)
  BY <1>5, ChooseMembershipStep
<1>6. CASE LockSession(p)
  BY <1>6, LockSessionStep
<1>7. CASE Refuse(p)
  BY <1>7, RefuseStep
<1>8. CASE Replace(p)
  BY <1>8, ReplaceStep
<1>9. CASE Issue(p)
  BY <1>9, IssueStep
<1>10. CASE CreateIntent(p)
  BY <1>10, CreateIntentStep
<1>11. CASE StartReauth(p)
  BY <1>11, StartReauthStep
<1>12. CASE LoadTarget(p)
  BY <1>12, LoadTargetStep
<1>13. CASE CheckTarget(p)
  BY <1>13, CheckTargetStep
<1>14. CASE Rotate(p)
  BY <1>14, RotateStep
<1>15. CASE LogoutAllSession(p)
  BY <1>15, LogoutAllSessionStep
<1>16. CASE SetStatusMembers(p)
  BY <1>16, SetStatusMembersStep
<1>17. CASE FindSessions(p)
  BY <1>17, FindSessionsStep
<1>18. CASE Write(p)
  BY <1>18, WriteStep
<1>19. CASE CreateMembership(p)
  BY <1>19, CreateMembershipStep
<1>20. CASE Touch(p)
  BY <1>20, TouchStep
<1>21. CASE LimitRecovery(p)
  BY <1>21, LimitRecoveryStep
<1>. QED  BY <1>1, <1>2, <1>3, <1>4, <1>5, <1>6, <1>7, <1>8, <1>9, <1>10, <1>11, <1>12, <1>13,
             <1>14, <1>15, <1>16, <1>17, <1>18, <1>19, <1>20, <1>21 DEF Step

\* Nothing happens, or the model rests.
LEMMA Stutters ==
    ASSUME SessionAssumption, SessionInv, UNCHANGED vars
    PROVE  SessionInv'
<1>1. /\ sessions' = sessions
      /\ handoffs' = handoffs /\ intents' = intents /\ status' = status /\ version' = version
      /\ updated' = updated /\ membership' = membership /\ closed' = closed
      /\ over' = over /\ left' = left /\ time' = time /\ requests' = requests
      /\ scenario' = scenario /\ tx' = tx /\ owned' = owned /\ shared' = shared
  BY DEF vars, data
<1>2. /\ over' \subseteq 1..MaxRequests /\ left' \subseteq (1..MaxRequests) \X {"live", "revoked"}
      /\ requests' = requests \/ (requests' = requests + 1 /\ requests < MaxRequests)
  BY <1>1 DEF SessionInv, DataTyped
<1>. QED  BY ONLY SessionAssumption, SessionInv, <1>1, <1>2, RegistryStood

\* Every step keeps the invariant.
LEMMA SessionNext ==
    ASSUME SessionAssumption, SessionInv, [Next]_vars
    PROVE  SessionInv'
<1>0. /\ scenario.accounts \subseteq Account
  BY SessionTypes DEF SessionInv
<1>1. ASSUME NEW p \in Proc, Request(p) \/ Step(p) \/ Abort(p)
      PROVE  SessionInv'
  BY <1>1, RequestStep, StepStep, EndOnly
<1>2. ASSUME NEW a \in scenario.accounts, NEW kind \in {"login", "recovery", "reauth"},
             NEW i \in 0..Len(intents), NEW auth \in {updated[a], time}, Callback(a, kind, i, auth)
      PROVE  SessionInv'
  BY <1>0, <1>2, CallbackStep
<1>3. ASSUME NEW s \in Ids, IdleOut(s) \/ FamilyOver(s)
      PROVE  SessionInv'
  BY <1>3, IdleOutStep, FamilyOverStep
<1>4. CASE Rest \/ UNCHANGED vars
  BY <1>4, Stutters DEF Rest
<1>. QED  BY <1>1, <1>2, <1>3, <1>4 DEF Next

\* The rows and the transactions are always what the invariant says.
THEOREM SessionInvariant == Spec => []SessionInv
<1>1. SessionAssumption
  BY SessionAssumption
<1>2. Init => SessionInv
  BY <1>1, SessionInit
<1>3. SessionInv /\ [Next]_vars => SessionInv'
  BY <1>1, SessionNext
<1>. QED  BY <1>2, <1>3, PTL DEF Spec

\* Every variable stays within its type, and a row lock belongs to an open transaction.
THEOREM TypeCorrect == Spec => []TypeOK
<1>1. SessionInv => TypeOK
  <2>. SUFFICES ASSUME SessionInv PROVE TypeOK
    OBVIOUS
  <2>0. DataTyped /\ TxTyped /\ LocksOK /\ SessionAssumption
    BY SessionAssumption DEF SessionInv
  <2>1. /\ scenario \in Scenarios
        /\ sessions \in Seq([family : 1..MaxRequests, account : Account, membership : Membership,
                             version : Nat, auth : Nat, kind : {"login", "recovery", "reauth"},
                             from : 0..MaxHandoffs, idle : {"fresh", "stale"}, state : {"live", "revoked"}])
        /\ handoffs \in Seq([account : Account, auth : Nat, kind : {"login", "recovery", "reauth"},
                             intent : 0..MaxHandoffs, state : {"fresh", "consumed"}])
        /\ intents \in Seq([account : Account, family : 1..MaxRequests,
                            state : {"open", "started", "answered"}])
    BY <2>0 DEF DataTyped, TxTyped, SessionRec, HandoffRec, IntentRec
  <2>2. \A x \in Row : \A p \in shared[x] \cup ({owned[x]} \ {None}) : tx[p].pc # "idle"
    BY <2>0 DEF TxTyped, LocksOK
  <2>. QED  BY <2>0, <2>1, <2>2 DEF TypeOK, DataTyped, TxTyped
<1>. QED  BY <1>1, SessionInvariant, PTL

\* Concurrent rotations and reauthentications of a session have one winner: a family never
\* has two sessions that are not revoked, for any number of requests served at the same time.
THEOREM OneWinner == Spec => []OneLivePerFamily
<1>1. SessionInv => OneLivePerFamily
  BY DEF SessionInv, DataInv
<1>. QED  BY <1>1, SessionInvariant, PTL

\* A handoff is good for one session and an intent for one handoff, and what comes of an
\* intent continues the family and the account that asked for it.
THEOREM HandoffSpentOnce == Spec => []OneSessionPerHandoff
<1>1. SessionInv => OneSessionPerHandoff
  BY DEF SessionInv, DataInv
<1>. QED  BY <1>1, SessionInvariant, PTL

\* What was barred stays barred: no session is left unrevoked of a suspended or disabled
\* account, of a disabled membership, of a closed condominium or of an older session version,
\* whatever was being issued or rotated when it was barred.
THEOREM BarredStaysBarred == Spec => []UnrevokedIsCurrent
<1>1. SessionInv => UnrevokedIsCurrent
  BY DEF SessionInv, DataInv
<1>. QED  BY <1>1, SessionInvariant, PTL

\* No login completed before an account's last update can bring a session back, unless it
\* is the login of the very recovery that made the update.
THEOREM NoOldLogin == Spec => []AuthenticatedAfterUpdate
<1>1. SessionInv => AuthenticatedAfterUpdate
  BY DEF SessionInv, DataInv, LoggedInAfter, UnrevokedIsCurrent, AuthenticatedAfterUpdate
<1>. QED  BY <1>1, SessionInvariant, PTL

-----------------------------------------------------------------------------
(* What a step may not do to a session.                                    *)

\* What has ended has ended.
EndedKept ==
    \A s \in Ids : /\ sessions[s].idle = "stale" => sessions'[s].idle = "stale"
                   /\ sessions[s].state = "revoked" => sessions'[s].state = "revoked"

\* Revoking, before or without an insertion, wakes nothing.
LEMMA RevokingEnds ==
    ASSUME SessionAssumption, DataTyped, TxTyped, NEW p, NEW R, NEW rows, rows = Revoked(p, R)
    PROVE  /\ sessions' = rows => EndedKept
           /\ \A f, m, v, login, from : sessions' = Insert(rows, f, m, v, login, from) => EndedKept
<1>1. /\ rows \in Seq(SessionRec) /\ Len(rows) = Len(sessions)
      /\ \A s \in Ids : /\ rows[s] \in SessionRec /\ rows[s].idle = sessions[s].idle
                        /\ rows[s].state = "live" <=> sessions[s].state = "live" /\ s \notin R
  BY RevokedRows
<1>2. ASSUME \A s \in Ids : sessions'[s] = rows[s] PROVE EndedKept
  <2>1. ASSUME NEW s \in Ids
        PROVE  /\ sessions[s].idle = "stale" => sessions'[s].idle = "stale"
               /\ sessions[s].state = "revoked" => sessions'[s].state = "revoked"
    <3>1. sessions'[s] = rows[s] /\ rows[s].idle = sessions[s].idle
      BY <1>1, <1>2
    <3>2. rows[s].state \in {"live", "revoked"}
      BY <1>1 DEF SessionRec
    <3>. QED  BY <1>1, <3>1, <3>2
  <2>. QED  BY <2>1 DEF EndedKept
<1>3. ASSUME NEW e, sessions' = Append(rows, e) PROVE EndedKept
  <2>1. rows \in Seq(SessionRec \cup {e}) /\ e \in SessionRec \cup {e}
    BY <1>1
  <2>2. \A s \in 1..Len(rows) : Append(rows, e)[s] = rows[s]
    BY <2>1, AppendProperties
  <2>3. \A s \in Ids : sessions'[s] = rows[s]
    BY <1>1, <1>3, <2>2 DEF Ids
  <2>. QED  BY <1>2, <2>3
<1>. QED  BY <1>2, <1>3 DEF Insert

\* A session's row changes at the commits that write sessions, and when time passes.
LEMMA RowsChange ==
    ASSUME [Next]_vars
    PROVE  \/ sessions' = sessions
           \/ \E p \in Proc : Issue(p) \/ LimitRecovery(p) \/ Rotate(p) \/ Write(p) \/ Touch(p)
           \/ \E s \in Ids : IdleOut(s)
<1>1. ASSUME NEW p \in Proc, Request(p) PROVE sessions' = sessions
  BY <1>1 DEF Request, BeginIssue, BeginRotate, BeginLogout, BeginLogoutAll, BeginTouch,
              BeginReauth, BeginStart, BeginDisable, BeginMember, BeginSetStatus, BeginClose,
              Reauthentication, Begin, data
<1>2. ASSUME NEW p \in Proc, Step(p)
      PROVE  sessions' = sessions \/ Issue(p) \/ LimitRecovery(p) \/ Rotate(p) \/ Write(p) \/ Touch(p)
  <2>1. CASE Acquire(p) \/ DeadlockVictim(p) \/ LogoutAllDenied(p)
    BY <2>1 DEF Acquire, DeadlockVictim, LogoutAllDenied, data
  <2>2. CASE ConsumeHandoff(p)
    BY <2>2 DEF ConsumeHandoff, Continue, data
  <2>3. CASE CheckAccount(p)
    BY <2>3 DEF CheckAccount, Continue, Deny, data
  <2>4. CASE ChooseMembership(p)
    BY <2>4 DEF ChooseMembership, Continue, Deny, data
  <2>5. CASE LockSession(p)
    BY <2>5 DEF LockSession, Continue, Deny, data
  <2>6. CASE Refuse(p)
    BY <2>6 DEF Refuse, Deny, data
  <2>7. CASE Replace(p)
    BY <2>7 DEF Replace, Continue, Deny, data
  <2>8. CASE CreateIntent(p) \/ StartReauth(p) \/ CreateMembership(p)
    BY <2>8 DEF CreateIntent, StartReauth, CreateMembership
  <2>9. CASE LoadTarget(p) \/ CheckTarget(p) \/ LogoutAllSession(p)
    BY <2>9 DEF LoadTarget, CheckTarget, LogoutAllSession, Continue, data
  <2>10. CASE SetStatusMembers(p)
    BY <2>10 DEF SetStatusMembers, Continue, data
  <2>11. CASE FindSessions(p)
    BY <2>11 DEF FindSessions, Continue, data
  <2>. QED  BY <1>2, <2>1, <2>2, <2>3, <2>4, <2>5, <2>6, <2>7, <2>8, <2>9, <2>10, <2>11 DEF Step
<1>3. ASSUME NEW p \in Proc, Abort(p) PROVE sessions' = sessions
  BY <1>3 DEF Abort, data
<1>4. ASSUME NEW a, NEW kind, NEW i, NEW auth, Callback(a, kind, i, auth) PROVE sessions' = sessions
  BY <1>4 DEF Callback
<1>5. ASSUME NEW f, FamilyOver(f) PROVE sessions' = sessions
  BY <1>5 DEF FamilyOver
<1>6. CASE Rest \/ UNCHANGED vars
  BY <1>6 DEF Rest, vars, data
<1>. QED  BY <1>1, <1>2, <1>3, <1>4, <1>5, <1>6 DEF Next

\* An idle session never wakes up, and a revoked one is never unrevoked.
THEOREM EndedStaysEnded == Spec => EndedIsFinal
<1>1. SessionInv /\ [Next]_vars => EndedKept
  <2>. SUFFICES ASSUME SessionInv, [Next]_vars PROVE EndedKept
    OBVIOUS
  <2>0. DataTyped /\ TxTyped /\ SessionAssumption
    BY SessionAssumption DEF SessionInv
  <2>1. CASE sessions' = sessions
    BY <2>1 DEF EndedKept
  <2>2. ASSUME NEW p \in Proc, Issue(p) PROVE EndedKept
    <3>1. PICK f, m, v, login, from :
            sessions' = Insert(Revoked(p, tx[p].revoke), f, m, v, login, from)
      BY <2>2 DEF Issue
    <3>. QED  BY <2>0, <3>1, RevokingEnds
  <2>3. ASSUME NEW p \in Proc, Rotate(p) PROVE EndedKept
    <3>1. CASE ~Rotates(p)
      BY <2>1, <2>3, <3>1 DEF Rotate
    <3>2. CASE Rotates(p)
      <4>1. PICK R, f, m, v, login, from :
              sessions' = Insert(Revoked(p, R), f, m, v, login, from)
        BY <2>3, <3>2 DEF Rotate
      <4>. QED  BY <2>0, <4>1, RevokingEnds
    <3>. QED  BY <3>1, <3>2
  <2>4. ASSUME NEW p \in Proc, LimitRecovery(p) \/ Write(p) PROVE EndedKept
    <3>1. sessions' = Revoked(p, tx[p].revoke)
      BY <2>4 DEF LimitRecovery, Write
    <3>. QED  BY <2>0, <3>1, RevokingEnds
  <2>5. ASSUME NEW p \in Proc, Touch(p) PROVE EndedKept
    <3>1. TxKnows(p) /\ tx[p].pc = "touch"
      BY <2>5 DEF SessionInv, Touch, At
    <3>2. tx[p].op = "touch"
      BY <2>0, <3>1, Statements
    <3>3. PICK s \in Ids : tx[p].session = s
      BY <2>0, <3>2, OfSession
    <3>4. CASE ~Touches(s)
      BY <2>1, <2>5, <3>3, <3>4 DEF Touch
    <3>5. CASE Touches(s)
      <4>1. /\ sessions' = [sessions EXCEPT ![s].idle = "fresh"] /\ sessions[s].idle = "fresh"
            /\ handoffs' = handoffs /\ intents' = intents /\ status' = status /\ version' = version
            /\ updated' = updated /\ membership' = membership /\ closed' = closed /\ over' = over
            /\ left' = left /\ time' = time
        BY <2>5, <3>3, <3>5 DEF Touch, Touches
      <4>2. /\ \A t \in Ids : t # s => sessions'[t] = sessions[t]
            /\ sessions'[s].state = sessions[s].state
        BY <2>0, <4>1, IdleKeeps
      <4>. QED  BY <4>1, <4>2 DEF EndedKept
    <3>. QED  BY <3>4, <3>5
  <2>6. ASSUME NEW s \in Ids, IdleOut(s) PROVE EndedKept
    <3>1. /\ sessions' = [sessions EXCEPT ![s].idle = "stale"]
          /\ handoffs' = handoffs /\ intents' = intents /\ status' = status /\ version' = version
          /\ updated' = updated /\ membership' = membership /\ closed' = closed /\ over' = over
          /\ left' = left /\ time' = time
      BY <2>6 DEF IdleOut
    <3>2. /\ \A t \in Ids : t # s => sessions'[t] = sessions[t]
          /\ sessions'[s].state = sessions[s].state /\ sessions'[s].idle = "stale"
      BY <2>0, <3>1, IdleKeeps
    <3>. QED  BY <3>2 DEF EndedKept
  <2>. QED  BY <2>1, <2>2, <2>3, <2>4, <2>5, <2>6, RowsChange
<1>2. EndedKept => \A s \in Ids : /\ sessions[s].idle = "stale" => sessions'[s].idle = "stale"
                                  /\ sessions[s].state = "revoked" => sessions'[s].state = "revoked"
  BY DEF EndedKept
<1>. QED  BY <1>1, <1>2, SessionInvariant, PTL DEF Spec, EndedIsFinal

=============================================================================
