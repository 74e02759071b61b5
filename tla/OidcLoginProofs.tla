-------------------------- MODULE OidcLoginProofs --------------------------
(***************************************************************************)
(* Theorems about OidcLogin and HumanAuthRollout, for any accounts,        *)
(* memberships, condominiums, subjects and authorizations, any number of   *)
(* requests served at the same time and any scenario.                      *)
(***************************************************************************)
EXTENDS OidcLogin, FiniteSetTheorems, SequenceTheorems, TLAPS

-----------------------------------------------------------------------------
(* What the variables hold. *)

RowRef ==
    ({"policy", "advisory"} \X Scope) \cup ({"session", "handoff"} \X Nat)
    \cup ({"account", "invitation"} \X Account) \cup ({"membership"} \X Membership)
    \cup ({"token"} \X Token) \cup ({"identity"} \X Subject)
Locks == RowRef \X {"share", "update"}
TxRec ==
    [pc : {"idle", "authorize", "authorized", "policy", "sweep", "write", "member", "gate",
           "held", "handoff", "account", "members", "insert", "preflight", "create",
           "exchange", "invitation", "bind", "identity"},
     op : Kinds \cup {None}, need : Seq(Locks), row : Nat,
     target : Account \cup Membership \cup {None}, change : Changes \cup {None},
     token : Token \cup Subject \cup {None}, previous : Nat, found : SUBSET Scope,
     ways : Seq(Membership), doomed : SUBSET Nat]

DataTyped ==
    /\ policy \in [Scope -> PolicyRow \cup {None}] /\ history \in Seq(HistoryRow)
    /\ spent \subseteq Token
    /\ sessions \in Seq(SessionRow) /\ handoffs \in Seq(HandoffRow) /\ logins \in Seq(LoginRow)
    /\ status \in [Account -> {"none", "invited", "active", "barred"}]
    /\ membership \in [Membership -> {"none", "invited", "active", "disabled"}]
    /\ identity \in [Subject -> Account \cup {None}]
    /\ invitation \in [Account -> {"none", "open", "consumed", "expired"}]
TxTyped ==
    /\ scenario \in Scenarios /\ requests \in 0..MaxRequests
    /\ tx \in [Proc -> TxRec]
    /\ locks \subseteq RowRef \X {"share", "update"} \X Proc

-----------------------------------------------------------------------------
(* The inductive invariant: the rows. *)

\* A scope without a policy was never changed, and what an authorization approved is spent.
HistoryOK ==
    /\ HistoryIsLinear
    /\ \A x \in Scope : policy[x] = None => First(x) = 0 /\ ChangesOf(x, Len(history)) = {}
    /\ \A k \in DOMAIN history : history[k].token # None => history[k].token \in spent

\* Nobody has got in as the account.
NoTrace(a) ==
    /\ \A s \in Subject : identity[s] # a
    /\ \A h \in 1..Len(handoffs) : handoffs[h].account # a
    /\ \A s \in Ids : AccountOf[sessions[s].membership] # a

\* An account exists from its invitation on, gets in once it is accepted, and an accepted
\* invitation has one identity.
AccountsOK ==
    \A a \in Account :
      /\ status[a] = "none" => invitation[a] = "none" /\ NoTrace(a)
      /\ invitation[a] \in {"open", "expired"} =>
           /\ status[a] \in {"invited", "barred"}
           /\ membership[MembershipOf(a)] \in {"invited", "disabled"}
           /\ NoTrace(a)
      /\ invitation[a] = "consumed" =>
           \E s \in Subject : \A t \in Subject : identity[t] = a <=> t = s

\* A handoff is for a login that was consumed, and for no other's.
HandoffsOK ==
    /\ \A h \in 1..Len(handoffs) : handoffs[h].login # 0 =>
         handoffs[h].login \in 1..Len(logins) /\ logins[handoffs[h].login].state = "consumed"
    /\ \A g, h \in 1..Len(handoffs) :
         handoffs[g].login = handoffs[h].login /\ handoffs[g].login # 0 => g = h

DataInv == HistoryOK /\ RolloutHolds /\ AccountsOK /\ HandoffsOK

-----------------------------------------------------------------------------
(* The inductive invariant: the transactions. *)

\* An exclusive lock excludes, and a request that is idle holds none.
LocksOK ==
    /\ \A k, l \in locks : k[1] = l[1] /\ k[2] = "update" => k[3] = l[3]
    /\ \A l \in locks : tx[l[3]].pc # "idle"

\* The transaction has the lock, or its statement still waits for it.
Holds(u, lock) == <<lock[1], lock[2], u>> \in locks
Asks(u, lock) == Holds(u, lock) \/ \E k \in DOMAIN tx[u].need : tx[u].need[k] = lock

InScope(x, m) == x \in {"global", CondoOf[m]}
VersionOf(x) == IF policy[x] = None THEN 0 ELSE policy[x].version

\* The advisory locks let one change through at a time, so that its authorization stays
\* unused and its version the next one; and the policy it locked keeps new sessions out of
\* the scope, so that what it found to revoke is all there is.
ChangeKnows(u) ==
    LET r == tx[u]  x == r.change.scope IN
    /\ r.pc \in {"authorize", "authorized", "policy", "sweep", "write"}
    /\ r.change \in Changes /\ r.token \in Token \cup {None}
    /\ r.token = None => r.row \in Ids
    /\ Asks(u, Update("advisory", "global"))
    /\ r.pc # "authorize" => Holds(u, Update("advisory", "global"))
    /\ r.pc \in {"policy", "sweep", "write"} => r.token = None \/ r.token \notin spent
    /\ r.pc \in {"sweep", "write"} => r.previous = VersionOf(x) /\ Asks(u, Update("policy", x))
    /\ r.pc = "write" =>
         /\ Holds(u, Update("policy", x))
         /\ \A s \in Unrevoked \ r.doomed : InScope(x, sessions[s].membership) =>
              Retained(Changed(u), sessions[s].membership)

LookKnows(u) ==
    tx[u].pc \in {"member", "gate", "held"} /\ tx[u].target \in Membership

\* The gate keeps the policies it decided by as they are.
GateKnown(u) == \A x \in tx[u].found : Asks(u, Share("policy", x))

IssueKnows(u) ==
    LET r == tx[u] IN
    /\ r.pc \in {"handoff", "account", "member", "gate"}
    /\ r.row \in 1..Len(handoffs)
    /\ r.pc \in {"member", "gate"} =>
         r.target \in Membership /\ AccountOf[r.target] = handoffs[r.row].account
    /\ r.pc = "gate" => GateKnown(u)

RotateKnows(u) ==
    LET r == tx[u] IN
    /\ r.pc \in {"account", "member", "gate", "held"}
    /\ r.row \in Ids /\ r.target \in Membership
    /\ AccountOf[r.target] = AccountOf[sessions[r.row].membership]
    /\ r.pc \in {"gate", "held"} => GateKnown(u)
    /\ r.pc = "held" => (\A x \in r.found : Holds(u, Share("policy", x))) /\ Allowed(u)

BarKnows(u) ==
    /\ tx[u].pc \in {"account", "members", "write"}
    /\ tx[u].target \in Account /\ status[tx[u].target] # "none"

InviteKnows(u) ==
    /\ tx[u].pc = "insert"
    /\ tx[u].target \in Account /\ status[tx[u].target] = "none"

LoginKnows(u) == tx[u].pc \in {"preflight", "create"} /\ tx[u].target = None

AcceptKnows(u) ==
    /\ tx[u].pc \in {"preflight", "gate", "create"}
    /\ tx[u].pc # "gate" => tx[u].target \in Account
    /\ tx[u].pc = "gate" => tx[u].target \in Membership

\* A callback has the login to itself. With an invitation it holds the invitation from the
\* moment it looked at it again; without one the subject stays bound.
InvitedKnows(u, a) ==
    LET r == tx[u] IN
    /\ r.pc \in {"exchange", "invitation", "gate", "bind"}
    /\ r.pc # "exchange" => r.token \in Subject /\ Asks(u, Update("invitation", a))
    /\ r.pc = "invitation" => r.target = a
    /\ r.pc \in {"gate", "bind"} =>
         Holds(u, Update("invitation", a)) /\ invitation[a] \in {"open", "expired"}
KnownKnows(u) ==
    LET r == tx[u] IN
    /\ r.pc \in {"exchange", "identity", "member", "gate"}
    /\ r.pc # "exchange" => r.token \in Subject /\ identity[r.token] # None
    /\ r.pc = "gate" => r.target \in Membership
CallbackKnows(u) ==
    /\ tx[u].row \in 1..Len(logins) /\ logins[tx[u].row].state = "consumed"
    /\ \A h \in 1..Len(handoffs) : handoffs[h].login # tx[u].row
    /\ IF Invited(u) = None THEN KnownKnows(u) ELSE InvitedKnows(u, Invited(u))

TxKnows(u) ==
    /\ tx[u].op = None => tx[u] = Idle
    /\ tx[u].op = "change" => ChangeKnows(u)
    /\ tx[u].op \in {"authenticate", "inspect"} => LookKnows(u)
    /\ tx[u].op = "issue" => IssueKnows(u)
    /\ tx[u].op = "rotate" => RotateKnows(u)
    /\ tx[u].op = "bar" => BarKnows(u)
    /\ tx[u].op = "invite" => InviteKnows(u)
    /\ tx[u].op = "login" => LoginKnows(u)
    /\ tx[u].op = "accept" => AcceptKnows(u)
    /\ tx[u].op = "callback" => CallbackKnows(u)

\* No two requests invite the account, and no two complete the login.
Apart ==
    \A u, v \in Proc : u # v /\ tx[u].op = tx[v].op =>
      /\ tx[u].op = "invite" => tx[u].target # tx[v].target
      /\ tx[u].op = "callback" => tx[u].row # tx[v].row

LoginInv ==
    /\ DataTyped /\ TxTyped /\ DataInv /\ LocksOK /\ Apart
    /\ \A u \in Proc : TxKnows(u)

-----------------------------------------------------------------------------
(* What the constants and the types say. *)

\* Accounts and condominiums of memberships, and what is not NULL.
LEMMA Constants ==
    /\ \A m \in Membership : AccountOf[m] \in Account /\ CondoOf[m] \in Condo \cup {None}
    /\ \A a \in Account : MembershipOf(a) \in Membership /\ AccountOf[MembershipOf(a)] = a
    /\ None \notin Scope /\ "global" \in Scope /\ None # "global" /\ Condo \subseteq Scope
    /\ None \notin Account /\ None \notin Membership /\ None \notin Kinds /\ None \notin Token
    /\ None \notin PolicyRow
    /\ MaxRequests \in Nat /\ IsFiniteSet(Membership) /\ "global" \notin Condo
<1>1. \A a \in Account : \E m \in Membership : AccountOf[m] = a
  BY LoginAssumption
<1>2. \A a \in Account : MembershipOf(a) \in Membership /\ AccountOf[MembershipOf(a)] = a
  BY <1>1 DEF MembershipOf
<1>3. /\ \A m \in Membership : AccountOf[m] \in Account /\ CondoOf[m] \in Condo \cup {None}
      /\ MaxRequests \in Nat /\ IsFiniteSet(Membership) /\ "global" \notin Condo
  BY RolloutAssumption
<1>4. None \notin Scope /\ None \notin Account /\ None \notin Membership /\ None \notin Token
      /\ None \notin PolicyRow
  BY RolloutAssumption
<1>5. None \notin Kinds
  BY LoginAssumption
<1>6. "global" \in Scope /\ Condo \subseteq Scope
  BY DEF Scope
<1>. QED  BY <1>2, <1>3, <1>4, <1>5, <1>6

\* The rows have the types of their tables, and every request is a record.
LEMMA Types ==
    ASSUME DataTyped, TxTyped
    PROVE  /\ Len(sessions) \in Nat /\ Len(handoffs) \in Nat /\ Len(logins) \in Nat
           /\ \A s \in Ids : sessions[s] \in SessionRow /\ sessions[s].membership \in Membership
           /\ \A h \in 1..Len(handoffs) : /\ handoffs[h] \in HandoffRow
                                          /\ handoffs[h].account \in Account
                                          /\ handoffs[h].login \in Nat
           /\ \A l \in 1..Len(logins) : /\ logins[l] \in LoginRow
                                        /\ logins[l].invited \in Account \cup {None}
           /\ \A u \in Proc : tx[u] \in TxRec
<1>1. /\ sessions \in Seq(SessionRow) /\ handoffs \in Seq(HandoffRow) /\ logins \in Seq(LoginRow)
      /\ tx \in [Proc -> TxRec]
  BY DEF DataTyped, TxTyped
<1>2. /\ Len(sessions) \in Nat /\ Len(handoffs) \in Nat /\ Len(logins) \in Nat
      /\ \A s \in 1..Len(sessions) : sessions[s] \in SessionRow
      /\ \A h \in 1..Len(handoffs) : handoffs[h] \in HandoffRow
      /\ \A l \in 1..Len(logins) : logins[l] \in LoginRow
  BY <1>1, LenProperties, ElementOfSeq
<1>. QED  BY <1>1, <1>2 DEF Ids, SessionRow, HandoffRow, LoginRow

\* What a change says.
LEMMA ChangeTypes ==
    ASSUME NEW c \in Changes
    PROVE  c.scope \in Scope /\ c.state \in States /\ c.cohort \in {0, 10, 50, 100}
BY DEF Changes

\* Row references of each kind, in either mode.
LEMMA LockTypes ==
    /\ \A x \in Scope : /\ Share("policy", x) \in Locks /\ Update("policy", x) \in Locks
                        /\ Update("advisory", x) \in Locks
    /\ \A n \in Nat : /\ Share("session", n) \in Locks /\ Update("session", n) \in Locks
                      /\ Update("handoff", n) \in Locks
    /\ \A a \in Account : /\ Share("account", a) \in Locks /\ Update("account", a) \in Locks
                          /\ Share("invitation", a) \in Locks /\ Update("invitation", a) \in Locks
    /\ \A m \in Membership : Share("membership", m) \in Locks /\ Update("membership", m) \in Locks
    /\ \A t \in Token : Update("token", t) \in Locks
    /\ \A s \in Subject : Update("identity", s) \in Locks
BY DEF Locks, RowRef, Share, Update

\* A statement that got its locks holds what it asked for.
LEMMA AtHolds ==
    ASSUME NEW u, ~Waiting(u)
    PROVE  \A lock : Asks(u, lock) => Holds(u, lock)
<1>1. tx[u].need = <<>>
  BY DEF Waiting
<1>2. DOMAIN tx[u].need = {}
  BY <1>1
<1>. QED  BY <1>2 DEF Asks

-----------------------------------------------------------------------------
(* What a step leaves alone. *)

\* Nothing of the rows is forgotten.
RowsKept ==
    /\ Ids \subseteq 1..Len(sessions')
    /\ \A s \in Ids : /\ sessions'[s].membership = sessions[s].membership
                      /\ sessions'[s].state = "live" => sessions[s].state = "live"
    /\ 1..Len(handoffs) \subseteq 1..Len(handoffs')
    /\ \A h \in 1..Len(handoffs) : /\ handoffs'[h].account = handoffs[h].account
                                   /\ handoffs'[h].login = handoffs[h].login
    /\ 1..Len(logins) \subseteq 1..Len(logins')
    /\ \A l \in 1..Len(logins) : /\ logins'[l].invited = logins[l].invited
                                 /\ logins[l].state = "consumed" => logins'[l].state = "consumed"
    /\ \A s \in Subject : identity[s] # None => identity'[s] # None
    /\ \A a \in Account : status[a] # "none" => status'[a] # "none"

\* The request keeps its place and its locks.
Untouched(u) ==
    /\ tx'[u].pc = tx[u].pc /\ tx'[u].op = tx[u].op /\ tx'[u].row = tx[u].row
    /\ tx'[u].target = tx[u].target /\ tx'[u].change = tx[u].change /\ tx'[u].token = tx[u].token
    /\ tx'[u].previous = tx[u].previous /\ tx'[u].found = tx[u].found
    /\ tx'[u].doomed = tx[u].doomed
    /\ tx[u].op = None => tx'[u] = tx[u]
    /\ \A lock : /\ Holds(u, lock) => Holds(u, lock)'
                 /\ Asks(u, lock) => Asks(u, lock)'

\* The step is not one that the request's locks, or its being the only one, exclude.
SparesChange(u) ==
    /\ tx[u].pc # "authorize" => policy' = policy /\ spent' = spent
    /\ tx[u].pc = "write" => \A s \in 1..Len(sessions') :
         s \in Ids \/ ~InScope(tx[u].change.scope, sessions'[s].membership)
SparesCallback(u) ==
    /\ \A h \in 1..Len(handoffs') : h \in 1..Len(handoffs) \/ handoffs'[h].login # tx[u].row
    /\ tx[u].pc \in {"gate", "bind"} => \A a \in Account :
         Invited(u) = a /\ invitation[a] \in {"open", "expired"} =>
            invitation'[a] \in {"open", "expired"}
Spares(u) ==
    /\ tx[u].op = "change" => SparesChange(u)
    /\ tx[u].op = "rotate" /\ tx[u].pc = "held" => \A x \in tx[u].found : policy'[x] = policy[x]
    /\ tx[u].op = "invite" => status'[tx[u].target] = status[tx[u].target]
    /\ tx[u].op = "callback" => SparesCallback(u)

\* A request that goes nowhere is untouched when it keeps its locks.
LEMMA StaysPut ==
    ASSUME NEW u \in Proc, tx'[u] = tx[u],
           \A row, mode : <<row, mode, u>> \in locks => <<row, mode, u>> \in locks'
    PROVE  Untouched(u)
BY DEF Untouched, Holds, Asks

\* Its knowledge of a policy change is kept.
LEMMA ChangeKept ==
    ASSUME DataTyped, TxTyped, RowsKept, NEW u \in Proc, Untouched(u), SparesChange(u), ChangeKnows(u)
    PROVE  ChangeKnows(u)'
<1>0. PICK r : r = tx[u]
  OBVIOUS
<1>. DEFINE x == r.change.scope
<1>1. /\ tx[u] = r
      /\ tx'[u].pc = r.pc /\ tx'[u].op = r.op /\ tx'[u].row = r.row /\ tx'[u].target = r.target
      /\ tx'[u].change = r.change /\ tx'[u].token = r.token /\ tx'[u].previous = r.previous
      /\ tx'[u].found = r.found /\ tx'[u].doomed = r.doomed
  BY <1>0 DEF Untouched
<1>2. \A lock : (Holds(u, lock) => Holds(u, lock)') /\ (Asks(u, lock) => Asks(u, lock)')
  BY DEF Untouched
<1>3. r.token = None => r.row \in 1..Len(sessions')
  BY <1>1 DEF ChangeKnows, RowsKept
<1>4. r.pc \in {"policy", "sweep", "write"} => r.token = None \/ r.token \notin spent'
  BY <1>1 DEF ChangeKnows, SparesChange
<1>5. r.pc \in {"sweep", "write"} => r.previous = VersionOf(x)' /\ Asks(u, Update("policy", x))'
  <2>1. r.pc \in {"sweep", "write"} => VersionOf(x)' = VersionOf(x)
    BY <1>1 DEF SparesChange, VersionOf
  <2>2. r.pc \in {"sweep", "write"} => r.previous = VersionOf(x) /\ Asks(u, Update("policy", x))
    BY <1>1 DEF ChangeKnows
  <2>. QED  BY <1>2, <2>1, <2>2
<1>6. ASSUME r.pc = "write", NEW s \in Unrevoked', s \notin r.doomed,
             InScope(x, sessions'[s].membership)
      PROVE  Retained(Changed(u)', sessions'[s].membership)
  <2>1. s \in 1..Len(sessions') /\ sessions'[s].state = "live"
    BY <1>6 DEF Unrevoked, Ids
  <2>2. s \in Ids
    BY <1>1, <1>6, <2>1 DEF SparesChange
  <2>3. s \in Unrevoked /\ sessions'[s].membership = sessions[s].membership
    BY <2>1, <2>2 DEF Unrevoked, RowsKept
  <2>4. Retained(Changed(u), sessions[s].membership)
    BY <1>1, <1>6, <2>3 DEF ChangeKnows
  <2>5. Changed(u)' = Changed(u)
    BY <1>1, <1>6 DEF Changed, SparesChange
  <2>. QED  BY <2>3, <2>4, <2>5
<1>7. ChangeKnows(u)' =
        (/\ r.pc \in {"authorize", "authorized", "policy", "sweep", "write"}
         /\ r.change \in Changes /\ r.token \in Token \cup {None}
         /\ r.token = None => r.row \in 1..Len(sessions')
         /\ Asks(u, Update("advisory", "global"))'
         /\ r.pc # "authorize" => Holds(u, Update("advisory", "global"))'
         /\ r.pc \in {"policy", "sweep", "write"} => r.token = None \/ r.token \notin spent'
         /\ r.pc \in {"sweep", "write"} => r.previous = VersionOf(x)' /\ Asks(u, Update("policy", x))'
         /\ r.pc = "write" =>
              /\ Holds(u, Update("policy", x))'
              /\ \A s \in Unrevoked' \ r.doomed : InScope(x, sessions'[s].membership) =>
                   Retained(Changed(u)', sessions'[s].membership))
  BY <1>1 DEF ChangeKnows, Ids
<1>8. /\ r.pc \in {"authorize", "authorized", "policy", "sweep", "write"}
      /\ r.change \in Changes /\ r.token \in Token \cup {None}
      /\ Asks(u, Update("advisory", "global"))
      /\ r.pc # "authorize" => Holds(u, Update("advisory", "global"))
      /\ r.pc = "write" => Holds(u, Update("policy", x))
  BY <1>1 DEF ChangeKnows
<1>. QED  BY <1>2, <1>3, <1>4, <1>5, <1>6, <1>7, <1>8

\* Its knowledge of a rotation is kept.
LEMMA RotateKept ==
    ASSUME DataTyped, TxTyped, RowsKept, NEW u \in Proc, Untouched(u), RotateKnows(u),
           tx[u].pc = "held" => \A x \in tx[u].found : policy'[x] = policy[x]
    PROVE  RotateKnows(u)'
<1>0. PICK r : r = tx[u]
  OBVIOUS
<1>1. /\ tx[u] = r
      /\ tx'[u].pc = r.pc /\ tx'[u].op = r.op /\ tx'[u].row = r.row /\ tx'[u].target = r.target
      /\ tx'[u].change = r.change /\ tx'[u].token = r.token /\ tx'[u].previous = r.previous
      /\ tx'[u].found = r.found /\ tx'[u].doomed = r.doomed
  BY <1>0 DEF Untouched
<1>2. \A lock : (Holds(u, lock) => Holds(u, lock)') /\ (Asks(u, lock) => Asks(u, lock)')
  BY DEF Untouched
<1>3. /\ r.pc \in {"account", "member", "gate", "held"}
      /\ r.row \in Ids /\ r.target \in Membership
      /\ AccountOf[r.target] = AccountOf[sessions[r.row].membership]
  BY <1>1 DEF RotateKnows
<1>4. r.row \in 1..Len(sessions') /\ sessions'[r.row].membership = sessions[r.row].membership
  BY <1>3 DEF RowsKept
<1>5. r.pc \in {"gate", "held"} => \A x \in r.found : Asks(u, Share("policy", x))'
  BY <1>1, <1>2 DEF RotateKnows, GateKnown
<1>6. r.pc = "held" => \A x \in r.found : Holds(u, Share("policy", x))'
  BY <1>1, <1>2 DEF RotateKnows
<1>7. r.pc = "held" => Allowed(u)'
  <2>1. SUFFICES ASSUME r.pc = "held" PROVE Allowed(u)'
    OBVIOUS
  <2>2. Allowed(u)
    BY <1>1, <2>1 DEF RotateKnows
  <2>3. [x \in Scope |-> IF x \in r.found THEN policy'[x] ELSE None]
          = [x \in Scope |-> IF x \in r.found THEN policy[x] ELSE None]
    BY <1>1, <2>1
  <2>. QED  BY <1>1, <2>2, <2>3 DEF Allowed
<1>. QED  BY <1>1, <1>3, <1>4, <1>5, <1>6, <1>7 DEF RotateKnows, GateKnown, Ids

\* Its knowledge of an issuance is kept.
LEMMA IssueKept ==
    ASSUME DataTyped, TxTyped, RowsKept, NEW u \in Proc, Untouched(u), IssueKnows(u)
    PROVE  IssueKnows(u)'
<1>0. PICK r : r = tx[u]
  OBVIOUS
<1>1. /\ tx[u] = r
      /\ tx'[u].pc = r.pc /\ tx'[u].op = r.op /\ tx'[u].row = r.row /\ tx'[u].target = r.target
      /\ tx'[u].change = r.change /\ tx'[u].token = r.token /\ tx'[u].previous = r.previous
      /\ tx'[u].found = r.found /\ tx'[u].doomed = r.doomed
  BY <1>0 DEF Untouched
<1>2. \A lock : Asks(u, lock) => Asks(u, lock)'
  BY DEF Untouched
<1>3. /\ r.pc \in {"handoff", "account", "member", "gate"}
      /\ r.row \in 1..Len(handoffs)
      /\ r.pc \in {"member", "gate"} =>
           r.target \in Membership /\ AccountOf[r.target] = handoffs[r.row].account
  BY <1>1 DEF IssueKnows
<1>4. r.row \in 1..Len(handoffs') /\ handoffs'[r.row].account = handoffs[r.row].account
  BY <1>3 DEF RowsKept
<1>5. r.pc = "gate" => \A x \in r.found : Asks(u, Share("policy", x))'
  BY <1>1, <1>2 DEF IssueKnows, GateKnown
<1>. QED  BY <1>1, <1>3, <1>4, <1>5 DEF IssueKnows, GateKnown

\* Its knowledge of a login is kept.
LEMMA CallbackKept ==
    ASSUME DataTyped, TxTyped, RowsKept, NEW u \in Proc, Untouched(u), SparesCallback(u),
           CallbackKnows(u)
    PROVE  CallbackKnows(u)'
<1>0. PICK r : r = tx[u]
  OBVIOUS
<1>1. /\ tx[u] = r
      /\ tx'[u].pc = r.pc /\ tx'[u].op = r.op /\ tx'[u].row = r.row /\ tx'[u].target = r.target
      /\ tx'[u].change = r.change /\ tx'[u].token = r.token /\ tx'[u].previous = r.previous
      /\ tx'[u].found = r.found /\ tx'[u].doomed = r.doomed
  BY <1>0 DEF Untouched
<1>2. \A lock : (Holds(u, lock) => Holds(u, lock)') /\ (Asks(u, lock) => Asks(u, lock)')
  BY DEF Untouched
<1>3. r.row \in 1..Len(logins) /\ logins[r.row].state = "consumed"
  BY <1>1 DEF CallbackKnows
<1>4. /\ r.row \in 1..Len(logins') /\ logins'[r.row].state = "consumed"
      /\ logins'[r.row].invited = logins[r.row].invited
  BY <1>3 DEF RowsKept
<1>5. ASSUME NEW h \in 1..Len(handoffs') PROVE handoffs'[h].login # r.row
  <2>1. CASE h \in 1..Len(handoffs)
    <3>1. handoffs[h].login # r.row
      BY <1>1, <2>1 DEF CallbackKnows
    <3>. QED  BY <2>1, <3>1 DEF RowsKept
  <2>2. CASE h \notin 1..Len(handoffs)
    BY <1>1, <2>2 DEF SparesCallback
  <2>. QED  BY <2>1, <2>2
<1>6. PICK a \in Account \cup {None} : a = logins[r.row].invited
  BY <1>3, Types
<1>7. Invited(u) = a /\ Invited(u)' = a
  BY <1>1, <1>4, <1>6 DEF Invited
<1>8. CASE a = None
  <2>1. KnownKnows(u)
    BY <1>7, <1>8 DEF CallbackKnows
  <2>2. KnownKnows(u)'
    BY <1>1, <2>1 DEF KnownKnows, RowsKept
  <2>. QED  BY <1>1, <1>4, <1>5, <1>7, <1>8, <2>2 DEF CallbackKnows
<1>9. CASE a # None
  <2>1. InvitedKnows(u, a)
    BY <1>7, <1>9 DEF CallbackKnows
  <2>2. /\ r.pc \in {"exchange", "invitation", "gate", "bind"}
        /\ r.pc # "exchange" => r.token \in Subject /\ Asks(u, Update("invitation", a))
        /\ r.pc = "invitation" => r.target = a
        /\ r.pc \in {"gate", "bind"} =>
             Holds(u, Update("invitation", a)) /\ invitation[a] \in {"open", "expired"}
    BY <1>1, <2>1 DEF InvitedKnows
  <2>3. r.pc \in {"gate", "bind"} => invitation'[a] \in {"open", "expired"}
    BY <1>1, <1>6, <1>7, <1>9, <2>2 DEF SparesCallback
  <2>4. InvitedKnows(u, a)'
    BY <1>1, <1>2, <2>2, <2>3 DEF InvitedKnows
  <2>. QED  BY <1>1, <1>4, <1>5, <1>7, <1>9, <2>4 DEF CallbackKnows
<1>. QED  BY <1>8, <1>9

\* A step that spares a request leaves what it knows true.
LEMMA TxKept ==
    ASSUME DataTyped, TxTyped, RowsKept, NEW u \in Proc, Untouched(u), Spares(u), TxKnows(u)
    PROVE  TxKnows(u)'
<1>1. /\ tx'[u].pc = tx[u].pc /\ tx'[u].op = tx[u].op /\ tx'[u].target = tx[u].target
      /\ tx[u].op = None => tx'[u] = tx[u]
  BY DEF Untouched
<1>2. tx[u].op = "change" => ChangeKnows(u)'
  BY ChangeKept DEF TxKnows, Spares
<1>3. tx[u].op = "issue" => IssueKnows(u)'
  BY IssueKept DEF TxKnows
<1>4. tx[u].op = "rotate" => RotateKnows(u)'
  BY RotateKept DEF TxKnows, Spares
<1>5. tx[u].op = "callback" => CallbackKnows(u)'
  BY CallbackKept DEF TxKnows, Spares
<1>6. tx[u].op \in {"authenticate", "inspect"} => LookKnows(u)'
  BY <1>1 DEF TxKnows, LookKnows
<1>7. tx[u].op = "bar" => BarKnows(u)'
  BY <1>1 DEF TxKnows, BarKnows, RowsKept
<1>8. tx[u].op = "invite" => InviteKnows(u)'
  BY <1>1 DEF TxKnows, InviteKnows, Spares
<1>9. /\ tx[u].op = "login" => LoginKnows(u)'
      /\ tx[u].op = "accept" => AcceptKnows(u)'
      /\ tx[u].op = None => tx'[u] = Idle
  BY <1>1 DEF TxKnows, LoginKnows, AcceptKnows
<1>. QED  BY <1>1, <1>2, <1>3, <1>4, <1>5, <1>6, <1>7, <1>8, <1>9 DEF TxKnows

-----------------------------------------------------------------------------
(* Steps that write no row, and the end of a transaction. *)

\* A step that writes no row.
Quiet == UNCHANGED <<base, loginVars, scenario>>

\* It keeps what is said of the rows, and spares every request.
LEMMA QuietStep ==
    ASSUME LoginInv, Quiet
    PROVE  /\ DataTyped' /\ DataInv' /\ RowsKept
           /\ \A u \in Proc : Spares(u)
<1>1. /\ policy' = policy /\ history' = history /\ spent' = spent /\ sessions' = sessions
      /\ handoffs' = handoffs /\ status' = status /\ membership' = membership
      /\ identity' = identity /\ invitation' = invitation /\ logins' = logins
      /\ scenario' = scenario
  BY DEF Quiet, base, rollout, people, loginVars
<1>2. DataTyped'
  BY <1>1 DEF LoginInv, DataTyped
<1>3. HistoryOK'
  BY <1>1 DEF LoginInv, DataInv, HistoryOK, HistoryIsLinear, First, ChangesOf
<1>4. RolloutHolds'
  BY <1>1 DEF LoginInv, DataInv, RolloutHolds, Unrevoked, Ids
<1>5. AccountsOK'
  BY <1>1 DEF LoginInv, DataInv, AccountsOK, NoTrace, Ids
<1>6. HandoffsOK'
  BY <1>1 DEF LoginInv, DataInv, HandoffsOK
<1>7. RowsKept
  BY <1>1 DEF RowsKept, Ids
<1>8. ASSUME NEW u \in Proc PROVE Spares(u)
  <2>1. SparesChange(u)
    BY <1>1 DEF SparesChange, Ids
  <2>2. SparesCallback(u)
    BY <1>1 DEF SparesCallback
  <2>. QED  BY <1>1, <2>1, <2>2 DEF Spares
<1>. QED  BY <1>2, <1>3, <1>4, <1>5, <1>6, <1>7, <1>8 DEF DataInv

\* The idle record.
LEMMA IdleTyped == Idle \in TxRec /\ Idle.pc = "idle" /\ Idle.op = None /\ Idle.need = <<>>
<1>1. <<>> \in Seq(Locks) /\ <<>> \in Seq(Membership)
  OBVIOUS
<1>. QED  BY <1>1 DEF Idle, TxRec

\* An idle request knows nothing and asks for nothing.
LEMMA IdleKnows ==
    ASSUME NEW u \in Proc, tx'[u] = Idle
    PROVE  TxKnows(u)'
BY IdleTyped, Constants DEF TxKnows, Kinds

\* A request is idle when it has no operation, and only then.
LEMMA IdleIs ==
    ASSUME TxTyped, NEW u \in Proc, TxKnows(u)
    PROVE  /\ tx[u].op \in Kinds \cup {None}
           /\ tx[u].op = None <=> tx[u].pc = "idle"
           /\ tx[u].pc = "idle" => tx[u] = Idle
<1>1. tx[u].op \in Kinds \cup {None}
  BY DEF TxTyped, TxRec
<1>2. tx[u].op \in Kinds => tx[u].pc # "idle"
  BY DEF Kinds, TxKnows, ChangeKnows, LookKnows, IssueKnows, RotateKnows, BarKnows, InviteKnows,
         LoginKnows, AcceptKnows, CallbackKnows, InvitedKnows, KnownKnows
<1>. QED  BY <1>1, <1>2, IdleTyped, Constants DEF TxKnows

\* Fewer locks exclude no less.
LEMMA FewerLocks ==
    ASSUME LocksOK, TxTyped, locks' \subseteq locks,
           \A l \in locks' : tx'[l[3]].pc # "idle"
    PROVE  LocksOK' /\ locks' \subseteq RowRef \X {"share", "update"} \X Proc
BY DEF LocksOK, TxTyped

\* A transaction that ends, or gives back its locks, leaves the others theirs.
LEMMA Released ==
    ASSUME LoginInv, NEW p \in Proc, NEW rec \in TxRec, tx' = [tx EXCEPT ![p] = rec],
           locks' = {l \in locks : l[3] # p}
    PROVE  /\ tx' \in [Proc -> TxRec] /\ tx'[p] = rec
           /\ LocksOK' /\ locks' \subseteq RowRef \X {"share", "update"} \X Proc
           /\ \A u \in Proc \ {p} : tx'[u] = tx[u] /\ Untouched(u)
<1>1. TxTyped /\ LocksOK /\ tx \in [Proc -> TxRec]
  BY DEF LoginInv, TxTyped
<1>2. /\ tx' \in [Proc -> TxRec] /\ tx'[p] = rec
      /\ \A u \in Proc \ {p} : tx'[u] = tx[u]
  BY <1>1
<1>3. locks' \subseteq locks
  OBVIOUS
<1>4. ASSUME NEW l \in locks' PROVE tx'[l[3]].pc # "idle"
  <2>1. l \in locks /\ l[3] # p /\ l[3] \in Proc
    BY <1>1 DEF TxTyped
  <2>. QED  BY <1>1, <1>2, <2>1 DEF LocksOK
<1>5. \A u \in Proc \ {p} : Untouched(u)
  BY <1>1, <1>2, StaysPut
<1>. QED  BY <1>1, <1>2, <1>3, <1>4, <1>5, FewerLocks

\* The end of a transaction, whatever it wrote.
LEMMA Ended ==
    ASSUME LoginInv, NEW p \in Proc, End(p), DataTyped', DataInv', RowsKept,
           \A u \in Proc \ {p} : Spares(u)
    PROVE  LoginInv'
<1>1. /\ tx' = [tx EXCEPT ![p] = Idle] /\ locks' = {l \in locks : l[3] # p}
      /\ requests' = requests /\ scenario' = scenario
  BY DEF End
<1>2. /\ tx' \in [Proc -> TxRec] /\ tx'[p] = Idle
      /\ LocksOK' /\ locks' \subseteq RowRef \X {"share", "update"} \X Proc
      /\ \A u \in Proc \ {p} : tx'[u] = tx[u] /\ Untouched(u)
  BY <1>1, IdleTyped, Released
<1>3. TxTyped'
  BY <1>1, <1>2 DEF LoginInv, TxTyped
<1>4. Apart'
  BY <1>2, IdleTyped, Constants DEF LoginInv, Apart, Kinds
<1>5. ASSUME NEW u \in Proc PROVE TxKnows(u)'
  <2>1. CASE u = p
    BY <1>2, <2>1, IdleKnows
  <2>2. CASE u # p
    BY <1>2, <2>2, TxKept DEF LoginInv
  <2>. QED  BY <2>1, <2>2
<1>. QED  BY <1>2, <1>3, <1>4, <1>5 DEF LoginInv

\* A transaction that wrote nothing ends.
LEMMA Quits ==
    ASSUME LoginInv, NEW p \in Proc, Quit(p), UNCHANGED loginVars
    PROVE  LoginInv'
<1>1. End(p) /\ Quiet
  BY DEF Quit, End, Quiet
<1>. QED  BY <1>1, QuietStep, Ended

-----------------------------------------------------------------------------
(* Steps that go on. *)

\* A request that keeps its locks, and begins or goes on as rec says.
LEMMA Moved ==
    ASSUME LoginInv, NEW p \in Proc, NEW rec \in TxRec, tx' = [tx EXCEPT ![p] = rec],
           DataTyped', DataInv', RowsKept, \A u \in Proc \ {p} : Spares(u),
           scenario' = scenario, requests' \in 0..MaxRequests, rec.pc # "idle",
           locks' = locks \/ locks' = {l \in locks : l[3] # p},
           \A u \in Proc \ {p} : tx[u].op = rec.op =>
             /\ rec.op = "invite" => tx[u].target # rec.target
             /\ rec.op = "callback" => tx[u].row # rec.row,
           TxKnows(p)'
    PROVE  LoginInv'
<1>1. TxTyped /\ LocksOK /\ tx \in [Proc -> TxRec]
  BY DEF LoginInv, TxTyped
<1>2. /\ tx' \in [Proc -> TxRec] /\ tx'[p] = rec
      /\ \A u \in Proc \ {p} : tx'[u] = tx[u]
  BY <1>1
<1>3. locks' \subseteq locks
  OBVIOUS
<1>4. ASSUME NEW l \in locks' PROVE tx'[l[3]].pc # "idle"
  <2>1. l \in locks /\ l[3] \in Proc
    BY <1>1, <1>3 DEF TxTyped
  <2>. QED  BY <1>1, <1>2, <2>1 DEF LocksOK
<1>5. LocksOK' /\ locks' \subseteq RowRef \X {"share", "update"} \X Proc
  BY <1>1, <1>3, <1>4, FewerLocks
<1>6. \A u \in Proc \ {p} : Untouched(u)
  <2>1. \A u \in Proc \ {p} : \A row, mode : <<row, mode, u>> \in locks => <<row, mode, u>> \in locks'
    OBVIOUS
  <2>. QED  BY <1>2, <2>1, StaysPut
<1>7. TxTyped'
  BY <1>2, <1>5 DEF LoginInv, TxTyped
<1>8. Apart'
  BY <1>2 DEF LoginInv, Apart
<1>9. ASSUME NEW u \in Proc PROVE TxKnows(u)'
  BY <1>2, <1>6, TxKept DEF LoginInv
<1>. QED  BY <1>5, <1>7, <1>8, <1>9 DEF LoginInv

\* The first place of a request that writes nothing.
LEMMA Begun ==
    ASSUME LoginInv, NEW p \in Proc, NEW op \in Kinds, NEW record \in TxRec,
           Begin(p, op, record), UNCHANGED loginVars, record.pc # "idle", op # "callback",
           op = "invite" => \A q \in Proc : tx[q].op = "invite" => tx[q].target # record.target,
           tx'[p] = [record EXCEPT !.op = op] => TxKnows(p)'
    PROVE  LoginInv'
<1>1. PICK rec \in TxRec : rec = [record EXCEPT !.op = op]
  BY DEF TxRec
<1>2. rec.op = op /\ rec.row = record.row /\ rec.pc # "idle" /\ rec.target = record.target
  BY <1>1 DEF TxRec
<1>3. /\ Quiet /\ locks' = locks /\ requests' = requests + 1 /\ tx' = [tx EXCEPT ![p] = rec]
      /\ requests < MaxRequests
  BY <1>1 DEF Begin, Quiet
<1>4. scenario' = scenario /\ requests' \in 0..MaxRequests
  BY <1>3, Constants DEF Quiet, LoginInv, TxTyped
<1>5. \A u \in Proc \ {p} : tx[u].op = rec.op =>
        /\ rec.op = "invite" => tx[u].target # rec.target
        /\ rec.op = "callback" => tx[u].row # rec.row
  BY <1>2
<1>6. DataTyped' /\ DataInv' /\ RowsKept /\ \A u \in Proc : Spares(u)
  BY <1>3, QuietStep
<1>7. tx'[p] = rec
  BY <1>3 DEF LoginInv, TxTyped
<1>. QED  BY <1>1, <1>2, <1>3, <1>4, <1>5, <1>6, <1>7, Moved

\* A transaction that commits before the request goes on.
LEMMA Committed ==
    ASSUME LoginInv, NEW p \in Proc, NEW pc, NEW record \in TxRec,
           Commit(p, pc, record), UNCHANGED loginVars, tx[p].pc # "idle",
           [record EXCEPT !.pc = pc] \in TxRec, record.op = tx[p].op, pc # "idle",
           tx[p].op \notin {"invite", "callback"},
           tx'[p] = [record EXCEPT !.pc = pc] => TxKnows(p)'
    PROVE  LoginInv'
<1>1. PICK rec \in TxRec : rec = [record EXCEPT !.pc = pc]
  OBVIOUS
<1>2. rec.op = tx[p].op /\ rec.pc # "idle"
  BY <1>1 DEF TxRec
<1>3. /\ Quiet /\ locks' = {l \in locks : l[3] # p} /\ requests' = requests
      /\ tx' = [tx EXCEPT ![p] = rec]
  BY <1>1 DEF Commit, Quiet
<1>4. scenario' = scenario /\ requests' \in 0..MaxRequests
  BY <1>3 DEF Quiet, LoginInv, TxTyped
<1>5. \A u \in Proc \ {p} : tx[u].op = rec.op =>
        /\ rec.op = "invite" => tx[u].target # rec.target
        /\ rec.op = "callback" => tx[u].row # rec.row
  BY <1>2
<1>6. DataTyped' /\ DataInv' /\ RowsKept /\ \A u \in Proc : Spares(u)
  BY <1>3, QuietStep
<1>7. tx'[p] = rec
  BY <1>3 DEF LoginInv, TxTyped
<1>. QED  BY <1>1, <1>2, <1>3, <1>4, <1>5, <1>6, <1>7, Moved

\* A lock is granted when nobody else's excludes it, and the rest is still asked for.
LEMMA AcquireKeeps ==
    ASSUME LoginInv, NEW p \in Proc, Acquire(p), UNCHANGED loginVars
    PROVE  LoginInv'
<1>1. /\ TxTyped /\ DataTyped /\ LocksOK /\ Apart /\ tx \in [Proc -> TxRec] /\ tx[p] \in TxRec
      /\ TxKnows(p)
  BY DEF LoginInv, TxTyped
<1>2. PICK n \in Seq(Locks) : n = tx[p].need /\ n # <<>>
  BY <1>1 DEF TxRec, Acquire, Waiting
<1>3. PICK lock \in Locks : lock = Head(n)
  BY <1>2, HeadTailProperties
<1>4. PICK rest \in Seq(Locks) : rest = Tail(n)
  BY <1>2, HeadTailProperties
<1>5. \A k \in 1..Len(n) : n[k] = lock \/ \E j \in 1..Len(rest) : rest[j] = n[k]
  <2>1. Len(n) \in Nat /\ Len(rest) = Len(n) - 1 /\ \A j \in 1..Len(rest) : rest[j] = n[j + 1]
    BY <1>2, <1>4, HeadTailProperties, LenProperties
  <2>2. lock = n[1]
    BY <1>2, <1>3
  <2>3. ASSUME NEW k \in 1..Len(n), k # 1 PROVE k - 1 \in 1..Len(rest) /\ rest[k - 1] = n[k]
    BY <2>1, <2>3
  <2>. QED  BY <2>2, <2>3
<1>6. PICK rec \in TxRec : rec = [tx[p] EXCEPT !.need = rest]
  BY <1>1 DEF TxRec
<1>7. /\ rec.need = rest /\ rec.op = tx[p].op /\ rec.pc = tx[p].pc /\ rec.row = tx[p].row
      /\ rec.target = tx[p].target /\ rec.change = tx[p].change /\ rec.token = tx[p].token
      /\ rec.previous = tx[p].previous /\ rec.found = tx[p].found /\ rec.doomed = tx[p].doomed
  BY <1>1, <1>6 DEF TxRec
<1>8. /\ Quiet /\ requests' = requests /\ scenario' = scenario
      /\ locks' = locks \cup {<<lock[1], lock[2], p>>}
      /\ tx' = [tx EXCEPT ![p] = rec]
  <2>1. tx' = [tx EXCEPT ![p].need = Tail(@)]
    BY DEF Acquire
  <2>2. tx' = [tx EXCEPT ![p] = rec]
    BY <1>1, <1>2, <1>4, <1>6, <2>1
  <2>. QED  BY <1>2, <1>3, <2>2 DEF Acquire, Quiet
<1>9. /\ tx' \in [Proc -> TxRec] /\ tx'[p] = rec
      /\ \A u \in Proc \ {p} : tx'[u] = tx[u] /\ Untouched(u)
  <2>1. tx' \in [Proc -> TxRec] /\ tx'[p] = rec /\ \A u \in Proc \ {p} : tx'[u] = tx[u]
    BY <1>1, <1>8
  <2>. QED  BY <1>8, <2>1, StaysPut
<1>10. tx[p].pc # "idle"
  <2>1. Idle.need = <<>>
    BY IdleTyped
  <2>. QED  BY <1>1, <1>2, <2>1, IdleIs
<1>11. LocksOK'
  <2>1. Blockers(p, lock) = {}
    BY <1>2, <1>3 DEF Acquire
  <2>2. ASSUME NEW k \in locks, k[1] = lock[1], k[2] = "update" \/ lock[2] = "update"
        PROVE  k[3] = p
    BY <2>1, <2>2 DEF Blockers
  <2>3. ASSUME NEW k \in locks', NEW l \in locks', k[1] = l[1], k[2] = "update"
        PROVE  k[3] = l[3]
    <3>. PICK new : new = <<lock[1], lock[2], p>>
      OBVIOUS
    <3>0. new[1] = lock[1] /\ new[2] = lock[2] /\ new[3] = p
      OBVIOUS
    <3>1. (k \in locks \/ k = new) /\ (l \in locks \/ l = new)
      BY <1>8, <2>3, <3>0
    <3>2. CASE k \in locks /\ l \in locks
      BY <1>1, <2>3, <3>2 DEF LocksOK
    <3>3. CASE k = new /\ l \in locks
      BY <2>2, <2>3, <3>0, <3>3
    <3>4. CASE k \in locks /\ l = new
      BY <2>2, <2>3, <3>0, <3>4
    <3>. QED  BY <3>1, <3>2, <3>3, <3>4
  <2>4. ASSUME NEW l \in locks' PROVE tx'[l[3]].pc # "idle"
    <3>1. CASE l \in locks
      <4>1. l[3] \in Proc /\ tx[l[3]].pc # "idle"
        BY <1>1, <3>1 DEF LocksOK, TxTyped
      <4>. QED  BY <1>7, <1>9, <4>1
    <3>2. CASE l = <<lock[1], lock[2], p>>
      BY <1>7, <1>9, <1>10, <3>2
    <3>. QED  BY <1>8, <3>1, <3>2
  <2>. QED  BY <2>3, <2>4 DEF LocksOK
<1>12. TxTyped'
  <2>1. <<lock[1], lock[2], p>> \in RowRef \X {"share", "update"} \X Proc
    BY DEF Locks
  <2>. QED  BY <1>1, <1>8, <1>9, <2>1 DEF TxTyped
<1>13. Apart'
  BY <1>1, <1>7, <1>9 DEF Apart
<1>14. DataTyped' /\ DataInv' /\ RowsKept /\ \A u \in Proc : Spares(u)
  BY <1>8, QuietStep
<1>15. ASSUME NEW other PROVE /\ Holds(p, other) => Holds(p, other)'
                              /\ Asks(p, other) => Asks(p, other)'
  <2>1. Holds(p, other) => Holds(p, other)'
    BY <1>8 DEF Holds
  <2>2. Holds(p, lock)'
    BY <1>8 DEF Holds
  <2>3. DOMAIN n = 1..Len(n) /\ DOMAIN rest = 1..Len(rest)
    BY LenProperties
  <2>4. ASSUME NEW k \in DOMAIN n, n[k] = other PROVE Asks(p, other)'
    <3>1. CASE other = lock
      BY <2>2, <3>1 DEF Asks
    <3>2. CASE other # lock
      BY <1>5, <1>7, <1>9, <2>3, <2>4, <3>2 DEF Asks
    <3>. QED  BY <3>1, <3>2
  <2>. QED  BY <1>2, <2>1, <2>4 DEF Asks
<1>16. tx[p].op # None
  BY <1>1, <1>10, IdleIs
<1>17. Untouched(p)
  BY <1>7, <1>9, <1>15, <1>16 DEF Untouched
<1>18. ASSUME NEW u \in Proc PROVE TxKnows(u)'
  <2>1. Untouched(u) /\ TxKnows(u)
    BY <1>9, <1>17 DEF LoginInv
  <2>. QED  BY <1>1, <1>14, <2>1, TxKept
<1>. QED  BY <1>11, <1>12, <1>13, <1>14, <1>18 DEF LoginInv

\* A request that goes on as rec says, having written nothing.
LEMMA Goes ==
    ASSUME LoginInv, NEW p \in Proc, NEW rec \in TxRec, tx' = [tx EXCEPT ![p] = rec],
           Quiet, locks' = locks, requests' = requests,
           tx[p].op # "invite", rec.pc # "idle", rec.op = tx[p].op, rec.row = tx[p].row,
           TxKnows(p)'
    PROVE  LoginInv'
<1>1. scenario' = scenario /\ requests' \in 0..MaxRequests
  BY DEF Quiet, LoginInv, TxTyped
<1>2. \A u \in Proc \ {p} : tx[u].op = rec.op =>
        /\ rec.op = "invite" => tx[u].target # rec.target
        /\ rec.op = "callback" => tx[u].row # rec.row
  BY DEF LoginInv, Apart
<1>3. DataTyped' /\ DataInv' /\ RowsKept /\ \A u \in Proc : Spares(u)
  BY QuietStep
<1>. QED  BY <1>1, <1>2, <1>3, Moved

\* What it finds there: the rows as they were, the locks it held and those it asks for.
LEMMA Going ==
    ASSUME LoginInv, NEW p \in Proc, NEW rec \in TxRec, tx' = [tx EXCEPT ![p] = rec],
           Quiet, locks' = locks
    PROVE  /\ tx'[p] = rec
           /\ policy' = policy /\ spent' = spent /\ sessions' = sessions /\ handoffs' = handoffs
           /\ status' = status /\ membership' = membership /\ identity' = identity
           /\ invitation' = invitation /\ logins' = logins /\ scenario' = scenario
           /\ \A lock : Holds(p, lock) => Holds(p, lock)' /\ Asks(p, lock)'
           /\ \A k \in DOMAIN rec.need : Asks(p, rec.need[k])'
<1>1. tx'[p] = rec
  BY DEF LoginInv, TxTyped
<1>2. /\ policy' = policy /\ spent' = spent /\ sessions' = sessions /\ handoffs' = handoffs
      /\ status' = status /\ membership' = membership /\ identity' = identity
      /\ invitation' = invitation /\ logins' = logins /\ scenario' = scenario
  BY DEF Quiet, base, rollout, people, loginVars
<1>3. \A lock : Holds(p, lock) => Holds(p, lock)' /\ Asks(p, lock)'
  BY DEF Holds, Asks
<1>4. \A k \in DOMAIN rec.need : Asks(p, rec.need[k])'
  BY <1>1 DEF Asks
<1>. QED  BY <1>1, <1>2, <1>3, <1>4

-----------------------------------------------------------------------------
(* The locks that statements ask for. *)

\* One lock after another.
LEMMA LockLists ==
    ASSUME NEW u \in Locks, NEW v \in Locks, NEW w \in Locks
    PROVE  /\ <<>> \in Seq(Locks) /\ <<u>> \in Seq(Locks) /\ <<u, v>> \in Seq(Locks)
           /\ <<u, v, w>> \in Seq(Locks) /\ <<u>> \o <<>> = <<u>> /\ <<u>> \o <<v>> \in Seq(Locks)
           /\ 1 \in DOMAIN <<u>> /\ <<u>>[1] = u /\ 1 \in DOMAIN <<u, v>> /\ <<u, v>>[1] = u
           /\ 1 \in DOMAIN <<u, v, w>> /\ <<u, v, w>>[1] = u
           /\ 1 \in DOMAIN (<<u>> \o <<v>>) /\ (<<u>> \o <<v>>)[1] = u
<1>1. <<>> \in Seq(Locks) /\ <<u>> \in Seq(Locks) /\ <<v>> \in Seq(Locks) /\ <<u, v>> \in Seq(Locks)
  OBVIOUS
<1>2. <<u, v, w>> \in Seq(Locks)
  OBVIOUS
<1>3. <<u>> \o <<>> = <<u>>
  BY <1>1, ConcatEmptySeq
<1>4. <<u>> \o <<v>> \in Seq(Locks) /\ 1 \in DOMAIN (<<u>> \o <<v>>) /\ (<<u>> \o <<v>>)[1] = u
  <2>1. /\ <<u>> \o <<v>> \in Seq(Locks) /\ Len(<<u>> \o <<v>>) = Len(<<u>>) + Len(<<v>>)
        /\ \A i \in 1..Len(<<u>>) + Len(<<v>>) :
             (<<u>> \o <<v>>)[i] = IF i <= Len(<<u>>) THEN <<u>>[i] ELSE <<v>>[i - Len(<<u>>)]
    BY <1>1, ConcatProperties
  <2>2. DOMAIN (<<u>> \o <<v>>) = 1..Len(<<u>> \o <<v>>)
    BY <2>1, LenProperties
  <2>3. Len(<<u>>) = 1 /\ Len(<<v>>) = 1
    OBVIOUS
  <2>4. 1 \in DOMAIN (<<u>> \o <<v>>) /\ (<<u>> \o <<v>>)[1] = <<u>>[1]
    BY ONLY <2>1, <2>2, <2>3
  <2>. QED  BY <2>1, <2>4
<1>5. 1 \in DOMAIN <<u>> /\ <<u>>[1] = u /\ 1 \in DOMAIN <<u, v>> /\ <<u, v>>[1] = u
  OBVIOUS
<1>6. 1 \in DOMAIN <<u, v, w>> /\ <<u, v, w>>[1] = u
  OBVIOUS
<1>. QED  BY <1>1, <1>2, <1>3, <1>4, <1>5, <1>6

\* A list of the elements of a finite set.
LEMMA Listed ==
    ASSUME NEW S, IsFiniteSet(S), NEW q \in Listings(S)
    PROVE  /\ q \in Seq(S) /\ DOMAIN q = 1..Cardinality(S) /\ Cardinality(S) \in Nat
           /\ \A k \in DOMAIN q : q[k] \in S
<1>1. Cardinality(S) \in Nat /\ q \in [1..Cardinality(S) -> S]
  BY FS_CardinalityType DEF Listings
<1>. QED  BY <1>1

\* Memberships, in any order, share-locked.
LEMMA MembersShared ==
    ASSUME NEW S \in SUBSET Membership, NEW q \in Listings(S)
    PROVE  /\ [k \in DOMAIN q |-> Share("membership", q[k])] \in Seq(Locks)
           /\ q \in Seq(Membership)
<1>1. IsFiniteSet(S)
  BY Constants, FS_Subset
<1>2. /\ q \in Seq(S) /\ DOMAIN q = 1..Cardinality(S) /\ Cardinality(S) \in Nat
      /\ \A k \in DOMAIN q : q[k] \in S
  BY <1>1, Listed
<1>3. \A k \in DOMAIN q : Share("membership", q[k]) \in Locks
  BY <1>2, LockTypes
<1>. QED  BY <1>2, <1>3

\* Memberships or sessions, in any order, locked.
LEMMA Ordered ==
    /\ \A S \in SUBSET Membership : Orders("membership", S) \subseteq Seq(Locks)
    /\ DataTyped => \A S \in SUBSET Ids : Orders("session", S) \subseteq Seq(Locks)
<1>1. ASSUME NEW kind, NEW S, IsFiniteSet(S), \A x \in S : Update(kind, x) \in Locks,
             NEW need \in Orders(kind, S)
      PROVE  need \in Seq(Locks)
  <2>1. PICK q \in Listings(S) : need = [k \in DOMAIN q |-> Update(kind, q[k])]
    BY DEF Orders
  <2>2. /\ DOMAIN q = 1..Cardinality(S) /\ Cardinality(S) \in Nat
        /\ \A k \in DOMAIN q : q[k] \in S
    BY <1>1, Listed
  <2>. QED  BY <1>1, <2>1, <2>2
<1>2. ASSUME NEW S \in SUBSET Membership PROVE Orders("membership", S) \subseteq Seq(Locks)
  <2>1. IsFiniteSet(S)
    BY Constants, FS_Subset
  <2>2. \A x \in S : Update("membership", x) \in Locks
    BY LockTypes
  <2>. QED  BY <1>1, <2>1, <2>2
<1>3. ASSUME DataTyped, NEW S \in SUBSET Ids PROVE Orders("session", S) \subseteq Seq(Locks)
  <2>1. Len(sessions) \in Nat
    BY <1>3, LenProperties DEF DataTyped
  <2>2. IsFiniteSet(S)
    <3>1. 1 \in Int /\ Len(sessions) \in Int
      BY <2>1
    <3>2. IsFiniteSet(1..Len(sessions))
      BY <3>1, FS_Interval
    <3>. QED  BY <3>2, FS_Subset DEF Ids
  <2>3. \A x \in S : Update("session", x) \in Locks
    BY <2>1, LockTypes DEF Ids
  <2>. QED  BY <1>1, <2>2, <2>3
<1>. QED  BY <1>2, <1>3

\* The gate share-locks every policy it goes by.
LEMMA PolicyLocked ==
    ASSUME NEW m \in Membership
    PROVE  /\ Found(m) \subseteq Scope /\ PolicyLocks(m) \in Seq(Locks)
           /\ \A x \in Found(m) : \E k \in DOMAIN PolicyLocks(m) :
                PolicyLocks(m)[k] = Share("policy", x)
<1>. DEFINE g == IF policy["global"] = None THEN <<>> ELSE <<Share("policy", "global")>>
            t == IF Found(m) \ {"global"} = {} THEN <<>> ELSE <<Share("policy", CondoOf[m])>>
<1>1. Found(m) \subseteq Scope
  BY Constants DEF Found
<1>2. \A x \in Found(m) \ {"global"} : x = CondoOf[m]
  BY DEF Found
<1>3. g \in Seq(Locks)
  BY Constants, LockTypes
<1>4. t \in Seq(Locks)
  <2>1. CASE Found(m) \ {"global"} = {}
    BY <2>1
  <2>2. CASE Found(m) \ {"global"} # {}
    <3>1. CondoOf[m] \in Scope
      BY <1>1, <1>2, <2>2
    <3>2. Share("policy", CondoOf[m]) \in Locks
      BY <3>1, LockTypes
    <3>. QED  BY <2>2, <3>2
  <2>. QED  BY <2>1, <2>2
<1>5. /\ g \o t \in Seq(Locks) /\ Len(g \o t) = Len(g) + Len(t)
      /\ \A i \in 1..Len(g) + Len(t) : (g \o t)[i] = IF i <= Len(g) THEN g[i] ELSE t[i - Len(g)]
  BY ONLY <1>3, <1>4, ConcatProperties
<1>6. Len(g) \in Nat /\ Len(t) \in Nat /\ DOMAIN (g \o t) = 1..Len(g \o t)
  BY ONLY <1>3, <1>4, <1>5, LenProperties
<1>7. ASSUME NEW x \in Found(m)
      PROVE  \E k \in DOMAIN (g \o t) : (g \o t)[k] = Share("policy", x)
  <2>1. CASE x = "global"
    <3>1. g = <<Share("policy", "global")>>
      BY <1>7, <2>1 DEF Found
    <3>2. Len(g) = 1 /\ g[1] = Share("policy", "global")
      BY <3>1
    <3>3. 1 \in DOMAIN (g \o t) /\ (g \o t)[1] = g[1]
      BY ONLY <1>5, <1>6, <3>2
    <3>. QED  BY <2>1, <3>2, <3>3
  <2>2. CASE x # "global"
    <3>1. x = CondoOf[m] /\ t = <<Share("policy", CondoOf[m])>>
      BY <1>2, <1>7, <2>2
    <3>2. Len(t) = 1 /\ t[1] = Share("policy", x)
      BY <3>1
    <3>3. Len(g) + 1 \in DOMAIN (g \o t) /\ (g \o t)[Len(g) + 1] = t[1]
      BY ONLY <1>5, <1>6, <3>2
    <3>. QED  BY <3>2, <3>3
  <2>. QED  BY <2>1, <2>2
<1>8. PolicyLocks(m) = g \o t
  BY DEF PolicyLocks
<1>. QED  BY <1>1, <1>5, <1>7, <1>8

\* Where a request is that asks the gate about a membership.
AtGate(p, m, rec) ==
    /\ rec.pc = "gate" /\ rec.target = m
    /\ \A x \in rec.found : \E k \in DOMAIN rec.need : rec.need[k] = Share("policy", x)
    /\ tx' = [tx EXCEPT ![p] = rec] /\ Quiet /\ locks' = locks /\ requests' = requests

\* It asks for the locks of the policies.
LEMMA Gates ==
    ASSUME LoginInv, NEW p \in Proc, NEW m \in Membership, NEW record \in TxRec,
           Gate(p, m, record), UNCHANGED loginVars
    PROVE  \E rec \in TxRec :
             /\ AtGate(p, m, rec)
             /\ rec.op = record.op /\ rec.row = record.row /\ rec.token = record.token
<1>1. PICK found \in SUBSET Scope, need \in Seq(Locks) :
        /\ found = Found(m) /\ need = PolicyLocks(m)
        /\ \A x \in found : \E k \in DOMAIN need : need[k] = Share("policy", x)
  BY PolicyLocked
<1>2. PICK rec : rec = [[record EXCEPT !.target = m, !.found = found]
                          EXCEPT !.pc = "gate", !.need = need]
  OBVIOUS
<1>3. /\ rec \in TxRec /\ rec.pc = "gate" /\ rec.target = m /\ rec.found = found
      /\ rec.need = need /\ rec.op = record.op /\ rec.row = record.row /\ rec.token = record.token
  BY <1>2 DEF TxRec
<1>4. tx' = [tx EXCEPT ![p] = rec] /\ Quiet /\ locks' = locks /\ requests' = requests
  BY <1>1, <1>2 DEF Gate, Continue, Quiet
<1>. QED  BY <1>1, <1>3, <1>4 DEF AtGate

\* And goes by policies that it asked to keep.
LEMMA GatesKnown ==
    ASSUME LoginInv, NEW p \in Proc, NEW m, NEW rec \in TxRec, AtGate(p, m, rec)
    PROVE  GateKnown(p)' /\ tx'[p] = rec
<1>1. tx'[p] = rec /\ \A k \in DOMAIN rec.need : Asks(p, rec.need[k])'
  BY Going DEF AtGate
<1>2. ASSUME NEW x \in rec.found PROVE Asks(p, Share("policy", x))'
  <2>1. PICK k \in DOMAIN rec.need : rec.need[k] = Share("policy", x)
    BY DEF AtGate
  <2>2. Asks(p, rec.need[k])'
    BY <1>1
  <2>. QED  BY <2>1, <2>2
<1>. QED  BY <1>1, <1>2 DEF GateKnown

-----------------------------------------------------------------------------
(* A policy change. *)

\* The transaction of a change, where it goes on.
LEMMA ChangeAt ==
    ASSUME LoginInv, NEW p \in Proc, tx[p].op = "change", ~Waiting(p)
    PROVE  /\ DataTyped /\ TxTyped /\ tx[p] \in TxRec /\ ChangeKnows(p)
           /\ tx[p].change \in Changes /\ tx[p].change.scope \in Scope
           /\ Holds(p, Update("advisory", "global"))
           /\ tx[p].pc \in {"sweep", "write"} => Holds(p, Update("policy", tx[p].change.scope))
<1>1. /\ DataTyped /\ TxTyped /\ tx[p] \in TxRec /\ ChangeKnows(p)
  BY DEF LoginInv, TxTyped, TxKnows
<1>2. tx[p].change \in Changes /\ tx[p].change.scope \in Scope
  BY <1>1, ChangeTypes DEF ChangeKnows
<1>3. \A lock : Asks(p, lock) => Holds(p, lock)
  BY AtHolds
<1>. QED  BY <1>1, <1>2, <1>3 DEF ChangeKnows

\* What a change is to know where it goes to.
LEMMA ChangeGoes ==
    ASSUME LoginInv, NEW p \in Proc, tx[p].op = "change", ~Waiting(p), NEW rec \in TxRec,
           tx' = [tx EXCEPT ![p] = rec], Quiet, locks' = locks, requests' = requests,
           rec.op = "change", rec.row = tx[p].row, rec.change = tx[p].change,
           rec.token = tx[p].token,
           rec.pc \in {"authorized", "policy", "sweep", "write"},
           rec.pc # "authorized" => rec.token = None \/ rec.token \notin spent,
           rec.pc \in {"sweep", "write"} =>
             /\ rec.previous = VersionOf(rec.change.scope)
             /\ Asks(p, Update("policy", rec.change.scope))'
             /\ rec.pc = "write" =>
                  /\ Holds(p, Update("policy", rec.change.scope))
                  /\ \A s \in Unrevoked \ rec.doomed :
                       InScope(rec.change.scope, sessions[s].membership) =>
                         Retained(Changed(p)', sessions[s].membership)
    PROVE  LoginInv'
<1>1. /\ tx'[p] = rec
      /\ policy' = policy /\ spent' = spent /\ sessions' = sessions
      /\ \A lock : Holds(p, lock) => Holds(p, lock)' /\ Asks(p, lock)'
  BY Going
<1>2. /\ ChangeKnows(p) /\ Holds(p, Update("advisory", "global"))
      /\ tx[p].change \in Changes
  BY ChangeAt
<1>3. rec.token \in Token \cup {None} /\ (rec.token = None => rec.row \in 1..Len(sessions))
  BY <1>2 DEF ChangeKnows, Ids
<1>4. rec.pc \in {"sweep", "write"} =>
        rec.previous = VersionOf(rec.change.scope)' /\ Asks(p, Update("policy", rec.change.scope))'
  BY <1>1 DEF VersionOf
<1>5. Holds(p, Update("advisory", "global"))' /\ Asks(p, Update("advisory", "global"))'
  BY <1>1, <1>2
<1>6. rec.pc = "write" => Holds(p, Update("policy", rec.change.scope))'
  BY <1>1
<1>7. Unrevoked' = Unrevoked
  BY <1>1 DEF Unrevoked, Ids
<1>8. rec.pc = "write" =>
        \A s \in Unrevoked' \ rec.doomed : InScope(rec.change.scope, sessions'[s].membership) =>
          Retained(Changed(p)', sessions'[s].membership)
  BY <1>1, <1>7
<1>9. ChangeKnows(p)'
  BY <1>1, <1>2, <1>3, <1>4, <1>5, <1>6, <1>8 DEF ChangeKnows, Ids
<1>10. TxKnows(p)'
  BY <1>1, <1>9, Constants DEF TxKnows, Kinds
<1>. QED  BY <1>10, Goes

\* The locks of the authorization are asked for.
LEMMA AuthorizeKeeps ==
    ASSUME LoginInv, NEW p \in Proc, Authorize(p), UNCHANGED loginVars
    PROVE  LoginInv'
<1>1. CASE Quit(p)
  BY <1>1, Quits
<1>2. CASE Continue(p, "authorized", AuthorizationLocks(p), tx[p])
  <2>1. tx[p].op = "change" /\ tx[p].pc = "authorize" /\ ~Waiting(p)
    BY DEF Authorize, At
  <2>2. DataTyped /\ TxTyped /\ tx[p] \in TxRec /\ ChangeKnows(p)
    BY <2>1, ChangeAt
  <2>3. AuthorizationLocks(p) \in Seq(Locks)
    <3>1. CASE tx[p].token # None
      <4>1. tx[p].token \in Token
        BY <2>2, <3>1 DEF ChangeKnows
      <4>2. Update("token", tx[p].token) \in Locks
        BY <4>1, LockTypes
      <4>. QED  BY <3>1, <4>2 DEF AuthorizationLocks
    <3>2. CASE tx[p].token = None
      <4>1. PICK m \in Membership : m = sessions[tx[p].row].membership
        BY <2>2, <3>2, Types DEF ChangeKnows
      <4>2. tx[p].row \in Nat /\ AccountOf[m] \in Account
        BY <2>2, Constants DEF TxRec
      <4>3. /\ Share("session", tx[p].row) \in Locks /\ Share("account", AccountOf[m]) \in Locks
            /\ Share("membership", m) \in Locks
        BY <4>2, LockTypes
      <4>4. AuthorizationLocks(p) = <<Share("session", tx[p].row), Share("account", AccountOf[m]),
                                      Share("membership", m)>>
        BY <3>2, <4>1 DEF AuthorizationLocks
      <4>. QED  BY <4>3, <4>4
    <3>. QED  BY <3>1, <3>2
  <2>4. PICK rec : rec = [tx[p] EXCEPT !.pc = "authorized", !.need = AuthorizationLocks(p)]
    OBVIOUS
  <2>5. /\ rec \in TxRec /\ rec.pc = "authorized" /\ rec.op = tx[p].op /\ rec.row = tx[p].row
        /\ rec.change = tx[p].change /\ rec.token = tx[p].token
    BY <2>2, <2>3, <2>4 DEF TxRec
  <2>6. tx' = [tx EXCEPT ![p] = rec] /\ Quiet /\ locks' = locks /\ requests' = requests
    BY <1>2, <2>4 DEF Continue, Quiet
  <2>. QED  BY <2>1, <2>5, <2>6, ChangeGoes
<1>. QED  BY <1>1, <1>2 DEF Authorize

\* An authorization is looked at again under its lock.
LEMMA LockPolicyKeeps ==
    ASSUME LoginInv, NEW p \in Proc, LockPolicy(p), UNCHANGED loginVars
    PROVE  LoginInv'
<1>1. tx[p].op = "change" /\ tx[p].pc = "authorized" /\ ~Waiting(p)
  BY DEF LockPolicy, At
<1>2. CASE ~Authorized(p)
  BY <1>2, Quits DEF LockPolicy
<1>3. CASE Authorized(p)
  <2>2. /\ DataTyped /\ TxTyped /\ tx[p] \in TxRec /\ ChangeKnows(p)
        /\ tx[p].change.scope \in Scope
    BY <1>1, ChangeAt
  <2>3. PICK need : need = IF policy[tx[p].change.scope] = None THEN <<>>
                           ELSE <<Update("policy", tx[p].change.scope)>>
    OBVIOUS
  <2>8. need \in Seq(Locks)
    <3>1. Update("policy", tx[p].change.scope) \in Locks
      BY <2>2, LockTypes
    <3>. QED  BY <2>3, <3>1, LockLists
  <2>4. PICK rec : rec = [tx[p] EXCEPT !.pc = "policy", !.need = need]
    OBVIOUS
  <2>5. /\ rec \in TxRec /\ rec.pc = "policy" /\ rec.op = tx[p].op /\ rec.row = tx[p].row
        /\ rec.change = tx[p].change /\ rec.token = tx[p].token
    BY <2>2, <2>4, <2>8 DEF TxRec
  <2>6. tx' = [tx EXCEPT ![p] = rec] /\ Quiet /\ locks' = locks /\ requests' = requests
    BY <1>3, <2>3, <2>4 DEF LockPolicy, Continue, Quiet
  <2>7. rec.token = None \/ rec.token \notin spent
    BY <1>3, <2>5 DEF Authorized
  <2>. QED  BY <1>1, <2>5, <2>6, <2>7, ChangeGoes
<1>. QED  BY <1>2, <1>3

\* The next version is the one after the policy's.
LEMMA UpsertKeeps ==
    ASSUME LoginInv, NEW p \in Proc, Upsert(p), UNCHANGED loginVars
    PROVE  LoginInv'
<1>1. tx[p].op = "change" /\ tx[p].pc = "policy" /\ ~Waiting(p)
  BY DEF Upsert, At
<1>2. /\ DataTyped /\ TxTyped /\ tx[p] \in TxRec /\ ChangeKnows(p)
      /\ tx[p].change.scope \in Scope
  BY <1>1, ChangeAt
<1>3. PICK x \in Scope : x = tx[p].change.scope
  BY <1>2
<1>4. PICK need \in Seq(Locks) : /\ need = <<Update("policy", x)>>
                               /\ 1 \in DOMAIN need /\ need[1] = Update("policy", x)
  <2>1. PICK l \in Locks : l = Update("policy", x)
    BY LockTypes
  <2>2. <<l>> \in Seq(Locks) /\ 1 \in DOMAIN <<l>> /\ <<l>>[1] = l
    BY LockLists
  <2>. QED  BY <2>1, <2>2
<1>5. PICK n \in Nat : n = VersionOf(x)
  BY <1>2 DEF DataTyped, VersionOf, PolicyRow
<1>6. PICK rec : rec = [[tx[p] EXCEPT !.previous = n] EXCEPT !.pc = "sweep", !.need = need]
  OBVIOUS
<1>7. /\ rec \in TxRec /\ rec.pc = "sweep" /\ rec.op = tx[p].op /\ rec.row = tx[p].row
      /\ rec.change = tx[p].change /\ rec.token = tx[p].token /\ rec.previous = n
      /\ rec.need = need
  BY <1>2, <1>6 DEF TxRec
<1>8. tx' = [tx EXCEPT ![p] = rec] /\ Quiet /\ locks' = locks /\ requests' = requests
  BY <1>3, <1>4, <1>5, <1>6 DEF Upsert, Continue, Quiet, VersionOf
<1>9. rec.token = None \/ rec.token \notin spent
  BY <1>1, <1>2, <1>7 DEF ChangeKnows
<1>10. Asks(p, Update("policy", x))'
  <2>1. \A k \in DOMAIN rec.need : Asks(p, rec.need[k])'
    BY <1>7, <1>8, Going
  <2>. QED  BY <1>4, <1>7, <2>1
<1>. QED  BY <1>1, <1>3, <1>5, <1>7, <1>8, <1>9, <1>10, ChangeGoes

\* Every unrevoked session of the scope is to be revoked or retained.
LEMMA SweepKeeps ==
    ASSUME LoginInv, NEW p \in Proc, Sweep(p), UNCHANGED loginVars
    PROVE  LoginInv'
<1>1. tx[p].op = "change" /\ tx[p].pc = "sweep" /\ ~Waiting(p)
  BY DEF Sweep, At
<1>2. /\ DataTyped /\ TxTyped /\ tx[p] \in TxRec /\ ChangeKnows(p)
      /\ tx[p].change.scope \in Scope /\ Holds(p, Update("policy", tx[p].change.scope))
  BY <1>1, ChangeAt
<1>3. PICK x \in Scope : x = tx[p].change.scope
  BY <1>2
<1>4. PICK S \in SUBSET Ids :
        S = {s \in Unrevoked : InScope(x, sessions[s].membership)
                               /\ ~Retained(Changed(p), sessions[s].membership)}
  BY DEF Unrevoked
<1>5. \E need \in Orders("session", S) : Continue(p, "write", need, [tx[p] EXCEPT !.doomed = S])
  <2>1. S = {s \in Unrevoked : /\ x \in {"global", CondoOf[sessions[s].membership]}
                               /\ ~Retained(Changed(p), sessions[s].membership)}
    BY <1>4 DEF InScope
  <2>. QED  BY <1>3, <2>1 DEF Sweep
<1>6. PICK need \in Orders("session", S) : Continue(p, "write", need, [tx[p] EXCEPT !.doomed = S])
  BY <1>5
<1>7. need \in Seq(Locks)
  BY <1>2, Ordered
<1>8. PICK rec : rec = [[tx[p] EXCEPT !.doomed = S] EXCEPT !.pc = "write", !.need = need]
  OBVIOUS
<1>9. S \in SUBSET Nat
  BY <1>2, Types DEF Ids
<1>10. /\ rec \in TxRec /\ rec.pc = "write" /\ rec.op = tx[p].op /\ rec.row = tx[p].row
       /\ rec.change = tx[p].change /\ rec.token = tx[p].token
       /\ rec.previous = tx[p].previous /\ rec.doomed = S
  BY <1>2, <1>7, <1>8, <1>9 DEF TxRec
<1>11. tx' = [tx EXCEPT ![p] = rec] /\ Quiet /\ locks' = locks /\ requests' = requests
  BY <1>6, <1>8 DEF Continue, Quiet
<1>12. rec.token = None \/ rec.token \notin spent
  BY <1>1, <1>2, <1>10 DEF ChangeKnows
<1>13. rec.previous = VersionOf(x)
  BY <1>1, <1>2, <1>3, <1>10 DEF ChangeKnows
<1>14. /\ tx'[p] = rec /\ policy' = policy
       /\ \A lock : Holds(p, lock) => Holds(p, lock)' /\ Asks(p, lock)'
  BY <1>10, <1>11, Going
<1>15. Changed(p)' = Changed(p)
  BY <1>10, <1>14 DEF Changed
<1>16. \A s \in Unrevoked \ S : InScope(x, sessions[s].membership) =>
         Retained(Changed(p)', sessions[s].membership)
  BY <1>4, <1>15
<1>. QED
  BY <1>1, <1>2, <1>3, <1>10, <1>11, <1>12, <1>13, <1>14, <1>16, ChangeGoes

\* A change is asked for by a browser's session or by an authorization.
LEMMA BeginChangeKeeps ==
    ASSUME LoginInv, NEW p \in Proc, NEW c \in scenario.changes, NEW s \in 0..Len(sessions),
           NEW t \in Token \cup {None}, BeginChange(p, c, s, t), UNCHANGED loginVars
    PROVE  LoginInv'
<1>1. c \in Changes /\ c.scope \in Scope
  BY LoginAssumption, ChangeTypes DEF LoginInv, TxTyped, Typed
<1>2. Len(sessions) \in Nat
  BY Types DEF LoginInv
<1>3. PICK need \in Seq(Locks) : need = Advisory(c.scope)
                              /\ \E k \in DOMAIN need : need[k] = Update("advisory", "global")
  <2>1. PICK u, v \in Locks : u = Update("advisory", "global") /\ v = Update("advisory", c.scope)
    BY <1>1, Constants, LockTypes
  <2>2. /\ <<u>> \in Seq(Locks) /\ <<u>> \o <<v>> \in Seq(Locks) /\ <<u>> \o <<>> = <<u>>
        /\ 1 \in DOMAIN <<u>> /\ <<u>>[1] = u
        /\ 1 \in DOMAIN (<<u>> \o <<v>>) /\ (<<u>> \o <<v>>)[1] = u
    BY LockLists
  <2>3. CASE c.scope = "global"
    <3>1. Advisory(c.scope) = <<u>> \o <<>>
      BY <2>1, <2>3 DEF Advisory
    <3>. QED  BY <2>1, <2>2, <3>1
  <2>4. CASE c.scope # "global"
    <3>1. Advisory(c.scope) = <<u>> \o <<v>>
      BY <2>1, <2>4 DEF Advisory
    <3>. QED  BY <2>1, <2>2, <3>1
  <2>. QED  BY <2>3, <2>4
<1>4. PICK record : record = [Idle EXCEPT !.pc = "authorize", !.change = c, !.row = s, !.token = t,
                              !.need = need]
  OBVIOUS
<1>5. /\ record \in TxRec /\ record.pc = "authorize" /\ record.change = c /\ record.row = s
      /\ record.token = t /\ record.need = need
  <2>1. s \in Nat
    BY <1>2
  <2>2. Idle \in TxRec
    BY IdleTyped
  <2>3. record.pc = "authorize" /\ record.change = c /\ record.row = s /\ record.token = t /\ record.need = need
    BY <1>4, <2>2 DEF TxRec
  <2>4. record \in TxRec
    BY <1>1, <1>4, <2>1, <2>2 DEF TxRec
  <2>. QED  BY <2>3, <2>4
<1>6. Begin(p, "change", record)
  BY <1>3, <1>4 DEF BeginChange
<1>7. t = None => s \in Ids
  BY DEF BeginChange, Unrevoked
<1>8. sessions' = sessions
  BY <1>6 DEF Begin, base
<1>9. ASSUME tx'[p] = [record EXCEPT !.op = "change"] PROVE TxKnows(p)'
  <2>1. /\ tx'[p].op = "change" /\ tx'[p].pc = "authorize" /\ tx'[p].change = c
        /\ tx'[p].row = s /\ tx'[p].token = t /\ tx'[p].need = need
    BY <1>5, <1>9 DEF TxRec
  <2>2. Asks(p, Update("advisory", "global"))'
    BY <1>3, <2>1 DEF Asks
  <2>3. ChangeKnows(p)'
    BY <1>1, <1>7, <1>8, <2>1, <2>2 DEF ChangeKnows, Ids
  <2>. QED  BY <2>1, <2>3, Constants DEF TxKnows, Kinds
<1>10. "change" \in Kinds
  BY DEF Kinds
<1>. QED  BY <1>5, <1>6, <1>9, <1>10, Begun

\* An exclusive lock of one request leaves no other request any on the row.
LEMMA Excluded ==
    ASSUME LocksOK, NEW p \in Proc, NEW u \in Proc, u # p, NEW kind, NEW id,
           Holds(p, Update(kind, id))
    PROVE  ~Holds(u, Update(kind, id)) /\ ~Holds(u, Share(kind, id))
<1>1. <<<<kind, id>>, "update", p>> \in locks
  BY DEF Holds, Update
<1>2. ASSUME NEW mode, <<<<kind, id>>, mode, u>> \in locks PROVE FALSE
  <2>1. PICK k \in locks : k = <<<<kind, id>>, "update", p>>
    BY <1>1
  <2>2. PICK l \in locks : l = <<<<kind, id>>, mode, u>>
    BY <1>2
  <2>3. k[1] = l[1] /\ k[2] = "update" /\ k[3] = p /\ l[3] = u
    BY <2>1, <2>2
  <2>. QED  BY <2>3 DEF LocksOK
<1>. QED  BY <1>2 DEF Holds, Update, Share

\* One change at a time is past its authorization.
LEMMA ChangesAlone ==
    ASSUME LoginInv, NEW p \in Proc, Holds(p, Update("advisory", "global")),
           NEW u \in Proc \ {p}, tx[u].op = "change"
    PROVE  tx[u].pc = "authorize"
<1>1. ~Holds(u, Update("advisory", "global"))
  BY Excluded DEF LoginInv
<1>. QED  BY <1>1 DEF LoginInv, TxKnows, ChangeKnows

\* The rows of sessions when some are revoked.
LEMMA RevokedRows ==
    ASSUME DataTyped, NEW S, NEW rows, rows = Revoked(S)
    PROVE  /\ rows \in Seq(SessionRow) /\ Len(rows) = Len(sessions)
           /\ \A s \in Ids : /\ rows[s].membership = sessions[s].membership
                             /\ rows[s].state = "live" => sessions[s].state = "live" /\ s \notin S
<1>1. Len(sessions) \in Nat /\ \A s \in Ids : sessions[s] \in SessionRow
  BY LenProperties, ElementOfSeq DEF DataTyped, Ids
<1>2. ASSUME NEW s \in Ids
      PROVE  /\ rows[s] \in SessionRow
             /\ rows[s].membership = sessions[s].membership
             /\ rows[s].state = "live" => sessions[s].state = "live" /\ s \notin S
  BY <1>1 DEF Revoked, SessionRow
<1>3. rows \in Seq(SessionRow) /\ Len(rows) = Len(sessions)
  BY <1>1, <1>2 DEF Revoked, Ids
<1>. QED  BY <1>2, <1>3

\* And the rows that are written.
LEMMA SessionsRevoked ==
    ASSUME DataTyped, NEW S, sessions' = Revoked(S)
    PROVE  /\ sessions' \in Seq(SessionRow) /\ Len(sessions') = Len(sessions)
           /\ \A s \in Ids : /\ sessions'[s].membership = sessions[s].membership
                             /\ sessions'[s].state = "live" => sessions[s].state = "live" /\ s \notin S
<1>1. PICK rows : rows = Revoked(S)
  OBVIOUS
<1>2. sessions' = rows
  BY <1>1
<1>. QED  BY <1>1, <1>2, RevokedRows

\* Nothing is forgotten when only sessions are revoked.
LEMMA RevokedKept ==
    ASSUME DataTyped, TxTyped, NEW S, sessions' = Revoked(S), UNCHANGED <<handoffs, loginVars>>,
           \A a \in Account : status[a] # "none" => status'[a] # "none"
    PROVE  RowsKept /\ \A a \in Account : NoTrace(a) => NoTrace(a)'
<1>1. Len(sessions') = Len(sessions) /\ \A s \in Ids :
        /\ sessions'[s].membership = sessions[s].membership
        /\ sessions'[s].state = "live" => sessions[s].state = "live"
  BY SessionsRevoked
<1>2. handoffs' = handoffs /\ identity' = identity /\ invitation' = invitation /\ logins' = logins
  BY DEF loginVars
<1>. QED  BY <1>1, <1>2 DEF RowsKept, NoTrace, Ids

\* What is said of the accounts stays true while they are as they were.
LEMMA AccountsKept ==
    ASSUME AccountsOK, status' = status, membership' = membership, invitation' = invitation,
           identity' = identity, \A a \in Account : NoTrace(a) => NoTrace(a)'
    PROVE  AccountsOK'
BY DEF AccountsOK

\* The sweep retains no session that the policies do not let in.
LEMMA RetainedIsEffective ==
    ASSUME NEW rows, NEW m \in Membership, Retained(rows, m)
    PROVE  Effective(rows, m)
BY DEF Retained, Effective, InPilot, Allows

\* Two policies of a scope decide alike about whoever is not in it.
LEMMA EffectiveElsewhere ==
    ASSUME NEW rows, NEW others, NEW m \in Membership, Effective(rows, m),
           others["global"] = rows["global"], Provider(m) \/ others[CondoOf[m]] = rows[CondoOf[m]]
    PROVE  Effective(others, m)
BY DEF Effective

\* The changes of a scope can be counted.
LEMMA ChangesCounted ==
    ASSUME DataTyped, NEW x \in Scope, NEW k \in 0..Len(history)
    PROVE  /\ ChangesOf(x, k) \in SUBSET (1..k) /\ IsFiniteSet(ChangesOf(x, k))
           /\ Cardinality(ChangesOf(x, k)) \in Nat
<1>1. Len(history) \in Nat /\ k \in Int /\ 1 \in Int
  BY LenProperties DEF DataTyped
<1>2. IsFiniteSet(1..k)
  BY <1>1, FS_Interval
<1>3. ChangesOf(x, k) \in SUBSET (1..k)
  BY DEF ChangesOf
<1>. QED  BY <1>2, <1>3, FS_Subset, FS_CardinalityType

\* A change whose condominium is gone only spends its authorization.
LEMMA NoCondominiumKeeps ==
    ASSUME LoginInv, NEW p \in Proc, NoCondominium(p), UNCHANGED loginVars
    PROVE  LoginInv'
<1>1. /\ tx[p].op = "change" /\ tx[p].pc = "policy" /\ ~Waiting(p) /\ End(p)
      /\ spent' = IF tx[p].token = None THEN spent ELSE spent \cup {tx[p].token}
      /\ policy' = policy /\ history' = history /\ sessions' = sessions /\ handoffs' = handoffs
      /\ status' = status /\ membership' = membership
      /\ identity' = identity /\ invitation' = invitation /\ logins' = logins
  BY DEF NoCondominium, At, Spend, people, loginVars
<1>2. /\ DataTyped /\ ChangeKnows(p) /\ Holds(p, Update("advisory", "global"))
  BY <1>1, ChangeAt
<1>3. scenario' = scenario
  BY <1>1 DEF End
<1>4. spent' \subseteq Token /\ spent \subseteq spent'
  BY <1>1, <1>2 DEF DataTyped, ChangeKnows
<1>5. DataTyped'
  BY <1>1, <1>2, <1>4 DEF DataTyped
<1>6. HistoryOK'
  BY <1>1, <1>3, <1>4 DEF LoginInv, DataInv, HistoryOK, HistoryIsLinear, First, ChangesOf
<1>7. RolloutHolds' /\ AccountsOK' /\ HandoffsOK'
  BY <1>1 DEF LoginInv, DataInv, RolloutHolds, AccountsOK, HandoffsOK, NoTrace, Unrevoked, Ids
<1>8. RowsKept
  BY <1>1 DEF RowsKept, Ids
<1>9. ASSUME NEW u \in Proc \ {p} PROVE Spares(u)
  <2>1. tx[u].op = "change" => tx[u].pc = "authorize"
    BY <1>2, ChangesAlone
  <2>2. tx[u].op = "change" => SparesChange(u)
    BY <2>1 DEF SparesChange
  <2>3. SparesCallback(u)
    BY <1>1 DEF SparesCallback
  <2>. QED  BY <1>1, <2>2, <2>3 DEF Spares
<1>. QED  BY <1>1, <1>5, <1>6, <1>7, <1>8, <1>9, Ended DEF DataInv

\* What the commit of a change writes.
Committing(p, x, row, entry) ==
    /\ policy' = [policy EXCEPT ![x] = row] /\ policy' = Changed(p)
    /\ history' = Append(history, entry)
    /\ entry.scope = x /\ entry.version = VersionOf(x) + 1 /\ row.version = VersionOf(x) + 1
    /\ entry.token # None => entry.token \in spent' /\ entry.token \notin spent
    /\ spent \subseteq spent' /\ spent' \subseteq Token
    /\ sessions' = Revoked(tx[p].doomed) /\ scenario' = scenario
    /\ handoffs' = handoffs /\ status' = status /\ membership' = membership
    /\ identity' = identity /\ invitation' = invitation /\ logins' = logins

\* It is the next version of the scope.
LEMMA CommitsNext ==
    ASSUME LoginInv, NEW p \in Proc, CommitChange(p), UNCHANGED loginVars
    PROVE  /\ tx[p].op = "change" /\ tx[p].pc = "write" /\ ~Waiting(p) /\ End(p)
           /\ tx[p].change.scope \in Scope
           /\ \E row \in PolicyRow, entry \in HistoryRow :
                Committing(p, tx[p].change.scope, row, entry)
<1>1. /\ tx[p].op = "change" /\ tx[p].pc = "write" /\ ~Waiting(p) /\ End(p)
      /\ policy' = Changed(p) /\ sessions' = Revoked(tx[p].doomed)
      /\ history' = Append(history, [scope |-> tx[p].change.scope,
                                     version |-> tx[p].previous + 1, token |-> tx[p].token])
      /\ spent' = IF tx[p].token = None THEN spent ELSE spent \cup {tx[p].token}
      /\ handoffs' = handoffs /\ status' = status /\ membership' = membership
      /\ identity' = identity /\ invitation' = invitation /\ logins' = logins
  BY DEF CommitChange, At, Spend, people, loginVars
<1>2. /\ DataTyped /\ TxTyped /\ ChangeKnows(p) /\ tx[p] \in TxRec
      /\ tx[p].change \in Changes /\ tx[p].change.scope \in Scope
  BY <1>1, ChangeAt
<1>3. PICK x \in Scope : x = tx[p].change.scope
  BY <1>2
<1>4. PICK n \in Nat : n = tx[p].previous /\ n = VersionOf(x)
  BY <1>1, <1>2, <1>3 DEF ChangeKnows, TxRec
<1>5. PICK t \in Token \cup {None} : t = tx[p].token /\ (t = None \/ t \notin spent)
  BY <1>1, <1>2 DEF ChangeKnows
<1>6. PICK row : row = [state |-> tx[p].change.state, cohort |-> tx[p].change.cohort, version |-> n + 1]
  OBVIOUS
<1>7. row \in PolicyRow /\ row.version = n + 1
  <2>1. tx[p].change.state \in States /\ tx[p].change.cohort \in {0, 10, 50, 100}
    BY <1>2, ChangeTypes
  <2>2. n + 1 \in Nat \ {0}
    OBVIOUS
  <2>. QED  BY <1>6, <2>1, <2>2 DEF PolicyRow
<1>8. PICK entry : entry = [scope |-> x, version |-> n + 1, token |-> t]
  OBVIOUS
<1>9. entry \in HistoryRow /\ entry.scope = x /\ entry.version = n + 1 /\ entry.token = t
  BY <1>8 DEF HistoryRow
<1>10. policy' = [policy EXCEPT ![x] = row]
  BY <1>1, <1>3, <1>4, <1>6 DEF Changed
<1>11. history' = Append(history, entry)
  BY <1>1, <1>3, <1>4, <1>5, <1>8
<1>12. spent \subseteq spent' /\ spent' \subseteq Token /\ (t # None => t \in spent')
  BY <1>1, <1>2, <1>5 DEF DataTyped
<1>13. scenario' = scenario
  BY <1>1 DEF End
<1>14. Committing(p, x, row, entry)
  BY <1>1, <1>4, <1>5, <1>7, <1>9, <1>10, <1>11, <1>12, <1>13 DEF Committing
<1>. QED  BY <1>1, <1>2, <1>3, <1>7, <1>9, <1>14

\* The history stays linear.
LEMMA HistoryGrows ==
    ASSUME DataTyped, TxTyped, HistoryOK, NEW p \in Proc, NEW x \in Scope, NEW row \in PolicyRow,
           NEW entry \in HistoryRow, Committing(p, x, row, entry)
    PROVE  HistoryOK' /\ history' \in Seq(HistoryRow)
<1>. PICK n : n = Len(history)
  OBVIOUS
<1>0. /\ history \in Seq(HistoryRow) /\ policy \in [Scope -> PolicyRow \cup {None}]
      /\ None \notin Scope
  BY Constants DEF DataTyped
<1>1. /\ history' \in Seq(HistoryRow) /\ Len(history') = n + 1
      /\ \A k \in 1..n : history'[k] = history[k]
      /\ history'[n + 1] = entry
  BY <1>0, AppendProperties DEF Committing
<1>2. n \in Nat /\ DOMAIN history = 1..n /\ DOMAIN history' = 1..(n + 1)
  BY <1>0, <1>1, LenProperties
<1>3. /\ policy'[x] = row /\ \A y \in Scope \ {x} : policy'[y] = policy[y]
      /\ scenario' = scenario
  BY <1>0 DEF Committing
<1>4. \A y \in Scope : First(y)' = First(y)
  BY <1>3 DEF First
<1>5. ASSUME NEW y \in Scope, NEW k \in 1..n PROVE ChangesOf(y, k)' = ChangesOf(y, k)
  BY <1>1, <1>2 DEF ChangesOf
<1>6. ASSUME NEW y \in Scope
      PROVE  ChangesOf(y, n + 1)' = IF y = x THEN ChangesOf(y, n) \cup {n + 1} ELSE ChangesOf(y, n)
  <2>1. entry.scope = x
    BY DEF Committing
  <2>2. \A j \in 1..(n + 1) : j \in 1..n \/ j = n + 1
    BY <1>2
  <2>3. \A j \in 1..n : j \in 1..(n + 1) /\ j # n + 1
    BY <1>2
  <2>. QED  BY <1>1, <2>1, <2>2, <2>3, <1>2 DEF ChangesOf
<1>7. Cardinality(ChangesOf(x, n) \cup {n + 1}) = Cardinality(ChangesOf(x, n)) + 1
  <2>1. /\ IsFiniteSet(ChangesOf(x, n)) /\ ChangesOf(x, n) \in SUBSET (1..n)
    BY <1>2, ChangesCounted
  <2>2. n + 1 \notin ChangesOf(x, n)
    BY <1>2, <2>1
  <2>. QED  BY <2>1, <2>2, FS_AddElement
<1>8. VersionOf(x) = First(x) + Cardinality(ChangesOf(x, n))
  <2>1. CASE policy[x] = None
    <3>1. First(x) = 0 /\ ChangesOf(x, n) = {} /\ VersionOf(x) = 0
      BY <2>1 DEF HistoryOK, VersionOf
    <3>2. Cardinality({}) = 0
      BY FS_EmptySet
    <3>. QED  BY <3>1, <3>2
  <2>2. CASE policy[x] # None
    BY <2>2 DEF HistoryOK, HistoryIsLinear, VersionOf
  <2>. QED  BY <2>1, <2>2
<1>9. VersionOf(x) + 1 = First(x) + Cardinality(ChangesOf(x, n + 1)')
  <2>1. First(x) \in Nat /\ Cardinality(ChangesOf(x, n)) \in Nat
    <3>1. scenario.policy \in [Scope -> PolicyRow \cup {None}]
      BY LoginAssumption DEF TxTyped, Typed
    <3>. QED  BY <1>2, <3>1, ChangesCounted DEF First, PolicyRow
  <2>2. Cardinality(ChangesOf(x, n + 1)') = Cardinality(ChangesOf(x, n)) + 1
    BY <1>6, <1>7
  <2>. QED  BY ONLY <1>8, <2>1, <2>2
<1>10. ASSUME NEW k \in DOMAIN history', NEW y \in Scope, history'[k].scope = y
       PROVE  history'[k].version = First(y)' + Cardinality(ChangesOf(y, k)')
  <2>1. CASE k \in 1..n
    <3>1. history[k].scope = y /\ k \in DOMAIN history
      BY <1>1, <1>2, <1>10, <2>1
    <3>2. history[k].version = First(y) + Cardinality(ChangesOf(y, k))
      BY <3>1 DEF HistoryOK, HistoryIsLinear
    <3>. QED  BY <1>1, <1>4, <1>5, <2>1, <3>2
  <2>2. CASE k = n + 1
    <3>1. y = x /\ history'[k].version = VersionOf(x) + 1
      BY <1>1, <1>10, <2>2 DEF Committing
    <3>. QED  BY <1>4, <1>9, <2>2, <3>1
  <2>. QED  BY <1>2, <2>1, <2>2
<1>11. ASSUME NEW y \in Scope, policy'[y] # None
       PROVE  policy'[y].version = First(y)' + Cardinality(ChangesOf(y, n + 1)')
  <2>1. CASE y = x
    BY <1>3, <1>4, <1>9, <2>1 DEF Committing
  <2>2. CASE y # x
    <3>1. policy[y].version = First(y) + Cardinality(ChangesOf(y, n))
      BY <1>3, <1>11, <2>2 DEF HistoryOK, HistoryIsLinear
    <3>. QED  BY <1>3, <1>4, <1>6, <2>2, <3>1
  <2>. QED  BY <2>1, <2>2
<1>12. ASSUME NEW y \in Scope, policy'[y] = None
       PROVE  First(y)' = 0 /\ ChangesOf(y, n + 1)' = {}
  <2>1. y # x
    <3>1. row # None
      BY Constants
    <3>. QED  BY <1>3, <1>12, <3>1
  <2>. QED  BY <1>3, <1>4, <1>6, <1>12, <2>1 DEF HistoryOK
<1>13. ASSUME NEW k \in DOMAIN history', history'[k].token # None
       PROVE  history'[k].token \in spent' /\ (k # n + 1 => history'[k].token \in spent)
  <2>1. CASE k \in 1..n
    BY <1>1, <1>2, <1>13, <2>1 DEF HistoryOK, Committing
  <2>2. CASE k = n + 1
    BY <1>1, <1>13, <2>2 DEF Committing
  <2>. QED  BY <1>2, <2>1, <2>2
<1>14. ASSUME NEW j \in DOMAIN history', NEW k \in DOMAIN history',
              history'[j].token = history'[k].token, history'[j].token # None
       PROVE  j = k
  <2>1. CASE j \in 1..n /\ k \in 1..n
    BY <1>1, <1>2, <1>14, <2>1 DEF HistoryOK, HistoryIsLinear
  <2>2. history'[n + 1].token \notin spent \/ history'[n + 1].token = None
    BY <1>1 DEF Committing
  <2>. QED  BY <1>2, <1>13, <1>14, <2>1, <2>2
<1>15. HistoryIsLinear'
  <2>1. ASSUME NEW k \in DOMAIN history' PROVE history'[k].scope \in Scope
    <3>1. k \in 1..Len(history')
      BY <1>1, <1>2
    <3>2. history'[k] \in HistoryRow
      BY <1>1, <3>1, ElementOfSeq
    <3>. QED  BY <3>2 DEF HistoryRow
  <2>. QED  BY <1>1, <1>2, <1>10, <1>11, <1>14, <2>1 DEF HistoryIsLinear
<1>. QED  BY <1>1, <1>2, <1>12, <1>13, <1>15 DEF HistoryOK

\* A change that commits revoked whoever it excludes, and nobody got in meanwhile.
LEMMA CommitChangeKeeps ==
    ASSUME LoginInv, NEW p \in Proc, CommitChange(p), UNCHANGED loginVars
    PROVE  LoginInv'
<1>1. /\ tx[p].op = "change" /\ tx[p].pc = "write" /\ ~Waiting(p) /\ End(p)
      /\ tx[p].change.scope \in Scope
  BY CommitsNext
<1>2. PICK x \in Scope : x = tx[p].change.scope
  BY <1>1
<1>3. PICK row \in PolicyRow, entry \in HistoryRow : Committing(p, x, row, entry)
  BY <1>2, CommitsNext
<1>4. PICK S : S = tx[p].doomed
  OBVIOUS
<1>5. /\ policy' = [policy EXCEPT ![x] = row] /\ policy' = Changed(p)
      /\ sessions' = Revoked(S) /\ spent' \subseteq Token /\ scenario' = scenario
      /\ handoffs' = handoffs /\ status' = status /\ membership' = membership
      /\ identity' = identity /\ invitation' = invitation /\ logins' = logins
  BY <1>3, <1>4 DEF Committing
<1>6. /\ DataTyped /\ TxTyped /\ ChangeKnows(p)
      /\ Holds(p, Update("advisory", "global")) /\ Holds(p, Update("policy", x))
  BY <1>1, <1>2, ChangeAt
<1>7. HistoryOK' /\ history' \in Seq(HistoryRow)
  BY <1>3, <1>6, HistoryGrows DEF LoginInv, DataInv
<1>8. /\ sessions' \in Seq(SessionRow) /\ Len(sessions') = Len(sessions)
      /\ \A s \in Ids : /\ sessions'[s].membership = sessions[s].membership
                        /\ sessions'[s].state = "live" => sessions[s].state = "live" /\ s \notin S
  BY <1>5, <1>6, SessionsRevoked
<1>9. RowsKept /\ \A a \in Account : NoTrace(a) => NoTrace(a)'
  BY <1>5, <1>6, RevokedKept DEF loginVars
<1>10. DataTyped'
  BY <1>5, <1>6, <1>7, <1>8 DEF DataTyped
<1>11. RolloutHolds'
  <2>1. SUFFICES ASSUME NEW s \in Unrevoked' PROVE Effective(policy', sessions'[s].membership)
    BY DEF RolloutHolds
  <2>2. s \in 1..Len(sessions') /\ sessions'[s].state = "live"
    BY <2>1 DEF Unrevoked, Ids
  <2>3. s \in Ids
    BY <1>8, <2>2 DEF Ids
  <2>4. s \in Unrevoked \ S /\ sessions'[s].membership = sessions[s].membership
    BY <1>8, <2>2, <2>3 DEF Unrevoked
  <2>5. PICK m \in Membership : m = sessions[s].membership
    BY <1>6, <2>3, Types
  <2>6. CASE InScope(x, m)
    <3>1. Retained(Changed(p), m)
      BY <1>1, <1>2, <1>4, <1>6, <2>4, <2>5, <2>6 DEF ChangeKnows
    <3>2. Retained(policy', m)
      BY <1>5, <3>1
    <3>. QED  BY <2>4, <2>5, <3>2, RetainedIsEffective
  <2>7. CASE ~InScope(x, m)
    <3>1. Effective(policy, m)
      BY <2>4, <2>5 DEF LoginInv, DataInv, RolloutHolds
    <3>2. /\ policy'["global"] = policy["global"]
          /\ Provider(m) \/ policy'[CondoOf[m]] = policy[CondoOf[m]]
      BY <1>5, <1>6, <2>7, Constants DEF InScope, Provider, DataTyped
    <3>3. Effective(policy', m)
      BY <3>1, <3>2, EffectiveElsewhere
    <3>. QED  BY <2>4, <2>5, <3>3
  <2>. QED  BY <2>6, <2>7
<1>12. AccountsOK'
  BY <1>5, <1>9, AccountsKept DEF LoginInv, DataInv
<1>13. HandoffsOK'
  BY <1>5 DEF LoginInv, DataInv, HandoffsOK
<1>14. ASSUME NEW u \in Proc \ {p} PROVE Spares(u)
  <2>1. tx[u].op = "change" => SparesChange(u)
    BY <1>6, ChangesAlone DEF SparesChange
  <2>2. SparesCallback(u)
    BY <1>5 DEF SparesCallback
  <2>3. ASSUME tx[u].op = "rotate", tx[u].pc = "held", NEW y \in tx[u].found
        PROVE  policy'[y] = policy[y]
    <3>1. RotateKnows(u)
      BY <2>3 DEF LoginInv, TxKnows
    <3>2. Holds(u, Share("policy", y))
      BY <2>3, <3>1 DEF RotateKnows
    <3>3. ~Holds(u, Share("policy", x))
      BY <1>6, Excluded DEF LoginInv
    <3>4. y # x
      BY <3>2, <3>3
    <3>5. y \in Scope
      BY <1>6, <2>3 DEF TxTyped, TxRec
    <3>. QED  BY <1>5, <1>6, <3>4, <3>5 DEF DataTyped
  <2>. QED  BY <1>5, <2>1, <2>2, <2>3 DEF Spares
<1>. QED  BY <1>1, <1>7, <1>9, <1>10, <1>11, <1>12, <1>13, <1>14, Ended DEF DataInv

-----------------------------------------------------------------------------
(* Requests that look at a session. *)

\* A request of the operation, where it is.
LEMMA Where ==
    ASSUME LoginInv, NEW p \in Proc, NEW op \in Kinds, tx[p].op = op
    PROVE  /\ DataTyped /\ TxTyped /\ tx[p] \in TxRec /\ TxKnows(p) /\ tx[p].pc # "idle"
           /\ tx[p].row \in Nat
<1>1. DataTyped /\ TxTyped /\ tx[p] \in TxRec /\ TxKnows(p)
  BY DEF LoginInv, TxTyped
<1>2. tx[p].pc # "idle"
  BY <1>1, IdleIs, Constants
<1>. QED  BY <1>1, <1>2 DEF TxRec

\* authenticate and inspect.
LEMMA BeginLookKeeps ==
    ASSUME LoginInv, NEW p \in Proc, NEW op \in {"authenticate", "inspect"}, NEW s \in Ids,
           BeginLook(p, op, s), UNCHANGED loginVars
    PROVE  LoginInv'
<1>1. PICK m \in Membership : m = sessions[s].membership
  BY Types DEF LoginInv
<1>2. s \in Nat
  BY Types DEF LoginInv, Ids
<1>. PICK need : need = <<Share("membership", m)>>
  OBVIOUS
<1>3. need = <<Share("membership", m)>> /\ need \in Seq(Locks)
  <2>1. Share("membership", m) \in Locks
    BY LockTypes
  <2>. QED  BY <2>1
<1>4. PICK record : record = [Idle EXCEPT !.pc = "member", !.row = s, !.target = m, !.need = need]
  OBVIOUS
<1>5. record \in TxRec /\ record.pc = "member" /\ record.target = m
  <2>1. Idle \in TxRec
    BY IdleTyped
  <2>2. record.pc = "member" /\ record.target = m
    BY <1>4, <2>1 DEF TxRec
  <2>3. record \in TxRec
    BY <1>2, <1>3, <1>4, <2>1 DEF TxRec
  <2>. QED  BY <2>2, <2>3
<1>6. Begin(p, op, record)
  BY <1>1, <1>3, <1>4 DEF BeginLook
<1>7. op \in Kinds
  BY DEF Kinds
<1>8. ASSUME tx'[p] = [record EXCEPT !.op = op] PROVE TxKnows(p)'
  <2>1. tx'[p].op = op /\ tx'[p].pc = "member" /\ tx'[p].target = m
    BY <1>5, <1>8 DEF TxRec
  <2>. QED  BY <2>1, Constants DEF TxKnows, Kinds, LookKnows
<1>. QED  BY <1>5, <1>6, <1>7, <1>8, Begun

\* The gate is asked.
LEMMA LookGateKeeps ==
    ASSUME LoginInv, NEW p \in Proc, LookGate(p), UNCHANGED loginVars
    PROVE  LoginInv'
<1>1. CASE Quit(p)
  BY <1>1, Quits
<1>2. CASE ~Quit(p)
  <2>1. PICK r \in TxRec : r = tx[p]
    BY DEF LoginInv, TxTyped
  <2>2. /\ r.op \in {"authenticate", "inspect"} /\ r.target \in Membership
        /\ Gate(p, r.target, tx[p])
    BY <1>2, <2>1 DEF LookGate, LoginInv, TxKnows, LookKnows
  <2>3. PICK m \in Membership : m = r.target
    BY <2>2
  <2>4. Gate(p, m, r)
    BY <2>1, <2>2, <2>3 DEF Gate, Continue, Found, PolicyLocks
  <2>5. PICK rec \in TxRec : AtGate(p, m, rec) /\ rec.op = r.op /\ rec.row = r.row
    BY <2>4, Gates
  <2>6. /\ rec.pc = "gate" /\ rec.target = m
        /\ tx' = [tx EXCEPT ![p] = rec] /\ Quiet /\ locks' = locks /\ requests' = requests
    BY <2>5 DEF AtGate
  <2>7. tx'[p] = rec
    BY <2>6, Going
  <2>8. TxKnows(p)'
    BY <2>2, <2>5, <2>6, <2>7, Constants DEF TxKnows, Kinds, LookKnows
  <2>. QED  BY <2>1, <2>2, <2>5, <2>6, <2>8, Goes
<1>. QED  BY <1>1, <1>2

\* The session is locked, or touched, or the request is over.
LEMMA LookSessionKeeps ==
    ASSUME LoginInv, NEW p \in Proc, LookSession(p), UNCHANGED loginVars
    PROVE  LoginInv'
<1>1. CASE Quit(p)
  BY <1>1, Quits
<1>2. CASE ~Quit(p)
  <2>1. PICK r \in TxRec : r = tx[p]
    BY DEF LoginInv, TxTyped
  <2>2. /\ r.op \in {"authenticate", "inspect"} /\ r.target \in Membership /\ r.row \in Nat
        /\ Continue(p, "held", <<Update("session", tx[p].row)>>, tx[p])
    BY <1>2, <2>1 DEF LookSession, LoginInv, TxKnows, LookKnows, TxRec
  <2>. PICK need : need = <<Update("session", r.row)>>
    OBVIOUS
  <2>3. need = <<Update("session", r.row)>> /\ need \in Seq(Locks)
    <3>1. Update("session", r.row) \in Locks
      BY <2>2, LockTypes
    <3>. QED  BY <3>1
  <2>4. PICK rec : rec = [r EXCEPT !.pc = "held", !.need = need]
    OBVIOUS
  <2>5. /\ rec \in TxRec /\ rec.pc = "held" /\ rec.op = r.op /\ rec.row = r.row
        /\ rec.target = r.target
    BY <2>3, <2>4 DEF TxRec
  <2>6. tx' = [tx EXCEPT ![p] = rec] /\ Quiet /\ locks' = locks /\ requests' = requests
    BY <2>1, <2>2, <2>3, <2>4 DEF Continue, Quiet
  <2>7. tx'[p] = rec
    BY <2>5, <2>6, Going
  <2>8. TxKnows(p)'
    BY <2>2, <2>5, <2>7, Constants DEF TxKnows, Kinds, LookKnows
  <2>. QED  BY <2>1, <2>2, <2>5, <2>6, <2>8, Goes
<1>. QED  BY <1>1, <1>2

-----------------------------------------------------------------------------
(* New sessions. *)

\* Whom the gate lets in the policies let in, and it holds every policy that could bar him.
LEMMA LetIn ==
    ASSUME NEW p \in Proc, tx[p].target \in Membership, Allowed(p),
           \A x \in tx[p].found : Holds(p, Share("policy", x))
    PROVE  /\ Effective(policy, tx[p].target)
           /\ \A x \in Scope : InScope(x, tx[p].target) => Holds(p, Share("policy", x))
<1>1. PICK m \in Membership : m = tx[p].target
  OBVIOUS
<1>2. PICK rows : rows = [x \in Scope |-> IF x \in tx[p].found THEN policy[x] ELSE None]
  OBVIOUS
<1>3. Effective(rows, m)
  BY <1>1, <1>2 DEF Allowed
<1>4. \A x \in Scope : rows[x] # None => x \in tx[p].found /\ rows[x] = policy[x]
  BY <1>2
<1>5. rows["global"] # None /\ (~Provider(m) => rows[CondoOf[m]] # None)
  BY <1>3 DEF Effective, Allows
<1>6. ~Provider(m) => CondoOf[m] \in Scope
  BY Constants DEF Provider
<1>7. "global" \in Scope /\ None \notin Scope
  BY Constants
<1>8. Effective(policy, m)
  BY <1>3, <1>4, <1>5, <1>6, <1>7, EffectiveElsewhere
<1>9. ASSUME NEW x \in Scope, InScope(x, m) PROVE x \in tx[p].found
  BY <1>4, <1>5, <1>6, <1>7, <1>9 DEF InScope, Provider
<1>. QED  BY <1>1, <1>8, <1>9

\* The policies and the history, when a step leaves them as they are.
LEMMA HistoryKept ==
    ASSUME HistoryOK, UNCHANGED rollout, scenario' = scenario
    PROVE  HistoryOK'
BY DEF rollout, HistoryOK, HistoryIsLinear, First, ChangesOf

\* The rows of handoffs when one is consumed.
LEMMA HandoffConsumed ==
    ASSUME DataTyped, NEW h \in 1..Len(handoffs),
           handoffs' = [handoffs EXCEPT ![h].state = "consumed"]
    PROVE  /\ handoffs' \in Seq(HandoffRow) /\ Len(handoffs') = Len(handoffs)
           /\ \A g \in 1..Len(handoffs) : /\ handoffs'[g].account = handoffs[g].account
                                          /\ handoffs'[g].login = handoffs[g].login
<1>1. Len(handoffs) \in Nat /\ handoffs \in [1..Len(handoffs) -> HandoffRow]
  BY LenProperties, ElementOfSeq DEF DataTyped
<1>2. PICK row \in HandoffRow : row = [handoffs[h] EXCEPT !.state = "consumed"]
                                /\ row.account = handoffs[h].account
                                /\ row.login = handoffs[h].login
  BY <1>1 DEF HandoffRow
<1>3. handoffs' = [handoffs EXCEPT ![h] = row]
  BY <1>2
<1>4. handoffs' \in [1..Len(handoffs) -> HandoffRow]
  BY <1>1, <1>3
<1>5. handoffs' \in Seq(HandoffRow) /\ Len(handoffs') = Len(handoffs)
  BY <1>1, <1>4
<1>. QED  BY <1>1, <1>2, <1>3, <1>5

\* Handoffs that keep their accounts and logins, and nothing else.
LEMMA HandoffsKept ==
    ASSUME HandoffsOK, Len(handoffs') = Len(handoffs), UNCHANGED loginVars,
           \A h \in 1..Len(handoffs) : handoffs'[h].login = handoffs[h].login
    PROVE  HandoffsOK'
BY DEF HandoffsOK, loginVars

\* A session opened for a membership the policies let in, of an account that was in already,
\* while the policies of its scope are held.
LEMMA SessionOpened ==
    ASSUME LoginInv, NEW p \in Proc, NEW m \in Membership, Effective(policy, m),
           \A x \in Scope : InScope(x, m) => Holds(p, Share("policy", x)),
           ~NoTrace(AccountOf[m]), NEW mid \in Seq(SessionRow), Len(mid) = Len(sessions),
           \A s \in Ids : /\ mid[s].membership = sessions[s].membership
                          /\ mid[s].state = "live" => sessions[s].state = "live",
           NEW new \in SessionRow, new.membership = m, sessions' = Append(mid, new),
           handoffs' \in Seq(HandoffRow), Len(handoffs') = Len(handoffs),
           \A h \in 1..Len(handoffs) : /\ handoffs'[h].account = handoffs[h].account
                                       /\ handoffs'[h].login = handoffs[h].login,
           End(p), UNCHANGED <<rollout, people, loginVars>>
    PROVE  LoginInv'
<1>1. /\ policy' = policy /\ history' = history /\ spent' = spent /\ scenario' = scenario
      /\ status' = status /\ membership' = membership
      /\ identity' = identity /\ invitation' = invitation /\ logins' = logins
  BY DEF rollout, people, loginVars, End
<1>2. PICK n \in Nat : n = Len(sessions)
  BY Types DEF LoginInv
<1>3. /\ sessions' \in Seq(SessionRow) /\ Len(sessions') = n + 1
      /\ \A s \in 1..n : sessions'[s] = mid[s]
      /\ sessions'[n + 1] = new
  BY <1>2, AppendProperties
<1>4. \A s \in 1..n : /\ sessions'[s].membership = sessions[s].membership
                      /\ sessions'[s].state = "live" => sessions[s].state = "live"
  BY <1>2, <1>3 DEF Ids
<1>5. \A s \in 1..(n + 1) : s \in 1..n \/ s = n + 1
  OBVIOUS
<1>6. 1..n \subseteq 1..(n + 1)
  OBVIOUS
<1>7. DataTyped'
  BY <1>1, <1>3 DEF LoginInv, DataTyped
<1>8. RolloutHolds'
  <2>1. SUFFICES ASSUME NEW s \in Unrevoked' PROVE Effective(policy', sessions'[s].membership)
    BY DEF RolloutHolds
  <2>2. s \in 1..(n + 1) /\ sessions'[s].state = "live"
    BY <1>3, <2>1 DEF Unrevoked, Ids
  <2>3. CASE s \in 1..n
    <3>1. s \in Unrevoked
      BY <1>2, <1>4, <2>2, <2>3 DEF Unrevoked, Ids
    <3>2. Effective(policy, sessions[s].membership)
      BY <3>1 DEF LoginInv, DataInv, RolloutHolds
    <3>. QED  BY <1>1, <1>4, <2>3, <3>2 DEF Effective, Allows
  <2>4. CASE s = n + 1
    BY <1>1, <1>3, <2>4 DEF Effective, Allows
  <2>. QED  BY <1>5, <2>2, <2>3, <2>4
<1>9. ASSUME NEW a \in Account, NoTrace(a) PROVE NoTrace(a)'
  <2>1. AccountOf[m] # a
    BY <1>9
  <2>2. \A s \in 1..(n + 1) : AccountOf[sessions'[s].membership] # a
    BY <1>2, <1>3, <1>4, <1>5, <1>9, <2>1 DEF NoTrace, Ids
  <2>. QED  BY <1>1, <1>3, <1>9, <2>2 DEF NoTrace, Ids
<1>10. AccountsOK'
  BY <1>1, <1>9, AccountsKept DEF LoginInv, DataInv
<1>11. HandoffsOK' /\ HistoryOK'
  BY <1>1, HandoffsKept, HistoryKept DEF LoginInv, DataInv
<1>12. RowsKept
  BY <1>1, <1>2, <1>3, <1>4, <1>6 DEF RowsKept, Ids
<1>13. ASSUME NEW u \in Proc \ {p} PROVE Spares(u)
  <2>1. ASSUME tx[u].op = "change" PROVE SparesChange(u)
    <3>1. SUFFICES ASSUME tx[u].pc = "write", NEW s \in 1..Len(sessions'), s \notin Ids
                   PROVE  ~InScope(tx[u].change.scope, sessions'[s].membership)
      BY <1>1 DEF SparesChange
    <3>2. sessions'[s].membership = m
      BY <1>2, <1>3, <1>5, <3>1 DEF Ids
    <3>3. PICK x \in Scope : x = tx[u].change.scope /\ Holds(u, Update("policy", x))
      BY <2>1, <3>1, ChangeTypes DEF LoginInv, TxKnows, ChangeKnows
    <3>4. ~Holds(p, Share("policy", x))
      BY <3>3, Excluded DEF LoginInv
    <3>5. ~InScope(x, m)
      BY <3>4
    <3>. QED  BY <3>2, <3>3, <3>5
  <2>2. SparesCallback(u)
    BY <1>1 DEF SparesCallback
  <2>. QED  BY <1>1, <2>1, <2>2 DEF Spares
<1>. QED  BY <1>7, <1>8, <1>10, <1>11, <1>12, <1>13, Ended DEF DataInv

\* A handoff is given up.
LEMMA DenyKeeps ==
    ASSUME LoginInv, NEW p \in Proc, Deny(p), tx[p].op = "issue", UNCHANGED loginVars
    PROVE  LoginInv'
<1>1. DataTyped /\ TxTyped /\ IssueKnows(p)
  BY DEF LoginInv, TxKnows
<1>2. PICK h \in 1..Len(handoffs) : h = tx[p].row
  BY <1>1 DEF IssueKnows
<1>3. handoffs' = [handoffs EXCEPT ![h].state = "consumed"]
  BY <1>2 DEF Deny
<1>4. /\ handoffs' \in Seq(HandoffRow) /\ Len(handoffs') = Len(handoffs)
      /\ \A g \in 1..Len(handoffs) : /\ handoffs'[g].account = handoffs[g].account
                                     /\ handoffs'[g].login = handoffs[g].login
  BY <1>1, <1>3, HandoffConsumed
<1>5. /\ policy' = policy /\ history' = history /\ spent' = spent /\ scenario' = scenario
      /\ sessions' = sessions /\ status' = status /\ membership' = membership
      /\ identity' = identity /\ invitation' = invitation /\ logins' = logins
      /\ UNCHANGED rollout /\ End(p)
  BY DEF Deny, rollout, people, loginVars, End
<1>6. DataTyped'
  BY <1>1, <1>4, <1>5 DEF DataTyped
<1>7. RolloutHolds'
  BY <1>5 DEF LoginInv, DataInv, RolloutHolds, Unrevoked, Ids
<1>8. AccountsOK'
  <2>1. \A a \in Account : NoTrace(a) => NoTrace(a)'
    BY <1>4, <1>5 DEF NoTrace, Ids
  <2>. QED  BY <1>5, <2>1, AccountsKept DEF LoginInv, DataInv
<1>9. HandoffsOK' /\ HistoryOK'
  BY <1>4, <1>5, HandoffsKept, HistoryKept DEF LoginInv, DataInv
<1>10. RowsKept
  BY <1>4, <1>5 DEF RowsKept, Ids
<1>11. ASSUME NEW u \in Proc \ {p} PROVE Spares(u)
  BY <1>4, <1>5 DEF Spares, SparesChange, SparesCallback, Ids
<1>. QED  BY <1>5, <1>6, <1>7, <1>8, <1>9, <1>10, <1>11, Ended DEF DataInv

\* issueFromHandoff.
LEMMA BeginIssueKeeps ==
    ASSUME LoginInv, NEW p \in Proc, NEW h \in 1..Len(handoffs), BeginIssue(p, h),
           UNCHANGED loginVars
    PROVE  LoginInv'
<1>1. h \in Nat
  BY Types DEF LoginInv
<1>. PICK need : need = <<Update("handoff", h)>>
  OBVIOUS
<1>2. need = <<Update("handoff", h)>> /\ need \in Seq(Locks)
  <2>1. Update("handoff", h) \in Locks
    BY <1>1, LockTypes
  <2>. QED  BY <2>1
<1>3. PICK record : record = [Idle EXCEPT !.pc = "handoff", !.row = h, !.need = need]
  OBVIOUS
<1>4. record \in TxRec /\ record.pc = "handoff" /\ record.row = h
  <2>1. Idle \in TxRec
    BY IdleTyped
  <2>2. record.pc = "handoff" /\ record.row = h
    BY <1>3, <2>1 DEF TxRec
  <2>3. record \in TxRec
    BY <1>1, <1>2, <1>3, <2>1 DEF TxRec
  <2>. QED  BY <2>2, <2>3
<1>5. Begin(p, "issue", record)
  BY <1>2, <1>3 DEF BeginIssue
<1>6. handoffs' = handoffs
  BY <1>5 DEF Begin, base
<1>7. ASSUME tx'[p] = [record EXCEPT !.op = "issue"] PROVE TxKnows(p)'
  <2>1. tx'[p].op = "issue" /\ tx'[p].pc = "handoff" /\ tx'[p].row = h
    BY <1>4, <1>7 DEF TxRec
  <2>. QED  BY <1>6, <2>1, Constants DEF TxKnows, Kinds, IssueKnows
<1>8. "issue" \in Kinds
  BY DEF Kinds
<1>. QED  BY <1>4, <1>5, <1>7, <1>8, Begun

\* Its account is locked.
LEMMA IssueAccountKeeps ==
    ASSUME LoginInv, NEW p \in Proc, IssueAccount(p), UNCHANGED loginVars
    PROVE  LoginInv'
<1>1. CASE Quit(p)
  BY <1>1, Quits
<1>2. CASE ~Quit(p)
  <2>1. PICK r \in TxRec : r = tx[p]
    BY DEF LoginInv, TxTyped
  <2>2. r.op = "issue" /\ IssueKnows(p) /\ r.row \in 1..Len(handoffs)
    BY <2>1 DEF IssueAccount, At, LoginInv, TxKnows, IssueKnows
  <2>. PICK need : need = <<Update("account", handoffs[r.row].account)>>
    OBVIOUS
  <2>3. need = <<Update("account", handoffs[r.row].account)>> /\ need \in Seq(Locks)
    <3>1. handoffs[r.row].account \in Account
      BY <2>2, Types DEF LoginInv
    <3>2. Update("account", handoffs[r.row].account) \in Locks
      BY <3>1, LockTypes
    <3>. QED  BY <3>2
  <2>4. PICK rec : rec = [r EXCEPT !.pc = "account", !.need = need]
    OBVIOUS
  <2>5. rec \in TxRec /\ rec.pc = "account" /\ rec.op = r.op /\ rec.row = r.row
    BY <2>3, <2>4 DEF TxRec
  <2>6. tx' = [tx EXCEPT ![p] = rec] /\ Quiet /\ locks' = locks /\ requests' = requests
    BY <1>2, <2>1, <2>3, <2>4 DEF IssueAccount, Continue, Quiet
  <2>7. tx'[p] = rec /\ handoffs' = handoffs
    BY <2>5, <2>6, Going
  <2>8. TxKnows(p)'
    BY <2>2, <2>5, <2>7, Constants DEF TxKnows, Kinds, IssueKnows
  <2>. QED  BY <2>1, <2>2, <2>5, <2>6, <2>8, Goes
<1>. QED  BY <1>1, <1>2

\* Its memberships are share-locked, and one is chosen.
LEMMA IssueMemberKeeps ==
    ASSUME LoginInv, NEW p \in Proc, IssueMember(p), UNCHANGED loginVars
    PROVE  LoginInv'
<1>1. PICK r \in TxRec : r = tx[p]
  BY DEF LoginInv, TxTyped
<1>2. r.op = "issue" /\ IssueKnows(p) /\ r.row \in 1..Len(handoffs)
  BY <1>1 DEF IssueMember, At, LoginInv, TxKnows, IssueKnows
<1>3. CASE Deny(p)
  BY <1>1, <1>2, <1>3, DenyKeeps
<1>4. CASE ~Deny(p)
  <2>1. PICK a \in Account : a = handoffs[r.row].account
    BY <1>2, Types DEF LoginInv
  <2>. PICK live : live = {m \in ActiveOf(a) : CondoOf[m] \notin scenario.closed}
    OBVIOUS
  <2>2. live \in SUBSET Membership /\ \A m \in live : AccountOf[m] = a
    BY DEF ActiveOf
  <2>3. \E m \in live, q \in Listings(live) :
          Continue(p, "member", [k \in DOMAIN q |-> Share("membership", q[k])],
                   [tx[p] EXCEPT !.target = m])
    <3>1. live = {m \in ActiveOf(handoffs[tx[p].row].account) : CondoOf[m] \notin scenario.closed}
      BY <1>1, <2>1
    <3>. QED  BY <1>4, <3>1 DEF IssueMember
  <2>4. PICK m \in live, q \in Listings(live) :
          Continue(p, "member", [k \in DOMAIN q |-> Share("membership", q[k])],
                   [tx[p] EXCEPT !.target = m])
    BY <2>3
  <2>. PICK need : need = [k \in DOMAIN q |-> Share("membership", q[k])]
    OBVIOUS
  <2>5. need = [k \in DOMAIN q |-> Share("membership", q[k])] /\ need \in Seq(Locks)
    BY <2>2, MembersShared
  <2>6. PICK rec : rec = [[r EXCEPT !.target = m] EXCEPT !.pc = "member", !.need = need]
    OBVIOUS
  <2>7. m \in Membership /\ AccountOf[m] = a
    BY <2>2
  <2>8. /\ rec \in TxRec /\ rec.pc = "member" /\ rec.op = r.op /\ rec.row = r.row
        /\ rec.target = m
    BY <2>5, <2>6, <2>7 DEF TxRec
  <2>9. tx' = [tx EXCEPT ![p] = rec] /\ Quiet /\ locks' = locks /\ requests' = requests
    BY <1>1, <2>4, <2>5, <2>6 DEF Continue, Quiet
  <2>10. tx'[p] = rec /\ handoffs' = handoffs
    BY <2>8, <2>9, Going
  <2>11. TxKnows(p)'
    BY <1>2, <2>1, <2>7, <2>8, <2>10, Constants DEF TxKnows, Kinds, IssueKnows
  <2>. QED  BY <1>1, <1>2, <2>8, <2>9, <2>11, Goes
<1>. QED  BY <1>3, <1>4

\* The gate is asked about it.
LEMMA IssueGateKeeps ==
    ASSUME LoginInv, NEW p \in Proc, IssueGate(p), UNCHANGED loginVars
    PROVE  LoginInv'
<1>1. PICK r \in TxRec : r = tx[p]
  BY DEF LoginInv, TxTyped
<1>2. /\ r.op = "issue" /\ r.row \in 1..Len(handoffs)
      /\ r.target \in Membership /\ AccountOf[r.target] = handoffs[r.row].account
  BY <1>1 DEF IssueGate, At, LoginInv, TxKnows, IssueKnows
<1>3. CASE Deny(p)
  BY <1>1, <1>2, <1>3, DenyKeeps
<1>4. CASE ~Deny(p)
  <2>1. PICK m \in Membership : m = r.target
    BY <1>2
  <2>2. Gate(p, m, r)
    BY <1>1, <1>4, <2>1 DEF IssueGate, Gate, Continue, Found, PolicyLocks
  <2>3. PICK rec \in TxRec : AtGate(p, m, rec) /\ rec.op = r.op /\ rec.row = r.row
    BY <2>2, Gates
  <2>4. /\ rec.pc = "gate" /\ rec.target = m
        /\ tx' = [tx EXCEPT ![p] = rec] /\ Quiet /\ locks' = locks /\ requests' = requests
    BY <2>3 DEF AtGate
  <2>5. tx'[p] = rec /\ handoffs' = handoffs /\ GateKnown(p)'
    BY <2>3, <2>4, Going, GatesKnown
  <2>6. TxKnows(p)'
    BY <1>2, <2>1, <2>3, <2>4, <2>5, Constants DEF TxKnows, Kinds, IssueKnows
  <2>. QED  BY <1>1, <1>2, <2>3, <2>4, <2>6, Goes
<1>. QED  BY <1>3, <1>4

\* The session is opened for the handoff's account.
LEMMA IssueKeeps ==
    ASSUME LoginInv, NEW p \in Proc, Issue(p), UNCHANGED loginVars
    PROVE  LoginInv'
<1>1. PICK r \in TxRec : r = tx[p]
  BY DEF LoginInv, TxTyped
<1>2. /\ r.op = "issue" /\ r.pc = "gate" /\ r.row \in 1..Len(handoffs) /\ GateKnown(p)
      /\ r.target \in Membership /\ AccountOf[r.target] = handoffs[r.row].account
      /\ ~Waiting(p)
  BY <1>1 DEF Issue, At, LoginInv, TxKnows, IssueKnows
<1>3. CASE ~Allowed(p)
  <2>1. Deny(p)
    BY <1>3 DEF Issue
  <2>. QED  BY <1>1, <1>2, <2>1, DenyKeeps
<1>4. CASE Allowed(p)
  <2>1. PICK m \in Membership : m = r.target
    BY <1>2
  <2>2. \A x \in tx[p].found : Holds(p, Share("policy", x))
    BY <1>2, AtHolds DEF GateKnown
  <2>3. Effective(policy, m) /\ \A x \in Scope : InScope(x, m) => Holds(p, Share("policy", x))
    BY <1>1, <1>4, <2>1, <2>2, LetIn
  <2>4. PICK h \in 1..Len(handoffs) : h = r.row
    BY <1>2
  <2>5. PICK new : new = [membership |-> m, state |-> "live"]
    OBVIOUS
  <2>6. new \in SessionRow /\ new.membership = m
    BY <2>5 DEF SessionRow
  <2>7. /\ sessions' = Append(sessions, new) /\ handoffs' = [handoffs EXCEPT ![h].state = "consumed"]
        /\ End(p) /\ UNCHANGED <<rollout, people, loginVars>>
    BY <1>1, <1>4, <2>1, <2>4, <2>5 DEF Issue
  <2>8. DataTyped /\ sessions \in Seq(SessionRow)
    BY DEF LoginInv, DataTyped
  <2>9. /\ handoffs' \in Seq(HandoffRow) /\ Len(handoffs') = Len(handoffs)
        /\ \A g \in 1..Len(handoffs) : /\ handoffs'[g].account = handoffs[g].account
                                       /\ handoffs'[g].login = handoffs[g].login
    BY <2>7, <2>8, HandoffConsumed
  <2>10. ~NoTrace(AccountOf[m])
    BY <1>2, <2>1 DEF NoTrace
  <2>. QED  BY <2>3, <2>6, <2>7, <2>8, <2>9, <2>10, SessionOpened
<1>. QED  BY <1>3, <1>4

-----------------------------------------------------------------------------
(* Rotation. *)

\* rotate: the account first.
LEMMA BeginRotateKeeps ==
    ASSUME LoginInv, NEW p \in Proc, NEW s \in Ids, NEW m \in Membership, BeginRotate(p, s, m),
           UNCHANGED loginVars
    PROVE  LoginInv'
<1>1. s \in Nat
  BY Types DEF LoginInv, Ids
<1>. PICK need : need = <<Update("account", AccountOf[m])>>
  OBVIOUS
<1>2. need = <<Update("account", AccountOf[m])>> /\ need \in Seq(Locks)
  <2>1. Update("account", AccountOf[m]) \in Locks
    BY Constants, LockTypes
  <2>. QED  BY <2>1
<1>3. PICK record : record = [Idle EXCEPT !.pc = "account", !.row = s, !.target = m, !.need = need]
  OBVIOUS
<1>4. /\ record \in TxRec /\ record.pc = "account" /\ record.row = s /\ record.target = m
  <2>1. Idle \in TxRec
    BY IdleTyped
  <2>2. record.pc = "account" /\ record.row = s /\ record.target = m
    BY <1>3, <2>1 DEF TxRec
  <2>3. record \in TxRec
    BY <1>1, <1>2, <1>3, <2>1 DEF TxRec
  <2>. QED  BY <2>2, <2>3
<1>5. Begin(p, "rotate", record) /\ AccountOf[m] = AccountOf[sessions[s].membership]
  BY <1>2, <1>3 DEF BeginRotate
<1>6. sessions' = sessions
  BY <1>5 DEF Begin, base
<1>7. ASSUME tx'[p] = [record EXCEPT !.op = "rotate"] PROVE TxKnows(p)'
  <2>1. /\ tx'[p].op = "rotate" /\ tx'[p].pc = "account" /\ tx'[p].row = s /\ tx'[p].target = m
    BY <1>4, <1>7 DEF TxRec
  <2>. QED  BY <1>5, <1>6, <2>1, Constants DEF TxKnows, Kinds, RotateKnows, Ids
<1>8. "rotate" \in Kinds
  BY DEF Kinds
<1>. QED  BY <1>4, <1>5, <1>7, <1>8, Begun

\* The target is share-locked.
LEMMA RotateMemberKeeps ==
    ASSUME LoginInv, NEW p \in Proc, RotateMember(p), UNCHANGED loginVars
    PROVE  LoginInv'
<1>1. CASE Quit(p)
  BY <1>1, Quits
<1>2. CASE ~Quit(p)
  <2>1. PICK r \in TxRec : r = tx[p]
    BY DEF LoginInv, TxTyped
  <2>2. /\ r.op = "rotate" /\ r.row \in Ids /\ r.target \in Membership
        /\ AccountOf[r.target] = AccountOf[sessions[r.row].membership]
    BY <2>1 DEF RotateMember, At, LoginInv, TxKnows, RotateKnows
  <2>. PICK need : need = <<Share("membership", r.target)>>
    OBVIOUS
  <2>3. need = <<Share("membership", r.target)>> /\ need \in Seq(Locks)
    <3>1. Share("membership", r.target) \in Locks
      BY <2>2, LockTypes
    <3>. QED  BY <3>1
  <2>4. PICK rec : rec = [r EXCEPT !.pc = "member", !.need = need]
    OBVIOUS
  <2>5. /\ rec \in TxRec /\ rec.pc = "member" /\ rec.op = r.op /\ rec.row = r.row
        /\ rec.target = r.target
    BY <2>3, <2>4 DEF TxRec
  <2>6. tx' = [tx EXCEPT ![p] = rec] /\ Quiet /\ locks' = locks /\ requests' = requests
    BY <1>2, <2>1, <2>3, <2>4 DEF RotateMember, Continue, Quiet
  <2>7. tx'[p] = rec /\ sessions' = sessions
    BY <2>5, <2>6, Going
  <2>8. TxKnows(p)'
    BY <2>2, <2>5, <2>7, Constants DEF TxKnows, Kinds, RotateKnows, Ids
  <2>. QED  BY <2>1, <2>2, <2>5, <2>6, <2>8, Goes
<1>. QED  BY <1>1, <1>2

\* The gate is asked about it.
LEMMA RotateGateKeeps ==
    ASSUME LoginInv, NEW p \in Proc, RotateGate(p), UNCHANGED loginVars
    PROVE  LoginInv'
<1>1. CASE Quit(p)
  BY <1>1, Quits
<1>2. CASE ~Quit(p)
  <2>1. PICK r \in TxRec : r = tx[p]
    BY DEF LoginInv, TxTyped
  <2>2. /\ r.op = "rotate" /\ r.row \in Ids /\ r.target \in Membership
        /\ AccountOf[r.target] = AccountOf[sessions[r.row].membership]
    BY <2>1 DEF RotateGate, At, LoginInv, TxKnows, RotateKnows
  <2>3. PICK m \in Membership : m = r.target
    BY <2>2
  <2>4. Gate(p, m, r)
    BY <1>2, <2>1, <2>3 DEF RotateGate, Gate, Continue, Found, PolicyLocks
  <2>5. PICK rec \in TxRec : AtGate(p, m, rec) /\ rec.op = r.op /\ rec.row = r.row
    BY <2>4, Gates
  <2>6. /\ rec.pc = "gate" /\ rec.target = m
        /\ tx' = [tx EXCEPT ![p] = rec] /\ Quiet /\ locks' = locks /\ requests' = requests
    BY <2>5 DEF AtGate
  <2>7. tx'[p] = rec /\ sessions' = sessions /\ GateKnown(p)'
    BY <2>5, <2>6, Going, GatesKnown
  <2>8. TxKnows(p)'
    BY <2>2, <2>3, <2>5, <2>6, <2>7, Constants DEF TxKnows, Kinds, RotateKnows, Ids
  <2>. QED  BY <2>1, <2>2, <2>5, <2>6, <2>8, Goes
<1>. QED  BY <1>1, <1>2

\* Let in, it locks the session that is to be replaced, and holds the policies.
LEMMA RotateSessionKeeps ==
    ASSUME LoginInv, NEW p \in Proc, RotateSession(p), UNCHANGED loginVars
    PROVE  LoginInv'
<1>1. CASE Quit(p)
  BY <1>1, Quits
<1>2. CASE ~Quit(p)
  <2>1. PICK r \in TxRec : r = tx[p]
    BY DEF LoginInv, TxTyped
  <2>2. /\ r.op = "rotate" /\ r.row \in Ids /\ r.target \in Membership
        /\ AccountOf[r.target] = AccountOf[sessions[r.row].membership]
        /\ GateKnown(p) /\ ~Waiting(p) /\ Allowed(p)
    BY <1>2, <2>1 DEF RotateSession, At, LoginInv, TxKnows, RotateKnows
  <2>3. \A x \in r.found : Holds(p, Share("policy", x))
    BY <2>1, <2>2, AtHolds DEF GateKnown
  <2>. PICK need : need = <<Update("session", r.row)>>
    OBVIOUS
  <2>4. need = <<Update("session", r.row)>> /\ need \in Seq(Locks)
    <3>1. r.row \in Nat
      BY DEF TxRec
    <3>2. Update("session", r.row) \in Locks
      BY <3>1, LockTypes
    <3>. QED  BY <3>2
  <2>5. PICK rec : rec = [r EXCEPT !.pc = "held", !.need = need]
    OBVIOUS
  <2>6. /\ rec \in TxRec /\ rec.pc = "held" /\ rec.op = r.op /\ rec.row = r.row
        /\ rec.target = r.target /\ rec.found = r.found
    BY <2>4, <2>5 DEF TxRec
  <2>7. tx' = [tx EXCEPT ![p] = rec] /\ Quiet /\ locks' = locks /\ requests' = requests
    BY <1>2, <2>1, <2>4, <2>5 DEF RotateSession, Continue, Quiet
  <2>8. /\ tx'[p] = rec /\ sessions' = sessions /\ policy' = policy
        /\ \A lock : Holds(p, lock) => Holds(p, lock)' /\ Asks(p, lock)'
    BY <2>6, <2>7, Going
  <2>9. \A x \in rec.found : Holds(p, Share("policy", x))' /\ Asks(p, Share("policy", x))'
    BY <2>3, <2>6, <2>8
  <2>10. Allowed(p)'
    BY <2>1, <2>2, <2>6, <2>8 DEF Allowed
  <2>11. RotateKnows(p)'
    BY <2>2, <2>6, <2>8, <2>9, <2>10 DEF RotateKnows, GateKnown, Ids
  <2>12. TxKnows(p)'
    BY <2>2, <2>6, <2>8, <2>11, Constants DEF TxKnows, Kinds
  <2>. QED  BY <2>1, <2>2, <2>6, <2>7, <2>12, Goes
<1>. QED  BY <1>1, <1>2

\* The session of the target replaces the other.
LEMMA RotateKeeps ==
    ASSUME LoginInv, NEW p \in Proc, Rotate(p), UNCHANGED loginVars
    PROVE  LoginInv'
<1>1. CASE Quit(p)
  BY <1>1, Quits
<1>2. CASE ~Quit(p)
  <2>1. PICK r \in TxRec : r = tx[p]
    BY DEF LoginInv, TxTyped
  <2>2. /\ r.row \in Ids /\ r.target \in Membership
        /\ AccountOf[r.target] = AccountOf[sessions[r.row].membership]
        /\ Allowed(p) /\ \A x \in r.found : Holds(p, Share("policy", x))
    BY <2>1 DEF Rotate, At, LoginInv, TxKnows, RotateKnows
  <2>3. PICK m \in Membership : m = r.target
    BY <2>2
  <2>4. Effective(policy, m) /\ \A x \in Scope : InScope(x, m) => Holds(p, Share("policy", x))
    BY <2>1, <2>2, <2>3, LetIn
  <2>5. PICK mid : mid = Revoked({r.row})
    OBVIOUS
  <2>6. PICK new : new = [membership |-> m, state |-> "live"]
    OBVIOUS
  <2>7. new \in SessionRow /\ new.membership = m
    BY <2>6 DEF SessionRow
  <2>8. /\ sessions' = Append(mid, new) /\ End(p)
        /\ UNCHANGED <<rollout, people, handoffs, loginVars>>
    BY <1>2, <2>1, <2>3, <2>5, <2>6 DEF Rotate
  <2>9. DataTyped /\ sessions \in Seq(SessionRow) /\ handoffs \in Seq(HandoffRow)
    BY DEF LoginInv, DataTyped
  <2>10. /\ mid \in Seq(SessionRow) /\ Len(mid) = Len(sessions)
         /\ \A s \in Ids : /\ mid[s].membership = sessions[s].membership
                           /\ mid[s].state = "live" => sessions[s].state = "live"
    BY <2>5, <2>9, RevokedRows
  <2>11. ~NoTrace(AccountOf[m])
    BY <2>2, <2>3 DEF NoTrace
  <2>. QED  BY <2>4, <2>7, <2>8, <2>9, <2>10, <2>11, SessionOpened
<1>. QED  BY <1>1, <1>2

-----------------------------------------------------------------------------
(* An account is barred. *)

\* setAccountStatus: the account first.
LEMMA BeginBarKeeps ==
    ASSUME LoginInv, NEW p \in Proc, NEW a \in Account, BeginBar(p, a), UNCHANGED loginVars
    PROVE  LoginInv'
<1>. PICK need : need = <<Update("account", a)>>
  OBVIOUS
<1>1. need = <<Update("account", a)>> /\ need \in Seq(Locks)
  <2>1. Update("account", a) \in Locks
    BY LockTypes
  <2>. QED  BY <2>1
<1>2. PICK record : record = [Idle EXCEPT !.pc = "account", !.target = a, !.need = need]
  OBVIOUS
<1>3. record \in TxRec /\ record.pc = "account" /\ record.target = a
  <2>1. Idle \in TxRec
    BY IdleTyped
  <2>2. record.pc = "account" /\ record.target = a
    BY <1>2, <2>1 DEF TxRec
  <2>3. record \in TxRec
    BY <1>1, <1>2, <2>1 DEF TxRec
  <2>. QED  BY <2>2, <2>3
<1>4. Begin(p, "bar", record) /\ status[a] # "none"
  BY <1>1, <1>2 DEF BeginBar
<1>5. status' = status
  BY <1>4 DEF Begin, base, people
<1>6. ASSUME tx'[p] = [record EXCEPT !.op = "bar"] PROVE TxKnows(p)'
  <2>1. tx'[p].op = "bar" /\ tx'[p].pc = "account" /\ tx'[p].target = a
    BY <1>3, <1>6 DEF TxRec
  <2>. QED  BY <1>4, <1>5, <2>1, Constants DEF TxKnows, Kinds, BarKnows
<1>7. "bar" \in Kinds
  BY DEF Kinds
<1>. QED  BY <1>3, <1>4, <1>6, <1>7, Begun

\* Its memberships are locked.
LEMMA BarMembersKeeps ==
    ASSUME LoginInv, NEW p \in Proc, BarMembers(p), UNCHANGED loginVars
    PROVE  LoginInv'
<1>1. CASE Quit(p)
  BY <1>1, Quits
<1>2. CASE ~Quit(p)
  <2>1. PICK r \in TxRec : r = tx[p]
    BY DEF LoginInv, TxTyped
  <2>2. r.op = "bar" /\ r.target \in Account /\ status[r.target] # "none"
    BY <2>1 DEF BarMembers, At, LoginInv, TxKnows, BarKnows
  <2>. PICK S : S = {m \in Membership : /\ AccountOf[m] = r.target
                                        /\ membership[m] \in {"invited", "active"}}
    OBVIOUS
  <2>3. S \in SUBSET Membership
    OBVIOUS
  <2>4. \E need \in Orders("membership", S) : Continue(p, "members", need, tx[p])
    BY <1>2, <2>1 DEF BarMembers
  <2>5. PICK need \in Orders("membership", S) : Continue(p, "members", need, tx[p])
    BY <2>4
  <2>6. need \in Seq(Locks)
    BY <2>3, Ordered
  <2>7. PICK rec : rec = [r EXCEPT !.pc = "members", !.need = need]
    OBVIOUS
  <2>8. /\ rec \in TxRec /\ rec.pc = "members" /\ rec.op = r.op /\ rec.row = r.row
        /\ rec.target = r.target
    BY <2>6, <2>7 DEF TxRec
  <2>9. tx' = [tx EXCEPT ![p] = rec] /\ Quiet /\ locks' = locks /\ requests' = requests
    BY <2>1, <2>5, <2>7 DEF Continue, Quiet
  <2>10. tx'[p] = rec /\ status' = status
    BY <2>8, <2>9, Going
  <2>11. TxKnows(p)'
    BY <2>2, <2>8, <2>10, Constants DEF TxKnows, Kinds, BarKnows
  <2>. QED  BY <2>1, <2>2, <2>8, <2>9, <2>11, Goes
<1>. QED  BY <1>1, <1>2

\* And its sessions.
LEMMA BarSessionsKeeps ==
    ASSUME LoginInv, NEW p \in Proc, BarSessions(p), UNCHANGED loginVars
    PROVE  LoginInv'
<1>1. PICK r \in TxRec : r = tx[p]
  BY DEF LoginInv, TxTyped
<1>2. r.op = "bar" /\ r.target \in Account /\ status[r.target] # "none"
  BY <1>1 DEF BarSessions, At, LoginInv, TxKnows, BarKnows
<1>. PICK S : S = {s \in Unrevoked : AccountOf[sessions[s].membership] = r.target}
  OBVIOUS
<1>3. S \in SUBSET Ids /\ S \in SUBSET Nat
  BY Types DEF LoginInv, Unrevoked, Ids
<1>4. \E need \in Orders("session", S) : Continue(p, "write", need, [tx[p] EXCEPT !.doomed = S])
  BY <1>1 DEF BarSessions
<1>5. PICK need \in Orders("session", S) : Continue(p, "write", need, [tx[p] EXCEPT !.doomed = S])
  BY <1>4
<1>6. need \in Seq(Locks)
  BY <1>3, Ordered DEF LoginInv
<1>7. PICK rec : rec = [[r EXCEPT !.doomed = S] EXCEPT !.pc = "write", !.need = need]
  OBVIOUS
<1>8. /\ rec \in TxRec /\ rec.pc = "write" /\ rec.op = r.op /\ rec.row = r.row
      /\ rec.target = r.target
  BY <1>3, <1>6, <1>7 DEF TxRec
<1>9. tx' = [tx EXCEPT ![p] = rec] /\ Quiet /\ locks' = locks /\ requests' = requests
  BY <1>1, <1>5, <1>7 DEF Continue, Quiet
<1>10. tx'[p] = rec /\ status' = status
  BY <1>8, <1>9, Going
<1>11. TxKnows(p)'
  BY <1>2, <1>8, <1>10, Constants DEF TxKnows, Kinds, BarKnows
<1>. QED  BY <1>1, <1>2, <1>8, <1>9, <1>11, Goes

\* The account and its memberships are barred, and the sessions found are revoked.
LEMMA BarKeeps ==
    ASSUME LoginInv, NEW p \in Proc, Bar(p), UNCHANGED loginVars
    PROVE  LoginInv'
<1>1. PICK a \in Account : a = tx[p].target /\ status[a] # "none"
  BY DEF Bar, At, LoginInv, TxKnows, BarKnows
<1>2. PICK S : S = tx[p].doomed
  OBVIOUS
<1>3. /\ status' = [status EXCEPT ![a] = "barred"]
      /\ membership' = [m \in Membership |->
           IF AccountOf[m] = a /\ membership[m] # "none" THEN "disabled" ELSE membership[m]]
      /\ sessions' = Revoked(S) /\ End(p) /\ scenario' = scenario /\ UNCHANGED rollout
      /\ policy' = policy /\ history' = history /\ spent' = spent /\ handoffs' = handoffs
      /\ identity' = identity /\ invitation' = invitation /\ logins' = logins
  BY <1>1, <1>2 DEF Bar, End, rollout, loginVars
<1>4. DataTyped /\ TxTyped
  BY DEF LoginInv
<1>5. /\ sessions' \in Seq(SessionRow) /\ Len(sessions') = Len(sessions)
      /\ \A s \in Ids : /\ sessions'[s].membership = sessions[s].membership
                        /\ sessions'[s].state = "live" => sessions[s].state = "live" /\ s \notin S
  BY <1>3, <1>4, SessionsRevoked
<1>6. /\ status' \in [Account -> {"none", "invited", "active", "barred"}]
      /\ status'[a] = "barred" /\ \A b \in Account \ {a} : status'[b] = status[b]
  BY <1>3, <1>4 DEF DataTyped
<1>7. /\ membership' \in [Membership -> {"none", "invited", "active", "disabled"}]
      /\ \A m \in Membership : \/ AccountOf[m] # a /\ membership'[m] = membership[m]
                               \/ membership[m] = "none" /\ membership'[m] = "none"
                               \/ membership'[m] = "disabled" /\ AccountOf[m] = a
  BY <1>3, <1>4 DEF DataTyped
<1>8. DataTyped'
  BY <1>3, <1>4, <1>5, <1>6, <1>7 DEF DataTyped
<1>9. RowsKept /\ \A b \in Account : NoTrace(b) => NoTrace(b)'
  BY <1>3, <1>4, <1>6, RevokedKept DEF loginVars
<1>10. RolloutHolds'
  <2>1. SUFFICES ASSUME NEW s \in Unrevoked' PROVE Effective(policy', sessions'[s].membership)
    BY DEF RolloutHolds
  <2>2. s \in Unrevoked /\ sessions'[s].membership = sessions[s].membership
    BY <1>5, <2>1 DEF Unrevoked, Ids
  <2>3. Effective(policy, sessions[s].membership)
    BY <2>2 DEF LoginInv, DataInv, RolloutHolds
  <2>. QED  BY <1>3, <2>2, <2>3 DEF Effective, Allows
<1>11. AccountsOK'
  <2>1. ASSUME NEW b \in Account
        PROVE  /\ status'[b] = "none" => invitation[b] = "none" /\ NoTrace(b)'
               /\ invitation[b] \in {"open", "expired"} =>
                    /\ status'[b] \in {"invited", "barred"}
                    /\ membership'[MembershipOf(b)] \in {"invited", "disabled"}
                    /\ NoTrace(b)'
               /\ invitation[b] = "consumed" =>
                    \E s \in Subject : \A t \in Subject : identity[t] = b <=> t = s
    <3>1. /\ status[b] = "none" => invitation[b] = "none" /\ NoTrace(b)
          /\ invitation[b] \in {"open", "expired"} =>
               /\ status[b] \in {"invited", "barred"}
               /\ membership[MembershipOf(b)] \in {"invited", "disabled"}
               /\ NoTrace(b)
          /\ invitation[b] = "consumed" =>
               \E s \in Subject : \A t \in Subject : identity[t] = b <=> t = s
      BY DEF LoginInv, DataInv, AccountsOK
    <3>2. MembershipOf(b) \in Membership
      BY Constants
    <3>. QED  BY <1>6, <1>7, <1>9, <3>1, <3>2
  <2>. QED  BY <1>3, <2>1 DEF AccountsOK
<1>12. HandoffsOK' /\ HistoryOK'
  BY <1>3, HandoffsKept, HistoryKept DEF LoginInv, DataInv
<1>13. ASSUME NEW u \in Proc \ {p} PROVE Spares(u)
  <2>1. tx[u].op = "invite" => status'[tx[u].target] = status[tx[u].target]
    <3>1. tx[u].op = "invite" => tx[u].target \in Account /\ status[tx[u].target] = "none"
      BY DEF LoginInv, TxKnows, InviteKnows
    <3>. QED  BY <1>1, <1>6, <3>1
  <2>2. SparesChange(u)
    BY <1>3, <1>5 DEF SparesChange, Ids
  <2>3. SparesCallback(u)
    BY <1>3 DEF SparesCallback
  <2>. QED  BY <1>3, <2>1, <2>2, <2>3 DEF Spares
<1>. QED  BY <1>3, <1>8, <1>9, <1>10, <1>11, <1>12, <1>13, Ended DEF DataInv

-----------------------------------------------------------------------------
(* Invitations and logins. *)

\* A step of no request.
LEMMA Aside ==
    ASSUME LoginInv, tx' = tx, locks' = locks, requests' = requests, scenario' = scenario,
           DataTyped', DataInv', RowsKept, \A u \in Proc : Spares(u)
    PROVE  LoginInv'
<1>1. DataTyped /\ TxTyped /\ LocksOK /\ Apart
  BY DEF LoginInv
<1>2. TxTyped' /\ LocksOK' /\ Apart'
  BY <1>1 DEF TxTyped, LocksOK, Apart
<1>3. ASSUME NEW u \in Proc PROVE TxKnows(u)'
  <2>1. Untouched(u)
    BY StaysPut
  <2>2. TxKnows(u)
    BY DEF LoginInv
  <2>. QED  BY <1>1, <2>1, <2>2, TxKept
<1>. QED  BY <1>2, <1>3 DEF LoginInv

\* Logins are added, expire or are consumed, each once.
LEMMA LoginsMove ==
    ASSUME LoginInv, UNCHANGED <<base, identity, invitation, scenario>>,
           logins' \in Seq(LoginRow), 1..Len(logins) \subseteq 1..Len(logins'),
           \A l \in 1..Len(logins) :
             /\ logins'[l].invited = logins[l].invited
             /\ logins[l].state = "consumed" => logins'[l].state = "consumed"
    PROVE  /\ DataTyped' /\ DataInv' /\ RowsKept
           /\ \A u \in Proc : Spares(u)
<1>1. /\ policy' = policy /\ history' = history /\ spent' = spent /\ sessions' = sessions
      /\ handoffs' = handoffs /\ status' = status /\ membership' = membership
      /\ identity' = identity /\ invitation' = invitation /\ scenario' = scenario
      /\ UNCHANGED rollout
  BY DEF base, rollout, people
<1>2. DataTyped'
  BY <1>1 DEF LoginInv, DataTyped
<1>3. HistoryOK'
  BY <1>1, HistoryKept DEF LoginInv, DataInv
<1>4. RolloutHolds'
  BY <1>1 DEF LoginInv, DataInv, RolloutHolds, Unrevoked, Ids
<1>5. AccountsOK'
  BY <1>1 DEF LoginInv, DataInv, AccountsOK, NoTrace, Ids
<1>6. HandoffsOK'
  BY <1>1 DEF LoginInv, DataInv, HandoffsOK
<1>7. RowsKept
  BY <1>1 DEF RowsKept, Ids
<1>8. ASSUME NEW u \in Proc PROVE Spares(u)
  BY <1>1 DEF Spares, SparesChange, SparesCallback, Ids
<1>. QED  BY <1>2, <1>3, <1>4, <1>5, <1>6, <1>7, <1>8 DEF DataInv

\* createInvitation.
LEMMA BeginInviteKeeps ==
    ASSUME LoginInv, NEW p \in Proc, NEW a \in Account, BeginInvite(p, a)
    PROVE  LoginInv'
<1>1. PICK record : record = [Idle EXCEPT !.pc = "insert", !.target = a]
  OBVIOUS
<1>2. record \in TxRec /\ record.pc = "insert" /\ record.target = a
  <2>1. Idle \in TxRec
    BY IdleTyped
  <2>. QED  BY <1>1, <2>1 DEF TxRec
<1>3. /\ Begin(p, "invite", record) /\ status[a] = "none" /\ UNCHANGED loginVars
      /\ \A q \in Proc : tx[q].op = "invite" => tx[q].target # record.target
  BY <1>1, <1>2 DEF BeginInvite
<1>4. status' = status
  BY <1>3 DEF Begin, base, people
<1>5. ASSUME tx'[p] = [record EXCEPT !.op = "invite"] PROVE TxKnows(p)'
  <2>1. tx'[p].op = "invite" /\ tx'[p].pc = "insert" /\ tx'[p].target = a
    BY <1>2, <1>5 DEF TxRec
  <2>. QED  BY <1>3, <1>4, <2>1, Constants DEF TxKnows, Kinds, InviteKnows
<1>6. "invite" \in Kinds
  BY DEF Kinds
<1>. QED  BY <1>2, <1>3, <1>5, <1>6, Begun

\* The account appears, invited, and nobody has got in as it.
LEMMA InviteKeeps ==
    ASSUME LoginInv, NEW p \in Proc, Invite(p)
    PROVE  LoginInv'
<1>1. CASE Quit(p) /\ UNCHANGED loginVars
  BY <1>1, Quits
<1>2. CASE ~(Quit(p) /\ UNCHANGED loginVars)
  <2>1. PICK a \in Account : a = tx[p].target /\ status[a] = "none" /\ tx[p].op = "invite"
    BY DEF Invite, At, LoginInv, TxKnows, InviteKnows
  <2>2. PICK m \in Membership : m = MembershipOf(a) /\ AccountOf[m] = a
    BY Constants
  <2>3. /\ status' = [status EXCEPT ![a] = "invited"]
        /\ membership' = [membership EXCEPT ![m] = "invited"]
        /\ invitation' = [invitation EXCEPT ![a] = "open"]
        /\ End(p) /\ UNCHANGED rollout /\ scenario' = scenario
        /\ policy' = policy /\ history' = history /\ spent' = spent /\ handoffs' = handoffs
        /\ sessions' = sessions /\ identity' = identity /\ logins' = logins
    BY <1>2, <2>1, <2>2 DEF Invite, End, rollout
  <2>4. DataTyped /\ TxTyped /\ AccountsOK
    BY DEF LoginInv, DataInv
  <2>5. /\ status' \in [Account -> {"none", "invited", "active", "barred"}]
        /\ status'[a] = "invited" /\ \A b \in Account \ {a} : status'[b] = status[b]
    BY <2>3, <2>4 DEF DataTyped
  <2>6. /\ membership' \in [Membership -> {"none", "invited", "active", "disabled"}]
        /\ membership'[m] = "invited" /\ \A n \in Membership \ {m} : membership'[n] = membership[n]
    BY <2>3, <2>4 DEF DataTyped
  <2>7. /\ invitation' \in [Account -> {"none", "open", "consumed", "expired"}]
        /\ invitation'[a] = "open" /\ \A b \in Account \ {a} : invitation'[b] = invitation[b]
    BY <2>3, <2>4 DEF DataTyped
  <2>8. DataTyped'
    BY <2>3, <2>4, <2>5, <2>6, <2>7 DEF DataTyped
  <2>9. RolloutHolds'
    BY <2>3 DEF LoginInv, DataInv, RolloutHolds, Unrevoked, Ids
  <2>10. invitation[a] = "none" /\ NoTrace(a)
    BY <2>1, <2>4 DEF AccountsOK
  <2>11. \A b \in Account : NoTrace(b) => NoTrace(b)'
    BY <2>3 DEF NoTrace, Ids
  <2>12. \A b \in Account \ {a} : MembershipOf(b) \in Membership \ {m}
    BY <2>2, Constants
  <2>13. ASSUME NEW b \in Account
         PROVE  /\ status'[b] = "none" => invitation'[b] = "none" /\ NoTrace(b)'
                /\ invitation'[b] \in {"open", "expired"} =>
                     /\ status'[b] \in {"invited", "barred"}
                     /\ membership'[MembershipOf(b)] \in {"invited", "disabled"}
                     /\ NoTrace(b)'
                /\ invitation'[b] = "consumed" =>
                     \E s \in Subject : \A t \in Subject : identity'[t] = b <=> t = s
    <3>1. CASE b = a
      BY <2>2, <2>5, <2>6, <2>7, <2>10, <2>11, <3>1
    <3>2. CASE b # a
      <4>1. /\ status'[b] = status[b] /\ invitation'[b] = invitation[b]
            /\ membership'[MembershipOf(b)] = membership[MembershipOf(b)]
        BY <2>5, <2>6, <2>7, <2>12, <3>2
      <4>. QED  BY <2>3, <2>4, <2>11, <4>1 DEF AccountsOK
    <3>. QED  BY <3>1, <3>2
  <2>14. AccountsOK'
    BY <2>13 DEF AccountsOK
  <2>15. HandoffsOK' /\ HistoryOK'
    BY <2>3, HistoryKept DEF LoginInv, DataInv, HandoffsOK
  <2>16. RowsKept
    BY <2>3, <2>5 DEF RowsKept, Ids
  <2>17. ASSUME NEW u \in Proc \ {p} PROVE Spares(u)
    <3>1. tx[u].op = "invite" => status'[tx[u].target] = status[tx[u].target]
      <4>1. tx[u].op = "invite" => tx[u].target \in Account /\ tx[u].target # a
        BY <2>1 DEF LoginInv, Apart, TxKnows, InviteKnows
      <4>. QED  BY <2>5, <4>1
    <3>2. SparesChange(u)
      BY <2>3 DEF SparesChange, Ids
    <3>3. SparesCallback(u)
      <4>1. \A b \in Account : invitation[b] \in {"open", "expired"} => b # a
        BY <2>10
      <4>. QED  BY <2>3, <2>7, <4>1 DEF SparesCallback
    <3>. QED  BY <2>3, <3>1, <3>2, <3>3 DEF Spares
  <2>. QED  BY <2>3, <2>8, <2>9, <2>14, <2>15, <2>16, <2>17, Ended DEF DataInv
<1>. QED  BY <1>1, <1>2

\* An invitation expires.
LEMMA ExpireInvitationKeeps ==
    ASSUME LoginInv, NEW a \in Account, ExpireInvitation(a)
    PROVE  LoginInv'
<1>1. /\ invitation[a] = "open" /\ invitation' = [invitation EXCEPT ![a] = "expired"]
      /\ policy' = policy /\ history' = history /\ spent' = spent /\ sessions' = sessions
      /\ handoffs' = handoffs /\ status' = status /\ membership' = membership
      /\ identity' = identity /\ logins' = logins /\ scenario' = scenario
      /\ tx' = tx /\ locks' = locks /\ requests' = requests /\ UNCHANGED rollout
  BY DEF ExpireInvitation, rolloutVars, base, rollout, people
<1>2. DataTyped /\ AccountsOK
  BY DEF LoginInv, DataInv
<1>3. /\ invitation' \in [Account -> {"none", "open", "consumed", "expired"}]
      /\ invitation'[a] = "expired" /\ \A b \in Account \ {a} : invitation'[b] = invitation[b]
  BY <1>1, <1>2 DEF DataTyped
<1>4. DataTyped'
  BY <1>1, <1>2, <1>3 DEF DataTyped
<1>5. RolloutHolds'
  BY <1>1 DEF LoginInv, DataInv, RolloutHolds, Unrevoked, Ids
<1>6. \A b \in Account : NoTrace(b)' <=> NoTrace(b)
  BY <1>1 DEF NoTrace, Ids
<1>7. AccountsOK'
  BY <1>1, <1>2, <1>3, <1>6 DEF AccountsOK
<1>8. HandoffsOK' /\ HistoryOK'
  BY <1>1, HistoryKept DEF LoginInv, DataInv, HandoffsOK
<1>9. RowsKept
  BY <1>1 DEF RowsKept, Ids
<1>10. ASSUME NEW u \in Proc PROVE Spares(u)
  BY <1>1, <1>3 DEF Spares, SparesChange, SparesCallback, Ids
<1>. QED  BY <1>1, <1>4, <1>5, <1>7, <1>8, <1>9, <1>10, Aside DEF DataInv

\* A login expires.
LEMMA ExpireLoginKeeps ==
    ASSUME LoginInv, NEW l \in 1..Len(logins), ExpireLogin(l)
    PROVE  LoginInv'
<1>1. /\ logins[l].state = "open" /\ logins' = [logins EXCEPT ![l].state = "expired"]
      /\ UNCHANGED <<base, identity, invitation, scenario>>
      /\ tx' = tx /\ locks' = locks /\ requests' = requests /\ scenario' = scenario
  BY DEF ExpireLogin, rolloutVars
<1>2. /\ Len(logins) \in Nat /\ logins \in [1..Len(logins) -> LoginRow]
  BY LenProperties, ElementOfSeq DEF LoginInv, DataTyped
<1>0. PICK row : row = [logins[l] EXCEPT !.state = "expired"]
  OBVIOUS
<1>3. row \in LoginRow /\ row.invited = logins[l].invited
  <2>1. logins[l] \in LoginRow
    BY <1>2
  <2>. QED  BY <1>0, <2>1 DEF LoginRow
<1>4. logins' = [logins EXCEPT ![l] = row]
  BY <1>0, <1>1
<1>5. logins' \in [1..Len(logins) -> LoginRow]
  BY <1>2, <1>3, <1>4
<1>6. logins' \in Seq(LoginRow) /\ Len(logins') = Len(logins)
  BY <1>2, <1>5
<1>7. \A k \in 1..Len(logins) : /\ logins'[k].invited = logins[k].invited
                                /\ logins[k].state = "consumed" => logins'[k].state = "consumed"
  BY <1>1, <1>2, <1>3, <1>4
<1>8. DataTyped' /\ DataInv' /\ RowsKept /\ \A u \in Proc : Spares(u)
  BY <1>1, <1>6, <1>7, LoginsMove
<1>. QED  BY <1>1, <1>8, Aside

\* startLogin, without an invitation.
LEMMA BeginLoginKeeps ==
    ASSUME LoginInv, NEW p \in Proc, BeginLogin(p)
    PROVE  LoginInv'
<1>0. PICK need : need = IF policy["global"] = None THEN <<>> ELSE <<Share("policy", "global")>>
  OBVIOUS
<1>1. need \in Seq(Locks)
  <2>1. Share("policy", "global") \in Locks
    BY Constants, LockTypes
  <2>. QED  BY <1>0, <2>1
<1>2. PICK record : record = [Idle EXCEPT !.pc = "preflight", !.need = need]
  OBVIOUS
<1>3. record \in TxRec /\ record.pc = "preflight" /\ record.target = None
  <2>1. Idle \in TxRec
    BY IdleTyped
  <2>2. Idle.target = None
    BY DEF Idle
  <2>3. record \in TxRec
    BY <1>1, <1>2, <2>1 DEF TxRec
  <2>4. record.pc = "preflight" /\ record.target = None
    BY <1>2, <2>1, <2>2 DEF TxRec
  <2>. QED  BY <2>3, <2>4
<1>4. Begin(p, "login", record) /\ UNCHANGED loginVars
  BY <1>0, <1>2 DEF BeginLogin
<1>5. ASSUME tx'[p] = [record EXCEPT !.op = "login"] PROVE TxKnows(p)'
  <2>1. tx'[p].op = "login" /\ tx'[p].pc = "preflight" /\ tx'[p].target = None
    BY <1>3, <1>5 DEF TxRec
  <2>. QED  BY <2>1, Constants DEF TxKnows, Kinds, LoginKnows
<1>6. "login" \in Kinds
  BY DEF Kinds
<1>. QED  BY <1>3, <1>4, <1>5, <1>6, Begun

\* Its preflight commits.
LEMMA PreflightGlobalKeeps ==
    ASSUME LoginInv, NEW p \in Proc, PreflightGlobal(p)
    PROVE  LoginInv'
<1>1. CASE Quit(p)
  BY <1>1, Quits DEF PreflightGlobal
<1>2. CASE ~Quit(p)
  <2>1. PICK r \in TxRec : r = tx[p] /\ r.op = "login" /\ r.pc = "preflight"
    BY DEF LoginInv, TxTyped, PreflightGlobal, At
  <2>2. PICK record : record = [r EXCEPT !.target = None]
    OBVIOUS
  <2>3. record \in TxRec
    BY <2>1, <2>2 DEF TxRec
  <2>7. record.op = "login" /\ record.target = None
    BY <2>1, <2>2 DEF TxRec
  <2>4. Commit(p, "create", record) /\ UNCHANGED loginVars
    BY <1>2, <2>1, <2>2 DEF PreflightGlobal, Commit
  <2>5. [record EXCEPT !.pc = "create"] \in TxRec
    BY <2>3 DEF TxRec
  <2>6. ASSUME tx'[p] = [record EXCEPT !.pc = "create"] PROVE TxKnows(p)'
    <3>1. tx'[p].op = "login" /\ tx'[p].pc = "create" /\ tx'[p].target = None
      BY <2>3, <2>6, <2>7 DEF TxRec
    <3>. QED  BY <3>1, Constants DEF TxKnows, Kinds, LoginKnows
  <2>. QED  BY <2>1, <2>3, <2>4, <2>5, <2>6, <2>7, Committed
<1>. QED  BY <1>1, <1>2

\* startLogin, with an invitation.
LEMMA BeginInvitedLoginKeeps ==
    ASSUME LoginInv, NEW p \in Proc, NEW a \in Account, BeginInvitedLogin(p, a)
    PROVE  LoginInv'
<1>0. PICK need : need = IF invitation[a] = "open"
                        THEN <<Share("invitation", a), Share("membership", MembershipOf(a))>>
                        ELSE <<>>
  OBVIOUS
<1>1. need \in Seq(Locks)
  <2>1. Share("invitation", a) \in Locks /\ Share("membership", MembershipOf(a)) \in Locks
    BY Constants, LockTypes
  <2>. QED  BY <1>0, <2>1
<1>2. PICK record : record = [Idle EXCEPT !.pc = "preflight", !.target = a, !.need = need]
  OBVIOUS
<1>3. record \in TxRec /\ record.pc = "preflight" /\ record.target = a
  <2>1. Idle \in TxRec
    BY IdleTyped
  <2>2. record \in TxRec
    BY <1>1, <1>2, <2>1 DEF TxRec
  <2>3. record.pc = "preflight" /\ record.target = a
    BY <1>2, <2>1 DEF TxRec
  <2>. QED  BY <2>2, <2>3
<1>4. Begin(p, "accept", record) /\ UNCHANGED loginVars
  BY <1>0, <1>2 DEF BeginInvitedLogin
<1>5. ASSUME tx'[p] = [record EXCEPT !.op = "accept"] PROVE TxKnows(p)'
  <2>1. tx'[p].op = "accept" /\ tx'[p].pc = "preflight" /\ tx'[p].target = a
    BY <1>3, <1>5 DEF TxRec
  <2>. QED  BY <2>1, Constants DEF TxKnows, Kinds, AcceptKnows
<1>6. "accept" \in Kinds
  BY DEF Kinds
<1>. QED  BY <1>3, <1>4, <1>5, <1>6, Begun

\* The gate is asked about the invitation's membership.
LEMMA PreflightInvitationKeeps ==
    ASSUME LoginInv, NEW p \in Proc, PreflightInvitation(p)
    PROVE  LoginInv'
<1>1. CASE Quit(p)
  BY <1>1, Quits DEF PreflightInvitation
<1>2. CASE ~Quit(p)
  <2>1. PICK r \in TxRec : r = tx[p]
    BY DEF LoginInv, TxTyped
  <2>2. r.op = "accept" /\ r.target \in Account
    BY <2>1 DEF PreflightInvitation, At, LoginInv, TxKnows, AcceptKnows
  <2>3. PICK a \in Account : a = r.target
    BY <2>2
  <2>4. PICK m \in Membership : m = MembershipOf(a)
    BY Constants
  <2>5. MembershipOf(tx[p].target) = m
    BY <2>1, <2>3, <2>4
  <2>6. Gate(p, m, r) /\ UNCHANGED loginVars
    BY <1>2, <2>1, <2>5 DEF PreflightInvitation, Gate, Continue, Found, PolicyLocks
  <2>7. PICK rec \in TxRec : AtGate(p, m, rec) /\ rec.op = r.op /\ rec.row = r.row
    BY <2>6, Gates
  <2>8. /\ rec.pc = "gate" /\ rec.target = m
        /\ tx' = [tx EXCEPT ![p] = rec] /\ Quiet /\ locks' = locks /\ requests' = requests
    BY <2>7 DEF AtGate
  <2>9. tx'[p] = rec
    BY <2>8, Going
  <2>10. TxKnows(p)'
    BY <2>2, <2>7, <2>8, <2>9, Constants DEF TxKnows, Kinds, AcceptKnows
  <2>. QED  BY <2>1, <2>2, <2>7, <2>8, <2>10, Goes
<1>. QED  BY <1>1, <1>2

\* And lets it in, for now.
LEMMA PreflightScopeKeeps ==
    ASSUME LoginInv, NEW p \in Proc, PreflightScope(p)
    PROVE  LoginInv'
<1>1. CASE Quit(p)
  BY <1>1, Quits DEF PreflightScope
<1>2. CASE ~Quit(p)
  <2>1. PICK r \in TxRec : r = tx[p] /\ r.op = "accept" /\ r.pc = "gate" /\ r.target \in Membership
    BY DEF LoginInv, TxTyped, PreflightScope, At, TxKnows, AcceptKnows
  <2>2. PICK a \in Account : a = AccountOf[r.target]
    BY <2>1, Constants
  <2>3. PICK record : record = [r EXCEPT !.target = a]
    OBVIOUS
  <2>4. record \in TxRec /\ record.op = "accept" /\ record.target = a
    BY <2>1, <2>3 DEF TxRec
  <2>5. [r EXCEPT !.target = AccountOf[@]] = record
    BY <2>2, <2>3 DEF TxRec
  <2>6. Commit(p, "create", record) /\ UNCHANGED loginVars
    BY <1>2, <2>1, <2>5 DEF PreflightScope, Commit
  <2>7. [record EXCEPT !.pc = "create"] \in TxRec
    BY <2>4 DEF TxRec
  <2>8. ASSUME tx'[p] = [record EXCEPT !.pc = "create"] PROVE TxKnows(p)'
    <3>1. tx'[p].op = "accept" /\ tx'[p].pc = "create" /\ tx'[p].target = a
      BY <2>4, <2>8 DEF TxRec
    <3>. QED  BY <3>1, Constants DEF TxKnows, Kinds, AcceptKnows
  <2>. QED  BY <2>1, <2>4, <2>6, <2>7, <2>8, Committed
<1>. QED  BY <1>1, <1>2

\* The login is created.
LEMMA CreateTransactionKeeps ==
    ASSUME LoginInv, NEW p \in Proc, CreateTransaction(p)
    PROVE  LoginInv'
<1>1. PICK r \in TxRec : r = tx[p] /\ r.pc = "create"
  BY DEF LoginInv, TxTyped, CreateTransaction
<1>2. TxTyped /\ TxKnows(p) /\ r.op \in Kinds
  BY <1>1, IdleIs DEF LoginInv
<1>3. r.op \in {"login", "accept"}
  BY <1>1, <1>2 DEF Kinds, TxKnows, ChangeKnows, LookKnows, IssueKnows, RotateKnows, BarKnows,
                    InviteKnows, CallbackKnows, InvitedKnows, KnownKnows
<1>4. r.target \in Account \cup {None}
  BY <1>1, <1>2, <1>3 DEF TxKnows, LoginKnows, AcceptKnows
<1>5. PICK row : row = [invited |-> r.target, state |-> "open"]
  OBVIOUS
<1>6. row \in LoginRow
  BY <1>4, <1>5 DEF LoginRow
<1>7. /\ logins' = Append(logins, row) /\ End(p)
      /\ UNCHANGED <<base, identity, invitation, scenario>>
  BY <1>1, <1>5 DEF CreateTransaction, Quit, End
<1>8. PICK n \in Nat : n = Len(logins)
  BY Types DEF LoginInv
<1>9. /\ logins' \in Seq(LoginRow) /\ Len(logins') = n + 1
      /\ \A l \in 1..n : logins'[l] = logins[l]
  BY <1>6, <1>7, <1>8, AppendProperties DEF LoginInv, DataTyped
<1>10. 1..Len(logins) \subseteq 1..Len(logins')
  BY <1>8, <1>9
<1>11. DataTyped' /\ DataInv' /\ RowsKept /\ \A u \in Proc : Spares(u)
  BY <1>7, <1>8, <1>9, <1>10, LoginsMove
<1>. QED  BY <1>7, <1>11, Ended

\* completeCallback: a login is consumed by one request only.
LEMMA CallbackKeeps ==
    ASSUME LoginInv, NEW p \in Proc, NEW l \in 1..Len(logins), Callback(p, l)
    PROVE  LoginInv'
<1>1. PICK record : record = [Idle EXCEPT !.pc = "exchange", !.row = l]
  OBVIOUS
<1>2. Len(logins) \in Nat /\ l \in Nat /\ l # 0
  BY Types DEF LoginInv
<1>3. record \in TxRec /\ record.pc = "exchange" /\ record.row = l
  <2>1. Idle \in TxRec
    BY IdleTyped
  <2>. QED  BY <1>1, <1>2, <2>1 DEF TxRec
<1>4. PICK rec : rec = [record EXCEPT !.op = "callback"]
  OBVIOUS
<1>5. rec \in TxRec /\ rec.pc = "exchange" /\ rec.row = l /\ rec.op = "callback"
  BY <1>3, <1>4 DEF TxRec, Kinds
<1>6. /\ logins[l].state = "open" /\ logins' = [logins EXCEPT ![l].state = "consumed"]
      /\ UNCHANGED <<base, identity, invitation, scenario>> /\ scenario' = scenario
      /\ locks' = locks /\ requests' = requests + 1 /\ requests < MaxRequests
      /\ tx' = [tx EXCEPT ![p] = rec]
  BY <1>1, <1>4 DEF Callback, Usable, Begin
<1>7. logins \in [1..Len(logins) -> LoginRow]
  BY LenProperties, ElementOfSeq DEF LoginInv, DataTyped
<1>0. PICK row : row = [logins[l] EXCEPT !.state = "consumed"]
  OBVIOUS
<1>8. row \in LoginRow /\ row.invited = logins[l].invited /\ row.state = "consumed"
  <2>1. logins[l] \in LoginRow
    BY <1>7
  <2>. QED  BY <1>0, <2>1 DEF LoginRow
<1>9. logins' = [logins EXCEPT ![l] = row]
  BY <1>0, <1>6
<1>10. logins' \in [1..Len(logins) -> LoginRow] /\ logins'[l].state = "consumed"
  BY <1>7, <1>8, <1>9
<1>11. logins' \in Seq(LoginRow) /\ Len(logins') = Len(logins)
  BY <1>2, <1>10
<1>12. \A k \in 1..Len(logins) : /\ logins'[k].invited = logins[k].invited
                                 /\ logins[k].state = "consumed" => logins'[k].state = "consumed"
  BY <1>7, <1>8, <1>9
<1>13. DataTyped' /\ DataInv' /\ RowsKept /\ \A u \in Proc : Spares(u)
  BY <1>6, <1>11, <1>12, LoginsMove
<1>14. requests' \in 0..MaxRequests
  BY <1>6, Constants DEF LoginInv, TxTyped
<1>15. \A u \in Proc \ {p} : tx[u].op = rec.op =>
         /\ rec.op = "invite" => tx[u].target # rec.target
         /\ rec.op = "callback" => tx[u].row # rec.row
  <2>1. ASSUME NEW u \in Proc, tx[u].op = "callback" PROVE tx[u].row # l
    BY <1>6, <2>1 DEF LoginInv, TxKnows, CallbackKnows
  <2>. QED  BY <1>5, <2>1
<1>16. tx'[p] = rec
  BY <1>6 DEF LoginInv, TxTyped
<1>17. \A h \in 1..Len(handoffs) : handoffs[h].login # l
  BY <1>2, <1>6 DEF LoginInv, DataInv, HandoffsOK
<1>18. handoffs' = handoffs
  BY <1>6 DEF base
<1>19. CallbackKnows(p)'
  <2>1. l \in 1..Len(logins')
    BY <1>11
  <2>2. KnownKnows(p)' /\ \A a : InvitedKnows(p, a)'
    BY <1>5, <1>16 DEF KnownKnows, InvitedKnows
  <2>. QED  BY <1>5, <1>10, <1>16, <1>17, <1>18, <2>1, <2>2 DEF CallbackKnows
<1>20. TxKnows(p)'
  BY <1>5, <1>16, <1>19, Constants DEF TxKnows, Kinds
<1>. QED  BY <1>5, <1>6, <1>13, <1>14, <1>15, <1>20, Moved

-----------------------------------------------------------------------------
(* The completion of a login. *)

\* The callback, where it goes on.
LEMMA CallbackAt ==
    ASSUME LoginInv, NEW p \in Proc, tx[p].op = "callback"
    PROVE  /\ DataTyped /\ TxTyped /\ tx[p] \in TxRec /\ CallbackKnows(p)
           /\ tx[p].row \in 1..Len(logins) /\ logins[tx[p].row].state = "consumed"
           /\ \A h \in 1..Len(handoffs) : handoffs[h].login # tx[p].row
           /\ tx[p].row # 0 /\ tx[p].row \in Nat
           /\ Invited(p) \in Account \cup {None}
           /\ IF Invited(p) = None THEN KnownKnows(p) ELSE InvitedKnows(p, Invited(p))
<1>1. DataTyped /\ TxTyped /\ tx[p] \in TxRec /\ CallbackKnows(p)
  BY DEF LoginInv, TxTyped, TxKnows
<1>2. /\ tx[p].row \in 1..Len(logins) /\ logins[tx[p].row].state = "consumed"
      /\ \A h \in 1..Len(handoffs) : handoffs[h].login # tx[p].row
      /\ IF Invited(p) = None THEN KnownKnows(p) ELSE InvitedKnows(p, Invited(p))
  BY <1>1 DEF CallbackKnows
<1>3. Invited(p) \in Account \cup {None}
  BY <1>1, <1>2, Types DEF Invited
<1>4. tx[p].row # 0 /\ tx[p].row \in Nat
  BY <1>1, <1>2, Types
<1>. QED  BY <1>1, <1>2, <1>3, <1>4

\* What a callback with an invitation is to know where it goes to.
LEMMA InvitedGoes ==
    ASSUME LoginInv, NEW p \in Proc, tx[p].op = "callback", NEW a \in Account, Invited(p) = a,
           NEW rec \in TxRec, tx' = [tx EXCEPT ![p] = rec], Quiet, locks' = locks,
           requests' = requests, rec.op = "callback", rec.row = tx[p].row,
           rec.pc \in {"invitation", "gate", "bind"}, rec.token \in Subject,
           Asks(p, Update("invitation", a))', rec.pc = "invitation" => rec.target = a,
           rec.pc # "invitation" =>
             Holds(p, Update("invitation", a)) /\ invitation[a] \in {"open", "expired"}
    PROVE  LoginInv'
<1>1. /\ tx'[p] = rec /\ handoffs' = handoffs /\ invitation' = invitation /\ logins' = logins
      /\ \A lock : Holds(p, lock) => Holds(p, lock)' /\ Asks(p, lock)'
  BY Going
<1>2. /\ rec.row \in 1..Len(logins) /\ logins[rec.row].state = "consumed"
      /\ \A h \in 1..Len(handoffs) : handoffs[h].login # rec.row
      /\ logins[rec.row].invited = a
  BY CallbackAt DEF Invited
<1>3. Invited(p)' = a /\ a # None
  BY <1>1, <1>2, Constants DEF Invited
<1>4. rec.pc # "invitation" => Holds(p, Update("invitation", a))'
  BY <1>1
<1>5. InvitedKnows(p, a)'
  BY <1>1, <1>4 DEF InvitedKnows
<1>6. CallbackKnows(p)'
  BY <1>1, <1>2, <1>3, <1>5 DEF CallbackKnows
<1>7. TxKnows(p)' /\ rec.pc # "idle"
  BY <1>1, <1>6, Constants DEF TxKnows, Kinds
<1>. QED  BY <1>7, Goes

\* And without one.
LEMMA KnownGoes ==
    ASSUME LoginInv, NEW p \in Proc, tx[p].op = "callback", Invited(p) = None,
           NEW rec \in TxRec, tx' = [tx EXCEPT ![p] = rec], Quiet, locks' = locks,
           requests' = requests, rec.op = "callback", rec.row = tx[p].row,
           rec.pc \in {"identity", "member", "gate"}, rec.token \in Subject,
           identity[rec.token] # None, rec.pc = "gate" => rec.target \in Membership
    PROVE  LoginInv'
<1>1. /\ tx'[p] = rec /\ handoffs' = handoffs /\ identity' = identity /\ logins' = logins
  BY Going
<1>2. /\ rec.row \in 1..Len(logins) /\ logins[rec.row].state = "consumed"
      /\ \A h \in 1..Len(handoffs) : handoffs[h].login # rec.row
      /\ logins[rec.row].invited = None
  BY CallbackAt DEF Invited
<1>3. Invited(p)' = None
  BY <1>1, <1>2 DEF Invited
<1>4. KnownKnows(p)'
  BY <1>1 DEF KnownKnows
<1>5. CallbackKnows(p)'
  BY <1>1, <1>2, <1>3, <1>4 DEF CallbackKnows
<1>6. TxKnows(p)' /\ rec.pc # "idle"
  BY <1>1, <1>5, Constants DEF TxKnows, Kinds
<1>. QED  BY <1>6, Goes

\* The rows of an invitation are locked, the invitation first.
LEMMA FindInvitationKeeps ==
    ASSUME LoginInv, NEW p \in Proc, NEW s \in Subject, FindInvitation(p, s)
    PROVE  LoginInv'
<1>1. CASE Quit(p)
  BY <1>1, Quits DEF FindInvitation
<1>2. CASE ~Quit(p)
  <2>1. PICK r \in TxRec : r = tx[p] /\ r.op = "callback"
    BY DEF LoginInv, TxTyped, FindInvitation, At
  <2>2. PICK a \in Account : a = Invited(p)
    BY <2>1, CallbackAt DEF FindInvitation
  <2>3. PICK u \in Locks, v \in Locks, w \in Locks :
          /\ u = Update("invitation", a) /\ v = Update("account", a)
          /\ w = Update("membership", MembershipOf(a))
    BY Constants, LockTypes
  <2>4. PICK need : need = <<u, v, w>>
    OBVIOUS
  <2>5. need \in Seq(Locks) /\ 1 \in DOMAIN need /\ need[1] = Update("invitation", a)
    BY <2>3, <2>4, LockLists
  <2>6. PICK rec : rec = [[r EXCEPT !.token = s, !.target = a]
                            EXCEPT !.pc = "invitation", !.need = need]
    OBVIOUS
  <2>7. /\ rec \in TxRec /\ rec.pc = "invitation" /\ rec.op = r.op /\ rec.row = r.row
        /\ rec.target = a /\ rec.token = s /\ rec.need = need
    BY <2>5, <2>6 DEF TxRec
  <2>8. /\ tx' = [tx EXCEPT ![p] = rec] /\ Quiet /\ locks' = locks /\ requests' = requests
    BY <1>2, <2>1, <2>2, <2>3, <2>4, <2>6 DEF FindInvitation, Continue, Quiet
  <2>9. \A k \in DOMAIN rec.need : Asks(p, rec.need[k])'
    BY <2>7, <2>8, Going
  <2>10. Asks(p, Update("invitation", a))'
    BY <2>5, <2>7, <2>9
  <2>. QED  BY <2>1, <2>2, <2>7, <2>8, <2>10, InvitedGoes
<1>. QED  BY <1>1, <1>2

\* The identity and the account of a known subject are locked.
LEMMA FindIdentityKeeps ==
    ASSUME LoginInv, NEW p \in Proc, NEW s \in Subject, FindIdentity(p, s)
    PROVE  LoginInv'
<1>1. CASE Quit(p)
  BY <1>1, Quits DEF FindIdentity
<1>2. CASE ~Quit(p)
  <2>1. PICK r \in TxRec : r = tx[p] /\ r.op = "callback" /\ Invited(p) = None
    BY DEF LoginInv, TxTyped, FindIdentity, At
  <2>2. PICK a \in Account : a = identity[s]
    BY <1>2 DEF FindIdentity, LoginInv, DataTyped
  <2>3. PICK u \in Locks, v \in Locks : u = Update("identity", s) /\ v = Update("account", a)
    BY LockTypes
  <2>4. PICK need : need = <<u, v>>
    OBVIOUS
  <2>5. need \in Seq(Locks)
    BY <2>4, LockLists
  <2>6. PICK rec : rec = [[r EXCEPT !.token = s, !.target = a]
                            EXCEPT !.pc = "identity", !.need = need]
    OBVIOUS
  <2>7. /\ rec \in TxRec /\ rec.pc = "identity" /\ rec.op = r.op /\ rec.row = r.row
        /\ rec.token = s
    BY <2>5, <2>6 DEF TxRec
  <2>8. /\ tx' = [tx EXCEPT ![p] = rec] /\ Quiet /\ locks' = locks /\ requests' = requests
    BY <1>2, <2>1, <2>2, <2>3, <2>4, <2>6 DEF FindIdentity, Continue, Quiet
  <2>9. identity[s] # None
    BY <2>2, Constants
  <2>. QED  BY <2>1, <2>7, <2>8, <2>9, KnownGoes
<1>. QED  BY <1>1, <1>2

\* The invitation, looked at again under its lock, is open and stays so or expires.
LEMMA AcceptScopeKeeps ==
    ASSUME LoginInv, NEW p \in Proc, AcceptScope(p)
    PROVE  LoginInv'
<1>1. CASE Quit(p)
  BY <1>1, Quits DEF AcceptScope
<1>2. CASE ~Quit(p)
  <2>1. PICK r \in TxRec : /\ r = tx[p] /\ r.op = "callback" /\ r.pc = "invitation"
                           /\ ~Waiting(p)
    BY DEF LoginInv, TxTyped, AcceptScope, At
  <2>2. InvitedKnows(p, Invited(p)) /\ Invited(p) \in Account
    BY <2>1, CallbackAt DEF KnownKnows
  <2>3. PICK a \in Account : a = Invited(p)
    BY <2>2
  <2>4. r.target = a /\ r.token \in Subject /\ Asks(p, Update("invitation", a))
    BY <2>1, <2>2, <2>3 DEF InvitedKnows
  <2>5. Holds(p, Update("invitation", a))
    BY <2>1, <2>4, AtHolds
  <2>6. PICK m \in Membership : m = MembershipOf(a)
    BY Constants
  <2>7. Gate(p, m, r) /\ UNCHANGED loginVars /\ invitation[a] = "open"
    <3>1. MembershipOf(tx[p].target) = m
      BY <2>1, <2>4, <2>6
    <3>2. Gate(p, MembershipOf(tx[p].target), tx[p]) /\ Acceptable(tx[p].target) /\ UNCHANGED loginVars
      BY <1>2 DEF AcceptScope
    <3>3. invitation[a] = "open"
      BY <2>1, <2>4, <3>2 DEF Acceptable, Joined
    <3>4. Gate(p, m, r)
      BY <2>1, <3>1, <3>2 DEF Gate, Continue, Found, PolicyLocks
    <3>. QED  BY <3>2, <3>3, <3>4
  <2>8. PICK rec \in TxRec :
          AtGate(p, m, rec) /\ rec.op = r.op /\ rec.row = r.row /\ rec.token = r.token
    BY <2>7, Gates
  <2>9. /\ rec.pc = "gate" /\ tx' = [tx EXCEPT ![p] = rec]
        /\ Quiet /\ locks' = locks /\ requests' = requests
    BY <2>8 DEF AtGate
  <2>10. Asks(p, Update("invitation", a))'
    BY <2>5, <2>9, Going
  <2>. QED  BY <2>1, <2>3, <2>4, <2>5, <2>7, <2>8, <2>9, <2>10, InvitedGoes
<1>. QED  BY <1>1, <1>2

\* The identity is inserted.
LEMMA BindIdentityKeeps ==
    ASSUME LoginInv, NEW p \in Proc, BindIdentity(p)
    PROVE  LoginInv'
<1>1. CASE Quit(p)
  BY <1>1, Quits DEF BindIdentity
<1>2. CASE ~Quit(p)
  <2>1. PICK r \in TxRec : r = tx[p] /\ r.op = "callback" /\ r.pc = "gate"
    BY DEF LoginInv, TxTyped, BindIdentity, At
  <2>2. InvitedKnows(p, Invited(p)) /\ Invited(p) \in Account
    BY <2>1, CallbackAt DEF BindIdentity
  <2>3. PICK a \in Account : a = Invited(p)
    BY <2>2
  <2>4. /\ r.token \in Subject /\ Holds(p, Update("invitation", a))
        /\ invitation[a] \in {"open", "expired"}
    BY <2>1, <2>2, <2>3 DEF InvitedKnows
  <2>5. PICK u \in Locks : u = Update("identity", r.token)
    BY <2>4, LockTypes
  <2>6. PICK need : need = <<u>>
    OBVIOUS
  <2>7. need \in Seq(Locks)
    BY <2>6
  <2>8. PICK rec : rec = [r EXCEPT !.pc = "bind", !.need = need]
    OBVIOUS
  <2>9. /\ rec \in TxRec /\ rec.pc = "bind" /\ rec.op = r.op /\ rec.row = r.row
        /\ rec.token = r.token
    BY <2>7, <2>8 DEF TxRec
  <2>10. tx' = [tx EXCEPT ![p] = rec] /\ Quiet /\ locks' = locks /\ requests' = requests
    BY <1>2, <2>1, <2>5, <2>6, <2>8 DEF BindIdentity, Continue, Quiet
  <2>11. Asks(p, Update("invitation", a))'
    BY <2>4, <2>9, <2>10, Going
  <2>. QED  BY <2>1, <2>3, <2>4, <2>9, <2>10, <2>11, InvitedGoes
<1>. QED  BY <1>1, <1>2

\* The memberships of the account are share-locked.
LEMMA LoginMembersKeeps ==
    ASSUME LoginInv, NEW p \in Proc, LoginMembers(p)
    PROVE  LoginInv'
<1>1. CASE Quit(p)
  BY <1>1, Quits DEF LoginMembers
<1>2. CASE ~Quit(p)
  <2>1. PICK r \in TxRec : r = tx[p] /\ r.op = "callback" /\ r.pc = "identity"
    BY DEF LoginInv, TxTyped, LoginMembers, At
  <2>2. Invited(p) = None /\ KnownKnows(p)
    BY <2>1, CallbackAt DEF InvitedKnows
  <2>3. r.token \in Subject /\ identity[r.token] # None
    BY <2>1, <2>2 DEF KnownKnows
  <2>4. PICK S \in SUBSET Membership : S = ActiveOf(identity[tx[p].token])
    BY DEF ActiveOf
  <2>5. \E q \in Listings(S) :
          Continue(p, "member", [k \in DOMAIN q |-> Share("membership", q[k])],
                   [tx[p] EXCEPT !.ways = q])
    BY <1>2, <2>4 DEF LoginMembers
  <2>6. PICK q \in Listings(S) :
          Continue(p, "member", [k \in DOMAIN q |-> Share("membership", q[k])],
                   [tx[p] EXCEPT !.ways = q])
    BY <2>5
  <2>7. PICK need : need = [k \in DOMAIN q |-> Share("membership", q[k])]
    OBVIOUS
  <2>8. need \in Seq(Locks) /\ q \in Seq(Membership)
    BY <2>7, MembersShared
  <2>9. PICK rec : rec = [[r EXCEPT !.ways = q] EXCEPT !.pc = "member", !.need = need]
    OBVIOUS
  <2>10. /\ rec \in TxRec /\ rec.pc = "member" /\ rec.op = r.op /\ rec.row = r.row
         /\ rec.token = r.token
    BY <2>8, <2>9 DEF TxRec
  <2>11. UNCHANGED loginVars
    BY DEF LoginMembers
  <2>12. tx' = [tx EXCEPT ![p] = rec] /\ Quiet /\ locks' = locks /\ requests' = requests
    BY <2>1, <2>6, <2>7, <2>9, <2>11 DEF Continue, Quiet
  <2>. QED  BY <2>1, <2>2, <2>3, <2>10, <2>12, KnownGoes
<1>. QED  BY <1>1, <1>2

\* The gate is asked about the next of them.
LEMMA LoginGateKeeps ==
    ASSUME LoginInv, NEW p \in Proc, LoginGate(p)
    PROVE  LoginInv'
<1>1. CASE Quit(p)
  BY <1>1, Quits DEF LoginGate
<1>2. CASE ~Quit(p)
  <2>1. PICK r \in TxRec : r = tx[p] /\ r.op = "callback" /\ r.pc = "member"
    BY DEF LoginInv, TxTyped, LoginGate, At
  <2>2. Invited(p) = None /\ KnownKnows(p)
    BY <2>1, CallbackAt DEF InvitedKnows
  <2>3. r.token \in Subject /\ identity[r.token] # None
    BY <2>1, <2>2 DEF KnownKnows
  <2>4. r.ways # <<>> /\ r.ways \in Seq(Membership)
    BY <1>2, <2>1 DEF LoginGate, TxRec
  <2>5. PICK m \in Membership : m = Head(r.ways)
    BY <2>4, HeadTailProperties
  <2>6. PICK rest : rest = Tail(r.ways)
    OBVIOUS
  <2>7. rest \in Seq(Membership)
    BY <2>4, <2>6, HeadTailProperties
  <2>8. PICK record : record = [r EXCEPT !.ways = rest]
    OBVIOUS
  <2>9. record \in TxRec /\ record.op = r.op /\ record.row = r.row /\ record.token = r.token
    BY <2>7, <2>8 DEF TxRec
  <2>10. Gate(p, m, record) /\ UNCHANGED loginVars
    <3>1. [r EXCEPT !.ways = Tail(@)] = record
      BY <2>6, <2>8 DEF TxRec
    <3>. QED  BY <1>2, <2>1, <2>4, <2>5, <3>1 DEF LoginGate, Gate, Continue, Found, PolicyLocks
  <2>11. PICK rec \in TxRec :
           /\ AtGate(p, m, rec)
           /\ rec.op = record.op /\ rec.row = record.row /\ rec.token = record.token
    BY <2>9, <2>10, Gates
  <2>12. /\ rec.pc = "gate" /\ rec.target = m /\ tx' = [tx EXCEPT ![p] = rec]
         /\ Quiet /\ locks' = locks /\ requests' = requests
    BY <2>11 DEF AtGate
  <2>. QED  BY <2>1, <2>2, <2>3, <2>9, <2>11, <2>12, KnownGoes
<1>. QED  BY <1>1, <1>2

\* A login leaves one handoff.
LEMMA HandoffMade ==
    ASSUME LoginInv, NEW p \in Proc, tx[p].op = "callback", NEW a \in Account,
           handoffs' = Append(handoffs, [account |-> a, login |-> tx[p].row, state |-> "fresh"]),
           logins' = logins
    PROVE  /\ handoffs' \in Seq(HandoffRow) /\ HandoffsOK'
           /\ 1..Len(handoffs) \subseteq 1..Len(handoffs')
           /\ \A h \in 1..Len(handoffs) : handoffs'[h] = handoffs[h]
           /\ \A h \in 1..Len(handoffs') :
                \/ h \in 1..Len(handoffs)
                \/ handoffs'[h].account = a /\ handoffs'[h].login = tx[p].row
           /\ \A u \in Proc \ {p} : tx[u].op = "callback" =>
                \A h \in 1..Len(handoffs') :
                  h \in 1..Len(handoffs) \/ handoffs'[h].login # tx[u].row
<1>1. PICK l \in Nat : /\ l = tx[p].row /\ l # 0 /\ l \in 1..Len(logins)
                       /\ logins[l].state = "consumed"
                       /\ \A h \in 1..Len(handoffs) : handoffs[h].login # l
  BY CallbackAt
<1>2. PICK row : row = [account |-> a, login |-> l, state |-> "fresh"]
  OBVIOUS
<1>3. row \in HandoffRow /\ row.account = a /\ row.login = l
  BY <1>2 DEF HandoffRow
<1>4. PICK n \in Nat : n = Len(handoffs)
  BY Types DEF LoginInv
<1>5. /\ handoffs' \in Seq(HandoffRow) /\ Len(handoffs') = n + 1
      /\ \A h \in 1..n : handoffs'[h] = handoffs[h]
      /\ handoffs'[n + 1] = row
  BY <1>1, <1>2, <1>3, <1>4, AppendProperties DEF LoginInv, DataTyped
<1>6. 1..n \subseteq 1..(n + 1) /\ \A h \in 1..(n + 1) : h \in 1..n \/ h = n + 1
  OBVIOUS
<1>7. \A h \in 1..(n + 1) : \/ h \in 1..n /\ handoffs'[h] = handoffs[h] /\ handoffs[h].login # l
                            \/ h = n + 1 /\ handoffs'[h].account = a /\ handoffs'[h].login = l
  BY <1>1, <1>3, <1>4, <1>5, <1>6
<1>8. HandoffsOK'
  <2>1. /\ \A h \in 1..n : handoffs[h].login # 0 =>
             handoffs[h].login \in 1..Len(logins) /\ logins[handoffs[h].login].state = "consumed"
        /\ \A g, h \in 1..n :
             handoffs[g].login = handoffs[h].login /\ handoffs[g].login # 0 => g = h
    BY <1>4 DEF LoginInv, DataInv, HandoffsOK
  <2>2. \A h \in 1..(n + 1) : handoffs'[h].login # 0 =>
          /\ handoffs'[h].login \in 1..Len(logins)
          /\ logins[handoffs'[h].login].state = "consumed"
    BY <1>1, <1>7, <2>1
  <2>3. ASSUME NEW g \in 1..(n + 1), NEW h \in 1..(n + 1),
               handoffs'[g].login = handoffs'[h].login, handoffs'[g].login # 0
        PROVE  g = h
    BY <1>7, <2>1, <2>3
  <2>. QED  BY <1>5, <2>2, <2>3 DEF HandoffsOK
<1>9. \A u \in Proc \ {p} : tx[u].op = "callback" => tx[u].row # l
  BY <1>1 DEF LoginInv, Apart
<1>10. \A h \in 1..(n + 1) : \/ h \in 1..n
                             \/ handoffs'[h].account = a /\ handoffs'[h].login = l
  BY <1>7
<1>. QED  BY <1>1, <1>4, <1>5, <1>6, <1>8, <1>9, <1>10

\* An accepted invitation binds the subject, and the account gets in.
LEMMA AcceptKeeps ==
    ASSUME LoginInv, NEW p \in Proc, Accept(p)
    PROVE  LoginInv'
<1>1. tx[p].op = "callback" /\ tx[p].pc = "bind"
  BY DEF Accept, At
<1>2. CASE Quit(p) /\ UNCHANGED loginVars
  BY <1>2, Quits
<1>3. CASE ~(Quit(p) /\ UNCHANGED loginVars)
  <2>1. InvitedKnows(p, Invited(p)) /\ Invited(p) \in Account
    BY <1>1, CallbackAt DEF KnownKnows
  <2>2. PICK a \in Account : a = Invited(p)
    BY <2>1
  <2>3. PICK t \in Subject : t = tx[p].token
    BY <1>1, <2>1 DEF InvitedKnows
  <2>4. Holds(p, Update("invitation", a)) /\ invitation[a] \in {"open", "expired"}
    BY <1>1, <2>1, <2>2 DEF InvitedKnows
  <2>5. PICK m \in Membership : m = MembershipOf(a) /\ AccountOf[m] = a
    BY Constants
  <2>6. /\ identity[t] = None /\ identity' = [identity EXCEPT ![t] = a]
        /\ invitation' = [invitation EXCEPT ![a] = "consumed"]
        /\ status' = [status EXCEPT ![a] = "active"]
        /\ membership' = [membership EXCEPT ![m] = "active"]
        /\ handoffs' = Append(handoffs, [account |-> a, login |-> tx[p].row, state |-> "fresh"])
        /\ End(p) /\ UNCHANGED rollout /\ scenario' = scenario
        /\ policy' = policy /\ history' = history /\ spent' = spent
        /\ sessions' = sessions /\ logins' = logins
    <3>1. /\ identity[tx[p].token] = None
          /\ identity' = [identity EXCEPT ![tx[p].token] = Invited(p)]
          /\ invitation' = [invitation EXCEPT ![Invited(p)] = "consumed"]
          /\ status' = [status EXCEPT ![Invited(p)] = "active"]
          /\ membership' = [membership EXCEPT ![MembershipOf(Invited(p))] = "active"]
          /\ handoffs' = Append(handoffs, [account |-> Invited(p), login |-> tx[p].row,
                                           state |-> "fresh"])
          /\ End(p) /\ UNCHANGED <<rollout, sessions, logins>>
      BY <1>3 DEF Accept, Handoff
    <3>2. MembershipOf(Invited(p)) = m
      BY <2>2, <2>5
    <3>. QED  BY <2>2, <2>3, <3>1, <3>2 DEF rollout, End
  <2>7. DataTyped /\ TxTyped /\ AccountsOK
    BY DEF LoginInv, DataInv
  <2>8. status[a] \in {"invited", "barred"} /\ NoTrace(a)
    BY <2>4, <2>7 DEF AccountsOK
  <2>9. /\ identity' \in [Subject -> Account \cup {None}]
        /\ identity'[t] = a /\ \A s \in Subject \ {t} : identity'[s] = identity[s]
    BY <2>6, <2>7 DEF DataTyped
  <2>10. /\ invitation' \in [Account -> {"none", "open", "consumed", "expired"}]
         /\ invitation'[a] = "consumed"
         /\ \A b \in Account \ {a} : invitation'[b] = invitation[b]
    BY <2>6, <2>7 DEF DataTyped
  <2>11. /\ status' \in [Account -> {"none", "invited", "active", "barred"}]
         /\ status'[a] = "active" /\ \A b \in Account \ {a} : status'[b] = status[b]
    BY <2>6, <2>7 DEF DataTyped
  <2>12. /\ membership' \in [Membership -> {"none", "invited", "active", "disabled"}]
         /\ \A n \in Membership \ {m} : membership'[n] = membership[n]
    BY <2>6, <2>7 DEF DataTyped
  <2>13. /\ handoffs' \in Seq(HandoffRow) /\ HandoffsOK'
         /\ 1..Len(handoffs) \subseteq 1..Len(handoffs')
         /\ \A h \in 1..Len(handoffs) : handoffs'[h] = handoffs[h]
         /\ \A h \in 1..Len(handoffs') : h \in 1..Len(handoffs) \/ handoffs'[h].account = a
         /\ \A u \in Proc \ {p} : tx[u].op = "callback" =>
              \A h \in 1..Len(handoffs') :
                h \in 1..Len(handoffs) \/ handoffs'[h].login # tx[u].row
    BY <1>1, <2>6, HandoffMade
  <2>14. DataTyped'
    BY <2>6, <2>7, <2>9, <2>10, <2>11, <2>12, <2>13 DEF DataTyped
  <2>15. RolloutHolds'
    BY <2>6 DEF LoginInv, DataInv, RolloutHolds, Unrevoked, Ids
  <2>16. ASSUME NEW b \in Account \ {a}, NoTrace(b) PROVE NoTrace(b)'
    <3>1. \A s \in Subject : identity'[s] # b
      BY <2>9, <2>16 DEF NoTrace
    <3>2. \A h \in 1..Len(handoffs') : handoffs'[h].account # b
      BY <2>13, <2>16 DEF NoTrace
    <3>. QED  BY <2>6, <2>16, <3>1, <3>2 DEF NoTrace, Ids
  <2>17. ASSUME NEW b \in Account
         PROVE  /\ status'[b] = "none" => invitation'[b] = "none" /\ NoTrace(b)'
                /\ invitation'[b] \in {"open", "expired"} =>
                     /\ status'[b] \in {"invited", "barred"}
                     /\ membership'[MembershipOf(b)] \in {"invited", "disabled"}
                     /\ NoTrace(b)'
                /\ invitation'[b] = "consumed" =>
                     \E s \in Subject : \A z \in Subject : identity'[z] = b <=> z = s
    <3>1. CASE b = a
      <4>1. \A z \in Subject : identity'[z] = a <=> z = t
        BY <2>8, <2>9 DEF NoTrace
      <4>. QED  BY <2>10, <2>11, <3>1, <4>1
    <3>2. CASE b # a
      <4>1. status'[b] = status[b] /\ invitation'[b] = invitation[b]
        BY <2>10, <2>11, <3>2
      <4>2. membership'[MembershipOf(b)] = membership[MembershipOf(b)]
        <5>1. MembershipOf(b) \in Membership \ {m}
          BY <2>5, <3>2, Constants
        <5>. QED  BY <2>12, <5>1
      <4>3. NoTrace(b) => NoTrace(b)'
        BY <2>16, <3>2
      <4>4. ASSUME invitation[b] = "consumed"
            PROVE  \E s \in Subject : \A z \in Subject : identity'[z] = b <=> z = s
        <5>1. PICK s \in Subject : \A z \in Subject : identity[z] = b <=> z = s
          BY <2>7, <4>4 DEF AccountsOK
        <5>2. s # t
          BY <2>6, <5>1, Constants
        <5>3. \A z \in Subject : identity'[z] = b <=> z = s
          BY <2>9, <3>2, <5>1, <5>2
        <5>. QED  BY <5>3
      <4>5. /\ status[b] = "none" => invitation[b] = "none" /\ NoTrace(b)
            /\ invitation[b] \in {"open", "expired"} =>
                 /\ status[b] \in {"invited", "barred"}
                 /\ membership[MembershipOf(b)] \in {"invited", "disabled"}
                 /\ NoTrace(b)
        BY <2>7 DEF AccountsOK
      <4>. QED  BY <4>1, <4>2, <4>3, <4>4, <4>5
    <3>. QED  BY <3>1, <3>2
  <2>18. AccountsOK'
    BY <2>17 DEF AccountsOK
  <2>19. HistoryOK'
    BY <2>6, HistoryKept DEF LoginInv, DataInv
  <2>20. RowsKept
    <3>1. \A s \in Subject : identity[s] # None => identity'[s] # None
      BY <2>6, <2>9
    <3>2. \A b \in Account : status[b] # "none" => status'[b] # "none"
      BY <2>11
    <3>3. \A h \in 1..Len(handoffs) : /\ handoffs'[h].account = handoffs[h].account
                                      /\ handoffs'[h].login = handoffs[h].login
      BY <2>13
    <3>. QED  BY <2>6, <2>13, <3>1, <3>2, <3>3 DEF RowsKept, Ids
  <2>21. ASSUME NEW u \in Proc \ {p} PROVE Spares(u)
    <3>1. tx[u].op = "invite" => status'[tx[u].target] = status[tx[u].target]
      <4>1. tx[u].op = "invite" => tx[u].target \in Account /\ status[tx[u].target] = "none"
        BY DEF LoginInv, TxKnows, InviteKnows
      <4>. QED  BY <2>8, <2>11, <4>1
    <3>2. SparesChange(u)
      BY <2>6 DEF SparesChange, Ids
    <3>3. ASSUME tx[u].op = "callback" PROVE SparesCallback(u)
      <4>1. ASSUME tx[u].pc \in {"gate", "bind"}, NEW b \in Account, Invited(u) = b,
                   invitation[b] \in {"open", "expired"}
            PROVE  invitation'[b] \in {"open", "expired"}
        <5>1. b # None
          BY Constants
        <5>2. InvitedKnows(u, b)
          BY <3>3, <4>1, <5>1, CallbackAt
        <5>3. Holds(u, Update("invitation", b))
          BY <4>1, <5>2 DEF InvitedKnows
        <5>4. ~Holds(u, Update("invitation", a))
          BY <2>4, Excluded DEF LoginInv
        <5>5. b # a
          BY <5>3, <5>4
        <5>. QED  BY <2>10, <4>1, <5>5
      <4>. QED  BY <2>13, <3>3, <4>1 DEF SparesCallback
    <3>. QED  BY <2>6, <3>1, <3>2, <3>3 DEF Spares
  <2>. QED  BY <2>6, <2>13, <2>14, <2>15, <2>18, <2>19, <2>20, <2>21, Ended DEF DataInv
<1>. QED  BY <1>2, <1>3

\* A known subject gets in as its account.
LEMMA CompleteLoginKeeps ==
    ASSUME LoginInv, NEW p \in Proc, CompleteLogin(p)
    PROVE  LoginInv'
<1>1. PICK r \in TxRec : /\ r = tx[p] /\ r.op = "callback" /\ r.pc = "gate" /\ Invited(p) = None
  BY DEF LoginInv, TxTyped, CompleteLogin, At
<1>2. KnownKnows(p)
  BY <1>1, CallbackAt
<1>3. PICK t \in Subject : t = r.token /\ identity[t] # None
  BY <1>1, <1>2 DEF KnownKnows
<1>4. CASE ~Allowed(p)
  <2>1. PICK rec : rec = [r EXCEPT !.pc = "member", !.need = <<>>]
    OBVIOUS
  <2>2. <<>> \in Seq(Locks)
    OBVIOUS
  <2>3. rec \in TxRec /\ rec.pc = "member" /\ rec.op = r.op /\ rec.row = r.row /\ rec.token = r.token
    BY <2>1, <2>2 DEF TxRec
  <2>4. tx' = [tx EXCEPT ![p] = rec] /\ Quiet /\ locks' = locks /\ requests' = requests
    BY <1>1, <1>4, <2>1 DEF CompleteLogin, Continue, Quiet
  <2>. QED  BY <1>1, <1>3, <2>3, <2>4, KnownGoes
<1>5. CASE Allowed(p)
  <2>1. PICK a \in Account : a = identity[t]
    BY <1>3 DEF LoginInv, DataTyped
  <2>2. /\ handoffs' = Append(handoffs, [account |-> a, login |-> tx[p].row, state |-> "fresh"])
        /\ End(p) /\ UNCHANGED rollout /\ scenario' = scenario
        /\ policy' = policy /\ history' = history /\ spent' = spent /\ sessions' = sessions
        /\ status' = status /\ membership' = membership
        /\ identity' = identity /\ invitation' = invitation /\ logins' = logins
    BY <1>1, <1>3, <1>5, <2>1 DEF CompleteLogin, Handoff, rollout, people, loginVars, End
  <2>3. DataTyped /\ TxTyped
    BY DEF LoginInv
  <2>4. /\ handoffs' \in Seq(HandoffRow) /\ HandoffsOK'
        /\ 1..Len(handoffs) \subseteq 1..Len(handoffs')
        /\ \A h \in 1..Len(handoffs) : handoffs'[h] = handoffs[h]
        /\ \A h \in 1..Len(handoffs') : h \in 1..Len(handoffs) \/ handoffs'[h].account = a
        /\ \A u \in Proc \ {p} : tx[u].op = "callback" =>
             \A h \in 1..Len(handoffs') :
               h \in 1..Len(handoffs) \/ handoffs'[h].login # tx[u].row
    BY <1>1, <2>2, HandoffMade
  <2>5. DataTyped'
    BY <2>2, <2>3, <2>4 DEF DataTyped
  <2>6. RolloutHolds'
    BY <2>2 DEF LoginInv, DataInv, RolloutHolds, Unrevoked, Ids
  <2>7. ASSUME NEW b \in Account, NoTrace(b) PROVE NoTrace(b)'
    <3>1. b # a
      BY <2>1, <2>7 DEF NoTrace
    <3>2. \A h \in 1..Len(handoffs') : handoffs'[h].account # b
      BY <2>4, <2>7, <3>1 DEF NoTrace
    <3>. QED  BY <2>2, <2>7, <3>2 DEF NoTrace, Ids
  <2>8. AccountsOK'
    BY <2>2, <2>7, AccountsKept DEF LoginInv, DataInv
  <2>9. HistoryOK'
    BY <2>2, HistoryKept DEF LoginInv, DataInv
  <2>10. RowsKept
    <3>1. \A h \in 1..Len(handoffs) : /\ handoffs'[h].account = handoffs[h].account
                                      /\ handoffs'[h].login = handoffs[h].login
      BY <2>4
    <3>. QED  BY <2>2, <2>4, <3>1 DEF RowsKept, Ids
  <2>11. ASSUME NEW u \in Proc \ {p} PROVE Spares(u)
    <3>1. SparesChange(u)
      BY <2>2 DEF SparesChange, Ids
    <3>2. tx[u].op = "callback" => SparesCallback(u)
      BY <2>2, <2>4 DEF SparesCallback
    <3>. QED  BY <2>2, <3>1, <3>2 DEF Spares
  <2>. QED  BY <2>2, <2>4, <2>5, <2>6, <2>8, <2>9, <2>10, <2>11, Ended DEF DataInv
<1>. QED  BY <1>4, <1>5

-----------------------------------------------------------------------------
(* The invariant. *)

\* The scenarios start in it.
LEMMA InitHolds == Init => LoginInv
<1>. SUFFICES ASSUME Init PROVE LoginInv
  OBVIOUS
<1>1. /\ scenario \in Scenarios
      /\ policy = scenario.policy /\ history = <<>> /\ spent = {}
      /\ sessions = scenario.sessions /\ handoffs = scenario.handoffs
      /\ status = scenario.status /\ membership = scenario.membership
      /\ tx = [p \in Proc |-> Idle] /\ locks = {} /\ requests = 0
      /\ identity = scenario.identity /\ invitation = scenario.invitation
      /\ logins = scenario.logins
  BY DEF Init, RolloutInit
<1>2. Typed(scenario) /\ Legal(scenario)
  BY <1>1, LoginAssumption
<1>3. DataTyped
  <2>1. <<>> \in Seq(HistoryRow)
    OBVIOUS
  <2>. QED  BY <1>1, <1>2, <2>1 DEF DataTyped, Typed
<1>4. TxTyped
  <2>1. 0 \in 0..MaxRequests
    BY Constants
  <2>. QED  BY <1>1, <2>1, IdleTyped DEF TxTyped
<1>5. HistoryOK
  <2>1. DOMAIN history = {} /\ Len(history) = 0
    BY <1>1
  <2>2. \A x \in Scope : ChangesOf(x, Len(history)) = {}
    BY <2>1 DEF ChangesOf
  <2>3. Cardinality({}) = 0
    BY FS_EmptySet
  <2>4. \A x \in Scope : policy[x] # None =>
          policy[x].version = First(x) + Cardinality(ChangesOf(x, Len(history)))
    <3>1. SUFFICES ASSUME NEW x \in Scope, policy[x] # None
                   PROVE  policy[x].version = First(x) + 0
      BY <2>2, <2>3
    <3>2. policy[x] \in PolicyRow
      BY <1>3, <3>1 DEF DataTyped
    <3>3. policy[x].version \in Nat /\ First(x) = policy[x].version
      BY <1>1, <3>1, <3>2 DEF PolicyRow, First
    <3>. QED  BY <3>3
  <2>5. \A x \in Scope : policy[x] = None => First(x) = 0
    BY <1>1 DEF First
  <2>6. HistoryIsLinear
    BY <2>1, <2>4 DEF HistoryIsLinear
  <2>. QED  BY <2>1, <2>2, <2>5, <2>6 DEF HistoryOK
<1>6. RolloutHolds
  <2>1. DOMAIN sessions = 1..Len(sessions)
    BY <1>3, LenProperties DEF DataTyped
  <2>. QED  BY <1>1, <1>2, <2>1 DEF RolloutHolds, Unrevoked, Ids, Legal
<1>7. DOMAIN sessions = 1..Len(sessions) /\ DOMAIN handoffs = 1..Len(handoffs)
  BY <1>3, LenProperties DEF DataTyped
<1>8. AccountsOK
  <2>1. SUFFICES ASSUME NEW a \in Account
        PROVE  /\ status[a] = "none" => invitation[a] = "none" /\ NoTrace(a)
               /\ invitation[a] \in {"open", "expired"} =>
                    /\ status[a] \in {"invited", "barred"}
                    /\ membership[MembershipOf(a)] \in {"invited", "disabled"}
                    /\ NoTrace(a)
               /\ invitation[a] = "consumed" =>
                    \E s \in Subject : \A t \in Subject : identity[t] = a <=> t = s
    BY DEF AccountsOK
  <2>2. status[a] = "none" \/ invitation[a] \in {"open", "expired"} => NoTrace(a)
    BY <1>1, <1>2, <1>7 DEF Legal, NoTrace, Ids
  <2>. QED  BY <1>1, <1>2, <2>2 DEF Legal
<1>9. HandoffsOK
  BY <1>1, <1>2, <1>7 DEF Legal, HandoffsOK
<1>10. LocksOK
  BY <1>1 DEF LocksOK
<1>11. \A u \in Proc : tx[u] = Idle /\ tx[u].op = None
  BY <1>1, IdleTyped
<1>12. Apart
  BY <1>11, Constants DEF Apart, Kinds
<1>13. \A u \in Proc : TxKnows(u)
  BY <1>11, Constants DEF TxKnows, Kinds
<1>. QED  BY <1>3, <1>4, <1>5, <1>6, <1>8, <1>9, <1>10, <1>12, <1>13 DEF LoginInv, DataInv

\* A step of the rollout keeps it.
LEMMA RolloutStepKeeps ==
    ASSUME LoginInv, NEW p \in Proc, RolloutStep(p), UNCHANGED loginVars
    PROVE  LoginInv'
<1>1. CASE Acquire(p)
  BY <1>1, AcquireKeeps
<1>2. CASE DeadlockVictim(p)
  BY <1>2, Quits DEF DeadlockVictim
<1>3. CASE Abort(p)
  BY <1>3, Quits DEF Abort
<1>4. CASE Authorize(p)
  BY <1>4, AuthorizeKeeps
<1>5. CASE LockPolicy(p)
  BY <1>5, LockPolicyKeeps
<1>6. CASE NoCondominium(p)
  BY <1>6, NoCondominiumKeeps
<1>7. CASE Upsert(p)
  BY <1>7, UpsertKeeps
<1>8. CASE Sweep(p)
  BY <1>8, SweepKeeps
<1>9. CASE CommitChange(p)
  BY <1>9, CommitChangeKeeps
<1>10. CASE LookGate(p)
  BY <1>10, LookGateKeeps
<1>11. CASE LookSession(p)
  BY <1>11, LookSessionKeeps
<1>12. CASE Looked(p)
  BY <1>12, Quits DEF Looked
<1>13. CASE IssueAccount(p)
  BY <1>13, IssueAccountKeeps
<1>14. CASE IssueMember(p)
  BY <1>14, IssueMemberKeeps
<1>15. CASE IssueGate(p)
  BY <1>15, IssueGateKeeps
<1>16. CASE Issue(p)
  BY <1>16, IssueKeeps
<1>17. CASE RotateMember(p)
  BY <1>17, RotateMemberKeeps
<1>18. CASE RotateGate(p)
  BY <1>18, RotateGateKeeps
<1>19. CASE RotateSession(p)
  BY <1>19, RotateSessionKeeps
<1>20. CASE Rotate(p)
  BY <1>20, RotateKeeps
<1>21. CASE BarMembers(p)
  BY <1>21, BarMembersKeeps
<1>22. CASE BarSessions(p)
  BY <1>22, BarSessionsKeeps
<1>23. CASE Bar(p)
  BY <1>23, BarKeeps
<1>. QED
  BY <1>1, <1>2, <1>3, <1>4, <1>5, <1>6, <1>7, <1>8, <1>9, <1>10, <1>11, <1>12, <1>13, <1>14,
     <1>15, <1>16, <1>17, <1>18, <1>19, <1>20, <1>21, <1>22, <1>23 DEF RolloutStep

\* So does a request of it.
LEMMA RolloutRequestKeeps ==
    ASSUME LoginInv, NEW p \in Proc, RolloutRequest(p), UNCHANGED loginVars
    PROVE  LoginInv'
<1>1. CASE \E c \in scenario.changes, s \in 0..Len(sessions), t \in Token \cup {None} :
             BeginChange(p, c, s, t)
  BY <1>1, BeginChangeKeeps
<1>2. CASE \E s \in Ids : BeginLook(p, "authenticate", s) \/ BeginLook(p, "inspect", s)
  <2>1. PICK s \in Ids, op \in {"authenticate", "inspect"} : BeginLook(p, op, s)
    BY <1>2
  <2>. QED  BY <2>1, BeginLookKeeps
<1>3. CASE \E h \in 1..Len(handoffs) : BeginIssue(p, h)
  BY <1>3, BeginIssueKeeps
<1>4. CASE \E s \in Ids, m \in Membership : BeginRotate(p, s, m)
  BY <1>4, BeginRotateKeeps
<1>5. CASE \E a \in Account : BeginBar(p, a)
  BY <1>5, BeginBarKeeps
<1>. QED  BY <1>1, <1>2, <1>3, <1>4, <1>5 DEF RolloutRequest

\* A step of a login or of an invitation keeps it.
LEMMA LoginStepKeeps ==
    ASSUME LoginInv, NEW p \in Proc, LoginStep(p)
    PROVE  LoginInv'
<1>1. CASE Invite(p)
  BY <1>1, InviteKeeps
<1>2. CASE PreflightGlobal(p)
  BY <1>2, PreflightGlobalKeeps
<1>3. CASE PreflightInvitation(p)
  BY <1>3, PreflightInvitationKeeps
<1>4. CASE PreflightScope(p)
  BY <1>4, PreflightScopeKeeps
<1>5. CASE CreateTransaction(p)
  BY <1>5, CreateTransactionKeeps
<1>6. CASE ExchangeFails(p)
  BY <1>6, Quits DEF ExchangeFails
<1>7. CASE \E s \in Subject : FindInvitation(p, s) \/ FindIdentity(p, s)
  BY <1>7, FindInvitationKeeps, FindIdentityKeeps
<1>8. CASE AcceptScope(p)
  BY <1>8, AcceptScopeKeeps
<1>9. CASE BindIdentity(p)
  BY <1>9, BindIdentityKeeps
<1>10. CASE Accept(p)
  BY <1>10, AcceptKeeps
<1>11. CASE LoginMembers(p)
  BY <1>11, LoginMembersKeeps
<1>12. CASE LoginGate(p)
  BY <1>12, LoginGateKeeps
<1>13. CASE CompleteLogin(p)
  BY <1>13, CompleteLoginKeeps
<1>. QED
  BY <1>1, <1>2, <1>3, <1>4, <1>5, <1>6, <1>7, <1>8, <1>9, <1>10, <1>11, <1>12, <1>13
     DEF LoginStep

\* So does a request for one.
LEMMA LoginRequestKeeps ==
    ASSUME LoginInv, NEW p \in Proc, LoginRequest(p)
    PROVE  LoginInv'
<1>1. CASE BeginLogin(p)
  BY <1>1, BeginLoginKeeps
<1>2. CASE \E a \in Account : BeginInvite(p, a) \/ BeginInvitedLogin(p, a)
  BY <1>2, BeginInviteKeeps, BeginInvitedLoginKeeps
<1>3. CASE \E l \in 1..Len(logins) : Callback(p, l)
  BY <1>3, CallbackKeeps
<1>. QED  BY <1>1, <1>2, <1>3 DEF LoginRequest

\* A step that changes nothing.
LEMMA StutterKeeps ==
    ASSUME LoginInv, UNCHANGED vars
    PROVE  LoginInv'
<1>1. /\ Quiet /\ tx' = tx /\ locks' = locks /\ requests' = requests /\ scenario' = scenario
  BY DEF vars, rolloutVars, loginVars, Quiet
<1>2. DataTyped' /\ DataInv' /\ RowsKept /\ \A u \in Proc : Spares(u)
  BY <1>1, QuietStep
<1>. QED  BY <1>1, <1>2, Aside

\* Every step keeps it.
LEMMA NextKeeps == LoginInv /\ [Next]_vars => LoginInv'
<1>. SUFFICES ASSUME LoginInv, [Next]_vars PROVE LoginInv'
  OBVIOUS
<1>1. CASE UNCHANGED vars
  BY <1>1, StutterKeeps
<1>2. ASSUME NEW p \in Proc, RolloutRequest(p) \/ RolloutStep(p), UNCHANGED loginVars
      PROVE  LoginInv'
  BY <1>2, RolloutRequestKeeps, RolloutStepKeeps
<1>3. ASSUME NEW p \in Proc, LoginRequest(p) \/ LoginStep(p) PROVE LoginInv'
  BY <1>3, LoginRequestKeeps, LoginStepKeeps
<1>4. ASSUME NEW a \in Account, ExpireInvitation(a) PROVE LoginInv'
  BY <1>4, ExpireInvitationKeeps
<1>5. ASSUME NEW l \in 1..Len(logins), ExpireLogin(l) PROVE LoginInv'
  BY <1>5, ExpireLoginKeeps
<1>6. CASE Rest
  BY <1>6, StutterKeeps DEF Rest
<1>. QED  BY <1>1, <1>2, <1>3, <1>4, <1>5, <1>6 DEF Next

-----------------------------------------------------------------------------
(* The theorems. *)

\* The rows, the locks and what each request knows at its place, in every state of every
\* execution: the inductive invariant the others follow from.
THEOREM LoginInvariant == Spec => []LoginInv
<1>. QED  BY InitHolds, NextKeeps, PTL DEF Spec

\* Every table holds rows of its type, whatever the requests do to it together, and a lock
\* is always that of a transaction that is open.
THEOREM TypeCorrect == Spec => []TypeOK
<1>1. LoginInv => TypeOK
  <2>. SUFFICES ASSUME LoginInv PROVE TypeOK
    OBVIOUS
  <2>1. ASSUME NEW l \in locks PROVE l[2] \in {"share", "update"} /\ tx[l[3]].pc # "idle"
    BY DEF LoginInv, TxTyped, LocksOK
  <2>. QED  BY <2>1 DEF LoginInv, DataTyped, TxTyped, TypeOK
<1>. QED  BY <1>1, LoginInvariant, PTL

\* No session is left live that the committed policies exclude: neither one opened from a
\* handoff nor one rotated while a change looked for the sessions to revoke
\* (gateMembership, set_human_auth_rollout_policy).
THEOREM RolloutIsKept == Spec => []RolloutHolds
<1>1. LoginInv => RolloutHolds
  BY DEF LoginInv, DataInv
<1>. QED  BY <1>1, LoginInvariant, PTL

\* A provisioning invitation is consumed by the login that binds the one identity of its
\* account, nobody gets in as the account before, and a login leaves one handoff at most
\* (acceptInvitation, completeCallback).
THEOREM InvitationsBindOnce == Spec => []AcceptedOnce
<1>1. LoginInv => AcceptedOnce
  <2>. SUFFICES ASSUME LoginInv PROVE AcceptedOnce
    OBVIOUS
  <2>1. ASSUME NEW a \in Account, invitation[a] # "none"
        PROVE  LET bound == {s \in Subject : identity[s] = a} IN
               /\ Cardinality(bound) = IF invitation[a] = "consumed" THEN 1 ELSE 0
               /\ invitation[a] # "consumed" =>
                    /\ status[a] \in {"invited", "barred"}
                    /\ membership[MembershipOf(a)] \in {"invited", "disabled"}
                    /\ \A h \in 1..Len(handoffs) : handoffs[h].account # a
                    /\ \A s \in Ids : AccountOf[sessions[s].membership] # a
    <3>. DEFINE bound == {s \in Subject : identity[s] = a}
    <3>1. invitation[a] \in {"open", "consumed", "expired"}
      BY <2>1 DEF LoginInv, DataTyped
    <3>2. CASE invitation[a] = "consumed"
      <4>1. PICK s \in Subject : \A t \in Subject : identity[t] = a <=> t = s
        BY <3>2 DEF LoginInv, DataInv, AccountsOK
      <4>2. bound = {s}
        BY <4>1
      <4>3. Cardinality({s}) = 1
        BY FS_Singleton
      <4>. QED  BY <3>2, <4>2, <4>3
    <3>3. CASE invitation[a] # "consumed"
      <4>1. /\ status[a] \in {"invited", "barred"}
            /\ membership[MembershipOf(a)] \in {"invited", "disabled"}
            /\ NoTrace(a)
        BY <3>1, <3>3 DEF LoginInv, DataInv, AccountsOK
      <4>2. bound = {}
        BY <4>1 DEF NoTrace
      <4>3. Cardinality({}) = 0
        BY FS_EmptySet
      <4>. QED  BY <3>3, <4>1, <4>2, <4>3 DEF NoTrace
    <3>. QED  BY <3>2, <3>3
  <2>2. \A g, h \in 1..Len(handoffs) :
          handoffs[g].login = handoffs[h].login /\ handoffs[g].login # 0 => g = h
    BY DEF LoginInv, DataInv, HandoffsOK
  <2>. QED  BY <2>1, <2>2 DEF AcceptedOnce
<1>. QED  BY <1>1, LoginInvariant, PTL

\* The versions of a scope follow one another without a gap or a repetition, the policy is
\* at the last of them, and no authorization is spent twice, however many changes are asked
\* for at once and wherever they are interrupted (set_human_auth_rollout_policy).
THEOREM HistoryLinear == Spec => []HistoryIsLinear
<1>1. LoginInv => HistoryIsLinear
  BY DEF LoginInv, DataInv, HistoryOK
<1>. QED  BY <1>1, LoginInvariant, PTL

\* The gate decides in the server (policyAllows) and the sweep in SQL
\* (set_human_auth_rollout_policy), where a comparison with NULL is not true: they agree on
\* every membership and every policies there may be, so that a change revokes the sessions
\* that the gate would refuse from then on, and no other.
THEOREM SweepMatchesGate ==
    \A rows \in [Scope -> PolicyRow \cup {None}], m \in Membership :
        Retained(rows, m) <=> Effective(rows, m)
<1>. SUFFICES ASSUME NEW rows \in [Scope -> PolicyRow \cup {None}], NEW m \in Membership,
                     Effective(rows, m)
              PROVE  Retained(rows, m)
  BY RetainedIsEffective
<1>1. "global" \in Scope /\ (~Provider(m) => CondoOf[m] \in Scope)
  BY Constants DEF Provider
<1>2. \A x \in Scope : rows[x] # None => rows[x].state \in States
  BY DEF PolicyRow
<1>3. Allows(rows["global"], m) /\ (~Provider(m) => Allows(rows[CondoOf[m]], m))
  BY DEF Effective
<1>. QED  BY <1>1, <1>2, <1>3 DEF Retained, InPilot, Allows, States
=============================================================================
