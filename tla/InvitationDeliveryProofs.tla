---------------------- MODULE InvitationDeliveryProofs ----------------------
(***************************************************************************)
(* Theorems about InvitationDelivery, for any number of processes and      *)
(* intents, any budgets, any batch size and any number of faults: leases,  *)
(* what the attempts are spent on and when a delivery is given up, and     *)
(* that the workers implement DeliveryOutbox.                              *)
(***************************************************************************)
EXTENDS InvitationDelivery, TLAPS

-----------------------------------------------------------------------------
(* Type correctness.                                                       *)

\* A claimed row is a row.
LEMMA RowClaimed ==
    ASSUME NEW r \in Row, NEW n \in Nat, NEW w \in WorkerId
    PROVE  [r EXCEPT !.status = "processing", !.owner = w, !.token = n,
                     !.lease = "live", !.error = "none"] \in Row
<1>1. "processing" \in Status /\ "none" \in Error
  BY DEF Status, Error
<1>. QED  BY <1>1 DEF Row

\* A row taken off its lease is a row.
LEMMA RowClosed ==
    ASSUME NEW r \in Row, NEW status \in Status, NEW error \in Error, NEW n \in Nat
    PROVE  /\ [Unleased(r) EXCEPT !.status = status, !.error = error] \in Row
           /\ [Unleased(r) EXCEPT !.status = status, !.error = error,
                                  !.attempts = n] \in Row
           /\ [Unleased(r) EXCEPT !.status = status, !.error = error,
                                  !.attempts = n, !.nextAttempt = "later"] \in Row
<1>1. [Unleased(r) EXCEPT !.status = status, !.error = error] \in Row
  BY DEF Row, Unleased
<1>2. [Unleased(r) EXCEPT !.status = status, !.error = error, !.attempts = n] \in Row
  BY DEF Row, Unleased
<1>3. [Unleased(r) EXCEPT !.status = status, !.error = error, !.attempts = n,
                          !.nextAttempt = "later"] \in Row
  BY DEF Row, Unleased
<1>. QED  BY <1>1, <1>2, <1>3

\* A row stays a row when its clocks tick or its lease is renewed.
LEMMA RowTicks ==
    ASSUME TypeOK, NEW i \in Intent
    PROVE  /\ [row EXCEPT ![i].lease = "live"] \in [Intent -> Row]
           /\ [row EXCEPT ![i].lease = "expired"] \in [Intent -> Row]
           /\ [row EXCEPT ![i].nextAttempt = "due"] \in [Intent -> Row]
<1>1. row \in [Intent -> Row] /\ row[i] \in Row
  BY DEF TypeOK
<1>2. /\ [row[i] EXCEPT !.lease = "live"] \in Row
      /\ [row[i] EXCEPT !.lease = "expired"] \in Row
      /\ [row[i] EXCEPT !.nextAttempt = "due"] \in Row
  BY <1>1 DEF Row
<1>. QED  BY <1>1, <1>2

\* The rows the statements write are rows.
LEMMA RowTypes ==
    ASSUME TypeOK, NEW p \in Proc, NEW i \in Intent
    PROVE  /\ ClaimedRow(p, i) \in Row
           /\ DeliveredRow(i) \in Row
           /\ FailedRow(p, i) \in Row
           /\ [Unleased(row[i]) EXCEPT !.status = "dead_letter",
                                       !.error = "attempts_exhausted"] \in Row
<1>1. row[i] \in Row
  BY DEF TypeOK
<1>2. issued[i] + 1 \in Nat /\ WorkerOf[p] \in WorkerId
  BY DEF TypeOK, WorkerId
<1>3. /\ "delivered" \in Status /\ "retry" \in Status /\ "dead_letter" \in Status
      /\ "none" \in Error /\ "permanent" \in Error /\ "transient" \in Error
      /\ "attempts_exhausted" \in Error
  BY DEF Status, Error
<1>4. row[i].attempts \in Nat /\ Unleased(row[i]).attempts = row[i].attempts
  BY <1>1 DEF Row, Unleased
<1>5. row[i].attempts + 1 \in Nat
  BY <1>4
<1>6. ClaimedRow(p, i) \in Row
  BY <1>1, <1>2, RowClaimed DEF ClaimedRow
<1>7. DeliveredRow(i) \in Row
  <2>1. DeliveredRow(i) = [Unleased(row[i]) EXCEPT !.status = "delivered",
                             !.error = "none", !.attempts = row[i].attempts + 1]
    BY <1>4 DEF DeliveredRow, Unleased
  <2>2. [Unleased(row[i]) EXCEPT !.status = "delivered", !.error = "none",
                                 !.attempts = row[i].attempts + 1] \in Row
    BY <1>1, <1>3, <1>5, RowClosed
  <2>. QED  BY <2>1, <2>2
<1>8. FailedRow(p, i) \in Row
  <2>. DEFINE permanent == claim[p][i].phase = "rejected"
              st == IF permanent \/ LastAttempt(p, i) THEN "dead_letter" ELSE "retry"
              er == IF permanent THEN "permanent" ELSE "transient"
  <2>1. FailedRow(p, i) = [Unleased(row[i]) EXCEPT !.status = st, !.error = er,
                             !.attempts = row[i].attempts + 1, !.nextAttempt = "later"]
    BY <1>4 DEF FailedRow, Unleased
  <2>2. st \in Status /\ er \in Error
    BY <1>3
  <2>. HIDE DEF st, er
  <2>3. [Unleased(row[i]) EXCEPT !.status = st, !.error = er,
           !.attempts = row[i].attempts + 1, !.nextAttempt = "later"] \in Row
    BY <2>2, <1>1, <1>5, RowClosed
  <2>. QED  BY <2>1, <2>3
<1>9. [Unleased(row[i]) EXCEPT !.status = "dead_letter",
                               !.error = "attempts_exhausted"] \in Row
  BY <1>1, <1>3, <1>5, RowClosed
<1>. QED  BY <1>6, <1>7, <1>8, <1>9

\* A claim moved to another phase, or dropped, leaves the batches well typed.
LEMMA ClaimTypes ==
    ASSUME TypeOK, NEW p \in Proc, NEW i \in Intent
    PROVE  /\ Release(p, i) => claim' \in [Proc -> [Intent -> Claim]]
           /\ \A phase \in Phase : Advance(p, i, phase) => claim' \in [Proc -> [Intent -> Claim]]
           /\ NoClaims \in [Intent -> Claim]
<1>1. NoClaim \in Claim
  BY DEF NoClaim, Claim, Phase
<1>2. ASSUME Release(p, i) PROVE claim' \in [Proc -> [Intent -> Claim]]
  BY <1>1, <1>2 DEF Release, TypeOK
<1>3. ASSUME NEW phase \in Phase, Advance(p, i, phase)
      PROVE  claim' \in [Proc -> [Intent -> Claim]]
  <2>1. claim[p][i] \in Claim
    BY DEF TypeOK
  <2>2. [claim[p][i] EXCEPT !.phase = phase] \in Claim
    BY <2>1 DEF Claim
  <2>. QED  BY <1>3, <2>2 DEF Advance, TypeOK
<1>. QED  BY <1>1, <1>2, <1>3 DEF NoClaims

\* Every step keeps every variable within its type.
LEMMA TypeStep ==
    ASSUME DeliveryAssumption, TypeOK, [Next]_vars
    PROVE  TypeOK'
<1>. USE DeliveryAssumption
<1>1. ASSUME NEW p \in Proc, VerifyDeliveryPolicy(p) PROVE TypeOK'
  BY <1>1 DEF VerifyDeliveryPolicy, TypeOK, Mode, DeliveryAssumption, providerVars
<1>2. ASSUME NEW p \in Proc, NEW batch \in SUBSET Intent, ClaimDeliveries(p, batch)
      PROVE  TypeOK'
  <2>1. row' \in [Intent -> Row]
    <3>1. ASSUME NEW i \in Intent
          PROVE  [Unleased(row[i]) EXCEPT !.status = "dead_letter",
                                          !.error = "attempts_exhausted"] \in Row
      BY RowTypes
    <3>2. \A i \in Intent : ClaimedRow(p, i) \in Row /\ row[i] \in Row
      BY RowTypes DEF TypeOK
    <3>. QED  BY <1>2, <3>1, <3>2 DEF ClaimDeliveries
  <2>2. claim' \in [Proc -> [Intent -> Claim]]
    <3>1. ASSUME NEW i \in Intent
          PROVE  [phase |-> "queued", token |-> issued[i] + 1,
                  attempts |-> row[i].attempts, lease |-> "kept"] \in Claim
      BY DEF TypeOK, Row, Claim, Phase
    <3>2. NoClaim \in Claim
      BY DEF NoClaim, Claim, Phase
    <3>. QED  BY <1>2, <3>1, <3>2 DEF ClaimDeliveries, TypeOK
  <2>3. issued' \in [Intent -> Nat]
    <3>1. \A i \in Intent : issued[i] \in Nat /\ issued[i] + 1 \in Nat
      BY DEF TypeOK
    <3>. QED  BY <1>2, <3>1 DEF ClaimDeliveries
  <2>4. mode' \in [Proc -> Mode]
    BY <1>2 DEF ClaimDeliveries, TypeOK, Mode
  <2>. QED  BY <1>2, <2>1, <2>2, <2>3, <2>4 DEF ClaimDeliveries, TypeOK, providerVars
<1>3. ASSUME NEW p \in Proc, NEW i \in Intent, RenewDeliveryLease(p, i) PROVE TypeOK'
  <2>1. row' \in [Intent -> Row]
    <3>1. row' = row \/ row' = [row EXCEPT ![i].lease = "live"]
      BY <1>3 DEF RenewDeliveryLease
    <3>2. row \in [Intent -> Row]
      BY DEF TypeOK
    <3>3. [row EXCEPT ![i].lease = "live"] \in [Intent -> Row]
      BY RowTicks
    <3>. QED  BY <3>1, <3>2, <3>3 DEF Row
  <2>2. claim' \in [Proc -> [Intent -> Claim]]
    <3>1. [claim[p][i] EXCEPT !.lease = "lost"] \in Claim
      <4>1. claim[p][i] \in Claim
        BY DEF TypeOK
      <4>. QED  BY <4>1 DEF Claim
    <3>2. claim \in [Proc -> [Intent -> Claim]]
      BY DEF TypeOK
    <3>3. [claim EXCEPT ![p][i].lease = "lost"] \in [Proc -> [Intent -> Claim]]
      BY <3>1, <3>2
    <3>. QED  BY <1>3, <3>2, <3>3 DEF RenewDeliveryLease
  <2>3. faults' \in Nat
    BY <1>3 DEF RenewDeliveryLease, Fault, TypeOK
  <2>. QED  BY <1>3, <2>1, <2>2, <2>3 DEF RenewDeliveryLease, TypeOK, providerVars
<1>4. ASSUME NEW p \in Proc, NEW i \in Intent, Dispatch(p, i) PROVE TypeOK'
  <2>1. claim' \in [Proc -> [Intent -> Claim]]
    BY <1>4, ClaimTypes DEF Dispatch, Phase
  <2>2. outcomes' \in [Intent -> Nat] /\ offered' \subseteq Intent
    BY <1>4 DEF Dispatch, TypeOK
  <2>. QED  BY <1>4, <2>1, <2>2 DEF Dispatch, TypeOK, rowVars
<1>5. ASSUME NEW p \in Proc, NEW i \in Intent, SendSettles(p, i) PROVE TypeOK'
  <2>1. claim' \in [Proc -> [Intent -> Claim]]
    BY <1>5, ClaimTypes DEF SendSettles, Phase
  <2>. QED  BY <1>5, <2>1 DEF SendSettles, TypeOK, rowVars
<1>6. ASSUME NEW p \in Proc, NEW i \in Intent, SendAborted(p, i) PROVE TypeOK'
  BY <1>6, ClaimTypes DEF SendAborted, TypeOK, rowVars, providerVars
<1>7. ASSUME NEW p \in Proc, NEW i \in Intent, CompleteDelivery(p, i) PROVE TypeOK'
  <2>1. row' \in [Intent -> Row]
    <3>1. row' = row \/ row' = [row EXCEPT ![i] = DeliveredRow(i)]
      BY <1>7 DEF CompleteDelivery
    <3>2. [row EXCEPT ![i] = DeliveredRow(i)] \in [Intent -> Row]
      BY RowTypes DEF TypeOK
    <3>. QED  BY <3>1, <3>2 DEF TypeOK
  <2>2. claim' \in [Proc -> [Intent -> Claim]] /\ faults' \in Nat
    BY <1>7, ClaimTypes DEF CompleteDelivery, Phase, Fault, TypeOK
  <2>. QED  BY <1>7, <2>1, <2>2 DEF CompleteDelivery, TypeOK, providerVars
<1>8. ASSUME NEW p \in Proc, NEW i \in Intent, FailDelivery(p, i) PROVE TypeOK'
  <2>1. row' \in [Intent -> Row]
    <3>1. row' = row \/ row' = [row EXCEPT ![i] = FailedRow(p, i)]
      BY <1>8 DEF FailDelivery
    <3>2. [row EXCEPT ![i] = FailedRow(p, i)] \in [Intent -> Row]
      BY RowTypes DEF TypeOK
    <3>. QED  BY <3>1, <3>2 DEF TypeOK
  <2>2. claim' \in [Proc -> [Intent -> Claim]] /\ faults' \in Nat
    BY <1>8, ClaimTypes DEF FailDelivery, Fault, TypeOK
  <2>3. deadLanes' \in [Proc -> Nat]
    BY <1>8 DEF FailDelivery, TypeOK
  <2>. QED  BY <1>8, <2>1, <2>2, <2>3 DEF FailDelivery, TypeOK, providerVars
<1>9. ASSUME NEW p \in Proc, BatchEnds(p) PROVE TypeOK'
  <2>1. claim' \in [Proc -> [Intent -> Claim]]
    BY <1>9 DEF BatchEnds, NoClaims, NoClaim, Claim, Phase, TypeOK
  <2>. QED  BY <1>9, <2>1 DEF BatchEnds, TypeOK, Mode, rowVars, providerVars
<1>10. ASSUME NEW p \in Proc, Stop(p) \/ LeaveLoop(p) \/ Restart(p) PROVE TypeOK'
  <2>1. CASE Stop(p)
    BY <2>1 DEF Stop, Fault, TypeOK, rowVars, providerVars
  <2>2. CASE LeaveLoop(p)
    BY <2>2 DEF LeaveLoop, TypeOK, Mode, rowVars, providerVars
  <2>3. CASE Restart(p)
    BY <2>3 DEF Restart, TypeOK, Mode, rowVars, providerVars
  <2>. QED  BY <1>10, <2>1, <2>2, <2>3
<1>11. ASSUME NEW p \in Proc, Crash(p) PROVE TypeOK'
  <2>1. claim' \in [Proc -> [Intent -> Claim]]
    BY <1>11 DEF Crash, NoClaims, NoClaim, Claim, Phase, TypeOK
  <2>. QED  BY <1>11, <2>1 DEF Crash, Fault, TypeOK, Mode, rowVars, providerVars
<1>12. ASSUME NEW i \in Intent, ProviderAccepts(i) PROVE TypeOK'
  BY <1>12 DEF ProviderAccepts, TypeOK, rowVars, procVars
<1>13. ASSUME NEW i \in Intent, LeaseExpires(i) \/ BackoffElapses(i) PROVE TypeOK'
  <2>1. row' \in [Intent -> Row]
    <3>1. CASE LeaseExpires(i)
      BY <3>1, RowTicks DEF LeaseExpires
    <3>2. CASE BackoffElapses(i)
      BY <3>2, RowTicks DEF BackoffElapses
    <3>. QED  BY <1>13, <3>1, <3>2
  <2>2. faults' \in Nat
    BY <1>13 DEF LeaseExpires, BackoffElapses, Fault, TypeOK
  <2>. QED
    BY <1>13, <2>1, <2>2 DEF LeaseExpires, BackoffElapses, TypeOK, procVars, providerVars
<1>14. CASE UNCHANGED vars
  BY <1>14 DEF vars, TypeOK
<1>. QED
  BY <1>1, <1>2, <1>3, <1>4, <1>5, <1>6, <1>7, <1>8, <1>9, <1>10, <1>11, <1>12,
     <1>13, <1>14 DEF Next

\* Every reachable state is well typed.
THEOREM TypeCorrect == DeliveryAssumption => (Spec => []TypeOK)
<1>. SUFFICES ASSUME DeliveryAssumption PROVE Spec => []TypeOK
  OBVIOUS
<1>1. Init => TypeOK
  BY DEF Init, TypeOK, Row, Status, Error, Mode, Claim, NoClaims, NoClaim, Phase
<1>2. TypeOK /\ [Next]_vars => TypeOK'
  BY TypeStep
<1>. QED  BY <1>1, <1>2, PTL DEF Spec

-----------------------------------------------------------------------------
(* Fencing: at most one process passes the WHERE clause of a row.          *)

\* Fenced tells processes apart by the tokens alone.
LEMMA TokensFence == LeaseTokens => OneLeaseHolder
<1>. SUFFICES ASSUME LeaseTokens, NEW i \in Intent, NEW p \in Proc, NEW q \in Proc,
                     Fenced(p, i), Fenced(q, i), p # q
              PROVE  FALSE
  BY DEF OneLeaseHolder
<1>1. row[i].token # 0 /\ claim[p][i].token = row[i].token /\ claim[q][i].token = row[i].token
  BY DEF Fenced, LeaseTokens
<1>. QED  BY <1>1 DEF LeaseTokens

\* A step that draws no token, moves no token into a batch and leases no row keeps
\* the tokens apart.
LEMMA TokensKept ==
    ASSUME LeaseTokens, issued' = issued,
           \A i \in Intent : row'[i].status = "processing" =>
               row[i].status = "processing" /\ row'[i].token = row[i].token,
           \A p \in Proc, i \in Intent :
               claim'[p][i].token = claim[p][i].token \/ claim'[p][i].token = 0,
           issued \in [Intent -> Nat]
    PROVE  LeaseTokens'
BY DEF LeaseTokens

\* A released or advanced claim keeps its token or loses it.
LEMMA ClaimTokens ==
    ASSUME TypeOK, NEW p \in Proc, NEW i \in Intent,
           \/ Release(p, i)
           \/ \E phase \in Phase : Advance(p, i, phase)
           \/ claim' = [claim EXCEPT ![p][i].lease = "lost"]
           \/ claim' = claim
           \/ claim' = [claim EXCEPT ![p] = NoClaims]
    PROVE  \A q \in Proc, j \in Intent :
               claim'[q][j].token = claim[q][j].token \/ claim'[q][j].token = 0
<1>1. claim \in [Proc -> [Intent -> Claim]]
  BY DEF TypeOK
<1>2. \A q \in Proc, j \in Intent : claim[q][j] \in Claim
  BY <1>1
<1>3. CASE Release(p, i)
  BY <1>1, <1>3 DEF Release, NoClaim
<1>4. CASE \E phase \in Phase : Advance(p, i, phase)
  BY <1>1, <1>2, <1>4 DEF Advance, Claim
<1>5. CASE claim' = [claim EXCEPT ![p][i].lease = "lost"]
  BY <1>1, <1>2, <1>5 DEF Claim
<1>6. CASE claim' = [claim EXCEPT ![p] = NoClaims]
  BY <1>1, <1>6 DEF NoClaims, NoClaim
<1>. QED  BY <1>3, <1>4, <1>5, <1>6

\* A final update takes the row out of processing.
LEMMA ClosedRows ==
    ASSUME TypeOK, NEW p \in Proc, NEW i \in Intent
    PROVE  /\ DeliveredRow(i).status = "delivered"
           /\ FailedRow(p, i).status \in {"retry", "dead_letter"}
<1>1. row[i] \in Row
  BY DEF TypeOK
<1>. QED  BY <1>1 DEF DeliveredRow, FailedRow, Unleased, Row

\* Renewals and the clock leave status and token alone.
LEMMA RowTickFields ==
    ASSUME row \in [Intent -> Row], NEW i \in Intent,
           \/ row' = row
           \/ row' = [row EXCEPT ![i].lease = "live"]
           \/ row' = [row EXCEPT ![i].lease = "expired"]
           \/ row' = [row EXCEPT ![i].nextAttempt = "due"]
    PROVE  \A j \in Intent : row'[j].status = row[j].status /\ row'[j].token = row[j].token
<1>. SUFFICES ASSUME NEW j \in Intent
              PROVE  row'[j].status = row[j].status /\ row'[j].token = row[j].token
  OBVIOUS
<1>1. row[j] \in Row
  OBVIOUS
<1>2. CASE row' = [row EXCEPT ![i].lease = "live"]
  BY <1>1, <1>2 DEF Row
<1>3. CASE row' = [row EXCEPT ![i].lease = "expired"]
  BY <1>1, <1>3 DEF Row
<1>4. CASE row' = [row EXCEPT ![i].nextAttempt = "due"]
  BY <1>1, <1>4 DEF Row
<1>. QED  BY <1>2, <1>3, <1>4

\* Every step keeps the tokens apart.
LEMMA TokenStep ==
    ASSUME DeliveryAssumption, TypeOK, LeaseTokens, [Next]_vars
    PROVE  LeaseTokens'
<1>. USE DeliveryAssumption
<1>a. /\ issued \in [Intent -> Nat] /\ row \in [Intent -> Row]
      /\ claim \in [Proc -> [Intent -> Claim]]
  BY DEF TypeOK
<1>b. /\ \A i \in Intent : row[i] \in Row /\ issued[i] \in Nat /\ row[i].token \in Nat
      /\ \A p \in Proc, i \in Intent : claim[p][i].token \in Nat
  BY <1>a DEF Row, Claim
<1>1. ASSUME NEW p \in Proc, NEW batch \in SUBSET Intent, ClaimDeliveries(p, batch)
      PROVE  LeaseTokens'
  <2>1. \A i \in Intent : row'[i].status = "processing" =>
          /\ i \in batch => row'[i].token = issued[i] + 1
          /\ i \notin batch => row'[i] = row[i]
    <3>. SUFFICES ASSUME NEW i \in Intent, row'[i].status = "processing"
                  PROVE  /\ i \in batch => row'[i].token = issued[i] + 1
                         /\ i \notin batch => row'[i] = row[i]
      OBVIOUS
    <3>. DEFINE swept == [Unleased(row[i]) EXCEPT !.status = "dead_letter",
                                                  !.error = "attempts_exhausted"]
    <3>1. row'[i] = IF i \in batch THEN ClaimedRow(p, i)
                    ELSE IF ExhaustedNow(p, i) THEN swept ELSE row[i]
      BY <1>1 DEF ClaimDeliveries
    <3>2. ClaimedRow(p, i).token = issued[i] + 1
      BY <1>b DEF ClaimedRow, Row
    <3>3. swept.status = "dead_letter"
      BY <1>b DEF Unleased, Row
    <3>. HIDE DEF swept
    <3>. QED  BY <3>1, <3>2, <3>3
  <2>2. /\ \A q \in Proc \ {p}, i \in Intent : claim'[q][i] = claim[q][i]
        /\ \A i \in Intent : claim'[p][i].token = IF i \in batch THEN issued[i] + 1 ELSE 0
        /\ \A i \in Intent : issued'[i] = IF i \in batch THEN issued[i] + 1 ELSE issued[i]
    BY <1>1, <1>a DEF ClaimDeliveries, NoClaim
  <2>. QED  BY <2>1, <2>2, <1>b DEF LeaseTokens
<1>2. ASSUME NEW p \in Proc, NEW i \in Intent, RenewDeliveryLease(p, i)
      PROVE  LeaseTokens'
  <2>1. row' = row \/ row' = [row EXCEPT ![i].lease = "live"]
    BY <1>2 DEF RenewDeliveryLease
  <2>2. \A j \in Intent : row'[j].status = row[j].status /\ row'[j].token = row[j].token
    BY <2>1, <1>a, <1>b, RowTickFields
  <2>3. \A q \in Proc, j \in Intent :
          claim'[q][j].token = claim[q][j].token \/ claim'[q][j].token = 0
    BY <1>2, ClaimTokens DEF RenewDeliveryLease
  <2>. QED  BY <1>2, <1>a, <2>2, <2>3, TokensKept DEF RenewDeliveryLease
<1>3. ASSUME NEW p \in Proc, NEW i \in Intent,
             Dispatch(p, i) \/ SendSettles(p, i) \/ SendAborted(p, i)
      PROVE  LeaseTokens'
  <2>1. row' = row /\ issued' = issued
    BY <1>3 DEF Dispatch, SendSettles, SendAborted, rowVars
  <2>2. Release(p, i) \/ \E phase \in Phase : Advance(p, i, phase)
    BY <1>3 DEF Dispatch, SendSettles, SendAborted, Phase
  <2>3. \A q \in Proc, j \in Intent :
          claim'[q][j].token = claim[q][j].token \/ claim'[q][j].token = 0
    BY <2>2, ClaimTokens
  <2>. QED  BY <1>a, <2>1, <2>3, TokensKept
<1>4. ASSUME NEW p \in Proc, NEW i \in Intent, CompleteDelivery(p, i)
      PROVE  LeaseTokens'
  <2>1. row' = row \/ row' = [row EXCEPT ![i] = DeliveredRow(i)]
    BY <1>4 DEF CompleteDelivery
  <2>2. Release(p, i) \/ \E phase \in Phase : Advance(p, i, phase)
    BY <1>4 DEF CompleteDelivery, Phase
  <2>3. \A q \in Proc, j \in Intent :
          claim'[q][j].token = claim[q][j].token \/ claim'[q][j].token = 0
    BY <2>2, ClaimTokens
  <2>4. \A j \in Intent : row'[j].status = "processing" => row'[j] = row[j]
    BY <2>1, <1>a, ClosedRows
  <2>. QED  BY <1>4, <1>a, <2>3, <2>4, TokensKept DEF CompleteDelivery
<1>5. ASSUME NEW p \in Proc, NEW i \in Intent, FailDelivery(p, i)
      PROVE  LeaseTokens'
  <2>1. row' = row \/ row' = [row EXCEPT ![i] = FailedRow(p, i)]
    BY <1>5 DEF FailDelivery
  <2>2. Release(p, i) /\ issued' = issued
    BY <1>5 DEF FailDelivery
  <2>3. \A q \in Proc, j \in Intent :
          claim'[q][j].token = claim[q][j].token \/ claim'[q][j].token = 0
    BY <2>2, ClaimTokens
  <2>4. \A j \in Intent : row'[j].status = "processing" => row'[j] = row[j]
    BY <2>1, <1>a, ClosedRows
  <2>. QED  BY <2>2, <1>a, <2>3, <2>4, TokensKept
<1>6. ASSUME NEW p \in Proc,
             \/ VerifyDeliveryPolicy(p) \/ BatchEnds(p) \/ LeaveLoop(p)
             \/ Restart(p) \/ Stop(p) \/ Crash(p)
      PROVE  LeaseTokens'
  <2>1. row' = row /\ issued' = issued
    BY <1>6 DEF VerifyDeliveryPolicy, BatchEnds, LeaveLoop, Restart, Stop, Crash, rowVars
  <2>2. claim' = claim \/ claim' = [claim EXCEPT ![p] = NoClaims]
    BY <1>6 DEF VerifyDeliveryPolicy, BatchEnds, LeaveLoop, Restart, Stop, Crash
  <2>3. \A q \in Proc, j \in Intent :
          claim'[q][j].token = claim[q][j].token \/ claim'[q][j].token = 0
    BY <2>2, <1>a DEF NoClaims, NoClaim
  <2>. QED  BY <1>a, <2>1, <2>3, TokensKept
<1>7. ASSUME NEW i \in Intent, LeaseExpires(i) \/ BackoffElapses(i) \/ ProviderAccepts(i)
      PROVE  LeaseTokens'
  <2>1. \/ row' = row
        \/ row' = [row EXCEPT ![i].lease = "expired"]
        \/ row' = [row EXCEPT ![i].nextAttempt = "due"]
    BY <1>7 DEF LeaseExpires, BackoffElapses, ProviderAccepts, rowVars
  <2>2. \A j \in Intent : row'[j].status = row[j].status /\ row'[j].token = row[j].token
    BY <2>1, <1>a, <1>b, RowTickFields
  <2>3. claim' = claim /\ issued' = issued
    BY <1>7 DEF LeaseExpires, BackoffElapses, ProviderAccepts, rowVars, procVars
  <2>. QED  BY <1>a, <2>2, <2>3, TokensKept
<1>8. CASE UNCHANGED vars
  BY <1>8 DEF vars, LeaseTokens
<1>. QED
  BY <1>1, <1>2, <1>3, <1>4, <1>5, <1>6, <1>7, <1>8 DEF Next

\* No two processes ever pass the fence of one row, whoever crashed, was replaced,
\* shares its worker id or sleeps through its lease.
THEOREM LeasesFence == DeliveryAssumption => (Spec => []OneLeaseHolder)
<1>. SUFFICES ASSUME DeliveryAssumption PROVE Spec => []OneLeaseHolder
  OBVIOUS
<1>1. Init => LeaseTokens
  BY DEF Init, LeaseTokens, NoClaims, NoClaim
<1>2. TypeOK /\ LeaseTokens /\ [Next]_vars => LeaseTokens'
  BY TokenStep
<1>3. Spec => []TypeOK
  BY TypeCorrect
<1>. QED  BY <1>1, <1>2, <1>3, TokensFence, PTL DEF Spec

-----------------------------------------------------------------------------
(* The inductive invariant.                                                *)

\* Only a working process holds a batch, and what it let go of is forgotten.
BatchesInMode ==
    \A p \in Proc, i \in Intent :
      /\ mode[p] # "working" => claim[p][i].phase = "none"
      /\ claim[p][i].phase = "none" => claim[p][i].token = 0

\* A process that passed the verification has the persisted budget.
PolicyShared ==
    \A p \in Proc : mode[p] \in {"verified", "working"} =>
        policy # 0 /\ configured[p] = policy

\* Whoever can still write a row knows its attempts, and has seen an outcome that is
\* not counted yet if it has seen one.
LeaseIsCurrent ==
    \A p \in Proc, i \in Intent : Fenced(p, i) =>
      /\ claim[p][i].attempts = row[i].attempts
      /\ claim[p][i].phase \in {"accepted", "failed", "rejected"} =>
           row[i].attempts < outcomes[i]

\* A send that was answered has reached the provider.
AnswersAreTaken ==
    \A p \in Proc, i \in Intent : claim[p][i].phase = "accepted" => i \in accepted

AttemptsInv ==
    /\ SchemaChecks /\ AttemptsWithinPolicy /\ AttemptsAreObserved /\ DeadLetterJustified
    /\ BatchesInMode /\ PolicyShared /\ LeaseIsCurrent /\ AnswersAreTaken

-----------------------------------------------------------------------------
(* What the statements do to a row and to a batch.                         *)

\* The fields of the rows the statements write.
LEMMA RowEffects ==
    ASSUME TypeOK, NEW p \in Proc, NEW i \in Intent
    PROVE  /\ ClaimedRow(p, i).status = "processing"
           /\ ClaimedRow(p, i).attempts = row[i].attempts
           /\ ClaimedRow(p, i).owner = WorkerOf[p]
           /\ ClaimedRow(p, i).token = issued[i] + 1
           /\ ClaimedRow(p, i).lease = "live"
           /\ ClaimedRow(p, i).error = "none"
           /\ DeliveredRow(i).status = "delivered"
           /\ DeliveredRow(i).attempts = row[i].attempts + 1
           /\ DeliveredRow(i).owner = NoOwner
           /\ DeliveredRow(i).token = 0
           /\ DeliveredRow(i).lease = "none"
           /\ DeliveredRow(i).error = "none"
           /\ FailedRow(p, i).status =
                IF claim[p][i].phase = "rejected" \/ LastAttempt(p, i)
                THEN "dead_letter" ELSE "retry"
           /\ FailedRow(p, i).attempts = row[i].attempts + 1
           /\ FailedRow(p, i).owner = NoOwner
           /\ FailedRow(p, i).token = 0
           /\ FailedRow(p, i).lease = "none"
           /\ FailedRow(p, i).error =
                IF claim[p][i].phase = "rejected" THEN "permanent" ELSE "transient"
<1>1. row[i] \in Row
  BY DEF TypeOK
<1>. QED  BY <1>1 DEF ClaimedRow, DeliveredRow, FailedRow, Unleased, Row

\* A release forgets one claim, an advance moves one to another phase.
LEMMA ClaimEffects ==
    ASSUME TypeOK, NEW p \in Proc, NEW i \in Intent
    PROVE  /\ Release(p, i) =>
                /\ claim'[p][i] = NoClaim
                /\ \A q \in Proc, j \in Intent : q # p \/ j # i => claim'[q][j] = claim[q][j]
           /\ \A phase \in Phase : Advance(p, i, phase) =>
                /\ claim'[p][i].phase = phase
                /\ claim'[p][i].token = claim[p][i].token
                /\ claim'[p][i].attempts = claim[p][i].attempts
                /\ \A q \in Proc, j \in Intent : q # p \/ j # i => claim'[q][j] = claim[q][j]
<1>1. claim \in [Proc -> [Intent -> Claim]] /\ claim[p][i] \in Claim
  BY DEF TypeOK
<1>2. ASSUME Release(p, i)
      PROVE  /\ claim'[p][i] = NoClaim
             /\ \A q \in Proc, j \in Intent : q # p \/ j # i => claim'[q][j] = claim[q][j]
  BY <1>1, <1>2 DEF Release
<1>3. ASSUME NEW phase \in Phase, Advance(p, i, phase)
      PROVE  /\ claim'[p][i].phase = phase
             /\ claim'[p][i].token = claim[p][i].token
             /\ claim'[p][i].attempts = claim[p][i].attempts
             /\ \A q \in Proc, j \in Intent : q # p \/ j # i => claim'[q][j] = claim[q][j]
  BY <1>1, <1>3 DEF Advance, Claim
<1>. QED  BY <1>2, <1>3

\* A fenced process is working, knows the budget, and the row has an attempt left.
LEMMA FencedWorks ==
    ASSUME TypeOK, LeaseTokens, AttemptsInv, NEW p \in Proc, NEW i \in Intent, Fenced(p, i)
    PROVE  /\ mode[p] = "working" /\ policy # 0 /\ configured[p] = policy
           /\ row[i].attempts < policy
           /\ claim[p][i].attempts = row[i].attempts
<1>1. claim[p][i].token # 0
  BY DEF Fenced, LeaseTokens
<1>2. mode[p] = "working"
  BY <1>1 DEF AttemptsInv, BatchesInMode
<1>. QED
  BY <1>2 DEF AttemptsInv, PolicyShared, AttemptsWithinPolicy, LeaseIsCurrent, Fenced, Terminal

-----------------------------------------------------------------------------
(* Every step preserves the invariant.                                     *)

\* Steps that write no row, count no outcome and only drop claims.
LEMMA QuietStep ==
    ASSUME TypeOK, AttemptsInv,
           row' = row, policy' = policy, configured' = configured,
           outcomes' = outcomes, accepted \subseteq accepted',
           \A p \in Proc, i \in Intent :
             \/ claim'[p][i] = NoClaim
             \/ claim'[p][i] = claim[p][i] /\ (mode[p] = "working" => mode'[p] = "working"),
           \A p \in Proc : mode'[p] \in {"verified", "working"} =>
             mode[p] \in {"verified", "working"}
    PROVE  AttemptsInv'
<1>1. SchemaChecks' /\ AttemptsWithinPolicy' /\ AttemptsAreObserved' /\ DeadLetterJustified'
  BY DEF AttemptsInv, SchemaChecks, AttemptsWithinPolicy, AttemptsAreObserved,
         DeadLetterJustified
<1>2. BatchesInMode' /\ PolicyShared' /\ AnswersAreTaken'
  BY DEF AttemptsInv, BatchesInMode, PolicyShared, AnswersAreTaken, NoClaim
<1>3. LeaseIsCurrent'
  <2>. SUFFICES ASSUME NEW p \in Proc, NEW i \in Intent, Fenced(p, i)'
                PROVE  /\ claim'[p][i].attempts = row'[i].attempts
                       /\ claim'[p][i].phase \in {"accepted", "failed", "rejected"} =>
                            row'[i].attempts < outcomes'[i]
    BY DEF LeaseIsCurrent
  <2>1. row[i].token # 0
    BY DEF AttemptsInv, SchemaChecks, Fenced
  <2>2. claim'[p][i] = claim[p][i]
    BY <2>1 DEF Fenced, NoClaim
  <2>. QED  BY <2>2 DEF AttemptsInv, LeaseIsCurrent, Fenced
<1>. QED  BY <1>1, <1>2, <1>3 DEF AttemptsInv

\* A step that only moves clocks: leases and backoffs of rows, and lost leases.
LEMMA ClockStep ==
    ASSUME TypeOK, AttemptsInv, SchemaChecks',
           \A i \in Intent : /\ row'[i].status = row[i].status /\ row'[i].token = row[i].token
                              /\ row'[i].owner = row[i].owner /\ row'[i].error = row[i].error
                              /\ row'[i].attempts = row[i].attempts,
           \A p \in Proc, i \in Intent :
              /\ claim'[p][i].phase = claim[p][i].phase
              /\ claim'[p][i].token = claim[p][i].token
              /\ claim'[p][i].attempts = claim[p][i].attempts,
           policy' = policy, configured' = configured, mode' = mode,
           outcomes' = outcomes, accepted' = accepted
    PROVE  AttemptsInv'
<1>1. AttemptsWithinPolicy' /\ AttemptsAreObserved' /\ DeadLetterJustified'
  BY DEF AttemptsInv, AttemptsWithinPolicy, AttemptsAreObserved, DeadLetterJustified
<1>2. BatchesInMode' /\ PolicyShared' /\ AnswersAreTaken'
  BY DEF AttemptsInv, BatchesInMode, PolicyShared, AnswersAreTaken
<1>3. LeaseIsCurrent'
  BY DEF AttemptsInv, LeaseIsCurrent, Fenced
<1>. QED  BY <1>1, <1>2, <1>3 DEF AttemptsInv

\* Renewals and the clock leave everything but the lease and nextAttemptAt alone.
LEMMA LeaseWritten ==
    ASSUME row \in [Intent -> Row], NEW i \in Intent,
           \/ row' = row
           \/ row' = [row EXCEPT ![i].nextAttempt = "due"]
           \/ row' = [row EXCEPT ![i].lease = "live"] /\ row[i].status = "processing"
           \/ row' = [row EXCEPT ![i].lease = "expired"] /\ row[i].status = "processing"
    PROVE  \A j \in Intent : /\ row'[j].status = row[j].status /\ row'[j].token = row[j].token
                             /\ row'[j].owner = row[j].owner /\ row'[j].error = row[j].error
                             /\ row'[j].attempts = row[j].attempts
                             /\ \/ row'[j].lease = row[j].lease
                                \/ row'[j].lease # "none" /\ row[j].status = "processing"
<1>. SUFFICES ASSUME NEW j \in Intent
              PROVE  /\ row'[j].status = row[j].status /\ row'[j].token = row[j].token
                     /\ row'[j].owner = row[j].owner /\ row'[j].error = row[j].error
                     /\ row'[j].attempts = row[j].attempts
                     /\ \/ row'[j].lease = row[j].lease
                        \/ row'[j].lease # "none" /\ row[j].status = "processing"
  OBVIOUS
<1>1. row[j] \in Row
  OBVIOUS
<1>2. CASE row' = [row EXCEPT ![i].lease = "live"] /\ row[i].status = "processing"
  BY <1>1, <1>2 DEF Row
<1>3. CASE row' = [row EXCEPT ![i].lease = "expired"] /\ row[i].status = "processing"
  BY <1>1, <1>3 DEF Row
<1>4. CASE row' = [row EXCEPT ![i].nextAttempt = "due"]
  BY <1>1, <1>4 DEF Row
<1>. QED  BY <1>2, <1>3, <1>4

\* The first statement of a claim never finds an exhausted row: whoever looks has the
\* budget within which the row still has an attempt.
LEMMA NothingExhausted ==
    ASSUME TypeOK, AttemptsInv, NEW p \in Proc, NEW i \in Intent, mode[p] = "verified"
    PROVE  ~ExhaustedNow(p, i)
<1>1. policy # 0 /\ configured[p] = policy
  BY DEF AttemptsInv, PolicyShared
<1>2. row[i].status \notin Terminal => row[i].attempts < policy
  BY <1>1 DEF AttemptsInv, AttemptsWithinPolicy
<1>3. row[i].attempts \in Nat /\ policy \in Nat
  BY DEF TypeOK, Row
<1>. QED  BY <1>1, <1>2, <1>3 DEF ExhaustedNow, Terminal

\* A lane moves on: it settles with an outcome that is counted, or begins to send.
LEMMA LaneStep ==
    ASSUME TypeOK, AttemptsInv, NEW p \in Proc, NEW i \in Intent, NEW phase \in Phase,
           Advance(p, i, phase), claim[p][i].phase # "none", phase # "none",
           phase = "accepted" => i \in accepted,
           \/ outcomes' = outcomes /\ phase = "sending"
           \/ outcomes' = outcomes /\ claim[p][i].phase = "accepted"
           \/ outcomes' = [outcomes EXCEPT ![i] = @ + 1],
           row' = row, policy' = policy, configured' = configured, mode' = mode,
           accepted' = accepted
    PROVE  AttemptsInv'
<1>1. /\ claim'[p][i].phase = phase
      /\ claim'[p][i].token = claim[p][i].token
      /\ claim'[p][i].attempts = claim[p][i].attempts
      /\ \A q \in Proc, j \in Intent : q # p \/ j # i => claim'[q][j] = claim[q][j]
  BY ClaimEffects
<1>2. /\ \A j \in Intent : outcomes[j] \in Nat /\ row[j].attempts \in Nat
      /\ \A j \in Intent : outcomes'[j] \in Nat /\ outcomes[j] <= outcomes'[j]
      /\ \/ phase = "sending" \/ claim[p][i].phase = "accepted"
         \/ outcomes'[i] = outcomes[i] + 1
  <2>1. /\ outcomes \in [Intent -> Nat]
        /\ \A j \in Intent : outcomes[j] \in Nat /\ row[j].attempts \in Nat
    BY DEF TypeOK, Row
  <2>2. CASE outcomes' = outcomes
    BY <2>1, <2>2
  <2>3. CASE outcomes' = [outcomes EXCEPT ![i] = @ + 1]
    <3>1. outcomes'[i] = outcomes[i] + 1 /\ \A j \in Intent : j # i => outcomes'[j] = outcomes[j]
      BY ONLY <2>1, <2>3
    <3>. QED  BY <2>1, <3>1
  <2>. QED  BY <2>2, <2>3
<1>3. SchemaChecks' /\ AttemptsWithinPolicy' /\ DeadLetterJustified' /\ PolicyShared'
  BY DEF AttemptsInv, SchemaChecks, AttemptsWithinPolicy, DeadLetterJustified, PolicyShared
<1>4. AttemptsAreObserved'
  BY <1>2 DEF AttemptsInv, AttemptsAreObserved
<1>5. BatchesInMode' /\ AnswersAreTaken'
  BY <1>1 DEF AttemptsInv, BatchesInMode, AnswersAreTaken
<1>6. LeaseIsCurrent'
  <2>. SUFFICES ASSUME NEW q \in Proc, NEW j \in Intent, Fenced(q, j)'
                PROVE  /\ claim'[q][j].attempts = row'[j].attempts
                       /\ claim'[q][j].phase \in {"accepted", "failed", "rejected"} =>
                            row'[j].attempts < outcomes'[j]
    BY DEF LeaseIsCurrent
  <2>1. Fenced(q, j)
    BY <1>1 DEF Fenced
  <2>2. row[j].attempts <= outcomes[j]
    BY DEF AttemptsInv, AttemptsAreObserved
  <2>3. /\ claim[q][j].attempts = row[j].attempts
        /\ claim[q][j].phase \in {"accepted", "failed", "rejected"} =>
             row[j].attempts < outcomes[j]
    BY <2>1 DEF AttemptsInv, LeaseIsCurrent
  <2>4. CASE q = p /\ j = i
    BY <2>4, <1>1, <1>2, <2>2, <2>3
  <2>5. CASE q # p \/ j # i
    BY <2>5, <1>1, <1>2, <2>3
  <2>. QED  BY <2>4, <2>5
<1>. QED  BY <1>3, <1>4, <1>5, <1>6 DEF AttemptsInv

\* A final update by the process that passes the fence counts the outcome it has seen.
LEMMA FinalStep ==
    ASSUME TypeOK, LeaseTokens, AttemptsInv, NEW p \in Proc, NEW i \in Intent, Fenced(p, i),
           claim[p][i].phase \in {"accepted", "failed", "rejected"},
           NEW r, row' = [row EXCEPT ![i] = r],
           r \in {DeliveredRow(i), FailedRow(p, i)},
           Release(p, i) \/ Advance(p, i, "failed"),
           policy' = policy, configured' = configured, mode' = mode,
           outcomes' = outcomes, accepted' = accepted
    PROVE  AttemptsInv'
<1>1. /\ mode[p] = "working" /\ policy # 0 /\ configured[p] = policy
      /\ row[i].attempts < policy /\ claim[p][i].attempts = row[i].attempts
      /\ row[i].attempts < outcomes[i]
  BY FencedWorks DEF AttemptsInv, LeaseIsCurrent
<1>2. row'[i] = r /\ \A j \in Intent : j # i => row'[j] = row[j]
  BY DEF TypeOK
<1>3. /\ \/ claim'[p][i] = NoClaim
         \/ claim'[p][i].phase = "failed"
      /\ \A q \in Proc, j \in Intent : q # p \/ j # i => claim'[q][j] = claim[q][j]
  BY ClaimEffects DEF Phase
<1>4. policy \in Nat /\ row[i].attempts \in Nat /\ outcomes[i] \in Nat
  BY DEF TypeOK, Row
<1>5. /\ r.attempts = row[i].attempts + 1
      /\ r.owner = NoOwner /\ r.token = 0 /\ r.lease = "none"
      /\ \/ r.status = "delivered" /\ r.error = "none"
         \/ r.status = "dead_letter" /\ r.error = "permanent"
         \/ r.status = "dead_letter" /\ r.error = "transient" /\ r.attempts = policy
         \/ r.status = "retry" /\ r.error \in {"transient", "permanent"} /\ r.attempts < policy
  BY <1>1, <1>4, RowEffects DEF LastAttempt
<1>6. SchemaChecks'
  BY <1>2, <1>4, <1>5 DEF AttemptsInv, SchemaChecks
<1>7. AttemptsWithinPolicy' /\ AttemptsAreObserved' /\ DeadLetterJustified'
  BY <1>1, <1>2, <1>4, <1>5
     DEF AttemptsInv, AttemptsWithinPolicy, AttemptsAreObserved, DeadLetterJustified, Terminal
<1>8. BatchesInMode' /\ AnswersAreTaken' /\ PolicyShared'
  BY <1>1, <1>3 DEF AttemptsInv, BatchesInMode, AnswersAreTaken, PolicyShared, NoClaim
<1>9. LeaseIsCurrent'
  BY <1>2, <1>3, <1>5 DEF AttemptsInv, LeaseIsCurrent, Fenced
<1>. QED  BY <1>6, <1>7, <1>8, <1>9 DEF AttemptsInv



\* Every step preserves it.
LEMMA AttemptsStep ==
    ASSUME DeliveryAssumption, TypeOK, LeaseTokens, AttemptsInv, [Next]_vars
    PROVE  AttemptsInv'
<1>. USE DeliveryAssumption
<1>a. /\ issued \in [Intent -> Nat] /\ row \in [Intent -> Row]
      /\ claim \in [Proc -> [Intent -> Claim]] /\ outcomes \in [Intent -> Nat]
      /\ policy \in Nat /\ mode \in [Proc -> Mode] /\ configured \in [Proc -> Nat \ {0}]
  BY DEF TypeOK
<1>b. /\ \A i \in Intent : row[i] \in Row /\ row[i].attempts \in Nat /\ issued[i] \in Nat
      /\ \A p \in Proc, i \in Intent : claim[p][i] \in Claim /\ claim[p][i].attempts \in Nat
  BY <1>a DEF Row, Claim
<1>1. ASSUME NEW p \in Proc, VerifyDeliveryPolicy(p) PROVE AttemptsInv'
  <2>1. /\ row' = row /\ claim' = claim /\ outcomes' = outcomes /\ accepted' = accepted
        /\ mode[p] = "starting" /\ configured' = configured
        /\ policy' = IF policy = 0 THEN configured[p] ELSE policy
        /\ mode' = [mode EXCEPT ![p] = IF policy' = configured[p] THEN "verified" ELSE "down"]
    BY <1>1 DEF VerifyDeliveryPolicy, providerVars
  <2>2. AttemptsWithinPolicy'
    BY <2>1, <1>a, <1>b DEF AttemptsInv, AttemptsWithinPolicy
  <2>3. DeadLetterJustified'
    BY <2>1, <1>a, <1>b DEF AttemptsInv, AttemptsWithinPolicy, DeadLetterJustified, SchemaChecks
  <2>4. PolicyShared'
    BY <2>1, <1>a DEF AttemptsInv, PolicyShared
  <2>5. BatchesInMode'
    BY <2>1, <1>a DEF AttemptsInv, BatchesInMode
  <2>. QED
    BY <2>1, <2>2, <2>3, <2>4, <2>5
       DEF AttemptsInv, SchemaChecks, AttemptsAreObserved, LeaseIsCurrent, Fenced, AnswersAreTaken
<1>2. ASSUME NEW p \in Proc, NEW batch \in SUBSET Intent, ClaimDeliveries(p, batch)
      PROVE  AttemptsInv'
  <2>1. /\ mode[p] = "verified"
        /\ policy' = policy /\ configured' = configured
        /\ outcomes' = outcomes /\ accepted' = accepted
        /\ mode' = [mode EXCEPT ![p] = IF batch = {} THEN "starting" ELSE "working"]
        /\ \A i \in batch : Claimable(p, i)
    BY <1>2 DEF ClaimDeliveries, providerVars
  <2>2. \A i \in Intent : row'[i] = IF i \in batch THEN ClaimedRow(p, i) ELSE row[i]
    BY <1>2, <2>1, NothingExhausted DEF ClaimDeliveries
  <2>3. /\ \A q \in Proc \ {p}, i \in Intent : claim'[q][i] = claim[q][i]
        /\ \A i \in Intent : IF i \in batch
              THEN claim'[p][i].phase = "queued" /\ claim'[p][i].attempts = row[i].attempts
              ELSE claim'[p][i].phase = "none" /\ claim'[p][i].token = 0
        /\ \A i \in batch : claim'[p][i].token = issued[i] + 1
    <3>1. claim' = [claim EXCEPT ![p] = [i \in Intent |->
                     IF i \in batch
                     THEN [phase |-> "queued", token |-> issued[i] + 1,
                           attempts |-> row[i].attempts, lease |-> "kept"]
                     ELSE NoClaim]]
      BY <1>2 DEF ClaimDeliveries
    <3>2. ASSUME NEW i \in batch
          PROVE  /\ claim'[p][i].phase = "queued"
                 /\ claim'[p][i].token = issued[i] + 1
                 /\ claim'[p][i].attempts = row[i].attempts
      <4>1. claim'[p][i] = [phase |-> "queued", token |-> issued[i] + 1,
                            attempts |-> row[i].attempts, lease |-> "kept"]
        BY <3>1, <1>a
      <4>. QED  BY <4>1
    <3>3. ASSUME NEW i \in Intent \ batch PROVE claim'[p][i] = NoClaim
      BY <3>1, <1>a
    <3>4. \A q \in Proc \ {p}, i \in Intent : claim'[q][i] = claim[q][i]
      BY <3>1, <1>a
    <3>5. \A i \in Intent \ batch : claim'[p][i].phase = "none" /\ claim'[p][i].token = 0
      BY <3>3 DEF NoClaim
    <3>. QED  BY <3>2, <3>4, <3>5
  <2>4. \A i \in batch : row[i].status \notin Terminal
    BY <2>1 DEF Claimable, Terminal
  <2>5. SchemaChecks'
    <3>1. \A i \in Intent : issued[i] + 1 # 0 /\ WorkerOf[p] # NoOwner
      BY <1>b DEF DeliveryAssumption
    <3>. QED  BY <2>2, <3>1, <1>b, RowEffects DEF AttemptsInv, SchemaChecks
  <2>6. AttemptsWithinPolicy' /\ AttemptsAreObserved' /\ DeadLetterJustified'
    BY <2>1, <2>2, <2>4, RowEffects
       DEF AttemptsInv, AttemptsWithinPolicy, AttemptsAreObserved, DeadLetterJustified, Terminal
  <2>7. BatchesInMode' /\ AnswersAreTaken'
    <3>1. \A i \in Intent : /\ claim'[p][i].phase = IF i \in batch THEN "queued" ELSE "none"
                            /\ i \notin batch => claim'[p][i].token = 0
      BY <2>3
    <3>2. \A q \in Proc : mode'[q] = IF q = p THEN (IF batch = {} THEN "starting" ELSE "working")
                                     ELSE mode[q]
      BY <2>1, <1>a
    <3>3. BatchesInMode'
      <4>. SUFFICES ASSUME NEW q \in Proc, NEW i \in Intent
                    PROVE  /\ mode'[q] # "working" => claim'[q][i].phase = "none"
                           /\ claim'[q][i].phase = "none" => claim'[q][i].token = 0
        BY DEF BatchesInMode
      <4>1. CASE q = p
        BY <4>1, <3>1, <3>2
      <4>2. CASE q # p
        BY <4>2, <2>3, <3>2 DEF AttemptsInv, BatchesInMode
      <4>. QED  BY <4>1, <4>2
    <3>4. AnswersAreTaken'
      BY <2>1, <2>3, <3>1 DEF AttemptsInv, AnswersAreTaken
    <3>. QED  BY <3>3, <3>4
  <2>8. PolicyShared'
    BY <2>1, <1>a DEF AttemptsInv, PolicyShared
  <2>9. LeaseIsCurrent'
    <3>. SUFFICES ASSUME NEW q \in Proc, NEW i \in Intent, Fenced(q, i)'
                  PROVE  /\ claim'[q][i].attempts = row'[i].attempts
                         /\ claim'[q][i].phase \in {"accepted", "failed", "rejected"} =>
                              row'[i].attempts < outcomes'[i]
      BY DEF LeaseIsCurrent
    <3>1. CASE q = p /\ i \in batch
      <4>1. row'[i] = ClaimedRow(p, i)
        BY <3>1, <2>2
      <4>2. claim'[p][i].phase = "queued" /\ claim'[p][i].attempts = row[i].attempts
        BY <3>1, <2>3
      <4>. QED  BY <3>1, <4>1, <4>2, RowEffects
    <3>2. CASE q = p /\ i \notin batch
      <4>1. row'[i] = row[i] /\ claim'[p][i].token = 0
        BY <3>2, <2>2, <2>3
      <4>. QED  BY <3>2, <4>1 DEF Fenced, AttemptsInv, SchemaChecks
    <3>3. CASE q # p /\ i \notin batch
      BY <3>3, <2>1, <2>2, <2>3 DEF Fenced, AttemptsInv, LeaseIsCurrent
    <3>4. CASE q # p /\ i \in batch      \* the token drawn is nobody else's
      <4>1. claim[q][i].token = issued[i] + 1
        BY <3>4, <2>2, <2>3, RowEffects DEF Fenced
      <4>2. claim[q][i].token <= issued[i]
        BY DEF LeaseTokens
      <4>. QED  BY <4>1, <4>2, <1>b
    <3>. QED  BY <3>1, <3>2, <3>3, <3>4
  <2>. QED  BY <2>5, <2>6, <2>7, <2>8, <2>9 DEF AttemptsInv
<1>3. ASSUME NEW p \in Proc, NEW i \in Intent, RenewDeliveryLease(p, i) PROVE AttemptsInv'
  <2>1. /\ policy' = policy /\ configured' = configured /\ mode' = mode
        /\ outcomes' = outcomes /\ accepted' = accepted
    BY <1>3 DEF RenewDeliveryLease, providerVars
  <2>2. \/ row' = row
        \/ row' = [row EXCEPT ![i].lease = "live"] /\ row[i].status = "processing"
    BY <1>3 DEF RenewDeliveryLease, Fenced
  <2>3. claim' = claim \/ claim' = [claim EXCEPT ![p][i].lease = "lost"]
    BY <1>3 DEF RenewDeliveryLease
  <2>4. \A j \in Intent : /\ row'[j].status = row[j].status /\ row'[j].token = row[j].token
                          /\ row'[j].owner = row[j].owner /\ row'[j].error = row[j].error
                          /\ row'[j].attempts = row[j].attempts
                          /\ \/ row'[j].lease = row[j].lease
                             \/ row'[j].lease # "none" /\ row[j].status = "processing"
    BY <2>2, <1>a, LeaseWritten
  <2>5. \A q \in Proc, j \in Intent :
              /\ claim'[q][j].phase = claim[q][j].phase
              /\ claim'[q][j].token = claim[q][j].token
              /\ claim'[q][j].attempts = claim[q][j].attempts
    <3>. SUFFICES ASSUME NEW q \in Proc, NEW j \in Intent
                  PROVE  /\ claim'[q][j].phase = claim[q][j].phase
                         /\ claim'[q][j].token = claim[q][j].token
                         /\ claim'[q][j].attempts = claim[q][j].attempts
      OBVIOUS
    <3>1. claim[q][j] \in Claim
      BY <1>b
    <3>2. CASE claim' = [claim EXCEPT ![p][i].lease = "lost"]
      BY <3>1, <3>2, <1>a DEF Claim
    <3>. QED  BY <2>3, <3>2
  <2>6. SchemaChecks'
    BY <2>4 DEF AttemptsInv, SchemaChecks
  <2>. QED  BY <2>1, <2>4, <2>5, <2>6, ClockStep
<1>4. ASSUME NEW i \in Intent, LeaseExpires(i) \/ BackoffElapses(i) PROVE AttemptsInv'
  <2>1. /\ policy' = policy /\ configured' = configured /\ mode' = mode /\ claim' = claim
        /\ outcomes' = outcomes /\ accepted' = accepted
    BY <1>4 DEF LeaseExpires, BackoffElapses, procVars, providerVars
  <2>2. \/ row' = [row EXCEPT ![i].nextAttempt = "due"]
        \/ row' = [row EXCEPT ![i].lease = "expired"] /\ row[i].status = "processing"
    BY <1>4 DEF LeaseExpires, BackoffElapses
  <2>3. \A j \in Intent : /\ row'[j].status = row[j].status /\ row'[j].token = row[j].token
                          /\ row'[j].owner = row[j].owner /\ row'[j].error = row[j].error
                          /\ row'[j].attempts = row[j].attempts
                          /\ \/ row'[j].lease = row[j].lease
                             \/ row'[j].lease # "none" /\ row[j].status = "processing"
    BY <2>2, <1>a, LeaseWritten
  <2>4. SchemaChecks'
    BY <2>3 DEF AttemptsInv, SchemaChecks
  <2>. QED  BY <2>1, <2>3, <2>4, ClockStep
<1>5. ASSUME NEW p \in Proc, NEW i \in Intent, Dispatch(p, i) PROVE AttemptsInv'
  <2>1. /\ row' = row /\ policy' = policy /\ configured' = configured /\ mode' = mode
        /\ accepted' = accepted /\ claim[p][i].phase = "queued"
    BY <1>5 DEF Dispatch, rowVars
  <2>2. \/ Release(p, i) /\ outcomes' = outcomes
        \/ Advance(p, i, "rejected") /\ outcomes' = [outcomes EXCEPT ![i] = @ + 1]
        \/ Advance(p, i, "sending") /\ outcomes' = outcomes
    BY <1>5 DEF Dispatch
  <2>3. CASE Release(p, i) /\ outcomes' = outcomes
    BY <2>1, <2>3, ClaimEffects, QuietStep
  <2>4. CASE Advance(p, i, "rejected") /\ outcomes' = [outcomes EXCEPT ![i] = @ + 1]
    BY <2>1, <2>4, LaneStep DEF Phase
  <2>5. CASE Advance(p, i, "sending") /\ outcomes' = outcomes
    BY <2>1, <2>5, LaneStep DEF Phase
  <2>. QED  BY <2>2, <2>3, <2>4, <2>5
<1>6. ASSUME NEW p \in Proc, NEW i \in Intent, SendSettles(p, i) PROVE AttemptsInv'
  <2>1. /\ row' = row /\ policy' = policy /\ configured' = configured /\ mode' = mode
        /\ accepted' = accepted /\ claim[p][i].phase = "sending"
        /\ outcomes' = [outcomes EXCEPT ![i] = @ + 1]
    BY <1>6 DEF SendSettles, rowVars
  <2>2. \E phase \in Phase : /\ Advance(p, i, phase) /\ phase # "none"
                             /\ phase = "accepted" => i \in accepted
    BY <1>6 DEF SendSettles, Phase
  <2>. QED  BY <2>1, <2>2, LaneStep
<1>7. ASSUME NEW p \in Proc, NEW i \in Intent, SendAborted(p, i) PROVE AttemptsInv'
  <2>1. /\ row' = row /\ policy' = policy /\ configured' = configured /\ mode' = mode
        /\ accepted' = accepted /\ outcomes' = outcomes /\ Release(p, i)
    BY <1>7 DEF SendAborted, rowVars, providerVars
  <2>. QED  BY <2>1, ClaimEffects, QuietStep
<1>8. ASSUME NEW p \in Proc, NEW i \in Intent, CompleteDelivery(p, i) PROVE AttemptsInv'
  <2>1. /\ policy' = policy /\ configured' = configured /\ mode' = mode
        /\ accepted' = accepted /\ outcomes' = outcomes /\ claim[p][i].phase = "accepted"
        /\ Release(p, i) \/ Advance(p, i, "failed")
        /\ \/ row' = row
           \/ Fenced(p, i) /\ row' = [row EXCEPT ![i] = DeliveredRow(i)]
    BY <1>8 DEF CompleteDelivery, providerVars
  <2>2. CASE row' = row /\ Release(p, i)
    BY <2>1, <2>2, ClaimEffects, QuietStep
  <2>3. CASE row' = row /\ Advance(p, i, "failed")
    BY <2>1, <2>3, LaneStep DEF Phase
  <2>4. CASE Fenced(p, i) /\ row' = [row EXCEPT ![i] = DeliveredRow(i)]
    BY <2>1, <2>4, FinalStep
  <2>. QED  BY <2>1, <2>2, <2>3, <2>4
<1>9. ASSUME NEW p \in Proc, NEW i \in Intent, FailDelivery(p, i) PROVE AttemptsInv'
  <2>1. /\ policy' = policy /\ configured' = configured /\ mode' = mode
        /\ accepted' = accepted /\ outcomes' = outcomes
        /\ claim[p][i].phase \in {"failed", "rejected"} /\ Release(p, i)
        /\ \/ row' = row
           \/ Fenced(p, i) /\ row' = [row EXCEPT ![i] = FailedRow(p, i)]
    BY <1>9 DEF FailDelivery, providerVars
  <2>2. CASE row' = row
    BY <2>1, <2>2, ClaimEffects, QuietStep
  <2>3. CASE Fenced(p, i) /\ row' = [row EXCEPT ![i] = FailedRow(p, i)]
    BY <2>1, <2>3, FinalStep
  <2>. QED  BY <2>1, <2>2, <2>3
<1>10. ASSUME NEW p \in Proc,
              BatchEnds(p) \/ LeaveLoop(p) \/ Restart(p) \/ Stop(p) \/ Crash(p)
       PROVE  AttemptsInv'
  <2>1. /\ row' = row /\ policy' = policy /\ configured' = configured
        /\ accepted' = accepted /\ outcomes' = outcomes
    BY <1>10 DEF BatchEnds, LeaveLoop, Restart, Stop, Crash, rowVars, providerVars
  <2>2. CASE BatchEnds(p) \/ Crash(p)
    <3>1. claim' = [claim EXCEPT ![p] = NoClaims]
      BY <2>2 DEF BatchEnds, Crash
    <3>2. \A q \in Proc : mode'[q] = IF q = p THEN mode'[p] ELSE mode[q]
      BY <2>2, <1>a DEF BatchEnds, Crash
    <3>3. mode'[p] \in {"down", "starting"}
      BY <2>2, <1>a DEF BatchEnds, Crash
    <3>. QED  BY <2>1, <3>1, <3>2, <3>3, <1>a, QuietStep DEF NoClaims
  <2>3. CASE LeaveLoop(p) \/ Restart(p) \/ Stop(p)
    <3>1. claim' = claim
      BY <2>3 DEF LeaveLoop, Restart, Stop
    <3>2. \/ mode' = mode
          \/ mode[p] # "working" /\ mode' = [mode EXCEPT ![p] = "down"]
          \/ mode[p] # "working" /\ mode' = [mode EXCEPT ![p] = "starting"]
      BY <2>3 DEF LeaveLoop, Restart, Stop
    <3>. QED  BY <2>1, <3>1, <3>2, <1>a, QuietStep
  <2>. QED  BY <1>10, <2>2, <2>3
<1>11. ASSUME NEW i \in Intent, ProviderAccepts(i) PROVE AttemptsInv'
  BY <1>11, QuietStep DEF ProviderAccepts, rowVars, procVars
<1>12. CASE UNCHANGED vars
  BY <1>12, QuietStep DEF vars
<1>. QED
  BY <1>1, <1>2, <1>3, <1>4, <1>5, <1>6, <1>7, <1>8, <1>9, <1>10, <1>11, <1>12 DEF Next

-----------------------------------------------------------------------------
(* What the workers guarantee.                                             *)

\* The budget is shared and every attempt is spent on an outcome somebody observed.
LEMMA AttemptsKept ==
    ASSUME DeliveryAssumption
    PROVE  Spec => [](TypeOK /\ LeaseTokens /\ AttemptsInv)
<1>1. Init => LeaseTokens /\ AttemptsInv
  BY DEF Init, LeaseTokens, NoClaims, NoClaim, AttemptsInv, SchemaChecks,
         AttemptsWithinPolicy, AttemptsAreObserved, DeadLetterJustified, BatchesInMode,
         PolicyShared, LeaseIsCurrent, Fenced, AnswersAreTaken
<1>2. TypeOK /\ LeaseTokens /\ AttemptsInv /\ [Next]_vars => LeaseTokens' /\ AttemptsInv'
  BY TokenStep, AttemptsStep
<1>3. Spec => []TypeOK
  BY TypeCorrect
<1>. QED  BY <1>1, <1>2, <1>3, PTL DEF Spec

\* The inductive invariant holds in every reachable state.
THEOREM AttemptsInvariant == DeliveryAssumption => (Spec => []AttemptsInv)
<1>. SUFFICES ASSUME DeliveryAssumption PROVE Spec => []AttemptsInv
  OBVIOUS
<1>1. Spec => [](TypeOK /\ LeaseTokens /\ AttemptsInv)
  BY AttemptsKept
<1>. QED  BY <1>1, PTL

\* No statement of any worker, in any order with those of the others, makes a row
\* that a CHECK constraint of the table refuses.
THEOREM RowsPassTheChecks == DeliveryAssumption => (Spec => []SchemaChecks)
<1>1. AttemptsInv => SchemaChecks
  BY DEF AttemptsInv
<1>. QED  BY <1>1, AttemptsInvariant, PTL

\* An open row always has an attempt left in the persisted budget, and no row exceeds it.
THEOREM BudgetIsKept == DeliveryAssumption => (Spec => []AttemptsWithinPolicy)
<1>1. AttemptsInv => AttemptsWithinPolicy
  BY DEF AttemptsInv
<1>. QED  BY <1>1, AttemptsInvariant, PTL

\* Crashes, lost leases, shutdowns and repeated claims consume no attempt.
THEOREM AttemptsCountOutcomes == DeliveryAssumption => (Spec => []AttemptsAreObserved)
<1>1. AttemptsInv => AttemptsAreObserved
  BY DEF AttemptsInv
<1>. QED  BY <1>1, AttemptsInvariant, PTL

\* Only a permanent error or a spent budget gives a delivery up.
THEOREM GivenUpForAReason == DeliveryAssumption => (Spec => []DeadLetterJustified)
<1>1. AttemptsInv => DeadLetterJustified
  BY DEF AttemptsInv
<1>. QED  BY <1>1, AttemptsInvariant, PTL

-----------------------------------------------------------------------------
(* The workers implement the outbox.                                       *)

\* What the outbox sees of a row.
Seen(r) == IF r.status \in Terminal THEN r.status ELSE "open"

\* A step that leaves what the outbox sees alone is a stutter of it.
LEMMA Invisible ==
    ASSUME \A i \in Intent : Seen(row'[i]) = Seen(row[i]) /\ row'[i].attempts = row[i].attempts,
           accepted' = accepted, policy' = policy
    PROVE  UNCHANGED Outbox!vars
BY DEF Outbox!vars, Seen

\* An update that counts an attempt of an open row is a try of the outbox.
LEMMA TryStep ==
    ASSUME TypeOK, NEW i \in Intent, NEW r, row' = [row EXCEPT ![i] = r],
           row[i].status \notin Terminal, row[i].attempts < policy,
           r.attempts = row[i].attempts + 1,
           accepted' = accepted, policy' = policy
    PROVE  Outbox!Try(i, Seen(r))
<1>1. row \in [Intent -> Row]
  BY DEF TypeOK
<1>2. /\ row'[i] = r
      /\ \A j \in Intent : j # i => row'[j] = row[j]
  BY <1>1
<1>3. \A j \in Intent : row'[j].attempts = IF j = i THEN row[i].attempts + 1
                                                      ELSE row[j].attempts
  BY <1>2
<1>4. \A j \in Intent : Seen(row'[j]) = IF j = i THEN Seen(r) ELSE Seen(row[j])
  BY <1>2
<1>5. [j \in Intent |-> row'[j].attempts]
        = [[j \in Intent |-> row[j].attempts] EXCEPT ![i] = @ + 1]
  BY <1>3
<1>6. [j \in Intent |-> Seen(row'[j])]
        = [[j \in Intent |-> Seen(row[j])] EXCEPT ![i] = Seen(r)]
  BY <1>4
<1>. QED  BY <1>5, <1>6 DEF Outbox!Try, Seen

\* Each step of the workers is a step of the outbox or a stutter.
LEMMA OutboxStep ==
    ASSUME DeliveryAssumption, TypeOK, LeaseTokens, AttemptsInv, [Next]_vars
    PROVE  [Outbox!Next]_(Outbox!vars)
<1>. USE DeliveryAssumption
<1>a. /\ row \in [Intent -> Row] /\ policy \in Nat
      /\ \A i \in Intent : row[i] \in Row /\ row[i].attempts \in Nat
      /\ configured \in [Proc -> Nat \ {0}]
  BY DEF TypeOK, Row
<1>1. ASSUME NEW p \in Proc, VerifyDeliveryPolicy(p) PROVE [Outbox!Next]_(Outbox!vars)
  <2>1. /\ row' = row /\ accepted' = accepted
        /\ policy' = IF policy = 0 THEN configured[p] ELSE policy
    BY <1>1 DEF VerifyDeliveryPolicy, providerVars
  <2>2. CASE policy = 0
    BY <2>1, <2>2, <1>a DEF Outbox!Next, Outbox!FixBudget
  <2>3. CASE policy # 0
    BY <2>1, <2>3, Invisible
  <2>. QED  BY <2>2, <2>3
<1>2. ASSUME NEW p \in Proc, NEW batch \in SUBSET Intent, ClaimDeliveries(p, batch)
      PROVE  [Outbox!Next]_(Outbox!vars)
  <2>1. mode[p] = "verified" /\ policy' = policy /\ accepted' = accepted
    BY <1>2 DEF ClaimDeliveries, providerVars
  <2>2. \A i \in Intent : row'[i] = IF i \in batch THEN ClaimedRow(p, i) ELSE row[i]
    BY <1>2, <2>1, NothingExhausted DEF ClaimDeliveries
  <2>3. \A i \in batch : row[i].status \notin Terminal
    BY <1>2 DEF ClaimDeliveries, Claimable, Terminal
  <2>4. \A i \in batch : ClaimedRow(p, i).status \notin Terminal
    BY RowEffects DEF Terminal
  <2>5. \A i \in Intent : Seen(row'[i]) = Seen(row[i]) /\ row'[i].attempts = row[i].attempts
    BY <2>2, <2>3, <2>4, RowEffects DEF Seen
  <2>. QED  BY <2>1, <2>5, Invisible
<1>3. ASSUME NEW i \in Intent,
             \/ \E p \in Proc : RenewDeliveryLease(p, i)
             \/ LeaseExpires(i) \/ BackoffElapses(i)
      PROVE  [Outbox!Next]_(Outbox!vars)
  <2>1. policy' = policy /\ accepted' = accepted
    BY <1>3 DEF RenewDeliveryLease, LeaseExpires, BackoffElapses, providerVars
  <2>2. \/ row' = row
        \/ row' = [row EXCEPT ![i].nextAttempt = "due"]
        \/ row' = [row EXCEPT ![i].lease = "live"] /\ row[i].status = "processing"
        \/ row' = [row EXCEPT ![i].lease = "expired"] /\ row[i].status = "processing"
    BY <1>3 DEF RenewDeliveryLease, Fenced, LeaseExpires, BackoffElapses
  <2>3. \A j \in Intent : row'[j].status = row[j].status /\ row'[j].attempts = row[j].attempts
    BY <2>2, <1>a, LeaseWritten
  <2>. QED  BY <2>1, <2>3, Invisible DEF Seen
<1>4. ASSUME NEW p \in Proc, NEW i \in Intent,
             Dispatch(p, i) \/ SendSettles(p, i) \/ SendAborted(p, i)
      PROVE  [Outbox!Next]_(Outbox!vars)
  <2>1. row' = row /\ policy' = policy /\ accepted' = accepted
    BY <1>4 DEF Dispatch, SendSettles, SendAborted, rowVars, providerVars
  <2>. QED  BY <2>1, Invisible
<1>5. ASSUME NEW i \in Intent, ProviderAccepts(i) PROVE [Outbox!Next]_(Outbox!vars)
  <2>1. Outbox!Take(i)
    BY <1>5 DEF ProviderAccepts, rowVars, Outbox!Take
  <2>. QED  BY <2>1 DEF Outbox!Next
<1>6. ASSUME NEW p \in Proc, NEW i \in Intent, CompleteDelivery(p, i)
      PROVE  [Outbox!Next]_(Outbox!vars)
  <2>1. policy' = policy /\ accepted' = accepted /\ claim[p][i].phase = "accepted"
    BY <1>6 DEF CompleteDelivery, providerVars
  <2>2. CASE row' = row
    BY <2>1, <2>2, Invisible
  <2>3. CASE Fenced(p, i) /\ row' = [row EXCEPT ![i] = DeliveredRow(i)]
    <3>1. row[i].attempts < policy /\ row[i].status \notin Terminal
      BY <2>3, FencedWorks DEF Fenced, Terminal
    <3>2. DeliveredRow(i).attempts = row[i].attempts + 1 /\ Seen(DeliveredRow(i)) = "delivered"
      BY RowEffects DEF Seen, Terminal
    <3>3. Outbox!Try(i, "delivered")
      BY <2>1, <2>3, <3>1, <3>2, TryStep
    <3>4. i \in accepted
      BY <2>1 DEF AttemptsInv, AnswersAreTaken
    <3>. QED  BY <3>3, <3>4 DEF Outbox!Next, Outbox!Deliver
  <2>. QED  BY <1>6, <2>2, <2>3 DEF CompleteDelivery
<1>7. ASSUME NEW p \in Proc, NEW i \in Intent, FailDelivery(p, i)
      PROVE  [Outbox!Next]_(Outbox!vars)
  <2>1. policy' = policy /\ accepted' = accepted
    BY <1>7 DEF FailDelivery, providerVars
  <2>2. CASE row' = row
    BY <2>1, <2>2, Invisible
  <2>3. CASE Fenced(p, i) /\ row' = [row EXCEPT ![i] = FailedRow(p, i)]
    <3>1. /\ row[i].attempts < policy /\ row[i].status \notin Terminal
          /\ configured[p] = policy /\ claim[p][i].attempts = row[i].attempts
      BY <2>3, FencedWorks DEF Fenced, Terminal
    <3>2. FailedRow(p, i).attempts = row[i].attempts + 1
      BY RowEffects
    <3>3. CASE FailedRow(p, i).status = "dead_letter"
      <4>1. Seen(FailedRow(p, i)) = "dead_letter"
        BY <3>3 DEF Seen, Terminal
      <4>2. Outbox!Try(i, "dead_letter")
        BY <2>1, <2>3, <3>1, <3>2, <4>1, TryStep
      <4>. QED  BY <4>2 DEF Outbox!Next, Outbox!GiveUp
    <3>4. CASE FailedRow(p, i).status # "dead_letter"
      <4>1. FailedRow(p, i).status = "retry" /\ ~LastAttempt(p, i)
        BY <3>4, RowEffects
      <4>2. row[i].attempts + 1 < policy
        BY <4>1, <3>1, <1>a DEF LastAttempt
      <4>3. Seen(FailedRow(p, i)) = "open"
        BY <4>1 DEF Seen, Terminal
      <4>4. Outbox!Try(i, "open")
        BY <2>1, <2>3, <3>1, <3>2, <4>3, TryStep
      <4>. QED  BY <4>2, <4>4 DEF Outbox!Next, Outbox!Miss
    <3>. QED  BY <3>3, <3>4
  <2>. QED  BY <1>7, <2>2, <2>3 DEF FailDelivery
<1>8. ASSUME NEW p \in Proc,
             BatchEnds(p) \/ LeaveLoop(p) \/ Restart(p) \/ Stop(p) \/ Crash(p)
      PROVE  [Outbox!Next]_(Outbox!vars)
  <2>1. row' = row /\ policy' = policy /\ accepted' = accepted
    BY <1>8 DEF BatchEnds, LeaveLoop, Restart, Stop, Crash, rowVars, providerVars
  <2>. QED  BY <2>1, Invisible
<1>9. CASE UNCHANGED vars
  BY <1>9, Invisible DEF vars
<1>. QED  BY <1>1, <1>2, <1>3, <1>4, <1>5, <1>6, <1>7, <1>8, <1>9 DEF Next

\* Seen as open, delivered or given-up intents with their tries, the workers, whatever
\* crashes, leases, retries and shutdowns they go through, take only the outbox's steps.
THEOREM WorkersImplementOutbox == DeliveryAssumption => (Spec => ImplementsOutbox)
<1>. SUFFICES ASSUME DeliveryAssumption PROVE Spec => ImplementsOutbox
  OBVIOUS
<1>1. Init => Outbox!Init
  BY DEF Init, Outbox!Init, Terminal
<1>2. TypeOK /\ LeaseTokens /\ AttemptsInv /\ [Next]_vars => [Outbox!Next]_(Outbox!vars)
  BY OutboxStep
<1>3. Spec => [](TypeOK /\ LeaseTokens /\ AttemptsInv)
  BY AttemptsKept
<1>. QED  BY <1>1, <1>2, <1>3, PTL DEF Spec, ImplementsOutbox, Outbox!Spec
=============================================================================
