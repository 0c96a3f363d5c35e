--------------------------- MODULE BillingProofs ---------------------------
(***************************************************************************)
(* The invariants of module Billing hold for every set of subscriptions,   *)
(* attempts, charge ids and keys and every bound. They are proved in       *)
(* layers: each invariant is inductive relative to those proved before it. *)
(***************************************************************************)
EXTENDS Billing, FiniteSetTheorems, TLAPS

-----------------------------------------------------------------------------
(* Types *)

\* Every transaction keeps the rows well typed.
LEMMA TypeStep == TypeOK /\ [Next]_vars => TypeOK'
<1> SUFFICES ASSUME TypeOK, [Next]_vars PROVE TypeOK'
  OBVIOUS
<1> USE BillingAssumption DEF TypeOK
<1>1. CASE UNCHANGED vars
  BY <1>1 DEF vars, subVars, invVars, attVars
<1>2. ASSUME NEW s \in Subs, CreateActive(s) PROVE TypeOK'
  BY <1>2 DEF CreateActive, Bill, attVars, SubscriptionStatus, InvoiceStatus,
     Invoices, Periods
<1>3. ASSUME NEW s \in Subs, CreateTrial(s) PROVE TypeOK'
  BY <1>3 DEF CreateTrial, invVars, attVars, SubscriptionStatus
<1>4. ASSUME NEW s \in Subs, PeriodEnds(s) PROVE TypeOK'
  BY <1>4 DEF PeriodEnds, invVars, attVars
<1>5. ASSUME NEW s \in Subs, Activate(s) PROVE TypeOK'
  BY <1>5 DEF Activate, BeginPeriod, Bill, attVars, SubscriptionStatus,
     InvoiceStatus, Invoices, Periods
<1>6. ASSUME NEW s \in Subs, Renew(s) PROVE TypeOK'
  BY <1>6 DEF Renew, BeginPeriod, Bill, attVars, InvoiceStatus, Invoices, Periods
<1>7. ASSUME NEW s \in Subs, Cancel(s) PROVE TypeOK'
  BY <1>7 DEF Cancel, CloseOpen, attVars, SubscriptionStatus, InvoiceStatus,
     CancellationReason
<1>8. ASSUME NEW i \in Invoices, Reissue(i) PROVE TypeOK'
  BY <1>8 DEF Reissue, subVars, attVars, InvoiceStatus
<1>9. ASSUME NEW i \in Invoices, GiveUp(i) PROVE TypeOK'
  BY <1>9 DEF GiveUp, CloseOpen, attVars, SubscriptionStatus, InvoiceStatus,
     CancellationReason
<1>10. ASSUME NEW i \in Invoices, Dispatch(i) PROVE TypeOK'
  BY <1>10 DEF Dispatch, subVars, attVars
<1>11. ASSUME NEW a \in Attempts, NEW i \in Invoices, NEW k \in Keys \cup {NoKey},
              OpenAttempt(a, i, k)
       PROVE TypeOK'
  BY <1>11 DEF OpenAttempt, subVars, invVars, PaymentStatus
<1>12. ASSUME NEW a \in Attempts, NEW ok \in BOOLEAN, NEW c \in Charges,
              Settle(a, ok, c)
       PROVE TypeOK'
  <2>0. confirmed' \subseteq Attempts
    BY <1>12 DEF Settle
  <2>1. CASE SettleNothing(a, ok, c)
    BY <2>0, <2>1 DEF SettleNothing, subVars, invVars
  <2>2. CASE SettleMismatch(a, ok, c)
    BY <2>0, <2>2 DEF SettleMismatch, Flag, subVars, invVars
  <2>3. CASE SettleTaken(a, c)
    BY <2>0, <2>3 DEF SettleTaken, Flag, subVars, invVars
  <2>4. CASE SettleStray(a, c)
    BY <2>0, <2>4 DEF SettleStray, SettleBound, Flag, subVars, invVars
  <2>5. CASE SettlePaid(a, c)
    BY <2>0, <2>5 DEF SettlePaid, SettleBound, SubscriptionStatus, InvoiceStatus,
       PaymentStatus
  <2>6. CASE SettleFailed(a, c)
    BY <2>0, <2>6 DEF SettleFailed, SettleBound, SubscriptionStatus,
       InvoiceStatus, PaymentStatus
  <2> QED
    BY <1>12, <2>1, <2>2, <2>3, <2>4, <2>5, <2>6 DEF Settle
<1> QED
  BY <1>1, <1>2, <1>3, <1>4, <1>5, <1>6, <1>7, <1>8, <1>9, <1>10, <1>11, <1>12
  DEF Next

\* Every reachable state is well typed.
THEOREM Typing == Spec => []TypeOK
<1>1. Init => TypeOK
  BY BillingAssumption DEF Init, TypeOK
<1> QED
  BY <1>1, TypeStep, PTL DEF Spec

-----------------------------------------------------------------------------
(* Rows: which rows exist together *)

\* A subscription that has not begun a period has none.
Begun == \A s \in Subs : subscription[s] \in {"none", "trial"} => period[s] = 0

\* An attempt is on an invoice that exists and was made for one of its issues.
OnRows ==
  \A a \in Attempts :
    /\ attempt[a] = "none" => of[a] = NoInvoice
    /\ attempt[a] # "none" => /\ of[a] \in Invoices
                             /\ invoice[of[a]] # "none"
                             /\ round[a] <= issue[of[a]]

Rows == Begun /\ PeriodsBilled /\ OnRows

\* Billing a period begun just now creates its invoice and no other.
LEMMA BillRows ==
  ASSUME TypeOK, Rows, NEW s \in Subs, NEW p \in Periods,
         p = period[s] + 1,
         period' = [period EXCEPT ![s] = p],
         Bill(s, p), UNCHANGED attVars
  PROVE  PeriodsBilled' /\ OnRows'
<1>1. ASSUME NEW t \in Subs, NEW q \in Periods
      PROVE  invoice'[<<t, q>>] # "none" <=> q <= period'[t]
  <2>1. <<t, q>> \in Invoices /\ (<<t, q>> = <<s, p>> <=> t = s /\ q = p)
    BY DEF Invoices
  <2>2. invoice[<<t, q>>] # "none" <=> q <= period[t]
    BY DEF Rows, PeriodsBilled
  <2>3. CASE t = s /\ q = p
    BY <2>1, <2>3 DEF TypeOK, Bill, Periods
  <2>4. CASE t = s /\ q # p
    <3>1. invoice'[<<t, q>>] = invoice[<<t, q>>]
      BY <2>1, <2>4 DEF TypeOK, Bill
    <3>2. q <= period'[t] <=> q <= period[t]
      BY <2>4, BillingAssumption DEF TypeOK, Periods
    <3> QED
      BY <2>2, <3>1, <3>2
  <2>5. CASE t # s
    BY <2>1, <2>2, <2>5 DEF TypeOK, Bill
  <2> QED
    BY <2>3, <2>4, <2>5
<1>2. invoice[<<s, p>>] = "none"
  BY DEF TypeOK, Rows, PeriodsBilled
<1>3. <<s, p>> \in Invoices
  BY DEF Invoices
<1>4. OnRows'
  BY <1>2, <1>3 DEF TypeOK, Rows, OnRows, Bill, attVars
<1> QED
  BY <1>1, <1>4 DEF PeriodsBilled

\* No step bills a period twice, or opens an attempt on no invoice.
LEMMA RowsStep == TypeOK /\ Rows /\ [Next]_vars => Rows'
<1> SUFFICES ASSUME TypeOK, Rows, [Next]_vars PROVE Rows'
  OBVIOUS
<1>1. CASE UNCHANGED vars
  BY <1>1 DEF Rows, Begun, PeriodsBilled, OnRows, vars, subVars, invVars, attVars
<1>2. ASSUME NEW s \in Subs, CreateActive(s) PROVE Rows'
  <2>1. /\ 1 \in Periods /\ 1 = period[s] + 1
        /\ period' = [period EXCEPT ![s] = 1]
        /\ Bill(s, 1)
        /\ UNCHANGED attVars
    BY <1>2, BillingAssumption DEF CreateActive, Rows, Begun, Periods
  <2>2. Begun'
    BY <1>2 DEF CreateActive, Rows, Begun, TypeOK
  <2>3. PeriodsBilled' /\ OnRows'
    BY <2>1, BillRows
  <2> QED
    BY <2>2, <2>3 DEF Rows
<1>3. ASSUME NEW s \in Subs, CreateTrial(s) PROVE Rows'
  BY <1>3 DEF CreateTrial, invVars, attVars, Rows, Begun, PeriodsBilled, OnRows,
     TypeOK
<1>4. ASSUME NEW s \in Subs, PeriodEnds(s) PROVE Rows'
  BY <1>4 DEF PeriodEnds, invVars, attVars, Rows, Begun, PeriodsBilled, OnRows
<1>5. ASSUME NEW s \in Subs, Activate(s) \/ Renew(s) PROVE Rows'
  <2>1. /\ period[s] + 1 \in Periods
        /\ period' = [period EXCEPT ![s] = period[s] + 1]
        /\ Bill(s, period[s] + 1)
        /\ UNCHANGED attVars
    BY <1>5, BillingAssumption DEF Activate, Renew, BeginPeriod, TypeOK, Periods
  <2>2. Begun'
    BY <1>5 DEF Activate, Renew, BeginPeriod, Rows, Begun, TypeOK
  <2> QED
    BY <2>1, <2>2, BillRows DEF Rows
<1>6. ASSUME NEW s \in Subs, Cancel(s) PROVE Rows'
  BY <1>6 DEF Cancel, CloseOpen, Open, attVars, Rows, Begun, PeriodsBilled,
     OnRows, TypeOK, Invoices
<1>7. ASSUME NEW i \in Invoices, Reissue(i) PROVE Rows'
  BY <1>7 DEF Reissue, subVars, attVars, Rows, Begun, PeriodsBilled, OnRows,
     TypeOK, Invoices
<1>8. ASSUME NEW i \in Invoices, GiveUp(i) PROVE Rows'
  BY <1>8 DEF GiveUp, CloseOpen, Open, attVars, Rows, Begun, PeriodsBilled,
     OnRows, TypeOK, Invoices
<1>9. ASSUME NEW i \in Invoices, Dispatch(i) PROVE Rows'
  BY <1>9 DEF Dispatch, subVars, attVars, Rows, Begun, PeriodsBilled, OnRows
<1>10. ASSUME NEW a \in Attempts, NEW i \in Invoices, NEW k \in Keys \cup {NoKey},
              OpenAttempt(a, i, k)
       PROVE Rows'
  BY <1>10 DEF OpenAttempt, MayOpen, Payable, subVars, invVars, Rows, Begun,
     PeriodsBilled, OnRows, TypeOK
<1>11. ASSUME NEW a \in Attempts, NEW ok \in BOOLEAN, NEW c \in Charges,
              Settle(a, ok, c)
       PROVE Rows'
  <2>0. attempt[a] # "none" /\ of[a] \in Invoices /\ invoice[of[a]] # "none"
    BY <1>11 DEF Settle, Rows, OnRows
  <2>1. CASE \/ SettleNothing(a, ok, c) \/ SettleMismatch(a, ok, c)
             \/ SettleTaken(a, c) \/ SettleStray(a, c)
    BY <2>1 DEF SettleNothing, SettleMismatch, SettleTaken, SettleStray, Flag,
       subVars, invVars, Rows, Begun, PeriodsBilled, OnRows
  <2>2. CASE SettlePaid(a, c)
    BY <2>0, <2>2 DEF SettlePaid, Rows, Begun, PeriodsBilled, OnRows, TypeOK,
       Invoices
  <2>3. CASE SettleFailed(a, c)
    BY <2>0, <2>3 DEF SettleFailed, Rows, Begun, PeriodsBilled, OnRows, TypeOK,
       Invoices
  <2> QED
    BY <1>11, <2>1, <2>2, <2>3 DEF Settle
<1> QED
  BY <1>1, <1>2, <1>3, <1>4, <1>5, <1>6, <1>7, <1>8, <1>9, <1>10, <1>11 DEF Next

\* Each period begun is billed by one invoice, and every attempt is on one.
THEOREM RowsInvariant == Spec => [](TypeOK /\ Rows)
<1>1. Init => Rows
  BY BillingAssumption DEF Init, Rows, Begun, PeriodsBilled, OnRows, Periods, Invoices
<1> QED
  BY <1>1, Typing, RowsStep, PTL DEF Spec

\* No period is billed twice, and none that was begun goes without its invoice.
THEOREM PeriodsBilledHolds == Spec => []PeriodsBilled
BY RowsInvariant, PTL DEF Rows

-----------------------------------------------------------------------------
(* Money: PAID invoices and SUCCESS attempts *)

\* The transactions that settle no attempt.
LifecycleStep ==
  \/ \E s \in Subs : \/ CreateActive(s) \/ CreateTrial(s) \/ PeriodEnds(s)
                     \/ Activate(s) \/ Renew(s) \/ Cancel(s)
  \/ \E i \in Invoices : Reissue(i) \/ GiveUp(i) \/ Dispatch(i)

\* The subscription's own steps and Collection's leave every attempt as it is.
LEMMA LifecycleAttempts == LifecycleStep => UNCHANGED attVars
<1>1. ASSUME NEW s \in Subs,
             \/ CreateActive(s) \/ CreateTrial(s) \/ PeriodEnds(s)
             \/ Activate(s) \/ Renew(s) \/ Cancel(s)
      PROVE  UNCHANGED attVars
  BY <1>1 DEF CreateActive, CreateTrial, PeriodEnds, Activate, Renew, Cancel
<1>2. ASSUME NEW i \in Invoices, Reissue(i) \/ GiveUp(i) \/ Dispatch(i)
      PROVE  UNCHANGED attVars
  BY <1>2 DEF Reissue, GiveUp, Dispatch
<1> QED
  BY <1>1, <1>2 DEF LifecycleStep

\* A period that begins has no invoice yet.
LEMMA NewPeriod ==
  ASSUME TypeOK, Rows, NEW s \in Subs
  PROVE  /\ subscription[s] = "none" =>
              /\ <<s, 1>> \in Invoices /\ invoice[<<s, 1>>] = "none"
         /\ period[s] < MaxPeriod =>
              /\ <<s, period[s] + 1>> \in Invoices
              /\ invoice[<<s, period[s] + 1>>] = "none"
  BY BillingAssumption DEF TypeOK, Rows, Begun, PeriodsBilled, Invoices, Periods

\* A step that settles nothing neither makes nor undoes a PAID invoice.
LEMMA LifecyclePaid ==
  ASSUME TypeOK, Rows, LifecycleStep
  PROVE  \A i \in Invoices : invoice'[i] = "paid" <=> invoice[i] = "paid"
<1>1. ASSUME NEW s \in Subs,
             CreateActive(s) \/ CreateTrial(s) \/ Activate(s) \/ Renew(s)
      PROVE  \A i \in Invoices : invoice'[i] = "paid" <=> invoice[i] = "paid"
  BY <1>1, NewPeriod DEF CreateActive, CreateTrial, Activate, Renew, BeginPeriod,
     Bill, invVars, TypeOK
<1>2. ASSUME NEW s \in Subs, PeriodEnds(s) \/ Cancel(s)
      PROVE  \A i \in Invoices : invoice'[i] = "paid" <=> invoice[i] = "paid"
  BY <1>2 DEF PeriodEnds, Cancel, CloseOpen, Open, invVars, TypeOK
<1>3. ASSUME NEW j \in Invoices, Reissue(j) \/ GiveUp(j) \/ Dispatch(j)
      PROVE  \A i \in Invoices : invoice'[i] = "paid" <=> invoice[i] = "paid"
  BY <1>3 DEF Reissue, GiveUp, Dispatch, CloseOpen, Open, TypeOK
<1> QED
  BY <1>1, <1>2, <1>3 DEF LifecycleStep

\* No step settles an invoice twice, or marks it PAID without a success.
LEMMA MoneyStep == TypeOK /\ Rows /\ Money /\ [Next]_vars => Money'
<1> SUFFICES ASSUME TypeOK, Rows, Money, [Next]_vars PROVE Money'
  OBVIOUS
<1>1. CASE UNCHANGED vars
  BY <1>1 DEF Money, OneSuccess, PaidIffSuccess, Settled, AttemptsOn, vars,
     invVars, attVars
<1>2. CASE LifecycleStep
  BY <1>2, LifecyclePaid, LifecycleAttempts DEF Money, OneSuccess, PaidIffSuccess, Settled,
     AttemptsOn, attVars
<1>3. ASSUME NEW a \in Attempts, NEW i \in Invoices, NEW k \in Keys \cup {NoKey},
             OpenAttempt(a, i, k)
      PROVE  Money'
  BY <1>3 DEF OpenAttempt, invVars, Money, OneSuccess, PaidIffSuccess, Settled,
     AttemptsOn, TypeOK
<1>4. ASSUME NEW a \in Attempts, NEW ok \in BOOLEAN, NEW c \in Charges,
             Settle(a, ok, c)
      PROVE  Money'
  <2>0. of[a] \in Invoices
    BY <1>4 DEF Settle, Rows, OnRows
  <2>1. CASE \/ SettleNothing(a, ok, c) \/ SettleMismatch(a, ok, c)
             \/ SettleTaken(a, c) \/ SettleStray(a, c)
    BY <2>1 DEF SettleNothing, SettleMismatch, SettleTaken, SettleStray, Flag,
       invVars, Money, OneSuccess, PaidIffSuccess, Settled, AttemptsOn
  <2>2. CASE SettlePaid(a, c)
    BY <2>0, <2>2 DEF SettlePaid, Collectable, Money, OneSuccess,
       PaidIffSuccess, Settled, AttemptsOn, TypeOK
  <2>3. CASE SettleFailed(a, c)
    BY <2>0, <2>3 DEF SettleFailed, SettleBound, Final, Money, OneSuccess,
       PaidIffSuccess, Settled, AttemptsOn, TypeOK
  <2> QED
    BY <1>4, <2>1, <2>2, <2>3 DEF Settle
<1> QED
  BY <1>1, <1>2, <1>3, <1>4 DEF Next, LifecycleStep

\* An invoice is PAID by exactly one SUCCESS attempt, and by nothing else.
THEOREM MoneyInvariant == Spec => []Money
<1>1. Init => Money
  BY DEF Init, Money, OneSuccess, PaidIffSuccess, Settled, AttemptsOn
<1> QED
  BY <1>1, RowsInvariant, MoneyStep, PTL DEF Spec

-----------------------------------------------------------------------------
(* Attempts: what is said of them is never forgotten *)

\* A success that was committed stays on its invoice or flagged.
LEMMA AccountedStep ==
  TypeOK /\ SuccessAccounted /\ [Next]_vars => SuccessAccounted'
<1> SUFFICES ASSUME TypeOK, SuccessAccounted, [Next]_vars PROVE SuccessAccounted'
  OBVIOUS
<1>1. CASE UNCHANGED attVars
  BY <1>1 DEF attVars, SuccessAccounted
<1>2. ASSUME NEW a \in Attempts, NEW i \in Invoices, NEW k \in Keys \cup {NoKey},
             OpenAttempt(a, i, k)
      PROVE  SuccessAccounted'
  BY <1>2 DEF OpenAttempt, SuccessAccounted, TypeOK
<1>3. ASSUME NEW a \in Attempts, NEW ok \in BOOLEAN, NEW c \in Charges,
             Settle(a, ok, c)
      PROVE  SuccessAccounted'
  <2>0. confirmed' \subseteq confirmed \cup {a} /\ (~ok => confirmed' = confirmed)
    BY <1>3 DEF Settle
  <2>1. CASE SettleNothing(a, ok, c)
    BY <2>0, <2>1 DEF SettleNothing, Final, SuccessAccounted
  <2>2. CASE \/ SettleMismatch(a, ok, c) \/ SettleTaken(a, c) \/ SettleStray(a, c)
    BY <2>0, <2>2 DEF SettleMismatch, SettleTaken, SettleStray, Flag,
       SuccessAccounted
  <2>3. CASE SettlePaid(a, c)
    BY <2>0, <2>3 DEF SettlePaid, SuccessAccounted, TypeOK
  <2>4. CASE ~ok /\ SettleFailed(a, c)
    BY <2>0, <2>4 DEF SettleFailed, SettleBound, Final, SuccessAccounted, TypeOK
  <2> QED
    BY <1>3, <2>1, <2>2, <2>3, <2>4 DEF Settle
<1>4. LifecycleStep => UNCHANGED attVars
  BY LifecycleAttempts
<1> QED
  BY <1>1, <1>2, <1>3, <1>4 DEF Next, LifecycleStep, vars

\* No order of reports, reissues and cancellations loses a committed success.
THEOREM AccountedInvariant == Spec => []SuccessAccounted
<1>1. Init => SuccessAccounted
  BY DEF Init, SuccessAccounted
<1> QED
  BY <1>1, Typing, AccountedStep, PTL DEF Spec

\* No step binds a charge to a second attempt, or gives a used key again.
LEMMA BoundStep == TypeOK /\ Rows /\ Bound /\ [Next]_vars => Bound'
<1> SUFFICES ASSUME TypeOK, Rows, Bound, [Next]_vars PROVE Bound'
  OBVIOUS
<1>1. CASE UNCHANGED attVars
  BY <1>1 DEF attVars, Bound, ChargeBoundOnce, KeyNamesOne
<1>2. ASSUME NEW a \in Attempts, NEW i \in Invoices, NEW k \in Keys \cup {NoKey},
             OpenAttempt(a, i, k)
      PROVE  Bound'
  <2>1. k = NoKey \/ \A b \in Attempts :
          ~(key[b] = k /\ attempt[b] # "none" /\ OrgOf[of[b][1]] = OrgOf[i[1]])
    BY <1>2 DEF OpenAttempt, MayOpen, Replay
  <2>2. KeyNamesOne'
    BY <1>2, <2>1 DEF OpenAttempt, Bound, KeyNamesOne, TypeOK
  <2> QED
    BY <1>2, <2>2 DEF OpenAttempt, Bound, ChargeBoundOnce, TypeOK
<1>3. ASSUME NEW a \in Attempts, NEW ok \in BOOLEAN, NEW c \in Charges,
             Settle(a, ok, c)
      PROVE  Bound'
  <2>1. CASE \/ SettleNothing(a, ok, c) \/ SettleMismatch(a, ok, c)
             \/ SettleTaken(a, c)
    BY <2>1 DEF SettleNothing, SettleMismatch, SettleTaken, Flag, Bound,
       ChargeBoundOnce, KeyNamesOne
  <2>2. CASE SettleStray(a, c) \/ SettlePaid(a, c) \/ SettleFailed(a, c)
    <3>1. /\ UNCHANGED <<of, key>>
          /\ \A b \in Attempts : attempt[b] # "none" => attempt'[b] # "none"
      BY <2>2 DEF SettleStray, Flag, SettlePaid, SettleFailed, TypeOK
    <3>2. SettleBound(a, c)
      BY <2>2 DEF SettleStray, SettlePaid, SettleFailed
    <3>3. ChargeBoundOnce'
      BY <3>2 DEF SettleBound, Mismatch, Taken, Bound, ChargeBoundOnce, TypeOK
    <3> QED
      BY <3>1, <3>3 DEF Bound, KeyNamesOne
  <2> QED
    BY <1>3, <2>1, <2>2 DEF Settle
<1>4. LifecycleStep => UNCHANGED attVars
  BY LifecycleAttempts
<1> QED
  BY <1>1, <1>2, <1>3, <1>4 DEF Next, LifecycleStep, vars

\* unique_provider_charge and unique_project_payment_key are never tried with
\* a value that is in use.
THEOREM BoundInvariant == Spec => []Bound
<1>1. Init => Bound
  BY DEF Init, Bound, ChargeBoundOnce, KeyNamesOne
<1> QED
  BY <1>1, RowsInvariant, BoundStep, PTL DEF Spec

\* _prepare makes no second attempt beside a PENDING one.
LEMMA UnresolvedStep ==
  TypeOK /\ OneUnresolved /\ [Next]_vars => OneUnresolved'
<1> SUFFICES ASSUME TypeOK, OneUnresolved, [Next]_vars PROVE OneUnresolved'
  OBVIOUS
<1>1. CASE UNCHANGED attVars
  BY <1>1 DEF attVars, OneUnresolved
<1>2. ASSUME NEW a \in Attempts, NEW i \in Invoices, NEW k \in Keys \cup {NoKey},
             OpenAttempt(a, i, k)
      PROVE  OneUnresolved'
  BY <1>2 DEF OpenAttempt, MayOpen, Unresolved, AttemptsOn, OneUnresolved, TypeOK
<1>3. ASSUME NEW a \in Attempts, NEW ok \in BOOLEAN, NEW c \in Charges,
             Settle(a, ok, c)
      PROVE  OneUnresolved'
  BY <1>3 DEF Settle, SettleNothing, SettleMismatch, SettleTaken, SettleStray,
     SettlePaid, SettleFailed, Flag, OneUnresolved, TypeOK
<1>4. LifecycleStep => UNCHANGED attVars
  BY LifecycleAttempts
<1> QED
  BY <1>1, <1>2, <1>3, <1>4 DEF Next, LifecycleStep, vars

\* An invoice never has two PENDING attempts whose outcome is open: _prepare
\* reuses the one that is there.
THEOREM UnresolvedInvariant == Spec => []OneUnresolved
<1>1. Init => OneUnresolved
  BY DEF Init, OneUnresolved
<1> QED
  BY <1>1, Typing, UnresolvedStep, PTL DEF Spec

\* What settle recorded it never takes back.
THEOREM SettledForGoodHolds == Spec => SettledForGood
<1> DEFINE Kept ==
      \A a \in Attempts :
        /\ attempt[a] = "success" => attempt'[a] = "success"
        /\ a \in flagged => a \in flagged'
        /\ charge[a] # NoCharge => charge'[a] = charge[a]
<1>1. TypeOK /\ [Next]_vars => [Kept]_vars
  <2> SUFFICES ASSUME TypeOK, Next PROVE Kept
    OBVIOUS
  <2>1. CASE LifecycleStep
    BY <2>1, LifecycleAttempts DEF attVars
  <2>2. ASSUME NEW a \in Attempts, NEW i \in Invoices, NEW k \in Keys \cup {NoKey},
               OpenAttempt(a, i, k)
        PROVE  Kept
    BY <2>2 DEF OpenAttempt, TypeOK
  <2>3. ASSUME NEW a \in Attempts, NEW ok \in BOOLEAN, NEW c \in Charges,
               Settle(a, ok, c)
        PROVE  Kept
    BY <2>3 DEF Settle, SettleNothing, SettleMismatch, SettleTaken, SettleStray,
       SettlePaid, SettleFailed, SettleBound, Final, Mismatch, Flag, TypeOK
  <2> QED
    BY <2>1, <2>2, <2>3 DEF Next, LifecycleStep
<1> QED
  BY <1>1, Typing, PTL DEF Spec, SettledForGood

-----------------------------------------------------------------------------
(* Standing: subscriptions and what is owed on them *)

\* A subscription with an invoice has left its trial.
LEMMA InvoicedSubscription ==
  ASSUME TypeOK, Rows, NEW i \in Invoices, invoice[i] # "none"
  PROVE  subscription[i[1]] \in {"active", "overdue", "canceled"}
<1>1. PICK s \in Subs, p \in Periods : i = <<s, p>>
  BY DEF Invoices
<1>2. p <= period[s] /\ p >= 1
  BY <1>1, BillingAssumption DEF Rows, PeriodsBilled, Periods
<1>3. period[s] # 0
  BY <1>2 DEF Periods
<1> QED
  BY <1>1, <1>3 DEF Rows, Begun, TypeOK, SubscriptionStatus

\* Every step that moves an invoice moves its subscription's standing with it.
LEMMA StandingStep == TypeOK /\ Rows /\ Standing /\ [Next]_vars => Standing'
<1> SUFFICES ASSUME TypeOK, Rows, Standing, [Next]_vars PROVE Standing'
  OBVIOUS
<1> USE DEF Standing, CanceledClosed, ArrearsAgree, OverdueIsNonPayment, Open
<1>0. \A i \in Invoices : i[1] \in Subs
  BY DEF Invoices
<1>1. CASE UNCHANGED <<subscription, reason, invoice>>
  BY <1>1
<1>2. ASSUME NEW s \in Subs, CreateActive(s) \/ Activate(s) PROVE Standing'
  <2>1. \A i \in Invoices : i[1] = s => invoice[i] = "none"
    BY <1>2, InvoicedSubscription DEF CreateActive, Activate
  <2>2. PICK j \in Invoices : j[1] = s /\ invoice' = [invoice EXCEPT ![j] = "issued"]
    BY <1>2, NewPeriod DEF CreateActive, Activate, BeginPeriod, Bill
  <2>3. subscription' = [subscription EXCEPT ![s] = "active"] /\ reason' = reason
    BY <1>2 DEF CreateActive, Activate
  <2>4. reason[s] # "non_payment"
    BY <1>2 DEF CreateActive, Activate
  <2>5. \A i \in Invoices :
          /\ i[1] = s => invoice'[i] \in {"none", "issued"}
          /\ i[1] # s => invoice'[i] = invoice[i]
    BY <2>1, <2>2 DEF TypeOK
  <2>6. /\ subscription'[s] = "active"
        /\ \A r \in Subs \ {s} : subscription'[r] = subscription[r]
    BY <2>3 DEF TypeOK
  <2>7. CanceledClosed' /\ OverdueIsNonPayment'
    BY <1>0, <2>3, <2>4, <2>5, <2>6
  <2>8. ArrearsAgree'
    BY <1>0, <2>5, <2>6
  <2>9. \A r \in Subs : reason'[r] # "none" => subscription'[r] = "canceled"
    BY <1>2, <2>3, <2>6 DEF CreateActive, Activate
  <2> QED
    BY <2>7, <2>8, <2>9
<1>3. ASSUME NEW s \in Subs, Renew(s) PROVE Standing'
  <2>1. PICK j \in Invoices : /\ j[1] = s /\ invoice[j] = "none"
                             /\ invoice' = [invoice EXCEPT ![j] = "issued"]
    BY <1>3, NewPeriod DEF Renew, BeginPeriod, Bill
  <2>2. subscription[s] = "active" /\ UNCHANGED <<subscription, reason>>
    BY <1>3 DEF Renew
  <2> QED
    BY <1>0, <2>1, <2>2 DEF TypeOK
<1>4. ASSUME NEW s \in Subs, CreateTrial(s) PROVE Standing'
  <2>1. \A i \in Invoices : i[1] = s => invoice[i] = "none"
    BY <1>4, InvoicedSubscription DEF CreateTrial
  <2> QED
    BY <1>0, <1>4, <2>1 DEF CreateTrial, invVars, TypeOK
<1>5. ASSUME NEW s \in Subs, Cancel(s) PROVE Standing'
  BY <1>0, <1>5 DEF Cancel, CloseOpen, TypeOK
<1>6. ASSUME NEW i \in Invoices, Reissue(i) PROVE Standing'
  BY <1>0, <1>6 DEF Reissue, subVars, TypeOK
<1>7. ASSUME NEW i \in Invoices, GiveUp(i) PROVE Standing'
  <2> DEFINE s == i[1]
  <2>1. subscription[s] = "overdue" /\ reason[s] = "none"
    BY <1>0, <1>7 DEF GiveUp, TypeOK, CancellationReason
  <2>2. /\ subscription' = [subscription EXCEPT ![s] = "canceled"]
        /\ reason' = [reason EXCEPT ![s] = "non_payment"]
        /\ invoice' = [CloseOpen(s) EXCEPT ![i] = "overdue"]
    BY <2>1, <1>7 DEF GiveUp
  <2>3. /\ invoice'[i] = "overdue"
        /\ \A j \in Invoices \ {i} :
             /\ j[1] = s => invoice'[j] \notin Open
             /\ j[1] = s => (invoice'[j] = "overdue" <=> invoice[j] = "overdue")
             /\ j[1] # s => invoice'[j] = invoice[j]
    BY <2>2 DEF CloseOpen
  <2>4. /\ s \in Subs /\ subscription'[s] = "canceled" /\ reason'[s] = "non_payment"
        /\ \A r \in Subs \ {s} :
             subscription'[r] = subscription[r] /\ reason'[r] = reason[r]
    BY <1>0, <2>2 DEF TypeOK
  <2>5. CanceledClosed'
    BY <1>0, <2>3, <2>4
  <2>6. ArrearsAgree'
    BY <1>0, <2>3, <2>4
  <2>7. OverdueIsNonPayment'
    BY <1>0, <2>3, <2>4
  <2> QED
    BY <2>4, <2>5, <2>6, <2>7
<1>8. ASSUME NEW a \in Attempts, NEW ok \in BOOLEAN, NEW c \in Charges,
             Settle(a, ok, c)
      PROVE  Standing'
  <2> DEFINE i == of[a]
  <2>0. /\ i \in Invoices
        /\ subscription[i[1]] \in {"active", "overdue", "canceled"}
    BY <1>8, InvoicedSubscription DEF Settle, Rows, OnRows
  <2>1. CASE \/ SettleNothing(a, ok, c) \/ SettleMismatch(a, ok, c)
             \/ SettleTaken(a, c) \/ SettleStray(a, c)
    BY <2>1 DEF SettleNothing, SettleMismatch, SettleTaken, SettleStray, Flag,
       subVars, invVars
  <2>2. CASE SettlePaid(a, c)
    BY <1>0, <2>0, <2>2 DEF SettlePaid, Collectable, InArrears, TypeOK
  <2>3. CASE SettleFailed(a, c)
    BY <1>0, <2>0, <2>3 DEF SettleFailed, Collectable, Payable, TypeOK
  <2> QED
    BY <1>8, <2>1, <2>2, <2>3 DEF Settle
<1>9. CASE UNCHANGED <<subVars, invVars>>
  BY <1>9 DEF subVars, invVars
<1> QED
  BY <1>1, <1>2, <1>3, <1>4, <1>5, <1>6, <1>7, <1>8, <1>9
  DEF Next, vars, subVars, invVars, PeriodEnds, Dispatch, OpenAttempt

\* Cancellation closes what is open, FAILED invoices keep a subscription
\* OVERDUE and it has one to collect, and only non-payment leaves OVERDUE ones.
THEOREM StandingInvariant == Spec => []Standing
<1>1. Init => Standing
  BY DEF Init, Standing, CanceledClosed, ArrearsAgree, OverdueIsNonPayment, Open
<1> QED
  BY <1>1, RowsInvariant, StandingStep, PTL DEF Spec

-----------------------------------------------------------------------------
(* Collection: an ISSUED invoice still has its charge before it *)

\* No step resolves an attempt of the current issue and leaves its invoice ISSUED.
LEMMA AwaitsStep ==
  TypeOK /\ Rows /\ Money /\ Standing /\ IssuedAwaitsCharge /\ [Next]_vars
    => IssuedAwaitsCharge'
<1> SUFFICES ASSUME TypeOK, Rows, Money, Standing, IssuedAwaitsCharge, [Next]_vars,
                    NEW i \in Invoices, NEW a \in Attempts, a \in ThisIssue(i)'
             PROVE  attempt'[a] = "pending"
  BY DEF IssuedAwaitsCharge, ThisIssue
<1>0. of'[a] = i /\ invoice'[i] = "issued" /\ round'[a] >= issue'[i]
  BY DEF ThisIssue
<1>1. ASSUME UNCHANGED <<attempt, of, round>>, attempt[a] # "pending"
      PROVE  invoice[i] # "issued" \/ issue'[i] # issue[i]
  BY <1>0, <1>1 DEF IssuedAwaitsCharge, ThisIssue, TypeOK
<1>2. CASE UNCHANGED <<attempt, of, round, invoice, issue>>
  BY <1>0, <1>1, <1>2 DEF TypeOK
<1>3. ASSUME NEW s \in Subs, CreateActive(s) \/ Activate(s) \/ Renew(s)
      PROVE  attempt'[a] = "pending"
  <2>1. PICK j \in Invoices : /\ invoice[j] = "none"
                             /\ invoice' = [invoice EXCEPT ![j] = "issued"]
                             /\ issue' = [issue EXCEPT ![j] = 1]
    BY <1>3, NewPeriod DEF CreateActive, Activate, Renew, BeginPeriod, Bill
  <2>2. UNCHANGED <<attempt, of, round>>
    BY <1>3 DEF CreateActive, Activate, Renew, attVars
  <2>3. i # j
    BY <1>0, <2>1, <2>2, BillingAssumption DEF Rows, OnRows
  <2> QED
    BY <1>0, <1>1, <2>1, <2>2, <2>3 DEF TypeOK
<1>4. ASSUME NEW s \in Subs, Cancel(s) PROVE attempt'[a] = "pending"
  BY <1>0, <1>1, <1>4 DEF Cancel, CloseOpen, attVars, TypeOK
<1>5. ASSUME NEW j \in Invoices, Reissue(j) PROVE attempt'[a] = "pending"
  <2>1. round[a] <= issue[i]
    BY <1>0, <1>5, BillingAssumption DEF Reissue, attVars, Rows, OnRows
  <2>2. i # j
    BY <1>0, <1>5, <2>1 DEF Reissue, attVars, TypeOK
  <2> QED
    BY <1>0, <1>1, <1>5, <2>2 DEF Reissue, attVars, TypeOK
<1>6. ASSUME NEW j \in Invoices, GiveUp(j) PROVE attempt'[a] = "pending"
  BY <1>0, <1>1, <1>6 DEF GiveUp, CloseOpen, attVars, TypeOK
<1>7. ASSUME NEW b \in Attempts, NEW j \in Invoices, NEW k \in Keys \cup {NoKey},
             OpenAttempt(b, j, k)
      PROVE  attempt'[a] = "pending"
  BY <1>0, <1>7 DEF OpenAttempt, invVars, IssuedAwaitsCharge, ThisIssue, TypeOK
<1>8. ASSUME NEW b \in Attempts, NEW ok \in BOOLEAN, NEW c \in Charges,
             Settle(b, ok, c)
      PROVE  attempt'[a] = "pending"
  <2>1. CASE \/ SettleNothing(b, ok, c) \/ SettleMismatch(b, ok, c)
             \/ SettleTaken(b, c) \/ SettleStray(b, c)
    BY <1>2, <2>1 DEF SettleNothing, SettleMismatch, SettleTaken, SettleStray,
       Flag, invVars
  <2>2. CASE SettlePaid(b, c)
    <3>1. UNCHANGED <<of, round, issue>> /\ i # of[b] /\ a # b
      BY <1>0, <2>2 DEF SettlePaid, TypeOK
    <3> QED
      BY <1>0, <2>2, <3>1 DEF SettlePaid, IssuedAwaitsCharge, ThisIssue, TypeOK
  <2>3. CASE SettleFailed(b, c)
    <3>1. a \in ThisIssue(i)
      BY <1>0, <2>3 DEF SettleFailed, ThisIssue, TypeOK
    <3>2. attempt[a] = "pending"
      BY <3>1 DEF IssuedAwaitsCharge
    <3>3. ASSUME a = b PROVE FALSE
      <4>1. of[b] = i /\ invoice[i] = "issued"
        BY <3>1, <3>3 DEF ThisIssue
      <4>2. Collectable(i)
        BY <4>1 DEF Collectable, Payable, Standing, CanceledClosed, Open, Money,
           PaidIffSuccess
      <4> QED
        BY <1>0, <2>3, <3>2, <3>3, <4>1, <4>2 DEF SettleFailed, TypeOK
    <3> QED
      BY <2>3, <3>2, <3>3 DEF SettleFailed, TypeOK
  <2> QED
    BY <1>8, <2>1, <2>2, <2>3 DEF Settle
<1>9. CASE UNCHANGED <<invoice, issue, attVars>>
  BY <1>2, <1>9 DEF attVars
<1> QED
  BY <1>3, <1>4, <1>5, <1>6, <1>7, <1>8, <1>9
  DEF Next, vars, invVars, CreateTrial, PeriodEnds, Dispatch

\* Every invariant that collection rests on, together.
THEOREM AwaitsInvariant == Spec => []IssuedAwaitsCharge
<1> DEFINE All == Rows /\ Money /\ Standing /\ IssuedAwaitsCharge
<1>1. Init => All
  BY BillingAssumption DEF Init, Rows, Begun, PeriodsBilled, OnRows, Periods,
     Invoices, Money, OneSuccess, PaidIffSuccess, Settled, AttemptsOn, Standing,
     CanceledClosed, ArrearsAgree, OverdueIsNonPayment, Open, IssuedAwaitsCharge,
     ThisIssue
<1>2. TypeOK /\ All /\ [Next]_vars => All'
  BY RowsStep, MoneyStep, StandingStep, AwaitsStep
<1>3. All => IssuedAwaitsCharge
  OBVIOUS
<1> QED
  BY <1>1, <1>2, <1>3, Typing, PTL DEF Spec

-----------------------------------------------------------------------------
(* The retry cap *)

\* An invoice that dunning may still reissue has failed once for each issue.
Capped ==
  \A i \in Invoices :
    /\ issue[i] <= MaxDunning
    /\ invoice[i] = "issued" => issue[i] <= Cardinality(AttemptsOn(i, "failed")) + 1
    /\ invoice[i] = "failed" => issue[i] <= Cardinality(AttemptsOn(i, "failed"))

\* The rejections of an invoice can be counted.
LEMMA FailedFinite ==
  \A i \in Invoices : /\ IsFiniteSet(AttemptsOn(i, "failed"))
                      /\ Cardinality(AttemptsOn(i, "failed")) \in Nat
  BY BillingAssumption, FS_Subset, FS_CardinalityType DEF AttemptsOn

\* A rejection of attempt a counts once on its invoice, and nowhere else.
LEMMA FailedCount ==
  ASSUME TypeOK, NEW a \in Attempts, of[a] \in Invoices,
         UNCHANGED of, attempt' = [attempt EXCEPT ![a] = "failed"]
  PROVE  \A i \in Invoices :
           Cardinality(AttemptsOn(i, "failed")') =
             IF i = of[a] /\ attempt[a] # "failed"
               THEN Cardinality(AttemptsOn(i, "failed")) + 1
               ELSE Cardinality(AttemptsOn(i, "failed"))
<1> TAKE i \in Invoices
<1>1. CASE i = of[a] /\ attempt[a] # "failed"
  <2>1. AttemptsOn(i, "failed")' = AttemptsOn(i, "failed") \cup {a}
    BY <1>1 DEF AttemptsOn, TypeOK
  <2>2. a \notin AttemptsOn(i, "failed")
    BY <1>1 DEF AttemptsOn
  <2> QED
    BY <1>1, <2>1, <2>2, FailedFinite, FS_AddElement
<1>2. CASE ~(i = of[a] /\ attempt[a] # "failed")
  <2>1. AttemptsOn(i, "failed")' = AttemptsOn(i, "failed")
    BY <1>2 DEF AttemptsOn, TypeOK
  <2> QED
    BY <1>2, <2>1
<1> QED
  BY <1>1, <1>2

\* No step issues an invoice again without one more rejection to show for it.
LEMMA CappedStep == TypeOK /\ Rows /\ Capped /\ [Next]_vars => Capped'
<1> SUFFICES ASSUME TypeOK, Rows, Capped, [Next]_vars PROVE Capped'
  OBVIOUS
<1>0. \A i \in Invoices : Cardinality(AttemptsOn(i, "failed")) \in Nat
  BY FailedFinite
<1>1. UNCHANGED <<attempt, of>> =>
        \A i \in Invoices : AttemptsOn(i, "failed")' = AttemptsOn(i, "failed")
  BY DEF AttemptsOn
<1>2. CASE UNCHANGED <<attempt, of, invoice, issue>>
  BY <1>1, <1>2 DEF Capped
<1>3. ASSUME NEW s \in Subs, CreateActive(s) \/ Activate(s) \/ Renew(s)
      PROVE  Capped'
  <2>1. PICK j \in Invoices : /\ invoice' = [invoice EXCEPT ![j] = "issued"]
                             /\ issue' = [issue EXCEPT ![j] = 1]
    BY <1>3, NewPeriod DEF CreateActive, Activate, Renew, BeginPeriod, Bill
  <2>2. UNCHANGED <<attempt, of>>
    BY <1>3 DEF CreateActive, Activate, Renew, attVars
  <2> QED
    BY <1>0, <1>1, <2>1, <2>2, BillingAssumption DEF Capped, TypeOK
<1>4. ASSUME NEW s \in Subs, Cancel(s) PROVE Capped'
  BY <1>1, <1>4 DEF Cancel, CloseOpen, attVars, Capped, TypeOK
<1>5. ASSUME NEW i \in Invoices, Reissue(i) PROVE Capped'
  <2>1. issue[i] + 1 <= MaxDunning
    BY <1>0, <1>5, BillingAssumption DEF Reissue, Exhausted, Capped, TypeOK
  <2> QED
    BY <1>0, <1>1, <1>5, <2>1 DEF Reissue, attVars, Capped, TypeOK
<1>6. ASSUME NEW i \in Invoices, GiveUp(i) PROVE Capped'
  BY <1>1, <1>6 DEF GiveUp, CloseOpen, attVars, Capped, TypeOK
<1>7. ASSUME NEW a \in Attempts, NEW i \in Invoices, NEW k \in Keys \cup {NoKey},
             OpenAttempt(a, i, k)
      PROVE  Capped'
  <2>1. \A j \in Invoices : AttemptsOn(j, "failed")' = AttemptsOn(j, "failed")
    BY <1>7, BillingAssumption DEF OpenAttempt, AttemptsOn, TypeOK
  <2> QED
    BY <1>7, <2>1 DEF OpenAttempt, invVars, Capped
<1>8. ASSUME NEW a \in Attempts, NEW ok \in BOOLEAN, NEW c \in Charges,
             Settle(a, ok, c)
      PROVE  Capped'
  <2>0. of[a] \in Invoices /\ attempt[a] # "none"
    BY <1>8 DEF Settle, Rows, OnRows
  <2>1. CASE \/ SettleNothing(a, ok, c) \/ SettleMismatch(a, ok, c)
             \/ SettleTaken(a, c) \/ SettleStray(a, c)
    BY <1>2, <2>1 DEF SettleNothing, SettleMismatch, SettleTaken, SettleStray,
       Flag, invVars
  <2>2. CASE SettlePaid(a, c)
    <3>1. \A i \in Invoices \ {of[a]} :
            AttemptsOn(i, "failed")' = AttemptsOn(i, "failed")
      BY <2>2 DEF SettlePaid, AttemptsOn, TypeOK
    <3> QED
      BY <2>0, <2>2, <3>1 DEF SettlePaid, Capped, TypeOK
  <2>3. CASE SettleFailed(a, c)
    <3>1. /\ UNCHANGED <<of, issue>>
          /\ attempt' = [attempt EXCEPT ![a] = "failed"]
          /\ \A i \in Invoices : \/ invoice'[i] = invoice[i]
                                 \/ /\ i = of[a] /\ attempt[a] # "failed"
                                    /\ invoice[i] = "issued" /\ invoice'[i] = "failed"
      BY <2>0, <2>3 DEF SettleFailed, TypeOK
    <3>2. \A i \in Invoices :
            Cardinality(AttemptsOn(i, "failed")') =
              IF i = of[a] /\ attempt[a] # "failed"
                THEN Cardinality(AttemptsOn(i, "failed")) + 1
                ELSE Cardinality(AttemptsOn(i, "failed"))
      BY <2>0, <3>1, FailedCount
    <3>3. \A i \in Invoices : issue[i] \in Nat /\ issue'[i] = issue[i]
      BY <3>1 DEF TypeOK
    <3> QED
      BY <1>0, <3>1, <3>2, <3>3 DEF Capped
  <2> QED
    BY <1>8, <2>1, <2>2, <2>3 DEF Settle
<1>9. CASE UNCHANGED <<invoice, issue, attVars>>
  BY <1>2, <1>9 DEF attVars
<1> QED
  BY <1>3, <1>4, <1>5, <1>6, <1>7, <1>8, <1>9
  DEF Next, vars, invVars, CreateTrial, PeriodEnds, Dispatch

\* No invoice is issued, and so handed to a worker, more often than the cap.
THEOREM RetryCapInvariant == Spec => []RetryCap
<1>1. Init => Capped
  BY BillingAssumption DEF Init, Capped
<1>2. Capped => RetryCap
  BY DEF Capped, RetryCap
<1> QED
  BY <1>1, <1>2, RowsInvariant, CappedStep, PTL DEF Spec

-----------------------------------------------------------------------------
(* Steps *)

\* transition_to never raises in a service: it would roll back a settlement.
THEOREM TransitionsHold == Spec => TransitionsAccepted
<1> DEFINE Accepted ==
      /\ \A s \in Subs : subscription[s] \notin {"none", subscription'[s]} =>
           <<subscription[s], subscription'[s]>> \in SubscriptionTransitions
      /\ \A i \in Invoices : invoice[i] \notin {"none", invoice'[i]} =>
           <<invoice[i], invoice'[i]>> \in InvoiceTransitions
<1>1. TypeOK /\ Rows /\ [Next]_vars => [Accepted]_vars
  <2> SUFFICES ASSUME TypeOK, Rows, Next PROVE Accepted
    OBVIOUS
  <2> USE DEF SubscriptionTransitions, InvoiceTransitions
  <2>1. ASSUME NEW s \in Subs, CreateActive(s) \/ Activate(s) \/ Renew(s)
        PROVE  Accepted
    <3>1. PICK j \in Invoices : /\ invoice[j] = "none"
                               /\ invoice' = [invoice EXCEPT ![j] = "issued"]
      BY <2>1, NewPeriod DEF CreateActive, Activate, Renew, BeginPeriod, Bill
    <3> QED
      BY <2>1, <3>1 DEF CreateActive, Activate, Renew, TypeOK
  <2>2. ASSUME NEW s \in Subs, CreateTrial(s) \/ PeriodEnds(s) \/ Cancel(s)
        PROVE  Accepted
    BY <2>2 DEF CreateTrial, PeriodEnds, Cancel, CloseOpen, Open, invVars, TypeOK
  <2>3. ASSUME NEW i \in Invoices, Reissue(i) \/ Dispatch(i) PROVE Accepted
    BY <2>3 DEF Reissue, Dispatch, subVars, TypeOK
  <2>4. ASSUME NEW i \in Invoices, GiveUp(i) PROVE Accepted
    <3>1. subscription[i[1]] \in {"active", "overdue", "canceled"}
      BY <2>4, InvoicedSubscription DEF GiveUp
    <3> QED
      BY <2>4, <3>1 DEF GiveUp, CloseOpen, Open, TypeOK
  <2>5. ASSUME NEW a \in Attempts, NEW i \in Invoices, NEW k \in Keys \cup {NoKey},
               OpenAttempt(a, i, k)
        PROVE  Accepted
    BY <2>5 DEF OpenAttempt, subVars, invVars
  <2>6. ASSUME NEW a \in Attempts, NEW ok \in BOOLEAN, NEW c \in Charges,
               Settle(a, ok, c)
        PROVE  Accepted
    BY <2>6 DEF Settle, SettleNothing, SettleMismatch, SettleTaken, SettleStray,
       SettlePaid, SettleFailed, Flag, Collectable, Payable, subVars, invVars, TypeOK
  <2> QED
    BY <2>1, <2>2, <2>3, <2>4, <2>5, <2>6 DEF Next
<1> QED
  BY <1>1, RowsInvariant, PTL DEF Spec, TransitionsAccepted

-----------------------------------------------------------------------------
(* Reports that come again *)

\* What is left in the books of a report that was settled: result ok for attempt
\* a with charge id c.
Absorbed(a, ok, c) ==
  /\ attempt[a] # "none"
  /\ ok => a \in confirmed
  /\ \/ a \in flagged
     \/ attempt[a] = "success" /\ (ok => charge[a] = c)
     \/ attempt[a] = "failed" /\ ~ok /\ charge[a] = c

\* settle is idempotent, and for good: a report that has been settled once, by
\* a worker, a webhook or reconcile_stuck, changes nothing when it comes again,
\* whatever other reports, reissues and cancellations came between.
SettledOnce ==
  [][\A a \in Attempts, ok \in BOOLEAN, c \in Charges :
       /\ Settle(a, ok, c) => Absorbed(a, ok, c)'
       /\ Absorbed(a, ok, c) =>
            Absorbed(a, ok, c)' /\ (Settle(a, ok, c) => UNCHANGED vars)]_vars

\* An attempt that was answered has the charge id of the answer.
Answered ==
  \A a \in Attempts : attempt[a] \in {"success", "failed"} => charge[a] # NoCharge

\* A result is stored together with its charge id.
LEMMA AnsweredStep == TypeOK /\ Answered /\ [Next]_vars => Answered'
<1> SUFFICES ASSUME TypeOK, Answered, [Next]_vars PROVE Answered'
  OBVIOUS
<1>1. CASE UNCHANGED attVars
  BY <1>1 DEF attVars, Answered
<1>2. ASSUME NEW a \in Attempts, NEW i \in Invoices, NEW k \in Keys \cup {NoKey},
             OpenAttempt(a, i, k)
      PROVE  Answered'
  BY <1>2 DEF OpenAttempt, Answered, TypeOK
<1>3. ASSUME NEW a \in Attempts, NEW ok \in BOOLEAN, NEW c \in Charges,
             Settle(a, ok, c)
      PROVE  Answered'
  <2>1. CASE \/ SettleNothing(a, ok, c) \/ SettleMismatch(a, ok, c)
             \/ SettleTaken(a, c)
    BY <2>1 DEF SettleNothing, SettleMismatch, SettleTaken, Flag, Answered
  <2>2. CASE SettleStray(a, c) \/ SettlePaid(a, c) \/ SettleFailed(a, c)
    BY <2>2, BillingAssumption
    DEF SettleStray, SettlePaid, SettleFailed, SettleBound, Flag, Answered, TypeOK
  <2> QED
    BY <1>3, <2>1, <2>2 DEF Settle
<1>4. LifecycleStep => UNCHANGED attVars
  BY LifecycleAttempts
<1> QED
  BY <1>1, <1>2, <1>3, <1>4 DEF Next, LifecycleStep, vars

\* Whatever settle does with a report, it leaves the report absorbed.
LEMMA SettleAbsorbs ==
  ASSUME TypeOK, Answered, NEW a \in Attempts, NEW ok \in BOOLEAN, NEW c \in Charges,
         Settle(a, ok, c)
  PROVE  Absorbed(a, ok, c)'
<1>0. attempt[a] # "none" /\ (ok => a \in confirmed') /\ c # NoCharge
  BY BillingAssumption DEF Settle
<1>1. CASE SettleNothing(a, ok, c)
  BY <1>0, <1>1 DEF SettleNothing, Final, Mismatch, Answered, Absorbed
<1>2. CASE SettleMismatch(a, ok, c) \/ SettleTaken(a, c) \/ SettleStray(a, c)
  BY <1>0, <1>2 DEF SettleMismatch, SettleTaken, SettleStray, Flag, Absorbed
<1>3. CASE ok /\ SettlePaid(a, c)
  BY <1>0, <1>3 DEF SettlePaid, SettleBound, Absorbed, TypeOK
<1>4. CASE ~ok /\ SettleFailed(a, c)
  BY <1>0, <1>4 DEF SettleFailed, SettleBound, Absorbed, TypeOK
<1> QED
  BY <1>1, <1>2, <1>3, <1>4 DEF Settle

\* No step takes a column back that an absorbed report rests on.
LEMMA AbsorbedStays ==
  ASSUME TypeOK, Next, NEW a \in Attempts, NEW ok \in BOOLEAN, NEW c \in Charges,
         Absorbed(a, ok, c)
  PROVE  Absorbed(a, ok, c)'
<1>1. CASE LifecycleStep
  BY <1>1, LifecycleAttempts DEF attVars, Absorbed
<1>2. ASSUME NEW b \in Attempts, NEW i \in Invoices, NEW k \in Keys \cup {NoKey},
             OpenAttempt(b, i, k)
      PROVE  Absorbed(a, ok, c)'
  BY <1>2 DEF OpenAttempt, Absorbed, TypeOK
<1>3. ASSUME NEW b \in Attempts, NEW good \in BOOLEAN, NEW d \in Charges,
             Settle(b, good, d)
      PROVE  Absorbed(a, ok, c)'
  <2>1. a \in confirmed => a \in confirmed'
    BY <1>3 DEF Settle
  <2>2. CASE \/ SettleNothing(b, good, d) \/ SettleMismatch(b, good, d)
             \/ SettleTaken(b, d)
    BY <2>1, <2>2 DEF SettleNothing, SettleMismatch, SettleTaken, Flag, Absorbed
  <2>3. CASE SettleStray(b, d) \/ SettlePaid(b, d) \/ SettleFailed(b, d)
    <3>1. attempt[b] # "success" /\ b \notin flagged
      BY <2>3 DEF SettleStray, SettlePaid, SettleFailed, SettleBound, Final
    <3>2. charge[b] # NoCharge => charge[b] = d
      BY <2>3 DEF SettleStray, SettlePaid, SettleFailed, SettleBound, Mismatch
    <3> QED
      BY <2>1, <2>3, <3>1, <3>2, BillingAssumption
      DEF SettleStray, SettlePaid, SettleFailed, SettleBound, Flag, Absorbed, TypeOK
  <2> QED
    BY <1>3, <2>2, <2>3 DEF Settle
<1> QED
  BY <1>1, <1>2, <1>3 DEF Next, LifecycleStep

\* Each of settle's exits leaves the books alone when the report is absorbed.
LEMMA AbsorbedUnchanged ==
  ASSUME TypeOK, NEW a \in Attempts, NEW ok \in BOOLEAN, NEW c \in Charges,
         Absorbed(a, ok, c), Settle(a, ok, c)
  PROVE  UNCHANGED vars
<1>0. confirmed' = confirmed
  BY DEF Settle, Absorbed
<1>1. CASE Final(a)
  <2>1. SettleNothing(a, ok, c) \/ (SettleMismatch(a, ok, c) /\ a \in flagged)
    BY <1>1 DEF Settle, SettleTaken, SettleStray, SettlePaid, SettleFailed,
       SettleBound, SettleMismatch, Mismatch, Absorbed
  <2> QED
    BY <1>0, <2>1 DEF SettleNothing, SettleMismatch, Flag, vars, attVars
<1>2. CASE ~Final(a)
  <2>1. attempt[a] = "failed" /\ ~ok /\ charge[a] = c /\ c # NoCharge
    BY <1>2, BillingAssumption DEF Final, Absorbed
  <2>2. SettleFailed(a, c)
    BY <1>2, <2>1 DEF Settle, SettleNothing, SettleMismatch, SettleTaken, Mismatch
  <2> QED
    BY <1>0, <2>1, <2>2
    DEF SettleFailed, SettleBound, vars, subVars, invVars, attVars, TypeOK
<1> QED
  BY <1>1, <1>2

\* A repeated report has no effect, now or ever.
THEOREM SettledOnceHolds == Spec => SettledOnce
<1> DEFINE Once ==
      \A a \in Attempts, ok \in BOOLEAN, c \in Charges :
        /\ Settle(a, ok, c) => Absorbed(a, ok, c)'
        /\ Absorbed(a, ok, c) =>
             Absorbed(a, ok, c)' /\ (Settle(a, ok, c) => UNCHANGED vars)
<1>1. Init => Answered
  BY DEF Init, Answered
<1>2. TypeOK /\ Answered /\ [Next]_vars => [Once]_vars
  BY SettleAbsorbs, AbsorbedStays, AbsorbedUnchanged
<1> QED
  BY <1>1, <1>2, Typing, AnsweredStep, PTL DEF Spec, SettledOnce

-----------------------------------------------------------------------------
(* What _prepare answers *)

\* Whichever of its queries _prepare answers from, one attempt qualifies: that it
\* takes the first, in no particular order, makes no difference.
AnswersOne ==
  \A i \in Invoices, k \in Keys \cup {NoKey}, a, b \in Attempts :
    Found(a, i, k) /\ Found(b, i, k) => a = b

\* Nothing strands an ISSUED invoice. Whenever charge_issued comes to it, the
\* rules of _prepare let it make an attempt, or it finds one that is still
\* PENDING: no refusal and no resolved attempt meets it, whatever clients,
\* dunning and late reports did before.
IssuedServed ==
  \A i \in Invoices : invoice[i] = "issued" =>
    \/ MayOpen(i, NoKey)
    \/ \E a \in Attempts : Found(a, i, NoKey) /\ attempt[a] = "pending"

\* What every invariant of the books says of an attempt that is found.
LEMMA FoundAlone ==
  ASSUME Rows, Money, OneUnresolved, Bound, IssuedAwaitsCharge
  PROVE  AnswersOne
<1> SUFFICES ASSUME NEW i \in Invoices, NEW k \in Keys \cup {NoKey},
                    NEW a \in Attempts, NEW b \in Attempts,
                    Found(a, i, k), Found(b, i, k)
             PROVE  a = b
  BY DEF AnswersOne
<1>1. CASE Replay(i, k) # {}
  BY <1>1 DEF Found, Replay, Bound, KeyNamesOne
<1>2. CASE Replay(i, k) = {}
  <2>1. invoice[i] \in Payable => Settled(i) = {}
    BY DEF Money, PaidIffSuccess, Payable
  <2>2. \A d \in {a, b} : d \in ThisIssue(i) => d \in Unresolved(i)
    BY DEF IssuedAwaitsCharge, Unresolved, AttemptsOn, ThisIssue
  <2>3. a \in Unresolved(i) /\ b \in Unresolved(i)
    BY <1>2, <2>1, <2>2 DEF Found
  <2> QED
    BY <2>3 DEF OneUnresolved, Unresolved, AttemptsOn
<1> QED
  BY <1>1, <1>2

\* An ISSUED invoice is unpaid, its subscription goes on, and attempts of its
\* issue are PENDING.
LEMMA IssuedOpen ==
  ASSUME Rows, Money, Standing, IssuedAwaitsCharge
  PROVE  IssuedServed
<1> SUFFICES ASSUME NEW i \in Invoices, invoice[i] = "issued"
             PROVE  \/ MayOpen(i, NoKey)
                    \/ \E a \in Attempts :
                         Found(a, i, NoKey) /\ attempt[a] = "pending"
  BY DEF IssuedServed
<1>1. Replay(i, NoKey) = {}
  BY DEF Replay
<1>2. CASE ThisIssue(i) # {}
  <2>1. PICK a \in Attempts : a \in ThisIssue(i)
    BY <1>2 DEF ThisIssue
  <2>2. Found(a, i, NoKey) /\ attempt[a] = "pending"
    BY <1>1, <2>1 DEF Found, IssuedAwaitsCharge
  <2> QED
    BY <2>2
<1>3. CASE ThisIssue(i) = {} /\ Unresolved(i) # {}
  <2>1. PICK a \in Attempts : a \in Unresolved(i)
    BY <1>3 DEF Unresolved, AttemptsOn
  <2>2. Found(a, i, NoKey) /\ attempt[a] = "pending"
    BY <1>1, <1>3, <2>1 DEF Found, Payable, Unresolved, AttemptsOn
  <2> QED
    BY <2>2
<1>4. CASE ThisIssue(i) = {} /\ Unresolved(i) = {}
  <2>1. Settled(i) = {}
    BY DEF Money, PaidIffSuccess
  <2>2. subscription[i[1]] # "canceled"
    BY DEF Standing, CanceledClosed, Open
  <2>3. MayOpen(i, NoKey)
    BY <1>1, <1>4, <2>1, <2>2 DEF MayOpen, Payable
  <2> QED
    BY <2>3
<1> QED
  BY <1>2, <1>3, <1>4

\* _prepare is a function of the books, and never turns an ISSUED invoice away.
THEOREM PreparedHolds == Spec => [](AnswersOne /\ IssuedServed)
BY RowsInvariant, MoneyInvariant, UnresolvedInvariant, BoundInvariant,
   StandingInvariant, AwaitsInvariant, FoundAlone, IssuedOpen, PTL

\* A request that is sent again finds the attempt it made, at any time and
\* whatever has become of the attempt and its invoice, if its key was stored
\* with one; by AnswersOne it finds no other.
RequestsRepeat ==
  [][\A a \in Attempts, i \in Invoices, k \in Keys :
       OpenAttempt(a, i, k) \/ (key[a] = k /\ Found(a, i, k)) => Found(a, i, k)']_vars

\* The key, the invoice and the existence of an attempt never change.
LEMMA AttemptKept ==
  ASSUME TypeOK, Next, NEW a \in Attempts, attempt[a] # "none"
  PROVE  attempt'[a] # "none" /\ key'[a] = key[a] /\ of'[a] = of[a]
<1>1. CASE LifecycleStep
  BY <1>1, LifecycleAttempts DEF attVars
<1>2. ASSUME NEW b \in Attempts, NEW i \in Invoices, NEW k \in Keys \cup {NoKey},
             OpenAttempt(b, i, k)
      PROVE  attempt'[a] # "none" /\ key'[a] = key[a] /\ of'[a] = of[a]
  BY <1>2 DEF OpenAttempt, TypeOK
<1>3. ASSUME NEW b \in Attempts, NEW ok \in BOOLEAN, NEW c \in Charges,
             Settle(b, ok, c)
      PROVE  attempt'[a] # "none" /\ key'[a] = key[a] /\ of'[a] = of[a]
  BY <1>3 DEF Settle, SettleNothing, SettleMismatch, SettleTaken, SettleStray,
     SettlePaid, SettleFailed, Flag, TypeOK
<1> QED
  BY <1>1, <1>2, <1>3 DEF Next, LifecycleStep

\* The key of an attempt is looked up before anything else is asked.
THEOREM RequestsRepeatHolds == Spec => RequestsRepeat
<1> DEFINE Again ==
      \A a \in Attempts, i \in Invoices, k \in Keys :
        OpenAttempt(a, i, k) \/ (key[a] = k /\ Found(a, i, k)) => Found(a, i, k)'
<1>1. TypeOK /\ Rows /\ [Next]_vars => [Again]_vars
  <2> SUFFICES ASSUME TypeOK, Rows, Next,
                      NEW a \in Attempts, NEW i \in Invoices, NEW k \in Keys,
                      OpenAttempt(a, i, k) \/ (key[a] = k /\ Found(a, i, k))
               PROVE  Found(a, i, k)'
    OBVIOUS
  <2>1. k # NoKey
    BY BillingAssumption
  <2>2. /\ attempt'[a] # "none"
        /\ key'[a] = k
        /\ of'[a] = i
    <3>1. CASE OpenAttempt(a, i, k)
      BY <3>1 DEF OpenAttempt, TypeOK
    <3>2. CASE key[a] = k /\ Found(a, i, k)
      <4>1. attempt[a] # "none"
        BY <2>1, <3>2, BillingAssumption DEF Rows, OnRows, Found, Replay, Unresolved,
           Settled, AttemptsOn, ThisIssue
      <4>2. of[a] = i
        BY <3>2 DEF Found, Unresolved, Settled, AttemptsOn, ThisIssue
      <4> QED
        BY <3>2, <4>1, <4>2, AttemptKept
    <3> QED
      BY <3>1, <3>2
  <2> QED
    BY <2>1, <2>2 DEF Found, Replay
<1> QED
  BY <1>1, RowsInvariant, PTL DEF Spec, RequestsRepeat

-----------------------------------------------------------------------------
(* What ends, ends for good *)

\* An attempt that was resolved or flagged is never charged again, and an invoice
\* that is PAID, OVERDUE or CANCELED never changes again: the transitions from
\* OVERDUE that transition_to would allow are not taken by any order of calls,
\* reports and tasks, and dunning has nothing to take up again.
EndsForGood ==
  [][/\ \A a \in Attempts :
          attempt[a] # "none" /\ ~Chargeable(a) => ~Chargeable(a)'
     /\ \A i \in Invoices :
          invoice[i] \notin {"none"} \cup Open => invoice'[i] = invoice[i]]_vars

\* settle writes to an invoice only while that is payable, and an OVERDUE invoice
\* has a canceled subscription.
THEOREM EndsForGoodHolds == Spec => EndsForGood
<1> DEFINE Ended ==
      /\ \A a \in Attempts :
           attempt[a] # "none" /\ ~Chargeable(a) => ~Chargeable(a)'
      /\ \A i \in Invoices :
           invoice[i] \notin {"none"} \cup Open => invoice'[i] = invoice[i]
<1>1. TypeOK /\ Rows /\ Standing /\ [Next]_vars => [Ended]_vars
  <2> SUFFICES ASSUME TypeOK, Rows, Standing, Next PROVE Ended
    OBVIOUS
  <2> USE DEF Chargeable, Open
  <2>1. ASSUME NEW s \in Subs, CreateActive(s) \/ Activate(s) \/ Renew(s)
        PROVE  Ended
    <3>1. PICK j \in Invoices : /\ invoice[j] = "none"
                               /\ invoice' = [invoice EXCEPT ![j] = "issued"]
      BY <2>1, NewPeriod DEF CreateActive, Activate, Renew, BeginPeriod, Bill
    <3>2. UNCHANGED attVars
      BY <2>1 DEF CreateActive, Activate, Renew
    <3> QED
      BY <3>1, <3>2 DEF attVars, TypeOK
  <2>2. ASSUME NEW s \in Subs, CreateTrial(s) \/ PeriodEnds(s) \/ Cancel(s)
        PROVE  Ended
    BY <2>2 DEF CreateTrial, PeriodEnds, Cancel, CloseOpen, invVars, attVars, TypeOK
  <2>3. ASSUME NEW i \in Invoices, Reissue(i) \/ Dispatch(i) PROVE Ended
    BY <2>3 DEF Reissue, Dispatch, attVars, TypeOK
  <2>4. ASSUME NEW i \in Invoices, GiveUp(i) PROVE Ended
    BY <2>4 DEF GiveUp, CloseOpen, attVars, TypeOK
  <2>5. ASSUME NEW a \in Attempts, NEW i \in Invoices, NEW k \in Keys \cup {NoKey},
               OpenAttempt(a, i, k)
        PROVE  Ended
    BY <2>5 DEF OpenAttempt, invVars, TypeOK
  <2>6. ASSUME NEW a \in Attempts, NEW ok \in BOOLEAN, NEW c \in Charges,
               Settle(a, ok, c)
        PROVE  Ended
    <3>1. CASE \/ SettleNothing(a, ok, c) \/ SettleMismatch(a, ok, c)
               \/ SettleTaken(a, c) \/ SettleStray(a, c)
      BY <3>1 DEF SettleNothing, SettleMismatch, SettleTaken, SettleStray, Flag,
         invVars
    <3>2. CASE SettlePaid(a, c)
      <4>1. of[a] \in Invoices /\ invoice[of[a]] \in Open
        BY <2>6, <3>2 DEF Settle, Rows, OnRows, SettlePaid, Collectable, Payable,
           Standing, OverdueIsNonPayment
      <4> QED
        BY <3>2, <4>1 DEF SettlePaid, TypeOK
    <3>3. CASE SettleFailed(a, c)
      BY <2>6, <3>3 DEF SettleFailed, SettleBound, Final, TypeOK
    <3> QED
      BY <2>6, <3>1, <3>2, <3>3 DEF Settle
  <2> QED
    BY <2>1, <2>2, <2>3, <2>4, <2>5, <2>6 DEF Next
<1> QED
  BY <1>1, RowsInvariant, StandingInvariant, PTL DEF Spec, EndsForGood

\* What reactivation does guarantee: when an OVERDUE subscription is ACTIVE again,
\* none of its invoices is FAILED or OVERDUE. One that dunning has reissued is
\* ISSUED, and may be unpaid: see ReactivatedPaidOff.
ReactivatedClear ==
  [][\A i \in Invoices :
       subscription[i[1]] = "overdue" /\ subscription'[i[1]] = "active" =>
         invoice'[i] \notin {"failed", "overdue"}]_vars

\* Only a payment reactivates, and it asks for all the other invoices.
THEOREM ReactivatedClearHolds == Spec => ReactivatedClear
<1> DEFINE Clear ==
      \A i \in Invoices :
        subscription[i[1]] = "overdue" /\ subscription'[i[1]] = "active" =>
          invoice'[i] \notin {"failed", "overdue"}
<1>1. TypeOK /\ Rows /\ [Next]_vars => [Clear]_vars
  <2> SUFFICES ASSUME TypeOK, Rows, Next, NEW i \in Invoices,
                      subscription[i[1]] = "overdue",
                      subscription'[i[1]] = "active"
               PROVE  invoice'[i] \notin {"failed", "overdue"}
    OBVIOUS
  <2>0. i[1] \in Subs
    BY DEF Invoices
  <2>1. PICK a \in Attempts, c \in Charges : attempt[a] # "none" /\ SettlePaid(a, c)
    <3>1. ~LifecycleStep
      BY <2>0 DEF LifecycleStep, CreateActive, CreateTrial, PeriodEnds, Activate,
         Renew, BeginPeriod, Cancel, Reissue, GiveUp, Dispatch, subVars, TypeOK
    <3> QED
      BY <2>0, <3>1 DEF Next, LifecycleStep, OpenAttempt, Settle, SettleNothing,
         SettleMismatch, SettleTaken, SettleStray, SettleFailed, Flag, subVars, TypeOK
  <2>2. of[a] \in Invoices
    BY <2>1 DEF Rows, OnRows
  <2>3. i[1] = of[a][1] /\ ~InArrears(of[a])
    BY <2>0, <2>1, <2>2 DEF SettlePaid, TypeOK
  <2> QED
    BY <2>1, <2>2, <2>3 DEF SettlePaid, InArrears, TypeOK
<1> QED
  BY <1>1, RowsInvariant, PTL DEF Spec, ReactivatedClear

=============================================================================
