------------------------------ MODULE Billing ------------------------------
(***************************************************************************)
(* The books of ChargeFlow: subscriptions, their invoices and the payment  *)
(* attempts on them, as the PostgreSQL tables hold them, with one action   *)
(* for each database transaction that the services commit.                 *)
(*                                                                         *)
(* Every transaction that changes these rows first takes the row lock of   *)
(* the subscription (SELECT ... FOR UPDATE) and keeps it until commit, so  *)
(* the transactions on one subscription are serial and each is an action.  *)
(* Who runs them, and what happens between two of them, is not said here:  *)
(* a settlement may come at any time, with any result and any charge id.   *)
(* Module Charging adds the workers, the broker and the provider.          *)
(***************************************************************************)
EXTENDS Naturals, FiniteSets

CONSTANTS
  Subs,        \* subscriptions
  Orgs,        \* projects (accounts.Organization)
  OrgOf,       \* the project of a subscription, fixed for its life
  Attempts,    \* primary keys of payment attempts
  Charges,     \* charge ids that a provider may report
  Keys,        \* client idempotency keys
  MaxPeriod,   \* bound: billing periods that a subscription may begin
  MaxDunning,  \* MAX_DUNNING_ATTEMPTS (invoices/tasks.py)
  NoCharge, NoKey, NoInvoice   \* the empty column

Periods == 1 .. MaxPeriod
Invoices == Subs \X Periods     \* one row per subscription and billing period

ASSUME BillingAssumption ==
  /\ OrgOf \in [Subs -> Orgs]
  /\ IsFiniteSet(Attempts)
  /\ MaxPeriod \in Nat \ {0}
  /\ MaxDunning \in Nat \ {0}
  /\ NoCharge \notin Charges
  /\ NoKey \notin Keys
  /\ NoInvoice \notin Invoices

VARIABLES
  subscription, \* status of each subscription row, "none" before it exists
  period,       \* billing periods begun so far; a trial is not one
  due,          \* current_period_end has passed
  reason,       \* canceled_reason
  invoice,      \* status of each invoice row, "none" before it exists
  issue,        \* how many times it was issued: the order of its issued_at
  handoff,      \* on_commit callbacks that have not run: charge_invoice.delay
  attempt,      \* status of each payment attempt row
  of,           \* its invoice
  round,        \* the invoice's issue when it was made: its attempted_at
  key,          \* its client idempotency key
  charge,       \* its provider_charge_id
  flagged,      \* attempts with needs_reconciliation set
  confirmed     \* history: attempts for which a success was ever committed

subVars == <<subscription, period, due, reason>>
invVars == <<invoice, issue, handoff>>
attVars == <<attempt, of, round, key, charge, flagged, confirmed>>
vars == <<subVars, invVars, attVars>>

-----------------------------------------------------------------------------
SubscriptionStatus == {"trial", "active", "overdue", "canceled"}
InvoiceStatus == {"issued", "paid", "failed", "overdue", "canceled"}
PaymentStatus == {"pending", "success", "failed"}
CancellationReason == {"voluntary", "non_payment"}

\* Statuses from which a payment attempt is allowed.
Payable == {"issued", "failed", "overdue"}
\* What a cancellation closes. An invoice leaves DRAFT in the transaction that
\* creates it, so no transaction ever sees one.
Open == {"issued", "failed"}

SubscriptionTransitions ==
  {<<"trial", "active">>, <<"trial", "canceled">>, <<"active", "overdue">>,
   <<"active", "canceled">>, <<"overdue", "active">>, <<"overdue", "canceled">>}

InvoiceTransitions ==
  {<<"issued", "paid">>, <<"issued", "failed">>, <<"issued", "overdue">>,
   <<"issued", "canceled">>, <<"failed", "issued">>, <<"failed", "paid">>,
   <<"failed", "overdue">>, <<"failed", "canceled">>, <<"overdue", "paid">>,
   <<"overdue", "canceled">>}

TypeOK ==
  /\ subscription \in [Subs -> SubscriptionStatus \cup {"none"}]
  /\ period \in [Subs -> 0 .. MaxPeriod]
  /\ due \in [Subs -> BOOLEAN]
  /\ reason \in [Subs -> CancellationReason \cup {"none"}]
  /\ invoice \in [Invoices -> InvoiceStatus \cup {"none"}]
  /\ issue \in [Invoices -> Nat]
  /\ handoff \subseteq Invoices
  /\ attempt \in [Attempts -> PaymentStatus \cup {"none"}]
  /\ of \in [Attempts -> Invoices \cup {NoInvoice}]
  /\ round \in [Attempts -> Nat]
  /\ key \in [Attempts -> Keys \cup {NoKey}]
  /\ charge \in [Attempts -> Charges \cup {NoCharge}]
  /\ flagged \subseteq Attempts
  /\ confirmed \subseteq Attempts

Init ==
  /\ subscription = [s \in Subs |-> "none"]
  /\ period = [s \in Subs |-> 0]
  /\ due = [s \in Subs |-> FALSE]
  /\ reason = [s \in Subs |-> "none"]
  /\ invoice = [i \in Invoices |-> "none"]
  /\ issue = [i \in Invoices |-> 0]
  /\ handoff = {}
  /\ attempt = [a \in Attempts |-> "none"]
  /\ of = [a \in Attempts |-> NoInvoice]
  /\ round = [a \in Attempts |-> 0]
  /\ key = [a \in Attempts |-> NoKey]
  /\ charge = [a \in Attempts |-> NoCharge]
  /\ flagged = {}
  /\ confirmed = {}

-----------------------------------------------------------------------------
(* Subscriptions and the invoices of their periods *)

\* generate_for_subscription for the period p that the caller has just begun:
\* the row is new, created and issued, and its charge handed off on commit.
Bill(s, p) ==
  /\ invoice' = [invoice EXCEPT ![<<s, p>>] = "issued"]
  /\ issue' = [issue EXCEPT ![<<s, p>>] = 1]
  /\ handoff' = handoff \cup {<<s, p>>}

\* An API call subscribes a customer to a plan without a trial: the first
\* period begins and is billed at once.
CreateActive(s) ==
  /\ subscription[s] = "none"
  /\ subscription' = [subscription EXCEPT ![s] = "active"]
  /\ period' = [period EXCEPT ![s] = 1]
  /\ Bill(s, 1)
  /\ UNCHANGED <<due, reason, attVars>>

\* The plan has trial days: nothing is billed.
CreateTrial(s) ==
  /\ subscription[s] = "none"
  /\ subscription' = [subscription EXCEPT ![s] = "trial"]
  /\ UNCHANGED <<period, due, reason, invVars, attVars>>

\* The clock passes current_period_end (the trial's end, while in trial).
PeriodEnds(s) ==
  /\ subscription[s] \in {"trial", "active", "overdue"}
  /\ ~due[s]
  /\ due' = [due EXCEPT ![s] = TRUE]
  /\ UNCHANGED <<subscription, period, reason, invVars, attVars>>

\* The next period begins now, and is billed. Bounded by MaxPeriod.
BeginPeriod(s) ==
  /\ period[s] < MaxPeriod
  /\ period' = [period EXCEPT ![s] = @ + 1]
  /\ due' = [due EXCEPT ![s] = FALSE]
  /\ Bill(s, period[s] + 1)

\* The API ends a trial at any time, the hourly task one that has expired.
Activate(s) ==
  /\ subscription[s] = "trial"
  /\ subscription' = [subscription EXCEPT ![s] = "active"]
  /\ BeginPeriod(s)
  /\ UNCHANGED <<reason, attVars>>

\* Bug: the renewal moves the period and does not bill it.
RenewUnbilled(s) ==
  /\ subscription[s] = "active"
  /\ due[s]
  /\ period[s] < MaxPeriod
  /\ period' = [period EXCEPT ![s] = @ + 1]
  /\ due' = [due EXCEPT ![s] = FALSE]
  /\ UNCHANGED <<subscription, reason, invVars, attVars>>

\* The API or the hourly task renews an ACTIVE subscription that is due.
Renew(s) ==
  /\ subscription[s] = "active"
  /\ due[s]
  /\ BeginPeriod(s)
  /\ UNCHANGED <<subscription, reason, attVars>>

\* Bug: a status the model does not know.
VoidOpen(s) ==
  [i \in Invoices |->
     IF i[1] = s /\ invoice[i] \in Open THEN "voided" ELSE invoice[i]]

\* The invoices of s once its open ones are canceled.
CloseOpen(s) ==
  [i \in Invoices |->
     IF i[1] = s /\ invoice[i] \in Open THEN "canceled" ELSE invoice[i]]

\* A customer cancels through the API; transition_to refuses a second time.
Cancel(s) ==
  /\ subscription[s] \in {"trial", "active", "overdue"}
  /\ subscription' = [subscription EXCEPT ![s] = "canceled"]
  /\ reason' = [reason EXCEPT ![s] = "voluntary"]
  /\ invoice' = CloseOpen(s)
  /\ UNCHANGED <<period, due, issue, handoff, attVars>>

-----------------------------------------------------------------------------
(* Dunning *)

AttemptsOn(i, status) == {a \in Attempts : of[a] = i /\ attempt[a] = status}

\* Bug: off by one.
ExhaustedLate(i) == Cardinality(AttemptsOn(i, "failed")) > MaxDunning

\* The retry cap: every declined attempt counts, whoever asked for it.
Exhausted(i) == Cardinality(AttemptsOn(i, "failed")) >= MaxDunning

\* Bug: the reissue keeps the old issued_at.
ReissueUnstamped(i) ==
  /\ invoice[i] = "failed"
  /\ ~Exhausted(i)
  /\ invoice' = [invoice EXCEPT ![i] = "issued"]
  /\ handoff' = handoff \cup {i}
  /\ UNCHANGED <<subVars, issue, attVars>>

\* _dun_invoice hands a FAILED invoice to the worker again ...
Reissue(i) ==
  /\ invoice[i] = "failed"
  /\ ~Exhausted(i)
  /\ invoice' = [invoice EXCEPT ![i] = "issued"]
  /\ issue' = [issue EXCEPT ![i] = @ + 1]
  /\ handoff' = handoff \cup {i}
  /\ UNCHANGED <<subVars, attVars>>

\* Bug: canceled first, so that mark_overdue finds the invoice CANCELED.
GiveUpSwapped(i) ==
  /\ invoice[i] = "failed"
  /\ Exhausted(i)
  /\ subscription' = [subscription EXCEPT ![i[1]] = "canceled"]
  /\ reason' = [reason EXCEPT ![i[1]] = "non_payment"]
  /\ invoice' = CloseOpen(i[1])
  /\ UNCHANGED <<period, due, issue, handoff, attVars>>

\* ... or, past the cap, gives the invoice up and cancels its subscription.
GiveUp(i) ==
  LET s == i[1]
      live == subscription[s] # "canceled"
  IN /\ invoice[i] = "failed"
     /\ Exhausted(i)
     /\ subscription' = [subscription EXCEPT ![s] = "canceled"]
     /\ reason' = [reason EXCEPT ![s] = IF live THEN "non_payment" ELSE @]
     /\ invoice' = [IF live THEN CloseOpen(s) ELSE invoice
                      EXCEPT ![i] = "overdue"]
     /\ UNCHANGED <<period, due, issue, handoff, attVars>>

\* The on_commit callback of an invoice's transaction runs, or its process
\* dies first: either way it is gone from the committing process.
Dispatch(i) ==
  /\ i \in handoff
  /\ handoff' = handoff \ {i}
  /\ UNCHANGED <<subVars, invoice, issue, attVars>>

-----------------------------------------------------------------------------
(* Payment attempts *)

\* Bug: the key is looked up among the invoice's own attempts.
ReplayOnInvoice(i, k) ==
  {a \in Attempts : k # NoKey /\ key[a] = k /\ of[a] = i}

\* The attempt that k already names in the project of invoice i.
Replay(i, k) ==
  {a \in Attempts : /\ k # NoKey /\ key[a] = k
                    /\ attempt[a] # "none"
                    /\ OrgOf[of[a][1]] = OrgOf[i[1]]}

\* Attempts made since an ISSUED invoice was last issued.
ThisIssue(i) ==
  {a \in Attempts : of[a] = i /\ invoice[i] = "issued" /\ round[a] >= issue[i]}

Unresolved(i) == AttemptsOn(i, "pending")
Settled(i) == AttemptsOn(i, "success")

\* _prepare answers with attempt a, which exists.
Found(a, i, k) ==
  \/ a \in Replay(i, k) /\ of[a] = i
  \/ /\ Replay(i, k) = {}
     /\ \/ invoice[i] \notin Payable /\ a \in Unresolved(i)
        \/ a \in ThisIssue(i) /\ k \in {NoKey, key[a]}
        \/ /\ invoice[i] \in Payable
           /\ ThisIssue(i) = {}
           /\ a \in Unresolved(i) \cup Settled(i)

\* The caller of _prepare goes on to charge a only in this case.
Chargeable(a) == attempt[a] = "pending" /\ a \notin flagged

\* Bug: a PENDING attempt does not stop a new one.
MayOpenBeside(i, k) ==
  /\ Replay(i, k) = {}
  /\ invoice[i] \in Payable
  /\ ThisIssue(i) = {}
  /\ Settled(i) = {}
  /\ subscription[i[1]] # "canceled"

\* _prepare refuses no rule and finds nothing: it commits a new PENDING row.
MayOpen(i, k) ==
  /\ Replay(i, k) = {}
  /\ invoice[i] \in Payable
  /\ ThisIssue(i) = {}
  /\ Unresolved(i) \cup Settled(i) = {}
  /\ subscription[i[1]] # "canceled"

OpenAttempt(a, i, k) ==
  /\ attempt[a] = "none"
  /\ MayOpen(i, k)
  /\ attempt' = [attempt EXCEPT ![a] = "pending"]
  /\ of' = [of EXCEPT ![a] = i]
  /\ round' = [round EXCEPT ![a] = issue[i]]
  /\ key' = [key EXCEPT ![a] = k]
  /\ UNCHANGED <<subVars, invVars, charge, flagged, confirmed>>

-----------------------------------------------------------------------------
(* settle: the outcome of attempt a is reported, with charge id c.         *)
(* The cases below are the code's, in its order.                           *)

\* Bug: the first result stands, and later ones are ignored.
FinalAtFirstResult(a) == attempt[a] \in {"success", "failed"} \/ a \in flagged
\* Bug: only a flag stops a later rejection.
FinalIfFlagged(a) == a \in flagged
Final(a) == attempt[a] = "success" \/ a \in flagged
Mismatch(a, c) == charge[a] # NoCharge /\ charge[a] # c
Taken(a, c) == \E b \in Attempts \ {a} : charge[b] = c

\* Bug: the state of the invoice is not asked.
CollectableAnyInvoice(i) == subscription[i[1]] # "canceled"
\* Bug: a cancellation is not asked.
CollectableOnce(i) == Settled(i) = {}

\* A result for invoice i still changes the books.
Collectable(i) ==
  /\ subscription[i[1]] # "canceled"
  /\ invoice[i] \in Payable
  /\ Settled(i) = {}

\* What keeps reactivate from acting once invoice i is paid.
InArrears(i) ==
  \E j \in Invoices \ {i} : j[1] = i[1] /\ invoice[j] \in {"failed", "overdue"}

Flag(a) ==
  /\ flagged' = flagged \cup {a}
  /\ UNCHANGED <<subVars, invVars, attempt, of, round, key>>

\* Nothing is left to learn about a.
SettleNothing(a, ok, c) ==
  /\ Final(a)
  /\ ~ok \/ ~Mismatch(a, c)
  /\ UNCHANGED <<subVars, invVars, attempt, of, round, key, charge, flagged>>

\* The provider names two charges for one attempt.
SettleMismatch(a, ok, c) ==
  /\ ok \/ ~Final(a)
  /\ Mismatch(a, c)
  /\ Flag(a)
  /\ UNCHANGED charge

\* The charge is bound to another attempt (unique_provider_charge).
SettleTaken(a, c) ==
  /\ ~Final(a)
  /\ charge[a] = NoCharge
  /\ Taken(a, c)
  /\ Flag(a)
  /\ UNCHANGED charge

\* The remaining cases record the charge id.
SettleBound(a, c) ==
  /\ ~Final(a)
  /\ ~Mismatch(a, c)
  /\ charge[a] = NoCharge => ~Taken(a, c)
  /\ charge' = [charge EXCEPT ![a] = c]

\* The money came too late: the invoice cannot take it.
SettleStray(a, c) ==
  /\ SettleBound(a, c)
  /\ ~Collectable(of[a])
  /\ Flag(a)

\* The invoice is paid and its subscription, if nothing else is in arrears,
\* is ACTIVE again.
SettlePaid(a, c) ==
  LET i == of[a] IN
  /\ SettleBound(a, c)
  /\ Collectable(i)
  /\ attempt' = [attempt EXCEPT ![a] = "success"]
  /\ invoice' = [invoice EXCEPT ![i] = "paid"]
  /\ subscription' =
       [subscription EXCEPT
          ![i[1]] = IF @ = "overdue" /\ ~InArrears(i) THEN "active" ELSE @]
  /\ UNCHANGED <<period, due, reason, issue, handoff, of, round, key, flagged>>

\* The first rejection fails the attempt and, while the invoice is pursued,
\* an ISSUED invoice and an ACTIVE subscription; a repeated one does nothing.
SettleFailed(a, c) ==
  LET i == of[a]
      pursued == Collectable(i) /\ attempt[a] # "failed"
  IN
  /\ SettleBound(a, c)
  /\ attempt' = [attempt EXCEPT ![a] = "failed"]
  /\ invoice' =
       [invoice EXCEPT ![i] = IF pursued /\ @ = "issued" THEN "failed" ELSE @]
  /\ subscription' =
       [subscription EXCEPT
          ![i[1]] = IF pursued /\ @ = "active" THEN "overdue" ELSE @]
  /\ UNCHANGED <<period, due, reason, issue, handoff, of, round, key, flagged>>

Settle(a, ok, c) ==
  /\ attempt[a] # "none"
  /\ confirmed' = IF ok THEN confirmed \cup {a} ELSE confirmed
  /\ \/ SettleNothing(a, ok, c)
     \/ SettleMismatch(a, ok, c)
     \/ SettleTaken(a, c)
     \/ ok /\ (SettleStray(a, c) \/ SettlePaid(a, c))
     \/ ~ok /\ SettleFailed(a, c)

-----------------------------------------------------------------------------
Next ==
  \/ \E s \in Subs : \/ CreateActive(s) \/ CreateTrial(s) \/ PeriodEnds(s)
                     \/ Activate(s) \/ Renew(s) \/ Cancel(s)
  \/ \E i \in Invoices : Reissue(i) \/ GiveUp(i) \/ Dispatch(i)
  \/ \E a \in Attempts, i \in Invoices, k \in Keys \cup {NoKey} :
        OpenAttempt(a, i, k)
  \/ \E a \in Attempts, ok \in BOOLEAN, c \in Charges : Settle(a, ok, c)

Spec == Init /\ [][Next]_vars

-----------------------------------------------------------------------------
(* Safety *)

\* No invoice ever has two SUCCESS attempts: if settle tried to store a second
\* one, one_success_per_invoice would roll back the record of taken money.
OneSuccess ==
  \A a, b \in Attempts :
    of[a] = of[b] /\ attempt[a] = "success" /\ attempt[b] = "success" => a = b

\* PAID invoices are those with a SUCCESS attempt: the invoice and the attempt
\* are changed together by settle and by nothing else.
PaidIffSuccess ==
  \A i \in Invoices : invoice[i] = "paid" <=> Settled(i) # {}

\* An invoice has one PENDING attempt at most, flagged or not: while a charge
\* may still be answered, _prepare starts no second one beside it.
OneUnresolved ==
  \A a, b \in Attempts :
    of[a] = of[b] /\ attempt[a] = "pending" /\ attempt[b] = "pending" => a = b

\* A CANCELED subscription has no invoice that is still pursued, whatever
\* settled, renewed or was reissued around the cancellation.
CanceledClosed ==
  \A i \in Invoices : subscription[i[1]] = "canceled" => invoice[i] \notin Open

\* A FAILED invoice keeps its subscription OVERDUE, and an OVERDUE
\* subscription has an invoice that dunning or a worker is still collecting:
\* neither side is ever left waiting for the other.
ArrearsAgree ==
  /\ \A i \in Invoices : invoice[i] = "failed" => subscription[i[1]] = "overdue"
  /\ \A s \in Subs : subscription[s] = "overdue" =>
       \E i \in Invoices : i[1] = s /\ invoice[i] \in Open

\* Dunning that gives up does all of it: an invoice is OVERDUE exactly when its
\* subscription was canceled for non-payment on account of some invoice.
OverdueIsNonPayment ==
  /\ \A i \in Invoices : invoice[i] = "overdue" =>
       subscription[i[1]] = "canceled" /\ reason[i[1]] = "non_payment"
  /\ \A s \in Subs : reason[s] = "non_payment" =>
       \E i \in Invoices : i[1] = s /\ invoice[i] = "overdue"

\* A charge id is bound to one attempt, even if the provider reports it twice.
ChargeBoundOnce ==
  \A a, b \in Attempts : charge[a] = charge[b] /\ charge[a] # NoCharge => a = b

\* Once a success was committed for an attempt, the money is either on its
\* invoice or marked for reconciliation, for good: no order of late, repeated
\* or contradicting reports, reissues and cancellations makes settle lose it.
SuccessAccounted ==
  \A a \in confirmed : attempt[a] = "success" \/ a \in flagged

\* Every attempt made since an ISSUED invoice was issued is still PENDING. A
\* resolved one would be found by charge_issued and by reconcile_stuck, and
\* neither would ever charge the invoice again.
IssuedAwaitsCharge ==
  \A i \in Invoices : \A a \in ThisIssue(i) : attempt[a] = "pending"

\* Dunning issues an invoice MaxDunning times at most, though API callers add
\* attempts of their own and late reports change what is counted.
RetryCap == \A i \in Invoices : issue[i] <= MaxDunning

\* Each period begun is billed by one invoice, and nothing else is.
PeriodsBilled ==
  \A s \in Subs, p \in Periods : invoice[<<s, p>>] # "none" <=> p <= period[s]

\* A client key names one attempt in its project. A second row with the key
\* would break unique_project_payment_key and answer the client with an error
\* of the server instead of the attempt or a conflict.
KeyNamesOne ==
  \A a, b \in Attempts :
    /\ key[a] = key[b] /\ key[a] # NoKey
    /\ OrgOf[of[a][1]] = OrgOf[of[b][1]]
    => a = b

\* An invoice is PAID by exactly one SUCCESS attempt, and by nothing else: the
\* rejected, late and repeated reports of its other attempts move no money.
Money == OneSuccess /\ PaidIffSuccess

\* Cancellation closes what is open and gives a reason that stays, FAILED
\* invoices keep a subscription OVERDUE which has one to collect, and OVERDUE
\* invoices are left by non-payment alone.
Standing ==
  /\ CanceledClosed
  /\ ArrearsAgree
  /\ OverdueIsNonPayment
  /\ \A s \in Subs : reason[s] # "none" => subscription[s] = "canceled"

\* unique_provider_charge and unique_project_payment_key are never tried with a
\* value that is in use, and a key is never taken without its attempt.
Bound ==
  /\ ChargeBoundOnce
  /\ KeyNamesOne
  /\ \A a \in Attempts : key[a] # NoKey => attempt[a] # "none"

(* Steps *)

\* No transaction changes a status in a way that transition_to refuses: the
\* exception would roll back all of it, a recorded payment included.
TransitionsAccepted ==
  [][/\ \A s \in Subs : subscription[s] \notin {"none", subscription'[s]} =>
          <<subscription[s], subscription'[s]>> \in SubscriptionTransitions
     /\ \A i \in Invoices : invoice[i] \notin {"none", invoice'[i]} =>
          <<invoice[i], invoice'[i]>> \in InvoiceTransitions]_vars

\* A SUCCESS, a flag and a bound charge id are never taken back, whatever is
\* reported afterwards.
SettledForGood ==
  [][\A a \in Attempts :
       /\ attempt[a] = "success" => attempt'[a] = "success"
       /\ a \in flagged => a \in flagged'
       /\ charge[a] # NoCharge => charge'[a] = charge[a]]_vars

\* "An OVERDUE subscription goes back to ACTIVE only by paying off its
\* invoices" (SubscriptionService.activate): none that was failed before is
\* unpaid when it does.
ReactivatedPaidOff ==
  [][\A i \in Invoices :
       subscription[i[1]] = "overdue" /\ subscription'[i[1]] = "active" =>
         ~(invoice'[i] \in Payable /\ issue[i] > 1)]_vars

\* "An OVERDUE invoice is still payable" (InvoiceService.mark_failed): a
\* success reported for it would still change the books.
OverduePayable == \A i \in Invoices : invoice[i] = "overdue" => Collectable(i)

=============================================================================
