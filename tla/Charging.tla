------------------------------ MODULE Charging ------------------------------
(***************************************************************************)
(* How the books of module Billing get their settlements: the broker that  *)
(* carries charge_invoice messages, the processes that run PaymentService  *)
(* in three phases (prepare, call the provider without a transaction,      *)
(* settle), the provider that replays its first answer, and its webhooks.  *)
(*                                                                         *)
(* A worker here is any process in the middle of a charge: a Celery worker *)
(* on charge_invoice or reconcile_stuck, or an API request. It may die     *)
(* between any two phases; what it committed stays.                        *)
(***************************************************************************)
EXTENDS Billing

CONSTANTS
  Workers,    \* processes that charge
  Events,     \* provider_event_ids
  Truthful,   \* the provider reports only what it did: see Reports
  MaxFaults,  \* bound: process deaths and lost hand-offs
  NoAttempt

ASSUME ChargingAssumption ==
  /\ Attempts \subseteq Charges  \* the provider's charge for attempt a is named a
  /\ NoAttempt \notin Attempts
  /\ Truthful \in BOOLEAN
  /\ MaxFaults \in Nat

VARIABLES
  queue,     \* charge_invoice messages at the broker
  pc,        \* what each worker does next
  job,       \* the attempt it charges
  receipt,   \* the provider's stored result for each attempt's key
  events,    \* provider_event_ids of the stored WebhookEvents
  accepted,  \* history: the keys that API calls were answered 201 with
  faults     \* deaths and losses so far

workVars == <<pc, job>>
envVars == <<receipt, events, accepted, faults>>
chargingVars == <<vars, queue, workVars, envVars>>

Phases == {"idle", "prepared", "calling", "answered"}

ChargingTypeOK ==
  /\ TypeOK
  /\ queue \subseteq Invoices
  /\ pc \in [Workers -> Phases]
  /\ job \in [Workers -> Attempts \cup {NoAttempt}]
  /\ \A w \in Workers : pc[w] = "idle" <=> job[w] = NoAttempt
  /\ receipt \in [Attempts -> {"none", "ok", "declined"}]
  /\ events \subseteq Events
  /\ accepted \subseteq Keys \X Invoices
  /\ faults \in 0 .. MaxFaults

ChargingInit ==
  /\ Init
  /\ queue = {}
  /\ pc = [w \in Workers |-> "idle"]
  /\ job = [w \in Workers |-> NoAttempt]
  /\ receipt = [a \in Attempts |-> "none"]
  /\ events = {}
  /\ accepted = {}
  /\ faults = 0

-----------------------------------------------------------------------------
(* The broker *)

\* on_commit: charge_invoice.delay reaches the broker.
HandOff(i) ==
  /\ Dispatch(i)
  /\ queue' = queue \cup {i}
  /\ UNCHANGED <<workVars, envVars>>

\* The process dies between commit and delay, or the broker is away.
LoseHandOff(i) ==
  /\ faults < MaxFaults
  /\ Dispatch(i)
  /\ faults' = faults + 1
  /\ UNCHANGED <<queue, workVars, receipt, events, accepted>>

\* Bug: an attempt of an earlier issue hides the invoice.
RehandNew(i) ==
  /\ invoice[i] = "issued"
  /\ \A a \in Attempts : of[a] # i
  /\ i \notin queue
  /\ queue' = queue \cup {i}
  /\ UNCHANGED <<vars, workVars, envVars>>

\* reconcile_stuck hands off again an ISSUED invoice that has no attempt for
\* its issue. Ten minutes may have passed at any time.
Rehand(i) ==
  /\ invoice[i] = "issued"
  /\ ThisIssue(i) = {}
  /\ i \notin queue
  /\ queue' = queue \cup {i}
  /\ UNCHANGED <<vars, workVars, envVars>>

-----------------------------------------------------------------------------
(* PaymentService: one transaction or one call per step *)

Begin(w, a) ==
  /\ pc' = [pc EXCEPT ![w] = "prepared"]
  /\ job' = [job EXCEPT ![w] = a]

\* Bug: the process keeps its attempt.
StopHolding(w) == pc' = [pc EXCEPT ![w] = "idle"] /\ UNCHANGED job

Stop(w) ==
  /\ pc' = [pc EXCEPT ![w] = "idle"]
  /\ job' = [job EXCEPT ![w] = NoAttempt]

\* _prepare finds an attempt or makes one, and w charges it if it is due.
Prepare(w, i, k) ==
  /\ pc[w] = "idle"
  /\ \E a \in Attempts :
       \/ Found(a, i, k) /\ Chargeable(a) /\ Begin(w, a) /\ UNCHANGED vars
       \/ Found(a, i, k) /\ ~Chargeable(a) /\ UNCHANGED <<vars, workVars>>
       \/ OpenAttempt(a, i, k) /\ Begin(w, a)

\* charge_issued, on a message that is acknowledged only after the task
\* (acks_late): the broker may deliver it again.
ChargeIssued(w, i) ==
  /\ i \in queue
  /\ invoice[i] = "issued"
  /\ Prepare(w, i, NoKey)
  /\ queue' \in {queue, queue \ {i}}
  /\ UNCHANGED envVars

\* issued_only: the invoice was settled or closed since the hand-off.
SkipMessage(i) ==
  /\ i \in queue
  /\ invoice[i] # "issued"
  /\ queue' = queue \ {i}
  /\ UNCHANGED <<vars, workVars, envVars>>

\* A client posts a payment for an invoice it can see; refusals (409, 400)
\* change nothing.
Attempt(w, i, k) ==
  /\ invoice[i] # "none"
  /\ Prepare(w, i, k)
  /\ accepted' = IF k = NoKey THEN accepted ELSE accepted \cup {<<k, i>>}
  /\ UNCHANGED <<queue, receipt, events, faults>>

\* Bug: attempts on closed invoices are left PENDING.
RecoverOpen(w, a) ==
  /\ pc[w] = "idle"
  /\ Chargeable(a) /\ invoice[of[a]] \in Open
  /\ Begin(w, a)
  /\ UNCHANGED <<vars, queue, envVars>>

\* reconcile_stuck takes up a PENDING attempt nobody is known to work on.
RecoverPending(w, a) ==
  /\ pc[w] = "idle"
  /\ Chargeable(a)
  /\ Begin(w, a)
  /\ UNCHANGED <<vars, queue, envVars>>

\* _charge reads the attempt again, outside any transaction.
ReadAttempt(w) ==
  /\ pc[w] = "prepared"
  /\ IF Chargeable(job[w])
       THEN pc' = [pc EXCEPT ![w] = "calling"] /\ UNCHANGED job
       ELSE Stop(w)
  /\ UNCHANGED <<vars, queue, envVars>>

\* Bug: the provider's stored result is not looked up.
ReceiptsAnew(a) == {"ok", "declined"}

\* The provider's answer to the key of attempt a: the stored one, or the
\* first, which it stores.
Receipts(a) == IF receipt[a] = "none" THEN {"ok", "declined"} ELSE {receipt[a]}

CallGateway(w) ==
  /\ pc[w] = "calling"
  /\ \E r \in Receipts(job[w]) : receipt' = [receipt EXCEPT ![job[w]] = r]
  /\ pc' = [pc EXCEPT ![w] = "answered"]
  /\ UNCHANGED <<vars, queue, job, events, accepted, faults>>

SettleAnswer(w) ==
  /\ pc[w] = "answered"
  /\ Settle(job[w], receipt[job[w]] = "ok", job[w])
  /\ Stop(w)
  /\ UNCHANGED <<queue, envVars>>

\* Bug: the provider is called inside the transaction of _prepare, so that a
\* crash takes the attempt with it.
CrashRollsBack(w) ==
  /\ pc[w] # "idle"
  /\ faults < MaxFaults
  /\ faults' = faults + 1
  /\ attempt' = [attempt EXCEPT ![job[w]] = "none"]
  /\ Stop(w)
  /\ UNCHANGED <<subVars, invVars, of, round, key, charge, flagged, confirmed,
                 queue, receipt, events, accepted>>

\* The process dies, or the call or a transaction fails; reject_on_worker_lost
\* leaves the message with the broker or reconcile_stuck finds the attempt.
Crash(w) ==
  /\ pc[w] # "idle"
  /\ faults < MaxFaults
  /\ faults' = faults + 1
  /\ Stop(w)
  /\ UNCHANGED <<vars, queue, receipt, events, accepted>>

-----------------------------------------------------------------------------
(* Webhooks *)

\* What signed events may say of attempt a: a truthful provider sends what it
\* did, any other one any result and any charge id.
Reports(a) ==
  IF Truthful
    THEN {<<receipt[a] = "ok", a>> : x \in {receipt[a]} \ {"none"}}
    ELSE BOOLEAN \X Charges

\* handle_webhook: an event is stored once and settled in the same
\* transaction; one that names no known attempt is only stored.
Webhook(e, a) ==
  /\ e \notin events
  /\ events' = events \cup {e}
  /\ \E r \in Reports(a) :
       \/ attempt[a] # "none" /\ Settle(a, r[1], r[2])
       \/ attempt[a] = "none" /\ UNCHANGED vars
  /\ UNCHANGED <<queue, workVars, receipt, accepted, faults>>

-----------------------------------------------------------------------------
\* The transactions of Billing that no charge is part of: API calls, the
\* clock, and the tasks of the beat schedule.
Lifecycle ==
  /\ \/ \E s \in Subs : \/ CreateActive(s) \/ CreateTrial(s) \/ PeriodEnds(s)
                        \/ Activate(s) \/ Renew(s) \/ Cancel(s)
     \/ \E i \in Invoices : Reissue(i) \/ GiveUp(i)
  /\ UNCHANGED <<queue, workVars, envVars>>

ChargingNext ==
  \/ Lifecycle
  \/ \E i \in Invoices : HandOff(i) \/ LoseHandOff(i) \/ Rehand(i) \/ SkipMessage(i)
  \/ \E w \in Workers :
       \/ \E i \in Invoices : ChargeIssued(w, i)
       \/ \E i \in Invoices, k \in Keys \cup {NoKey} : Attempt(w, i, k)
       \/ \E a \in Attempts : RecoverPending(w, a)
       \/ ReadAttempt(w) \/ CallGateway(w) \/ SettleAnswer(w) \/ Crash(w)
  \/ \E e \in Events, a \in Attempts : Webhook(e, a)

ChargingSpec == ChargingInit /\ [][ChargingNext]_chargingVars

-----------------------------------------------------------------------------
(* Fairness. A process that is alive goes on with its charge; the broker     *)
(* delivers; the beat schedule runs dunning and reconcile_stuck for ever, and *)
(* each run visits every row its query finds. Nothing is assumed of clients,  *)
(* of the clock, of webhooks or of on_commit callbacks.                      *)

Work(w) == ReadAttempt(w) \/ CallGateway(w) \/ SettleAnswer(w)
Deliver(i) == SkipMessage(i) \/ \E w \in Workers : ChargeIssued(w, i)
Recover(a) == \E w \in Workers : RecoverPending(w, a)
Dun(i) ==
  (Reissue(i) \/ GiveUp(i)) /\ UNCHANGED <<queue, workVars, envVars>>

FairSpec ==
  /\ ChargingSpec
  /\ \A w \in Workers : WF_chargingVars(Work(w))
  /\ \A a \in Attempts : WF_chargingVars(Recover(a))
  /\ \A i \in Invoices : /\ WF_chargingVars(Deliver(i))
                         /\ WF_chargingVars(Rehand(i))
                         /\ WF_chargingVars(Dun(i))

-----------------------------------------------------------------------------
(* Safety *)

\* The workers, the broker and the webhooks change the books only by Billing's
\* transactions: whatever holds of Billing holds here.
BooksKept == Spec

\* However often a charge is delivered, retried, recovered and reported, the
\* customer is charged for an invoice once at most, if the provider is truthful:
\* a new attempt is made only when the one before is known to be declined.
ChargedOnce ==
  \A a, b \in Attempts :
    of[a] = of[b] /\ receipt[a] = "ok" /\ receipt[b] = "ok" => a = b

\* Of a truthful provider, the books hold nothing else than it did: no attempt
\* succeeds or fails against its receipt, and only money taken is flagged.
BooksFollowProvider ==
  \A a \in Attempts :
    /\ attempt[a] = "success" => receipt[a] = "ok"
    /\ attempt[a] = "failed" => receipt[a] = "declined"
    /\ a \in flagged => receipt[a] = "ok"

StandingOf(i) ==
  CASE invoice[i] = "none" -> "none"
    [] invoice[i] \in Open -> "owed"
    [] invoice[i] = "paid" -> "paid"
    [] OTHER -> "closed"

MoneyOf(i) ==
  LET on == {a \in Attempts : of[a] = i} IN
  IF Settled(i) # {} THEN "credited"
  ELSE IF on \cap flagged # {} THEN "review"
  ELSE IF \E a \in on : receipt[a] = "ok" THEN "taken" ELSE "none"

Promise == INSTANCE Collection WITH
  Bills <- Invoices,
  status <- [i \in Invoices |-> StandingOf(i)],
  money <- [i \in Invoices |-> MoneyOf(i)]

\* The promise of module Collection, kept for a truthful provider: an invoice's
\* money is taken, then credited or set aside, by a system that only has
\* attempts and receipts.
PromiseKept == Promise!SpecCollection

\* "Idempotency-Key on payment creation is unique within a project and bound to
\* one invoice" (README): no key is accepted for two invoices of a project.
KeyBound ==
  \A p, q \in accepted :
    p[1] = q[1] /\ OrgOf[p[2][1]] = OrgOf[q[2][1]] => p[2] = q[2]

(* Progress *)

\* Collection of every invoice ends: it is paid, given up or canceled, unless
\* an attempt on it is left to a person. Lost hand-offs, dead workers, repeated
\* messages and contradicting webhooks do not strand it.
CollectionEnds ==
  \A i \in Invoices :
    invoice[i] \in Open ~>
      invoice[i] \notin Open \/ \E a \in flagged : of[a] = i

\* No attempt stays PENDING unless it was flagged.
AttemptsEnd ==
  \A a \in Attempts : attempt[a] = "pending" ~> ~Chargeable(a)

=============================================================================
