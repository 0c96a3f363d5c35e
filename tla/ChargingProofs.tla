--------------------------- MODULE ChargingProofs ---------------------------
(***************************************************************************)
(* Charging for every number of workers, attempts, events and faults: it   *)
(* changes the books only as module Billing says, and with a truthful      *)
(* provider no invoice is charged twice and the promise of module          *)
(* Collection is kept.                                                     *)
(***************************************************************************)
EXTENDS Charging, BillingProofs

-----------------------------------------------------------------------------
(* The books *)

\* What a webhook may report is a result and a charge id.
LEMMA ReportsType ==
  ASSUME ChargingTypeOK, NEW a \in Attempts, NEW r \in Reports(a)
  PROVE  r[1] \in BOOLEAN /\ r[2] \in Charges
<1>1. CASE Truthful
  <2>1. r = <<receipt[a] = "ok", a>>
    BY <1>1 DEF Reports
  <2>2. r[1] = (receipt[a] = "ok") /\ r[2] = a
    BY <2>1
  <2> QED
    BY <2>2, ChargingAssumption
<1>2. CASE ~Truthful
  BY <1>2 DEF Reports
<1> QED
  BY <1>1, <1>2

\* Whatever a worker, the broker or a webhook does is a transaction of Billing
\* or leaves the books alone.
LEMMA BooksStep ==
  ChargingTypeOK /\ [ChargingNext]_chargingVars => [Next]_vars
<1> SUFFICES ASSUME ChargingTypeOK, [ChargingNext]_chargingVars
             PROVE  [Next]_vars
  OBVIOUS
<1>1. CASE UNCHANGED chargingVars
  BY <1>1 DEF chargingVars
<1>2. CASE Lifecycle
  BY <1>2 DEF Lifecycle, Next
<1>3. ASSUME NEW i \in Invoices,
             HandOff(i) \/ LoseHandOff(i) \/ Rehand(i) \/ SkipMessage(i)
      PROVE  [Next]_vars
  BY <1>3 DEF HandOff, LoseHandOff, Rehand, SkipMessage, Next
<1>4. ASSUME NEW w \in Workers, NEW i \in Invoices, NEW k \in Keys \cup {NoKey},
             Prepare(w, i, k)
      PROVE  [Next]_vars
  BY <1>4 DEF Prepare, Next
<1>5. ASSUME NEW w \in Workers, NEW i \in Invoices, ChargeIssued(w, i)
      PROVE  [Next]_vars
  BY <1>4, <1>5 DEF ChargeIssued
<1>6. ASSUME NEW w \in Workers, NEW i \in Invoices, NEW k \in Keys \cup {NoKey},
             Attempt(w, i, k)
      PROVE  [Next]_vars
  BY <1>4, <1>6 DEF Attempt
<1>7. ASSUME NEW w \in Workers, NEW a \in Attempts, RecoverPending(w, a)
      PROVE  [Next]_vars
  BY <1>7 DEF RecoverPending
<1>8. ASSUME NEW w \in Workers, ReadAttempt(w) \/ CallGateway(w) \/ Crash(w)
      PROVE  [Next]_vars
  BY <1>8 DEF ReadAttempt, CallGateway, Crash
<1>9. ASSUME NEW w \in Workers, SettleAnswer(w) PROVE [Next]_vars
  <2>1. job[w] \in Attempts /\ job[w] \in Charges
    BY <1>9, ChargingAssumption DEF SettleAnswer, ChargingTypeOK
  <2> QED
    BY <1>9, <2>1 DEF SettleAnswer, Next
<1>10. ASSUME NEW e \in Events, NEW a \in Attempts, Webhook(e, a)
       PROVE  [Next]_vars
  <2>1. PICK r \in Reports(a) :
          \/ attempt[a] # "none" /\ Settle(a, r[1], r[2])
          \/ attempt[a] = "none" /\ UNCHANGED vars
    BY <1>10 DEF Webhook
  <2>2. r[1] \in BOOLEAN /\ r[2] \in Charges
    BY ReportsType
  <2> QED
    BY <2>1, <2>2 DEF Next
<1> QED
  BY <1>1, <1>2, <1>3, <1>5, <1>6, <1>7, <1>8, <1>9, <1>10 DEF ChargingNext

\* The processes, the broker and the provider keep their types.
LEMMA ChargingTypeStep ==
  ChargingTypeOK /\ [ChargingNext]_chargingVars => ChargingTypeOK'
<1> SUFFICES ASSUME ChargingTypeOK, [ChargingNext]_chargingVars
             PROVE  ChargingTypeOK'
  OBVIOUS
<1> USE ChargingAssumption DEF ChargingTypeOK, Phases
<1>0. TypeOK'
  BY BooksStep, TypeStep
<1> HIDE DEF TypeOK, Phases
<1>1. CASE UNCHANGED chargingVars
  BY <1>0, <1>1 DEF chargingVars, workVars, envVars
<1>2. CASE Lifecycle
  BY <1>0, <1>2 DEF Lifecycle, workVars, envVars
<1>3. ASSUME NEW i \in Invoices,
             HandOff(i) \/ LoseHandOff(i) \/ Rehand(i) \/ SkipMessage(i)
      PROVE  ChargingTypeOK'
  BY <1>0, <1>3 DEF HandOff, LoseHandOff, Rehand, SkipMessage, workVars, envVars
<1>4. ASSUME NEW w \in Workers, NEW a \in Attempts, Begin(w, a)
      PROVE  /\ pc' \in [Workers -> Phases]
             /\ job' \in [Workers -> Attempts \cup {NoAttempt}]
             /\ \A v \in Workers : pc'[v] = "idle" <=> job'[v] = NoAttempt
  BY <1>4 DEF Begin, Phases
<1>5. ASSUME NEW w \in Workers, Stop(w)
      PROVE  /\ pc' \in [Workers -> Phases]
             /\ job' \in [Workers -> Attempts \cup {NoAttempt}]
             /\ \A v \in Workers : pc'[v] = "idle" <=> job'[v] = NoAttempt
  BY <1>5 DEF Stop, Phases
<1>6. ASSUME NEW w \in Workers, NEW i \in Invoices, NEW k \in Keys \cup {NoKey},
             Prepare(w, i, k)
      PROVE  /\ pc' \in [Workers -> Phases]
             /\ job' \in [Workers -> Attempts \cup {NoAttempt}]
             /\ \A v \in Workers : pc'[v] = "idle" <=> job'[v] = NoAttempt
  <2>1. (\E a \in Attempts : Begin(w, a)) \/ UNCHANGED workVars
    BY <1>6 DEF Prepare
  <2> QED
    BY <1>4, <2>1 DEF workVars
<1>7. ASSUME NEW w \in Workers, NEW i \in Invoices, ChargeIssued(w, i)
      PROVE  ChargingTypeOK'
  <2>1. Prepare(w, i, NoKey) /\ NoKey \in Keys \cup {NoKey}
    BY <1>7 DEF ChargeIssued
  <2> QED
    BY <1>0, <1>6, <1>7, <2>1 DEF ChargeIssued, envVars
<1>8. ASSUME NEW w \in Workers, NEW i \in Invoices, NEW k \in Keys \cup {NoKey},
             Attempt(w, i, k)
      PROVE  ChargingTypeOK'
  BY <1>0, <1>6, <1>8 DEF Attempt
<1>9. ASSUME NEW w \in Workers, NEW a \in Attempts, RecoverPending(w, a)
      PROVE  ChargingTypeOK'
  BY <1>0, <1>4, <1>9 DEF RecoverPending, envVars
<1>10. ASSUME NEW w \in Workers, ReadAttempt(w) PROVE ChargingTypeOK'
  <2>1. CASE Stop(w)
    BY <1>0, <1>5, <1>10, <2>1 DEF ReadAttempt, envVars
  <2>2. CASE pc' = [pc EXCEPT ![w] = "calling"] /\ UNCHANGED job
    BY <1>0, <1>10, <2>2 DEF ReadAttempt, envVars, Phases
  <2> QED
    BY <1>10, <2>1, <2>2 DEF ReadAttempt
<1>11. ASSUME NEW w \in Workers, CallGateway(w) PROVE ChargingTypeOK'
  <2>1. receipt' \in [Attempts -> {"none", "ok", "declined"}]
    BY <1>11 DEF CallGateway, Receipts
  <2> QED
    BY <1>0, <1>11, <2>1 DEF CallGateway, Phases
<1>12. ASSUME NEW w \in Workers, SettleAnswer(w) PROVE ChargingTypeOK'
  BY <1>0, <1>5, <1>12 DEF SettleAnswer, envVars
<1>13. ASSUME NEW w \in Workers, Crash(w) PROVE ChargingTypeOK'
  BY <1>0, <1>5, <1>13 DEF Crash
<1>14. ASSUME NEW e \in Events, NEW a \in Attempts, Webhook(e, a)
       PROVE  ChargingTypeOK'
  BY <1>0, <1>14 DEF Webhook, workVars
<1> QED
  BY <1>1, <1>2, <1>3, <1>7, <1>8, <1>9, <1>10, <1>11, <1>12, <1>13, <1>14
  DEF ChargingNext

\* Every reachable state is well typed: a process holds an attempt exactly
\* while it is in the middle of a charge.
THEOREM ChargingTyping == ChargingSpec => []ChargingTypeOK
<1>1. ChargingInit => ChargingTypeOK
  BY BillingAssumption, ChargingAssumption
  DEF ChargingInit, ChargingTypeOK, Init, TypeOK, Phases
<1> QED
  BY <1>1, ChargingTypeStep, PTL DEF ChargingSpec

\* The composed system implements module Billing: its theorems hold here.
THEOREM BooksKeptHolds == ChargingSpec => BooksKept
<1>1. ChargingInit => Init
  BY DEF ChargingInit
<1> QED
  BY <1>1, BooksStep, ChargingTyping, PTL DEF ChargingSpec, BooksKept, Spec

\* What Billing guarantees of its rows, in the composed system.
LEMMA BooksHold ==
  ChargingSpec => [](ChargingTypeOK /\ Rows /\ Money /\ Standing)
BY ChargingTyping, BooksKeptHolds, RowsInvariant, MoneyInvariant,
   StandingInvariant, PTL DEF BooksKept

-----------------------------------------------------------------------------
(* A truthful provider *)

\* Of two attempts on one invoice, one was declined: the other is the only one
\* that money may still come from.
OneLive ==
  \A a, b \in Attempts :
    a # b /\ of[a] = of[b] /\ attempt[a] # "none" /\ attempt[b] # "none" =>
      attempt[a] = "failed" \/ attempt[b] = "failed"

\* The provider knows only attempts that were committed first, and their
\* charges by their own names.
ReceiptsFollowBooks ==
  \A a \in Attempts :
    /\ receipt[a] # "none" => attempt[a] # "none"
    /\ charge[a] \in {NoCharge, a}

\* A process in the middle of a charge holds a committed attempt, and one that
\* was answered has the stored result.
WorkersFollow ==
  \A w \in Workers :
    /\ pc[w] # "idle" => attempt[job[w]] # "none"
    /\ pc[w] = "answered" => receipt[job[w]] # "none"

Followed == BooksFollowProvider /\ OneLive /\ ReceiptsFollowBooks /\ WorkersFollow

Books == ChargingTypeOK /\ Rows /\ Money /\ Standing

\* Two attempts that were charged on one invoice would both be live.
LEMMA FollowedOnce == ChargingTypeOK /\ Followed => ChargedOnce
BY DEF ChargingTypeOK, Followed, BooksFollowProvider, OneLive,
   ReceiptsFollowBooks, ChargedOnce

\* A settlement that reports the stored result of its attempt never finds another
\* charge, so the code's two ways to give up are not taken.
LEMMA SettleCases ==
  ASSUME Books, Followed, NEW a \in Attempts,
         receipt[a] # "none", Settle(a, receipt[a] = "ok", a)
  PROVE  /\ attempt[a] # "none"
         /\ \/ receipt[a] = "ok" /\ SettleNothing(a, TRUE, a)
            \/ receipt[a] = "ok" /\ SettleStray(a, a)
            \/ receipt[a] = "ok" /\ SettlePaid(a, a)
            \/ receipt[a] = "declined" /\ SettleFailed(a, a)
<1> USE DEF Books, ChargingTypeOK
<1>1. a \in Charges /\ a # NoCharge
  BY ChargingAssumption, BillingAssumption
<1>2. ~Mismatch(a, a)
  BY DEF Mismatch, Followed, ReceiptsFollowBooks
<1>3. ~Taken(a, a)
  BY <1>1 DEF Taken, Followed, ReceiptsFollowBooks
<1>4. receipt[a] \in {"ok", "declined"}
  OBVIOUS
<1>5. CASE SettleNothing(a, receipt[a] = "ok", a)
  <2>1. receipt[a] = "ok"
    BY <1>5 DEF SettleNothing, Final, Followed, BooksFollowProvider
  <2> QED
    BY <1>5, <2>1 DEF SettleNothing, Settle
<1> QED
  BY <1>2, <1>3, <1>4, <1>5 DEF Settle, SettleMismatch, SettleTaken

\* The record follows the receipt, and nothing of other attempts changes.
LEMMA SettleFollows ==
  ASSUME Books, Followed, NEW a \in Attempts,
         receipt[a] # "none", Settle(a, receipt[a] = "ok", a)
  PROVE  /\ UNCHANGED of
         /\ \A b \in Attempts \ {a} : attempt'[b] = attempt[b]
         /\ flagged' \subseteq flagged \cup {a}
         /\ charge'[a] \in {charge[a], a}
         /\ \A b \in Attempts \ {a} : charge'[b] = charge[b]
         /\ \/ receipt[a] = "ok" /\ attempt[a] # "failed"
               /\ attempt'[a] \in {attempt[a], "success"}
            \/ receipt[a] = "declined" /\ attempt[a] # "success" /\ a \notin flagged
               /\ attempt'[a] = "failed" /\ flagged' = flagged
<1> USE DEF Books, ChargingTypeOK, TypeOK
<1>1. /\ attempt[a] = "success" => receipt[a] = "ok"
      /\ attempt[a] = "failed" => receipt[a] = "declined"
      /\ a \in flagged => receipt[a] = "ok"
  BY DEF Followed, BooksFollowProvider
<1>2. CASE receipt[a] = "ok" /\ SettleNothing(a, TRUE, a)
  BY <1>1, <1>2 DEF SettleNothing
<1>3. CASE receipt[a] = "ok" /\ SettleStray(a, a)
  BY <1>1, <1>3 DEF SettleStray, SettleBound, Flag
<1>4. CASE receipt[a] = "ok" /\ SettlePaid(a, a)
  BY <1>1, <1>4 DEF SettlePaid, SettleBound
<1>5. CASE receipt[a] = "declined" /\ SettleFailed(a, a)
  BY <1>1, <1>5 DEF SettleFailed, SettleBound
<1> QED
  BY <1>2, <1>3, <1>4, <1>5, SettleCases

\* So the record of the attempts keeps to the receipts.
LEMMA SettleKeepsFollowed ==
  ASSUME Books, Followed, NEW a \in Attempts, UNCHANGED receipt,
         receipt[a] # "none", Settle(a, receipt[a] = "ok", a)
  PROVE  /\ BooksFollowProvider' /\ OneLive' /\ ReceiptsFollowBooks'
         /\ \A b \in Attempts : attempt[b] # "none" => attempt'[b] # "none"
<1> USE SettleFollows DEF Followed
<1>0. attempt[a] # "none"
  BY DEF ReceiptsFollowBooks
<1>1. BooksFollowProvider'
  BY DEF BooksFollowProvider
<1>2. \A b \in Attempts : /\ attempt[b] # "none" <=> attempt'[b] # "none"
                          /\ attempt[b] = "failed" => attempt'[b] = "failed"
  BY <1>0
<1>3. OneLive'
  BY <1>2 DEF OneLive
<1>4. \A b \in Attempts : charge'[b] \in {NoCharge, b}
  <2>1. \A b \in Attempts : charge[b] \in {NoCharge, b}
    BY DEF ReceiptsFollowBooks
  <2> QED
    BY <2>1
<1>5. ReceiptsFollowBooks'
  BY <1>2, <1>4 DEF ReceiptsFollowBooks
<1> QED
  BY <1>1, <1>2, <1>3, <1>5

\* A new attempt is made only beside attempts that were declined.
LEMMA OpenKeepsFollowed ==
  ASSUME Books, Followed, NEW a \in Attempts, NEW i \in Invoices,
         NEW k \in Keys \cup {NoKey}, OpenAttempt(a, i, k), UNCHANGED receipt
  PROVE  /\ BooksFollowProvider' /\ OneLive' /\ ReceiptsFollowBooks'
         /\ attempt'[a] # "none"
         /\ \A b \in Attempts : attempt[b] # "none" => attempt'[b] # "none"
<1> USE DEF Books, ChargingTypeOK, TypeOK, OpenAttempt, Followed
<1>1. receipt[a] = "none"
  BY DEF ReceiptsFollowBooks
<1>2. \A b \in Attempts : of[b] = i /\ attempt[b] # "none" => attempt[b] = "failed"
  BY DEF MayOpen, Unresolved, Settled, AttemptsOn, PaymentStatus
<1>3. BooksFollowProvider'
  BY <1>1 DEF BooksFollowProvider
<1>4. OneLive'
  BY <1>2 DEF OneLive
<1>5. ReceiptsFollowBooks'
  BY DEF ReceiptsFollowBooks
<1> QED
  BY <1>3, <1>4, <1>5

\* A process takes up an attempt that exists, or goes on as it was.
LEMMA PrepareKeepsFollowed ==
  ASSUME Books, Followed, NEW w \in Workers, NEW i \in Invoices,
         NEW k \in Keys \cup {NoKey}, Prepare(w, i, k), UNCHANGED receipt
  PROVE  Followed'
<1> USE DEF Books, ChargingTypeOK
<1>1. PICK a \in Attempts :
        \/ Chargeable(a) /\ Begin(w, a) /\ UNCHANGED vars
        \/ UNCHANGED <<vars, workVars>>
        \/ OpenAttempt(a, i, k) /\ Begin(w, a)
  BY DEF Prepare
<1>2. CASE UNCHANGED <<vars, workVars>>
  BY <1>2 DEF vars, attVars, workVars, Followed, BooksFollowProvider, OneLive,
     ReceiptsFollowBooks, WorkersFollow
<1>3. CASE Chargeable(a) /\ Begin(w, a) /\ UNCHANGED vars
  <2>1. BooksFollowProvider' /\ OneLive' /\ ReceiptsFollowBooks'
    BY <1>3 DEF vars, attVars, Followed, BooksFollowProvider, OneLive,
       ReceiptsFollowBooks
  <2>2. WorkersFollow'
    BY <1>3 DEF vars, attVars, Followed, WorkersFollow, Begin, Chargeable
  <2> QED
    BY <2>1, <2>2 DEF Followed
<1>4. CASE OpenAttempt(a, i, k) /\ Begin(w, a)
  <2>1. /\ BooksFollowProvider' /\ OneLive' /\ ReceiptsFollowBooks'
        /\ attempt'[a] # "none"
        /\ \A b \in Attempts : attempt[b] # "none" => attempt'[b] # "none"
    BY <1>4, OpenKeepsFollowed
  <2>2. WorkersFollow'
    BY <1>4, <2>1 DEF Followed, WorkersFollow, Begin
  <2> QED
    BY <2>1, <2>2 DEF Followed
<1> QED
  BY <1>1, <1>2, <1>3, <1>4

\* Lifecycle transactions do not touch the attempts.
LEMMA LifecycleKeepsAttempts == Lifecycle => UNCHANGED <<attVars, workVars, receipt>>
BY DEF Lifecycle, envVars, attVars, CreateActive, CreateTrial, PeriodEnds,
   Activate, Renew, Cancel, Reissue, GiveUp

\* What a truthful provider reports of an attempt is its stored result.
LEMMA TruthfulReport ==
  ASSUME Truthful, NEW a \in Attempts, NEW r \in Reports(a)
  PROVE  receipt[a] # "none" /\ r[1] = (receipt[a] = "ok") /\ r[2] = a
<1>1. r = <<receipt[a] = "ok", a>> /\ receipt[a] # "none"
  BY DEF Reports
<1> QED
  BY <1>1

LEMMA FollowedStep ==
  ASSUME Truthful
  PROVE  Books /\ Followed /\ [ChargingNext]_chargingVars => Followed'
<1> SUFFICES ASSUME Books, Followed, [ChargingNext]_chargingVars PROVE Followed'
  OBVIOUS
<1>0. ASSUME UNCHANGED <<attVars, workVars, receipt>> PROVE Followed'
  BY <1>0 DEF attVars, workVars, Followed, BooksFollowProvider, OneLive,
     ReceiptsFollowBooks, WorkersFollow
<1>1. CASE UNCHANGED chargingVars
  BY <1>0, <1>1 DEF chargingVars, vars, envVars
<1>2. CASE Lifecycle
  BY <1>0, <1>2, LifecycleKeepsAttempts
<1>3. ASSUME NEW i \in Invoices,
             HandOff(i) \/ LoseHandOff(i) \/ Rehand(i) \/ SkipMessage(i)
      PROVE  Followed'
  BY <1>0, <1>3 DEF HandOff, LoseHandOff, Rehand, SkipMessage, Dispatch, envVars, vars
<1>4. ASSUME NEW w \in Workers, NEW i \in Invoices, ChargeIssued(w, i)
      PROVE  Followed'
  <2>1. Prepare(w, i, NoKey) /\ UNCHANGED receipt /\ NoKey \in Keys \cup {NoKey}
    BY <1>4 DEF ChargeIssued, envVars
  <2> QED
    BY <2>1, PrepareKeepsFollowed
<1>5. ASSUME NEW w \in Workers, NEW i \in Invoices, NEW k \in Keys \cup {NoKey},
             Attempt(w, i, k)
      PROVE  Followed'
  BY <1>5, PrepareKeepsFollowed DEF Attempt
<1>6. ASSUME NEW w \in Workers, NEW a \in Attempts, RecoverPending(w, a)
      PROVE  Followed'
  <2>1. BooksFollowProvider' /\ OneLive' /\ ReceiptsFollowBooks'
    BY <1>6 DEF RecoverPending, vars, attVars, envVars, Followed,
       BooksFollowProvider, OneLive, ReceiptsFollowBooks
  <2>2. WorkersFollow'
    BY <1>6 DEF RecoverPending, Begin, Chargeable, vars, attVars, envVars,
       Followed, WorkersFollow, Books, ChargingTypeOK
  <2> QED
    BY <2>1, <2>2 DEF Followed
<1>7. ASSUME NEW w \in Workers, ReadAttempt(w) \/ Crash(w) PROVE Followed'
  <2>1. UNCHANGED <<vars, receipt>>
    BY <1>7 DEF ReadAttempt, Crash, envVars
  <2>2. BooksFollowProvider' /\ OneLive' /\ ReceiptsFollowBooks'
    BY <2>1 DEF vars, attVars, Followed, BooksFollowProvider, OneLive,
       ReceiptsFollowBooks
  <2>3. WorkersFollow'
    BY <1>7, <2>1 DEF ReadAttempt, Crash, Stop, vars, attVars, Followed,
       WorkersFollow, Books, ChargingTypeOK
  <2> QED
    BY <2>2, <2>3 DEF Followed
<1>8. ASSUME NEW w \in Workers, CallGateway(w) PROVE Followed'
  <2>1. /\ UNCHANGED <<vars, job>> /\ job[w] \in Attempts
        /\ attempt[job[w]] # "none"
    BY <1>8 DEF CallGateway, Books, ChargingTypeOK, Followed, WorkersFollow
  <2>2. PICK r \in Receipts(job[w]) : receipt' = [receipt EXCEPT ![job[w]] = r]
    BY <1>8 DEF CallGateway
  <2>3. /\ \A a \in Attempts : receipt[a] # "none" => receipt'[a] = receipt[a]
        /\ \A a \in Attempts \ {job[w]} : receipt'[a] = receipt[a]
        /\ receipt'[job[w]] # "none"
    BY <2>1, <2>2 DEF Receipts, Books, ChargingTypeOK
  <2>4. BooksFollowProvider'
    BY <2>1, <2>3 DEF Followed, BooksFollowProvider, vars, attVars
  <2>5. OneLive' /\ ReceiptsFollowBooks'
    BY <2>1, <2>3 DEF Followed, OneLive, ReceiptsFollowBooks, vars, attVars
  <2>6. WorkersFollow'
    <3>1. pc' = [pc EXCEPT ![w] = "answered"]
      BY <1>8 DEF CallGateway
    <3>2. \A v \in Workers : pc[v] # "idle" => job[v] \in Attempts
      BY DEF Books, ChargingTypeOK
    <3> QED
      BY <2>1, <2>3, <3>1, <3>2 DEF Followed, WorkersFollow, vars, attVars, Books,
         ChargingTypeOK
  <2> QED
    BY <2>4, <2>5, <2>6 DEF Followed
<1>9. ASSUME NEW w \in Workers, SettleAnswer(w) PROVE Followed'
  <2>1. /\ job[w] \in Attempts /\ receipt[job[w]] # "none"
        /\ UNCHANGED receipt /\ Settle(job[w], receipt[job[w]] = "ok", job[w])
        /\ Stop(w)
    BY <1>9 DEF SettleAnswer, envVars, Books, ChargingTypeOK, Followed, WorkersFollow
  <2>2. /\ BooksFollowProvider' /\ OneLive' /\ ReceiptsFollowBooks'
        /\ \A b \in Attempts : attempt[b] # "none" => attempt'[b] # "none"
    BY <2>1, SettleKeepsFollowed
  <2>3. WorkersFollow'
    BY <2>1, <2>2 DEF Stop, Followed, WorkersFollow, Books, ChargingTypeOK
  <2> QED
    BY <2>2, <2>3 DEF Followed
<1>10. ASSUME NEW e \in Events, NEW a \in Attempts, Webhook(e, a) PROVE Followed'
  <2>1. PICK r \in Reports(a) :
          \/ attempt[a] # "none" /\ Settle(a, r[1], r[2])
          \/ attempt[a] = "none" /\ UNCHANGED vars
    BY <1>10 DEF Webhook
  <2>2. UNCHANGED <<workVars, receipt>>
    BY <1>10 DEF Webhook
  <2>3. CASE UNCHANGED vars
    BY <1>0, <2>2, <2>3 DEF vars
  <2>4. CASE Settle(a, r[1], r[2])
    <3>1. receipt[a] # "none" /\ Settle(a, receipt[a] = "ok", a)
      BY <2>4, TruthfulReport
    <3>2. /\ BooksFollowProvider' /\ OneLive' /\ ReceiptsFollowBooks'
          /\ \A b \in Attempts : attempt[b] # "none" => attempt'[b] # "none"
      BY <2>2, <3>1, SettleKeepsFollowed
    <3>3. WorkersFollow'
      BY <2>2, <3>2 DEF workVars, Followed, WorkersFollow, Books, ChargingTypeOK
    <3> QED
      BY <3>2, <3>3 DEF Followed
  <2> QED
    BY <2>1, <2>3, <2>4
<1> QED
  BY <1>1, <1>2, <1>3, <1>4, <1>5, <1>6, <1>7, <1>8, <1>9, <1>10 DEF ChargingNext

LEMMA FollowedHolds ==
  ASSUME Truthful
  PROVE  ChargingSpec => [](Books /\ Followed)
<1>1. ChargingSpec => []Books
  BY BooksHold DEF Books
<1>2. ChargingInit => Followed
  BY BillingAssumption, ChargingAssumption
  DEF ChargingInit, Init, Followed, BooksFollowProvider, OneLive,
      ReceiptsFollowBooks, WorkersFollow
<1> QED
  BY <1>1, <1>2, FollowedStep, PTL DEF ChargingSpec

\* However often a charge is delivered, retried, recovered and reported, the
\* customer is charged for an invoice once at most.
THEOREM ChargedOnceHolds ==
  ASSUME Truthful
  PROVE  ChargingSpec => []ChargedOnce
<1>1. Books /\ Followed => ChargedOnce
  BY FollowedOnce DEF Books
<1> QED
  BY <1>1, FollowedHolds, PTL

\* The books hold nothing else than the provider did.
THEOREM BooksFollowHolds ==
  ASSUME Truthful
  PROVE  ChargingSpec => []BooksFollowProvider
BY FollowedHolds, PTL DEF Followed

-----------------------------------------------------------------------------
(* The promise of module Collection *)

SuccessOn(i) == \E a \in Attempts : of[a] = i /\ attempt[a] = "success"
FlagOn(i) == \E a \in Attempts : of[a] = i /\ a \in flagged
OkOn(i) == \E a \in Attempts : of[a] = i /\ receipt[a] = "ok"

MoneyIs(i) ==
  MoneyOf(i) = IF SuccessOn(i) THEN "credited"
               ELSE IF FlagOn(i) THEN "review"
               ELSE IF OkOn(i) THEN "taken" ELSE "none"

\* What the books say of an invoice's money, before and after a step.
LEMMA MoneyRead == ASSUME NEW i \in Invoices PROVE MoneyIs(i) /\ MoneyIs(i)'
<1>1. MoneyIs(i)
  BY DEF MoneyIs, MoneyOf, Settled, AttemptsOn, SuccessOn, FlagOn, OkOn
<1>2. MoneyIs(i)'
  BY DEF MoneyIs, MoneyOf, Settled, AttemptsOn, SuccessOn, FlagOn, OkOn
<1> QED
  BY <1>1, <1>2

PromiseVars == <<[i \in Invoices |-> StandingOf(i)], [i \in Invoices |-> MoneyOf(i)]>>

\* A step that changes no standing and no money is none of the promise's.
LEMMA PromiseStutters ==
  ASSUME \A i \in Invoices : StandingOf(i)' = StandingOf(i),
         \A i \in Invoices : MoneyOf(i)' = MoneyOf(i)
  PROVE  UNCHANGED PromiseVars
BY DEF PromiseVars

LEMMA SameStanding ==
  ASSUME NEW i \in Invoices, invoice'[i] = invoice[i]
  PROVE  StandingOf(i)' = StandingOf(i)
BY DEF StandingOf

LEMMA SameMoney ==
  ASSUME NEW i \in Invoices,
         SuccessOn(i)' <=> SuccessOn(i),
         FlagOn(i)' <=> FlagOn(i),
         OkOn(i)' <=> OkOn(i)
  PROVE  MoneyOf(i)' = MoneyOf(i)
BY MoneyRead DEF MoneyIs

\* Transactions that make no attempt and settle none: a bill is issued, or a
\* subscription's open invoices are closed.
LEMMA LifecyclePromise ==
  ASSUME Books, Lifecycle
  PROVE  [Promise!NextCollection]_PromiseVars
<1> USE DEF Books, ChargingTypeOK, TypeOK
<1>1. \A i \in Invoices : MoneyOf(i)' = MoneyOf(i)
  <2>1. UNCHANGED <<of, attempt, flagged, receipt>>
    BY LifecycleKeepsAttempts DEF attVars
  <2> QED
    BY <2>1, SameMoney DEF SuccessOn, FlagOn, OkOn
<1>2. ASSUME \A i \in Invoices : StandingOf(i)' = StandingOf(i)
      PROVE  UNCHANGED PromiseVars
  BY <1>1, <1>2, PromiseStutters
<1>3. ASSUME NEW i \in Invoices, invoice[i] = "none",
             invoice' = [invoice EXCEPT ![i] = "issued"]
      PROVE  Promise!Issue(i)
  <2>1. StandingOf(i) = "none" /\ StandingOf(i)' = "owed"
    BY <1>3 DEF StandingOf, Open
  <2>2. \A j \in Invoices \ {i} : StandingOf(j)' = StandingOf(j)
    BY <1>3, SameStanding
  <2> QED
    <3>1. [j \in Invoices |-> MoneyOf(j)]' = [j \in Invoices |-> MoneyOf(j)]
      BY <1>1
    <3>2. [j \in Invoices |-> StandingOf(j)]'
            = [[j \in Invoices |-> StandingOf(j)] EXCEPT ![i] = "owed"]
      BY <2>1, <2>2
    <3> QED
      BY <2>1, <3>1, <3>2 DEF Promise!Issue
<1>4. ASSUME NEW S \in SUBSET Invoices,
             \A i \in S : invoice[i] \in Open /\ invoice'[i] \in {"canceled", "overdue"},
             \A i \in Invoices \ S : invoice'[i] = invoice[i]
      PROVE  Promise!Close(S)
  <2>1. \A i \in S : StandingOf(i) = "owed" /\ StandingOf(i)' = "closed"
    BY <1>4 DEF StandingOf, Open
  <2>2. \A i \in Invoices \ S : StandingOf(i)' = StandingOf(i)
    BY <1>4, SameStanding
  <2> QED
    BY <1>1, <2>1, <2>2 DEF Promise!Close
<1>5. ASSUME NEW s \in Subs, CreateActive(s) \/ Activate(s) \/ Renew(s)
      PROVE  Promise!NextCollection
  <2> DEFINE p == period[s] + 1
  <2>1. p \in Periods /\ invoice' = [invoice EXCEPT ![<<s, p>>] = "issued"]
    <3>1. CASE CreateActive(s)
      <4>1. period[s] = 0
        BY <3>1 DEF CreateActive, Rows, Begun
      <4>2. p = 1 /\ 1 \in Periods
        BY <4>1, BillingAssumption DEF Periods
      <4> QED
        BY <3>1, <4>2 DEF CreateActive, Bill
    <3>2. CASE Activate(s) \/ Renew(s)
      <4>1. BeginPeriod(s)
        BY <3>2 DEF Activate, Renew
      <4>2. p \in Periods
        BY <4>1, BillingAssumption DEF BeginPeriod, Periods
      <4> QED
        BY <4>1, <4>2 DEF BeginPeriod, Bill
    <3> QED
      BY <1>5, <3>1, <3>2
  <2>2. <<s, p>> \in Invoices /\ invoice[<<s, p>>] = "none"
    BY <2>1, BillingAssumption DEF Rows, PeriodsBilled, Invoices, Periods
  <2> QED
    BY <1>3, <2>1, <2>2 DEF Promise!NextCollection
<1>6. ASSUME NEW s \in Subs, CreateTrial(s) \/ PeriodEnds(s)
      PROVE  UNCHANGED PromiseVars
  BY <1>2, <1>6, SameStanding DEF CreateTrial, PeriodEnds, invVars
<1>7. ASSUME NEW s \in Subs, Cancel(s) PROVE Promise!NextCollection
  <2> DEFINE S == {i \in Invoices : i[1] = s /\ invoice[i] \in Open}
  <2>1. Promise!Close(S)
    BY <1>4, <1>7 DEF Cancel, CloseOpen
  <2> QED
    BY <2>1 DEF Promise!NextCollection
<1>8. ASSUME NEW i \in Invoices, Reissue(i) PROVE UNCHANGED PromiseVars
  <2>1. StandingOf(i)' = StandingOf(i)
    BY <1>8 DEF Reissue, StandingOf, Open
  <2>2. \A j \in Invoices \ {i} : StandingOf(j)' = StandingOf(j)
    BY <1>8, SameStanding DEF Reissue
  <2> QED
    BY <1>2, <2>1, <2>2
<1>9. ASSUME NEW i \in Invoices, GiveUp(i) PROVE Promise!NextCollection
  <2> DEFINE S == {j \in Invoices : j[1] = i[1] /\ invoice[j] \in Open}
  <2>1. invoice[i] = "failed" /\ subscription[i[1]] # "canceled"
    BY <1>9 DEF GiveUp, Standing, ArrearsAgree
  <2>2. i \in S /\ invoice' = [CloseOpen(i[1]) EXCEPT ![i] = "overdue"]
    BY <1>9, <2>1 DEF GiveUp, Open
  <2>3. /\ \A j \in S : invoice'[j] \in {"canceled", "overdue"}
        /\ \A j \in Invoices \ S : invoice'[j] = invoice[j]
    BY <2>2 DEF CloseOpen
  <2>4. Promise!Close(S)
    BY <1>4, <2>3
  <2> QED
    BY <2>4 DEF Promise!NextCollection
<1> QED
  BY <1>5, <1>6, <1>7, <1>8, <1>9 DEF Lifecycle

\* A new attempt has no money yet.
LEMMA OpenPromise ==
  ASSUME Books, Followed, NEW a \in Attempts, NEW i \in Invoices,
         NEW k \in Keys \cup {NoKey}, OpenAttempt(a, i, k), UNCHANGED receipt
  PROVE  UNCHANGED PromiseVars
<1> USE DEF Books, ChargingTypeOK, TypeOK, OpenAttempt
<1>1. receipt[a] = "none" /\ a \notin flagged /\ attempt[a] = "none"
  BY DEF Followed, ReceiptsFollowBooks, BooksFollowProvider
<1>2. ASSUME NEW j \in Invoices PROVE MoneyOf(j)' = MoneyOf(j)
  <2>1. SuccessOn(j)' <=> SuccessOn(j)
    BY <1>1 DEF SuccessOn
  <2>2. FlagOn(j)' <=> FlagOn(j)
    BY <1>1 DEF FlagOn
  <2>3. OkOn(j)' <=> OkOn(j)
    BY <1>1 DEF OkOn
  <2> QED
    BY <2>1, <2>2, <2>3, SameMoney
<1>3. \A j \in Invoices : StandingOf(j)' = StandingOf(j)
  BY SameStanding DEF invVars
<1> QED
  BY <1>2, <1>3, PromiseStutters

\* A step that leaves invoices, attempts and receipts alone.
LEMMA QuietPromise ==
  ASSUME UNCHANGED <<invoice, of, attempt, flagged, receipt>>
  PROVE  UNCHANGED PromiseVars
<1>1. \A i \in Invoices : StandingOf(i)' = StandingOf(i)
  BY SameStanding
<1>2. \A i \in Invoices : MoneyOf(i)' = MoneyOf(i)
  BY SameMoney DEF SuccessOn, FlagOn, OkOn
<1> QED
  BY <1>1, <1>2, PromiseStutters

\* The first positive receipt on an invoice is the money being taken; there was
\* none before, because every other attempt on it was declined.
LEMMA CallPromise ==
  ASSUME Books, Followed, NEW w \in Workers, CallGateway(w)
  PROVE  [Promise!NextCollection]_PromiseVars
<1> USE DEF Books, ChargingTypeOK, TypeOK
<1>0. PICK a \in Attempts, i \in Invoices : a = job[w] /\ i = of[a]
  BY DEF CallGateway, Followed, WorkersFollow, Rows, OnRows
<1>1. /\ a \in Attempts /\ attempt[a] # "none" /\ i \in Invoices
      /\ of[a] = i /\ invoice[i] # "none"
      /\ UNCHANGED <<invoice, of, attempt, flagged>>
  BY <1>0 DEF CallGateway, Followed, WorkersFollow, Rows, OnRows, vars, invVars,
     attVars
<1>2. PICK r \in Receipts(a) : receipt' = [receipt EXCEPT ![a] = r]
  BY <1>0 DEF CallGateway
<1>3. \A j \in Invoices : StandingOf(j)' = StandingOf(j)
  BY <1>1, SameStanding
<1>4. \A j \in Invoices : (SuccessOn(j)' <=> SuccessOn(j)) /\ (FlagOn(j)' <=> FlagOn(j))
  BY <1>1 DEF SuccessOn, FlagOn
<1>5. CASE receipt[a] # "none"
  <2>1. receipt' = receipt
    BY <1>1, <1>2, <1>5 DEF Receipts
  <2> QED
    BY <1>1, <2>1, QuietPromise
<1>6. CASE receipt[a] = "none" /\ r = "declined"
  <2>1. \A j \in Invoices : OkOn(j)' <=> OkOn(j)
    BY <1>1, <1>2, <1>6 DEF OkOn
  <2> QED
    BY <1>3, <1>4, <2>1, SameMoney, PromiseStutters
<1>7. CASE receipt[a] = "none" /\ r = "ok"
  <2>1. ASSUME NEW b \in Attempts, of[b] = i
        PROVE  attempt[b] # "success" /\ b \notin flagged /\ receipt[b] # "ok"
    <3>1. CASE b = a
      BY <1>7, <3>1 DEF Followed, BooksFollowProvider
    <3>2. CASE b # a /\ attempt[b] = "none"
      BY <3>2 DEF Followed, BooksFollowProvider, ReceiptsFollowBooks
    <3>3. CASE b # a /\ attempt[b] # "none"
      <4>1. attempt[b] = "failed" \/ attempt[a] = "failed"
        BY <1>1, <2>1, <3>3 DEF Followed, OneLive
      <4>2. attempt[b] = "failed"
        BY <1>1, <1>7, <4>1 DEF Followed, BooksFollowProvider
      <4> QED
        BY <4>2 DEF Followed, BooksFollowProvider
    <3> QED
      BY <3>1, <3>2, <3>3
  <2>2. MoneyOf(i) = "none"
    BY <1>1, <2>1, MoneyRead DEF MoneyIs, SuccessOn, FlagOn, OkOn
  <2>3. OkOn(i)' /\ ~SuccessOn(i)' /\ ~FlagOn(i)'
    <3>1. receipt'[a] = "ok" /\ of'[a] = i
      BY <1>1, <1>2, <1>7
    <3>2. OkOn(i)'
      BY <1>1, <3>1 DEF OkOn
    <3> QED
      BY <1>1, <1>4, <2>1, <3>2 DEF SuccessOn, FlagOn
  <2>4. MoneyOf(i)' = "taken"
    <3>1. MoneyIs(i)'
      BY <1>1, MoneyRead
    <3> QED
      BY <2>3, <3>1 DEF MoneyIs
  <2>5. ASSUME NEW j \in Invoices \ {i} PROVE MoneyOf(j)' = MoneyOf(j)
    <3>1. OkOn(j)' <=> OkOn(j)
      BY <1>1, <1>2, <2>5 DEF OkOn
    <3> QED
      BY <1>4, <3>1, SameMoney
  <2>6. StandingOf(i) \in {"owed", "closed"}
    <3>1. invoice[i] # "paid"
      BY <1>1, <2>1 DEF Money, PaidIffSuccess, Settled, AttemptsOn
    <3> QED
      BY <1>1, <3>1 DEF StandingOf
  <2>7. Promise!Take(i)
    <3>1. [j \in Invoices |-> StandingOf(j)]' = [j \in Invoices |-> StandingOf(j)]
      BY <1>3
    <3>2. [j \in Invoices |-> MoneyOf(j)]'
            = [[j \in Invoices |-> MoneyOf(j)] EXCEPT ![i] = "taken"]
      BY <2>4, <2>5
    <3> QED
      BY <1>1, <2>2, <2>6, <3>1, <3>2 DEF Promise!Take
  <2> QED
    BY <1>1, <2>7 DEF Promise!NextCollection
<1> QED
  BY <1>2, <1>5, <1>6, <1>7 DEF Receipts

\* Settling the stored result credits the money that was taken, or sets it aside
\* on an invoice that was closed; a rejection moves none.
LEMMA SettlePromise ==
  ASSUME Books, Followed, NEW a \in Attempts, UNCHANGED receipt,
         receipt[a] # "none", Settle(a, receipt[a] = "ok", a)
  PROVE  [Promise!NextCollection]_PromiseVars
<1> USE DEF Books, ChargingTypeOK, TypeOK
<1>0. PICK i \in Invoices : of[a] = i /\ invoice[i] # "none"
  BY SettleCases DEF Rows, OnRows
<1>1. CASE receipt[a] = "ok" /\ SettleNothing(a, TRUE, a)
  BY <1>1, QuietPromise DEF SettleNothing, invVars
<1>2. CASE receipt[a] = "declined" /\ SettleFailed(a, a)
  <2>1. /\ of' = of /\ flagged' = flagged
        /\ attempt' = [attempt EXCEPT ![a] = "failed"]
        /\ attempt[a] # "success"
        /\ \A j \in Invoices : \/ invoice'[j] = invoice[j]
                               \/ invoice[j] = "issued" /\ invoice'[j] = "failed"
    BY <1>0, <1>2 DEF SettleFailed, SettleBound, Final
  <2>2. \A j \in Invoices : StandingOf(j)' = StandingOf(j)
    BY <2>1 DEF StandingOf, Open
  <2>3. \A j \in Invoices : SuccessOn(j)' <=> SuccessOn(j)
    BY <2>1 DEF SuccessOn
  <2>4. \A j \in Invoices : (FlagOn(j)' <=> FlagOn(j)) /\ (OkOn(j)' <=> OkOn(j))
    BY <2>1 DEF FlagOn, OkOn
  <2> QED
    BY <2>2, <2>3, <2>4, SameMoney, PromiseStutters
<1>3. ASSUME receipt[a] = "ok", ~Final(a)
      PROVE  \A b \in Attempts : of[b] = i => attempt[b] # "success" /\ b \notin flagged
  <2>1. ASSUME NEW b \in Attempts, of[b] = i, attempt[b] = "success" \/ b \in flagged
        PROVE  FALSE
    <3>1. receipt[b] = "ok"
      BY <2>1 DEF Followed, BooksFollowProvider
    <3>2. b = a
      BY <1>0, <1>3, <2>1, <3>1, FollowedOnce DEF ChargedOnce
    <3> QED
      BY <1>3, <2>1, <3>2 DEF Final
  <2> QED
    BY <2>1
<1>4. ASSUME receipt[a] = "ok", ~Final(a) PROVE MoneyOf(i) = "taken"
  <2>1. OkOn(i) /\ ~SuccessOn(i) /\ ~FlagOn(i)
    BY <1>0, <1>3, <1>4 DEF OkOn, SuccessOn, FlagOn
  <2> QED
    BY <2>1, MoneyRead DEF MoneyIs
<1>5. CASE receipt[a] = "ok" /\ SettleStray(a, a)
  <2>1. /\ ~Final(a) /\ ~Collectable(i)
        /\ UNCHANGED <<invoice, attempt, of>> /\ flagged' = flagged \cup {a}
    BY <1>0, <1>5 DEF SettleStray, SettleBound, Flag, invVars
  <2>2. Settled(i) = {}
    BY <1>3, <1>5, <2>1 DEF Settled, AttemptsOn
  <2>3. StandingOf(i) = "closed"
    BY <1>0, <2>1, <2>2
    DEF Collectable, Payable, Open, StandingOf, Standing, CanceledClosed, Money,
        PaidIffSuccess, InvoiceStatus
  <2>4. MoneyOf(i)' = "review"
    <3>1. FlagOn(i)' /\ ~SuccessOn(i)'
      BY <1>0, <1>3, <1>5, <2>1 DEF FlagOn, SuccessOn
    <3> QED
      BY <3>1, MoneyRead DEF MoneyIs
  <2>5. ASSUME NEW j \in Invoices \ {i} PROVE MoneyOf(j)' = MoneyOf(j)
    <3>1. /\ SuccessOn(j)' <=> SuccessOn(j)
          /\ FlagOn(j)' <=> FlagOn(j)
          /\ OkOn(j)' <=> OkOn(j)
      BY <1>0, <2>1, <2>5 DEF SuccessOn, FlagOn, OkOn
    <3> QED
      BY <3>1, SameMoney
  <2>6. \A j \in Invoices : StandingOf(j)' = StandingOf(j)
    BY <2>1, SameStanding
  <2>7. Promise!SetAside(i)
    <3>1. [j \in Invoices |-> StandingOf(j)]' = [j \in Invoices |-> StandingOf(j)]
      BY <2>6
    <3>2. [j \in Invoices |-> MoneyOf(j)]'
            = [[j \in Invoices |-> MoneyOf(j)] EXCEPT ![i] = "review"]
      BY <2>4, <2>5
    <3>3. MoneyOf(i) = "taken"
      BY <1>4, <1>5, <2>1
    <3> QED
      BY <2>3, <3>1, <3>2, <3>3 DEF Promise!SetAside
  <2> QED
    BY <2>7 DEF Promise!NextCollection
<1>6. CASE receipt[a] = "ok" /\ SettlePaid(a, a)
  <2>1. /\ ~Final(a) /\ Collectable(i)
        /\ UNCHANGED <<of, flagged>>
        /\ attempt' = [attempt EXCEPT ![a] = "success"]
        /\ invoice' = [invoice EXCEPT ![i] = "paid"]
    BY <1>0, <1>6 DEF SettlePaid, SettleBound
  <2>2. StandingOf(i) = "owed" /\ StandingOf(i)' = "paid"
    <3>1. invoice[i] \in Open
      BY <2>1 DEF Collectable, Payable, Open, Standing, OverdueIsNonPayment
    <3>2. invoice'[i] = "paid"
      BY <2>1
    <3> QED
      BY <3>1, <3>2 DEF StandingOf, Open
  <2>3. MoneyOf(i)' = "credited"
    <3>1. SuccessOn(i)'
      BY <1>0, <2>1 DEF SuccessOn
    <3> QED
      BY <3>1, MoneyRead DEF MoneyIs
  <2>4. ASSUME NEW j \in Invoices \ {i} PROVE MoneyOf(j)' = MoneyOf(j)
    <3>1. /\ SuccessOn(j)' <=> SuccessOn(j)
          /\ FlagOn(j)' <=> FlagOn(j)
          /\ OkOn(j)' <=> OkOn(j)
      BY <1>0, <2>1, <2>4 DEF SuccessOn, FlagOn, OkOn
    <3> QED
      BY <3>1, SameMoney
  <2>5. \A j \in Invoices \ {i} : StandingOf(j)' = StandingOf(j)
    BY <2>1, SameStanding
  <2>6. Promise!Credit(i)
    <3>1. MoneyOf(i) = "taken"
      BY <1>4, <1>6, <2>1
    <3>2. [j \in Invoices |-> StandingOf(j)'] =
            [[j \in Invoices |-> StandingOf(j)] EXCEPT ![i] = "paid"]
      BY <2>2, <2>5
    <3>3. [j \in Invoices |-> MoneyOf(j)'] =
            [[j \in Invoices |-> MoneyOf(j)] EXCEPT ![i] = "credited"]
      BY <2>3, <2>4
    <3> QED
      BY <2>2, <3>1, <3>2, <3>3 DEF Promise!Credit
  <2> QED
    BY <2>6 DEF Promise!NextCollection
<1> QED
  BY <1>1, <1>2, <1>5, <1>6, SettleCases

LEMMA PromiseStep ==
  ASSUME Truthful
  PROVE  Books /\ Followed /\ [ChargingNext]_chargingVars
           => [Promise!NextCollection]_PromiseVars
<1> SUFFICES ASSUME Books, Followed, [ChargingNext]_chargingVars
             PROVE  [Promise!NextCollection]_PromiseVars
  OBVIOUS
<1> USE QuietPromise
<1>1. CASE UNCHANGED chargingVars
  BY <1>1 DEF chargingVars, vars, invVars, attVars, envVars
<1>2. CASE Lifecycle
  BY <1>2, LifecyclePromise
<1>3. ASSUME NEW i \in Invoices,
             HandOff(i) \/ LoseHandOff(i) \/ Rehand(i) \/ SkipMessage(i)
      PROVE  UNCHANGED PromiseVars
  BY <1>3 DEF HandOff, LoseHandOff, Rehand, SkipMessage, Dispatch, envVars, vars,
     invVars, attVars
<1>4. ASSUME NEW w \in Workers, NEW i \in Invoices, NEW k \in Keys \cup {NoKey},
             Prepare(w, i, k), UNCHANGED receipt
      PROVE  UNCHANGED PromiseVars
  <2>1. PICK a \in Attempts : OpenAttempt(a, i, k) \/ UNCHANGED vars
    BY <1>4 DEF Prepare
  <2> QED
    BY <1>4, <2>1, OpenPromise DEF vars, invVars, attVars
<1>5. ASSUME NEW w \in Workers, NEW i \in Invoices, ChargeIssued(w, i)
      PROVE  UNCHANGED PromiseVars
  BY <1>4, <1>5 DEF ChargeIssued, envVars
<1>6. ASSUME NEW w \in Workers, NEW i \in Invoices, NEW k \in Keys \cup {NoKey},
             Attempt(w, i, k)
      PROVE  UNCHANGED PromiseVars
  BY <1>4, <1>6 DEF Attempt
<1>7. ASSUME NEW w \in Workers,
             \/ \E a \in Attempts : RecoverPending(w, a)
             \/ ReadAttempt(w) \/ Crash(w)
      PROVE  UNCHANGED PromiseVars
  BY <1>7 DEF RecoverPending, ReadAttempt, Crash, vars, invVars, attVars, envVars
<1>8. ASSUME NEW w \in Workers, SettleAnswer(w)
      PROVE  [Promise!NextCollection]_PromiseVars
  <2>1. /\ job[w] \in Attempts /\ receipt[job[w]] # "none"
        /\ UNCHANGED receipt /\ Settle(job[w], receipt[job[w]] = "ok", job[w])
    BY <1>8 DEF SettleAnswer, envVars, Books, ChargingTypeOK, Followed, WorkersFollow
  <2> QED
    BY <2>1, SettlePromise
<1>9. ASSUME NEW e \in Events, NEW a \in Attempts, Webhook(e, a)
      PROVE  [Promise!NextCollection]_PromiseVars
  <2>1. PICK r \in Reports(a) :
          \/ attempt[a] # "none" /\ Settle(a, r[1], r[2])
          \/ attempt[a] = "none" /\ UNCHANGED vars
    BY <1>9 DEF Webhook
  <2>2. UNCHANGED receipt
    BY <1>9 DEF Webhook
  <2>3. CASE UNCHANGED vars
    BY <2>2, <2>3 DEF vars, invVars, attVars
  <2>4. CASE Settle(a, r[1], r[2])
    <3>1. receipt[a] # "none" /\ Settle(a, receipt[a] = "ok", a)
      BY <2>4, TruthfulReport
    <3> QED
      BY <2>2, <3>1, SettlePromise
  <2> QED
    BY <2>1, <2>3, <2>4
<1> QED
  BY <1>1, <1>2, <1>3, <1>5, <1>6, <1>7, <1>8, <1>9, CallPromise DEF ChargingNext

\* Workers, messages, retries and webhooks together keep the promise of module
\* Collection: of each invoice, the money is taken once at most, then credited
\* or set aside.
THEOREM ChargingImplementsCollection ==
  ASSUME Truthful
  PROVE  ChargingSpec => PromiseKept
<1>1. ChargingInit => Promise!InitCollection
  <2> SUFFICES ASSUME ChargingInit PROVE Promise!InitCollection
    OBVIOUS
  <2>1. \A i \in Invoices : StandingOf(i) = "none"
    BY DEF ChargingInit, Init, StandingOf, Open
  <2>2. \A i \in Invoices : MoneyOf(i) = "none"
    BY BillingAssumption
    DEF ChargingInit, Init, MoneyOf, Settled, AttemptsOn
  <2> QED
    BY <2>1, <2>2 DEF Promise!InitCollection
<1> QED
  BY <1>1, FollowedHolds, PromiseStep, PTL
  DEF ChargingSpec, PromiseKept, Promise!SpecCollection, PromiseVars

-----------------------------------------------------------------------------
(* What follows for the whole system *)

\* Whatever workers, messages, crashes and webhooks do, and whatever a provider
\* reports, true or not: the books of Billing are sound in every state, ...
THEOREM BooksSound ==
  ChargingSpec =>
    [](/\ Money /\ Standing /\ Bound /\ OneUnresolved /\ SuccessAccounted
       /\ IssuedAwaitsCharge /\ IssuedServed /\ AnswersOne
       /\ RetryCap /\ PeriodsBilled)
<1>1. Spec => [](/\ Money /\ Standing /\ Bound /\ OneUnresolved /\ SuccessAccounted
                 /\ IssuedAwaitsCharge /\ IssuedServed /\ AnswersOne
                 /\ RetryCap /\ PeriodsBilled)
  BY MoneyInvariant, StandingInvariant, BoundInvariant, UnresolvedInvariant,
     AccountedInvariant, AwaitsInvariant, PreparedHolds, RetryCapInvariant,
     PeriodsBilledHolds, PTL
<1> QED
  BY <1>1, BooksKeptHolds, PTL DEF BooksKept

\* ... and no step takes back what an earlier one settled, closed or answered.
THEOREM BooksNeverUndone ==
  ChargingSpec =>
    /\ TransitionsAccepted /\ SettledForGood /\ SettledOnce
    /\ EndsForGood /\ RequestsRepeat /\ ReactivatedClear
BY BooksKeptHolds, TransitionsHold, SettledForGoodHolds, SettledOnceHolds,
   EndsForGoodHolds, RequestsRepeatHolds, ReactivatedClearHolds DEF BooksKept

\* The provider's answer to an attempt is given once: a worker that settles it
\* later, and one that asks again after a crash, have the same answer.
ReceiptsStand ==
  [][\A a \in Attempts : receipt[a] # "none" => receipt'[a] = receipt[a]]_chargingVars

\* Who else changes a receipt?
LEMMA ReceiptStep ==
  ASSUME ChargingNext
  PROVE  UNCHANGED receipt \/ \E w \in Workers : CallGateway(w)
BY DEF ChargingNext, Lifecycle, HandOff, LoseHandOff, Rehand, SkipMessage, ChargeIssued,
   Attempt, RecoverPending, ReadAttempt, SettleAnswer, Crash, Webhook, envVars

\* Only a call writes a receipt, and it repeats the one that is there.
THEOREM ReceiptsStandHolds == ChargingSpec => ReceiptsStand
<1>1. ChargingTypeOK /\ [ChargingNext]_chargingVars =>
        [\A a \in Attempts : receipt[a] # "none" => receipt'[a] = receipt[a]]_chargingVars
  <2> SUFFICES ASSUME ChargingTypeOK, ChargingNext, NEW a \in Attempts,
                      receipt[a] # "none"
               PROVE  receipt'[a] = receipt[a]
    OBVIOUS
  <2>1. ASSUME NEW w \in Workers, CallGateway(w) PROVE receipt'[a] = receipt[a]
    BY <2>1 DEF CallGateway, Receipts, ChargingTypeOK
  <2> QED
    BY <2>1, ReceiptStep
<1> QED
  BY <1>1, ChargingTyping, PTL DEF ChargingSpec, ReceiptsStand

-----------------------------------------------------------------------------
(* The provider's money and the books, of a truthful provider *)

\* Money is taken only for an attempt that the books hold as PENDING and that
\* nobody is asked to review: no worker that was slow, died or read the attempt
\* long ago charges what has been settled since.
ChargedWhileLive ==
  [][\A a \in Attempts : receipt'[a] # receipt[a] => Chargeable(a)]_chargingVars

\* An attempt without a receipt is as _prepare left it.
THEOREM ChargedWhileLiveHolds ==
  ASSUME Truthful
  PROVE  ChargingSpec => ChargedWhileLive
<1>1. Books /\ Followed /\ [ChargingNext]_chargingVars =>
        [\A a \in Attempts : receipt'[a] # receipt[a] => Chargeable(a)]_chargingVars
  <2> SUFFICES ASSUME Books, Followed, ChargingNext, NEW a \in Attempts,
                      receipt'[a] # receipt[a]
               PROVE  Chargeable(a)
    OBVIOUS
  <2>1. PICK w \in Workers : CallGateway(w)
    BY ReceiptStep
  <2>2. a = job[w] /\ receipt[a] = "none"
    BY <2>1 DEF CallGateway, Receipts, Books, ChargingTypeOK
  <2>3. attempt[a] # "none"
    BY <2>1, <2>2 DEF CallGateway, Followed, WorkersFollow
  <2> QED
    BY <2>2, <2>3 DEF Chargeable, Followed, BooksFollowProvider, Books,
       ChargingTypeOK, TypeOK, PaymentStatus
<1> QED
  BY <1>1, FollowedHolds, PTL DEF ChargingSpec, ChargedWhileLive

\* No money that was taken is forgotten: it is credited, or set aside for review,
\* or its attempt is one that reconcile_stuck still takes up, however often the
\* process that took it died before it could say so.
TakenKept ==
  \A a \in Attempts : receipt[a] = "ok" =>
    attempt[a] = "success" \/ a \in flagged \/ Chargeable(a)

\* When no attempt is left to charge, the books and the provider agree on every
\* invoice: money was taken for it just if it is PAID or one of its attempts is
\* set aside.
Reconciled ==
  (\A a \in Attempts : ~Chargeable(a)) =>
    \A i \in Invoices :
      (\E a \in Attempts : of[a] = i /\ receipt[a] = "ok")
        <=> (invoice[i] = "paid" \/ \E a \in flagged : of[a] = i)

\* A receipt is of an attempt in the books, which no result contradicts.
THEOREM TakenIsReconciled ==
  ASSUME Truthful
  PROVE  ChargingSpec => [](TakenKept /\ Reconciled)
<1>1. Books /\ Followed => TakenKept
  BY DEF Books, ChargingTypeOK, TypeOK, PaymentStatus, Followed, BooksFollowProvider,
     ReceiptsFollowBooks, TakenKept, Chargeable
<1>2. Books /\ Followed /\ TakenKept => Reconciled
  <2> SUFFICES ASSUME Books, Followed, TakenKept,
                      \A a \in Attempts : ~Chargeable(a), NEW i \in Invoices
               PROVE  (\E a \in Attempts : of[a] = i /\ receipt[a] = "ok")
                        <=> (invoice[i] = "paid" \/ \E a \in flagged : of[a] = i)
    BY DEF Reconciled
  <2>1. invoice[i] = "paid" <=> \E a \in Attempts : of[a] = i /\ attempt[a] = "success"
    BY DEF Books, Money, PaidIffSuccess, Settled, AttemptsOn
  <2>2. \A a \in Attempts :
          receipt[a] = "ok" <=> attempt[a] = "success" \/ a \in flagged
    BY DEF TakenKept, Followed, BooksFollowProvider
  <2>3. flagged \subseteq Attempts
    BY DEF Books, ChargingTypeOK, TypeOK
  <2> QED
    BY <2>1, <2>2, <2>3
<1> QED
  BY <1>1, <1>2, FollowedHolds, PTL

-----------------------------------------------------------------------------
(* The provider that the workers meet is the one module Gateway implements *)

\* History: the answers that workers have settled, each for its attempt.
VARIABLE told

HeardVars == <<chargingVars, told>>

\* The steps of Charging, and what a worker that settles has been told.
HeardNext ==
  /\ ChargingNext
  /\ told' = told \cup {<<w, job[w], receipt[job[w]]>> :
                          w \in {v \in Workers : SettleAnswer(v)}}

HeardSpec == ChargingInit /\ told = {} /\ [][HeardNext]_HeardVars

Answers == INSTANCE Provider WITH
  Keys <- Attempts, Callers <- Workers,
  Results <- {"ok", "declined"}, Undecided <- "none", decision <- receipt

\* A worker that has its answer finds the same one stored when it settles.
AnswerKept ==
  \A w \in Workers :
    pc[w] = "answered" => job[w] \in Attempts /\ receipt[job[w]] # "none"

\* Only a call makes a worker answered, and no receipt is taken back.
LEMMA AnswerKeptStep ==
  ChargingTypeOK /\ AnswerKept /\ [ChargingNext]_chargingVars => AnswerKept'
<1> SUFFICES ASSUME ChargingTypeOK, AnswerKept, [ChargingNext]_chargingVars
             PROVE  AnswerKept'
  OBVIOUS
<1>1. CASE UNCHANGED <<pc, job, receipt>>
  BY <1>1 DEF AnswerKept
<1>2. ASSUME NEW w \in Workers, CallGateway(w) PROVE AnswerKept'
  <2>1. /\ UNCHANGED job /\ job[w] \in Attempts
        /\ pc' = [pc EXCEPT ![w] = "answered"]
    BY <1>2 DEF CallGateway, ChargingTypeOK
  <2>2. PICK r \in {"ok", "declined"} : receipt' = [receipt EXCEPT ![job[w]] = r]
    BY <1>2, <2>1 DEF CallGateway, Receipts, ChargingTypeOK
  <2> QED
    BY <2>1, <2>2 DEF AnswerKept, ChargingTypeOK
<1>3. ASSUME NEW w \in Workers, NEW a \in Attempts \cup {NoAttempt},
             NEW phase \in {"idle", "prepared", "calling"},
             UNCHANGED receipt,
             pc' = [pc EXCEPT ![w] = phase], job' = [job EXCEPT ![w] = a]
      PROVE  AnswerKept'
  BY <1>3 DEF AnswerKept, ChargingTypeOK
<1>4. ASSUME NEW w \in Workers, NEW i, NEW k, Prepare(w, i, k), UNCHANGED receipt
      PROVE  AnswerKept'
  <2>1. \/ UNCHANGED workVars
        \/ \E a \in Attempts : Begin(w, a)
    BY <1>4 DEF Prepare
  <2> QED
    BY <1>1, <1>3, <1>4, <2>1 DEF Begin, workVars
<1>5. ASSUME NEW w \in Workers, NEW a \in Attempts, RecoverPending(w, a)
      PROVE  AnswerKept'
  BY <1>3, <1>5 DEF RecoverPending, Begin, envVars
<1>6. ASSUME NEW w \in Workers, ReadAttempt(w) PROVE AnswerKept'
  <2>1. UNCHANGED receipt
    BY <1>6 DEF ReadAttempt, envVars
  <2>2. CASE Stop(w)
    BY <1>3, <2>1, <2>2 DEF Stop
  <2>3. CASE pc' = [pc EXCEPT ![w] = "calling"] /\ UNCHANGED job
    BY <2>1, <2>3 DEF AnswerKept, ChargingTypeOK
  <2> QED
    BY <1>6, <2>2, <2>3 DEF ReadAttempt
<1>7. ASSUME NEW w \in Workers, SettleAnswer(w) \/ Crash(w) PROVE AnswerKept'
  BY <1>3, <1>7 DEF SettleAnswer, Crash, Stop, envVars
<1>8. CASE Lifecycle
  BY <1>1, <1>8 DEF Lifecycle, workVars, envVars
<1>9. ASSUME NEW i \in Invoices,
             HandOff(i) \/ LoseHandOff(i) \/ Rehand(i) \/ SkipMessage(i)
      PROVE  AnswerKept'
  BY <1>1, <1>9 DEF HandOff, LoseHandOff, Rehand, SkipMessage, workVars, envVars
<1>10. ASSUME NEW w \in Workers, NEW i \in Invoices, NEW k \in Keys \cup {NoKey},
              ChargeIssued(w, i) \/ Attempt(w, i, k)
       PROVE  AnswerKept'
  BY <1>4, <1>10 DEF ChargeIssued, Attempt, envVars
<1>11. ASSUME NEW e \in Events, NEW a \in Attempts, Webhook(e, a) PROVE AnswerKept'
  BY <1>1, <1>11 DEF Webhook, workVars
<1>12. CASE UNCHANGED chargingVars
  BY <1>1, <1>12 DEF chargingVars, workVars, envVars
<1> QED
  BY <1>2, <1>5, <1>6, <1>7, <1>8, <1>9, <1>10, <1>11, <1>12 DEF ChargingNext

\* Two workers do not settle in one step.
LEMMA OneSettles ==
  ASSUME ChargingTypeOK, NEW w \in Workers, NEW v \in Workers,
         SettleAnswer(w), SettleAnswer(v)
  PROVE  v = w
BY DEF SettleAnswer, Stop, ChargingTypeOK

\* Whoever charges an attempt, first or again after a crash, is told what the
\* provider decided for its key once and for all: Charging's workers and receipts
\* are the callers and decisions of module Provider, which Gateway implements.
THEOREM ChargingImplementsProvider == HeardSpec => Answers!ProviderSpec
<1>1. ChargingInit /\ told = {} => Answers!ProviderInit /\ ChargingTypeOK /\ AnswerKept
  BY BillingAssumption, ChargingAssumption
  DEF ChargingInit, Answers!ProviderInit, AnswerKept, ChargingTypeOK, Init, TypeOK, Phases
<1>2. [HeardNext]_HeardVars => [ChargingNext]_chargingVars
  BY DEF HeardNext, HeardVars
<1>3. ChargingTypeOK /\ AnswerKept /\ [HeardNext]_HeardVars =>
        [Answers!ProviderNext]_(Answers!providerVars)
  <2> SUFFICES ASSUME ChargingTypeOK, AnswerKept, HeardNext
               PROVE  Answers!ProviderNext \/ UNCHANGED <<receipt, told>>
    BY DEF HeardVars, chargingVars, envVars, Answers!providerVars
  <2> DEFINE News == {<<w, job[w], receipt[job[w]]>> :
                        w \in {v \in Workers : SettleAnswer(v)}}
  <2>0. ChargingNext /\ told' = told \cup News
    BY DEF HeardNext
  <2>1. ASSUME NEW w \in Workers, SettleAnswer(w)
        PROVE  Answers!ProviderNext
    <3>1. {v \in Workers : SettleAnswer(v)} = {w}
      BY <2>1, OneSettles
    <3>2. told' = told \cup {<<w, job[w], receipt[job[w]]>>}
      BY <2>0, <3>1
    <3>3. UNCHANGED receipt /\ job[w] \in Attempts /\ receipt[job[w]] # "none"
      BY <2>1 DEF SettleAnswer, envVars, AnswerKept
    <3>4. Answers!Tell(w, job[w])
      BY <3>2, <3>3 DEF Answers!Tell
    <3> QED
      BY <3>3, <3>4 DEF Answers!ProviderNext
  <2>2. CASE ~\E w \in Workers : SettleAnswer(w)
    <3>1. UNCHANGED told
      BY <2>0, <2>2
    <3>2. ASSUME NEW w \in Workers, CallGateway(w)
          PROVE  Answers!ProviderNext \/ UNCHANGED receipt
      <4>1. job[w] \in Attempts
        BY <3>2 DEF CallGateway, ChargingTypeOK
      <4>2. receipt[job[w]] # "none" => UNCHANGED receipt
        BY <3>2, <4>1 DEF CallGateway, Receipts, ChargingTypeOK
      <4>3. receipt[job[w]] = "none" => Answers!Decide(job[w])
        BY <3>1, <3>2 DEF CallGateway, Receipts, Answers!Decide
      <4> QED
        BY <4>1, <4>2, <4>3 DEF Answers!ProviderNext
    <3> QED
      BY <2>0, <3>1, <3>2, ReceiptStep
  <2> QED
    BY <2>1, <2>2
<1> QED
  BY <1>1, <1>2, <1>3, ChargingTypeStep, AnswerKeptStep, PTL
  DEF HeardSpec, Answers!ProviderSpec

=============================================================================
