------------------------------- MODULE Clocks -------------------------------
(***************************************************************************)
(* One invoice of an active subscription, and the clocks of the hosts that *)
(* serve it. Module Billing knows which attempts were made since the       *)
(* invoice was last issued; the code compares attempted_at, stamped by the *)
(* host that made the attempt, with issued_at, stamped by the host that    *)
(* issued the invoice. Flags, client keys and webhooks are left out.       *)
(***************************************************************************)
EXTENDS Integers, FiniteSets

CONSTANTS
  Hosts,       \* processes with a clock: workers and gunicorn
  Skew,        \* how far each clock may be from the time
  MaxDunning,  \* MAX_DUNNING_ATTEMPTS
  MaxTries,    \* bound: attempts
  MaxNow       \* bound: time

ASSUME ClocksAssumption ==
  {Skew, MaxTries, MaxNow} \subseteq Nat /\ MaxDunning \in Nat \ {0}

VARIABLES
  now,        \* the time: all stamped transactions have different ones
  offset,     \* how far each host's clock is from it
  invoice,    \* its status
  issuedAt,   \* issued_at
  tries,      \* how many attempts there are
  attempt,    \* their status
  stampedAt,  \* their attempted_at
  madeAt,     \* history: the time at which each was made
  reissued    \* history: the time at which the invoice was last issued

attemptVars == <<tries, attempt, stampedAt, madeAt>>
clocksVars == <<now, offset, invoice, issuedAt, attemptVars, reissued>>

Tries == 1..MaxTries
Stamps == -Skew .. MaxNow + Skew

ClocksTypeOK ==
  /\ now \in 0..MaxNow
  /\ offset \in [Hosts -> -Skew..Skew]
  /\ invoice \in {"issued", "paid", "failed", "overdue"}
  /\ issuedAt \in Stamps /\ reissued \in 0..now
  /\ tries \in 0..MaxTries
  /\ attempt \in [Tries -> {"none", "pending", "success", "failed"}]
  /\ \A a \in Tries : attempt[a] = "none" <=> a > tries
  /\ stampedAt \in [Tries -> Stamps] /\ madeAt \in [Tries -> 0..now]
  /\ invoice = "paid" <=> \E a \in Tries : attempt[a] = "success"

\* The subscription was just billed, by some host.
ClocksInit ==
  /\ now = 0
  /\ offset \in [Hosts -> -Skew..Skew]
  /\ invoice = "issued"
  /\ \E h \in Hosts : issuedAt = offset[h]
  /\ tries = 0
  /\ attempt = [a \in Tries |-> "none"]
  /\ stampedAt = [a \in Tries |-> 0]
  /\ madeAt = [a \in Tries |-> 0]
  /\ reissued = 0

-----------------------------------------------------------------------------
\* Time passes, and clocks are set right or wrong.
Tick ==
  /\ now < MaxNow /\ now' = now + 1
  /\ \E h \in Hosts, d \in -Skew..Skew : offset' = [offset EXCEPT ![h] = d]
  /\ UNCHANGED <<invoice, issuedAt, attemptVars, reissued>>

\* payment_attempts of the status
Having(status) == {a \in Tries : attempt[a] = status}

\* attempted_at__gte=invoice.issued_at
ThisIssue == {a \in 1..tries : stampedAt[a] >= issuedAt}

\* _prepare: neither an attempt of this issue, nor one that is under way.
MayTry ==
  /\ invoice = "issued" => ThisIssue = {}
  /\ Having("pending") \cup Having("success") = {}

\* _prepare, on a delivery, for a client or from reconcile_stuck
Prepare(h) ==
  /\ invoice \in {"issued", "failed", "overdue"} /\ MayTry
  /\ now < MaxNow /\ now' = now + 1
  /\ tries < MaxTries /\ tries' = tries + 1
  /\ attempt' = [attempt EXCEPT ![tries'] = "pending"]
  /\ stampedAt' = [stampedAt EXCEPT ![tries'] = now + offset[h]]
  /\ madeAt' = [madeAt EXCEPT ![tries'] = now]
  /\ UNCHANGED <<offset, invoice, issuedAt, reissued>>

\* settle, by the worker that charged or after recover_pending
Settle(a) ==
  /\ attempt[a] = "pending"
  /\ \/ /\ attempt' = [attempt EXCEPT ![a] = "success"]
        /\ invoice' = "paid"
     \/ /\ attempt' = [attempt EXCEPT ![a] = "failed"]
        /\ invoice' = IF invoice = "issued" THEN "failed" ELSE invoice
  /\ UNCHANGED <<now, offset, issuedAt, tries, stampedAt, madeAt, reissued>>

\* Bug: the invoice keeps the time of its first issue.
ReissueUnstamped(h) ==
  /\ invoice = "failed" /\ Cardinality(Having("failed")) < MaxDunning
  /\ invoice' = "issued" /\ now < MaxNow
  /\ now' = now + 1 /\ reissued' = now
  /\ UNCHANGED <<offset, issuedAt, attemptVars>>

\* run_dunning reissues; transition_to stamps issued_at.
Reissue(h) ==
  /\ invoice = "failed" /\ Cardinality(Having("failed")) < MaxDunning
  /\ invoice' = "issued" /\ now < MaxNow
  /\ now' = now + 1 /\ reissued' = now
  /\ issuedAt' = now + offset[h]
  /\ UNCHANGED <<offset, attemptVars>>

\* It gives up; cancellation leaves OVERDUE as it is.
GiveUp ==
  /\ invoice = "failed" /\ Cardinality(Having("failed")) >= MaxDunning
  /\ invoice' = "overdue"
  /\ UNCHANGED <<now, offset, issuedAt, attemptVars, reissued>>

ClocksNext ==
  \/ Tick \/ GiveUp
  \/ \E h \in Hosts : Prepare(h) \/ Reissue(h)
  \/ \E a \in Tries : Settle(a)

ClocksSpec == ClocksInit /\ [][ClocksNext]_clocksVars

-----------------------------------------------------------------------------
\* However wrong the clocks are, one attempt at a time is under way and nothing
\* is charged after a success: the times decide only whether to try again.
OneUnderWay == Cardinality(Having("pending") \cup Having("success")) <= 1

\* An issue that is charged by nobody: an attempt that failed before it counts
\* as its own.
Stranded ==
  /\ invoice = "issued" /\ Having("pending") = {}
  /\ ThisIssue # {}

\* An issue is stranded only by an attempt that was made before it and that the
\* clocks, differing by more than the time in between, put after it; with right
\* clocks, never.
StrandedOnlyBySkew ==
  Stranded => \E a \in ThisIssue : reissued - madeAt[a] \in 1 .. 2 * Skew

\* Clocks that differ never charge an invoice twice, and lose the charge of a
\* reissued one only by differing more than the reissue was late.
ClocksSafe == ClocksTypeOK /\ OneUnderWay /\ StrandedOnlyBySkew

=============================================================================
