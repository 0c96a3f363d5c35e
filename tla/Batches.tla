------------------------------ MODULE Batches ------------------------------
(***************************************************************************)
(* The beat tasks: run_dunning, run_renewals, run_trial_activations and    *)
(* each half of reconcile_stuck. All have one shape: read the ids of the   *)
(* rows that are due, then work on each in a transaction of its own, which *)
(* asks again under the lock whether it still is. Runs overlap, end early  *)
(* on a database error, at the time limit or with their worker, and are    *)
(* retried, redelivered or left to the next beat. Charging assumes that    *)
(* each row is reached in the end; this module is where that comes from.   *)
(***************************************************************************)
EXTENDS Naturals, FiniteSets

CONSTANTS
  Workers,     \* processes that consume the batch queue
  Items,       \* invoices, subscriptions or attempts
  Bad,         \* the items whose handler raises each time
  MaxRetries,  \* max_retries of RETRY
  Capacity,    \* how many items a run can do before its soft time limit
  MaxDue,      \* bound: how often an item becomes due
  MaxFaults    \* bound: database errors and lost workers

ASSUME BatchesAssumption ==
  /\ IsFiniteSet(Items) /\ Bad \subseteq Items
  /\ {MaxRetries, MaxDue, MaxFaults} \subseteq Nat
  /\ Capacity \in Nat \ 0..Cardinality(Bad)

VARIABLES
  due,      \* the rows that the task's query selects
  queue,    \* messages that wait, each with the number of its retries
  busy,     \* the workers that run the task
  left,     \* the items of its list that a run has not come to
  spent,    \* how many it has done
  retries,  \* the retries of the message it runs
  times,    \* history: how often each item became due
  handled,  \* history: how often it was handled
  faults    \* faults so far

runVars == <<busy, left, spent, retries>>
batchVars == <<due, queue, runVars, times, handled, faults>>

BatchesTypeOK ==
  /\ due \subseteq Items
  /\ queue \subseteq 0..MaxRetries
  /\ busy \subseteq Workers
  /\ left \in [Workers -> SUBSET Items]
  /\ spent \in [Workers -> 0..Capacity]
  /\ retries \in [Workers -> 0..MaxRetries]
  /\ {times, handled} \subseteq [Items -> Nat]
  /\ faults \in 0..MaxFaults

BatchesInit ==
  /\ due = {} /\ queue = {} /\ busy = {}
  /\ left = [w \in Workers |-> {}]
  /\ spent = [w \in Workers |-> 0]
  /\ retries = [w \in Workers |-> 0]
  /\ times = [i \in Items |-> 0]
  /\ handled = [i \in Items |-> 0]
  /\ faults = 0

-----------------------------------------------------------------------------
\* A charge fails, a period or a trial ends, a hand-off is lost.
FallDue(i) ==
  /\ i \notin due /\ times[i] < MaxDue
  /\ due' = due \cup {i}
  /\ times' = [times EXCEPT ![i] = @ + 1]
  /\ UNCHANGED <<queue, runVars, handled, faults>>

\* CELERY_BEAT_SCHEDULE. A message like one that waits is not added.
Beat ==
  /\ queue' = queue \cup {0}
  /\ UNCHANGED <<due, runVars, times, handled, faults>>

\* The task starts with its query.
Take(w, n) ==
  /\ w \notin busy /\ n \in queue
  /\ queue' = queue \ {n}
  /\ busy' = busy \cup {w}
  /\ left' = [left EXCEPT ![w] = due]
  /\ spent' = [spent EXCEPT ![w] = 0]
  /\ retries' = [retries EXCEPT ![w] = n]
  /\ UNCHANGED <<due, times, handled, faults>>

-----------------------------------------------------------------------------
(* One round of the loop *)

Round(w, i) ==
  /\ w \in busy /\ i \in left[w] /\ spent[w] < Capacity
  /\ spent' = [spent EXCEPT ![w] = @ + 1]
  /\ UNCHANGED <<queue, retries, times, faults>>

Done(w, i) == left' = [left EXCEPT ![w] = @ \ {i}] /\ UNCHANGED busy

\* Bug: what the list said is still so.
StillListed(i) == TRUE

\* The recheck under the row's lock.
StillDue(i) == i \in due

Handle(w, i) ==
  /\ Round(w, i) /\ Done(w, i)
  /\ StillDue(i) /\ i \notin Bad
  /\ due' = due \ {i}
  /\ handled' = [handled EXCEPT ![i] = @ + 1]

\* Another run, a client or a webhook was faster.
Skip(w, i) ==
  /\ Round(w, i) /\ Done(w, i)
  /\ ~StillDue(i)
  /\ UNCHANGED <<due, handled>>

\* Bug: an exception ends the batch.
FailAll(w, i) ==
  /\ Round(w, i)
  /\ StillDue(i) /\ i \in Bad
  /\ busy' = busy \ {w} /\ left' = [left EXCEPT ![w] = {}]
  /\ UNCHANGED <<due, handled>>

\* An exception is logged; its transaction is rolled back.
Fail(w, i) ==
  /\ Round(w, i) /\ Done(w, i)
  /\ StillDue(i) /\ i \in Bad
  /\ UNCHANGED <<due, handled>>

-----------------------------------------------------------------------------
(* The end of a run *)

Stop(w) ==
  /\ w \in busy
  /\ busy' = busy \ {w}
  /\ left' = [left EXCEPT ![w] = {}]
  /\ UNCHANGED <<due, spent, retries, times, handled>>

Finish(w) == Stop(w) /\ left[w] = {} /\ UNCHANGED <<queue, faults>>

\* SoftTimeLimitExceeded is raised on, and not retried.
TimeLimit(w) ==
  Stop(w) /\ left[w] # {} /\ spent[w] = Capacity /\ UNCHANGED <<queue, faults>>

\* RETRY: up to max_retries
Retry(n) == {n + 1} \cap 0..MaxRetries

\* OperationalError is raised on, and the task is retried.
DbError(w) ==
  /\ Stop(w) /\ left[w] # {}
  /\ faults < MaxFaults /\ faults' = faults + 1
  /\ queue' = queue \cup Retry(retries[w])

\* Late acknowledgement, rejected on worker loss: the message comes back.
WorkerLost(w) ==
  /\ Stop(w)
  /\ faults < MaxFaults /\ faults' = faults + 1
  /\ queue' = queue \cup {retries[w]}

-----------------------------------------------------------------------------
BatchesNext ==
  \/ \E i \in Items : FallDue(i)
  \/ Beat
  \/ \E w \in Workers :
       \/ \E n \in queue : Take(w, n)
       \/ \E i \in left[w] : Handle(w, i) \/ Skip(w, i) \/ Fail(w, i)
       \/ Finish(w) \/ TimeLimit(w) \/ DbError(w) \/ WorkerLost(w)

BatchesSpec == BatchesInit /\ [][BatchesNext]_batchVars

\* The beat goes on, a free worker takes a message, a run goes on to its end.
BatchesFairness ==
  /\ WF_batchVars(Beat)
  /\ WF_batchVars(\E w \in Workers : \E n \in queue : Take(w, n))
  /\ \A w \in Workers :
       /\ WF_batchVars(\E i \in left[w] : Handle(w, i) \/ Skip(w, i) \/ Fail(w, i))
       /\ WF_batchVars(Finish(w) \/ TimeLimit(w))

FairBatches == BatchesSpec /\ BatchesFairness

-----------------------------------------------------------------------------
\* However runs overlap, are retried or redelivered, an item is handled once for
\* each time it became due: nobody is billed or dunned twice from two lists.
HandledOncePerDue == \A i \in Items : handled[i] <= times[i]

\* "One bad invoice must not hold up the rest of the batch": an item whose
\* handler works is reached in the end, though others fail in every run, runs
\* are cut short and the order of the list is anyone's guess.
HealthyServed == \A i \in Items \ Bad : i \in due ~> i \notin due

=============================================================================
