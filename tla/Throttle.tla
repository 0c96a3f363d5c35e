------------------------------ MODULE Throttle ------------------------------
(***************************************************************************)
(* The rate limits: OrganizationRateThrottle and AuthRateThrottle over the *)
(* framework's SimpleRateThrottle, which keeps the stamps of the admitted  *)
(* requests of a bucket in the shared cache. It reads them, drops those    *)
(* that are too old, and either refuses or writes the list back with the   *)
(* request in front: two calls to the cache, with nothing to keep another  *)
(* request from coming between them. Any error lets the request through.   *)
(***************************************************************************)
EXTENDS Integers, Sequences, FiniteSets

CONSTANTS
  Calls,      \* requests to the API
  ProjectOf,  \* the project a request resolves to, or NoProject
  CallerOf,   \* the API key or user token it carries
  IpOf,       \* the address it comes from
  NoProject,
  Budget,     \* num_requests of the rate
  Duration,   \* its duration
  Overlap,    \* bound: requests between their two cache calls
  MaxTime     \* bound: time

ASSUME ThrottleAssumption ==
  /\ IsFiniteSet(Calls)
  /\ Budget \in Nat \ {0} /\ Duration \in Nat \ {0}
  /\ Overlap \in Nat \ {0} /\ MaxTime \in Nat

VARIABLES
  time,     \* by the clock of the server
  history,  \* the cached list of each bucket, newest first
  phase,    \* how far each request is
  stamp,    \* the time at which it was made
  copy,     \* the list it read
  torn      \* history: buckets in which a list was written over one not read

throttleVars == <<time, history, phase, stamp, copy, torn>>

\* Bug: a budget for each key.
ByCaller(r) == <<"org", CallerOf[r]>>

\* get_cache_key
Bucket(r) ==
  IF ProjectOf[r] # NoProject THEN <<"org", ProjectOf[r]>> ELSE <<"ip", IpOf[r]>>

Buckets == {Bucket(r) : r \in Calls}

ThrottleTypeOK ==
  /\ time \in 0..MaxTime
  /\ history \in [Buckets -> Seq(Calls)]
  /\ \A b \in Buckets :
       /\ Len(history[b]) <= Budget
       /\ \A i \in DOMAIN history[b] : phase[history[b][i]] \in {"admitted", "open"}
  /\ phase \in [Calls -> {"new", "read", "admitted", "refused", "open"}]
  /\ stamp \in [Calls -> 0..MaxTime]
  /\ copy \in [Calls -> Seq(Calls)]
  /\ torn \subseteq Buckets

ThrottleInit ==
  /\ time = 0
  /\ history = [b \in Buckets |-> <<>>]
  /\ phase = [r \in Calls |-> "new"]
  /\ stamp = [r \in Calls |-> 0]
  /\ copy = [r \in Calls |-> <<>>]
  /\ torn = {}

-----------------------------------------------------------------------------
Second ==
  /\ time < MaxTime /\ time' = time + 1
  /\ UNCHANGED <<history, phase, stamp, copy, torn>>

\* cache.get and the clock
ReadList(r) ==
  /\ phase[r] = "new"
  /\ Cardinality({q \in Calls : phase[q] = "read"}) < Overlap
  /\ phase' = [phase EXCEPT ![r] = "read"]
  /\ stamp' = [stamp EXCEPT ![r] = time]
  /\ copy' = [copy EXCEPT ![r] = history[Bucket(r)]]
  /\ UNCHANGED <<time, history, torn>>

\* What is too old is popped, from the end on.
Recent(r) ==
  LET fresh == {i \in DOMAIN copy[r] : stamp[copy[r][i]] > stamp[r] - Duration}
  IN  SubSeq(copy[r], 1, CHOOSE n \in fresh \cup {0} : \A i \in fresh : i <= n)

OverBudget(r) == Len(Recent(r)) >= Budget

\* throttle_failure leaves no trace.
Refuse(r) ==
  /\ phase[r] = "read" /\ OverBudget(r)
  /\ phase' = [phase EXCEPT ![r] = "refused"]
  /\ copy' = [copy EXCEPT ![r] = <<>>]
  /\ UNCHANGED <<time, history, stamp, torn>>

\* cache.set
Store(r) ==
  LET b == Bucket(r) IN
  /\ history' = [history EXCEPT ![b] = <<r>> \o Recent(r)]
  /\ torn' = IF history[b] = copy[r] THEN torn ELSE torn \cup {b}

\* throttle_success overwrites whatever is cached by now.
Admit(r) ==
  /\ phase[r] = "read" /\ ~OverBudget(r)
  /\ phase' = [phase EXCEPT ![r] = "admitted"]
  /\ copy' = [copy EXCEPT ![r] = <<>>]
  /\ Store(r)
  /\ UNCHANGED <<time, stamp>>

\* FailOpenMixin: the cache fails on the first call, or on the second, which
\* may nevertheless have been done.
FailOpen(r) ==
  /\ \/ phase[r] = "new" /\ UNCHANGED <<history, torn>>
     \/ phase[r] = "read" /\ ~OverBudget(r) /\ UNCHANGED <<history, torn>>
     \/ phase[r] = "read" /\ ~OverBudget(r) /\ Store(r)
  /\ phase' = [phase EXCEPT ![r] = "open"]
  /\ copy' = [copy EXCEPT ![r] = <<>>]
  /\ stamp' = IF phase[r] = "new" THEN [stamp EXCEPT ![r] = time] ELSE stamp
  /\ UNCHANGED time

ThrottleNext ==
  \/ Second
  \/ \E r \in Calls : ReadList(r) \/ Refuse(r) \/ Admit(r) \/ FailOpen(r)

ThrottleSpec == ThrottleInit /\ [][ThrottleNext]_throttleVars

-----------------------------------------------------------------------------
\* "Only a real over-limit verdict blocks": a request is refused only if its
\* project, or its address, really had its whole budget of requests let through
\* within the last Duration, however requests overlap and the cache fails. What
\* was refused does not count.
RefusalIsEarned ==
  \A r \in Calls : phase[r] = "refused" =>
    Cardinality({q \in Calls :
      /\ phase[q] \in {"admitted", "open"}
      /\ Bucket(q) = Bucket(r)
      /\ stamp[q] \in (stamp[r] - Duration + 1) .. stamp[r]}) >= Budget

\* A project gets no more than its budget within any Duration, by however many
\* keys and tokens, while the cache answers; except if two of its requests
\* overlapped such that one wrote over what the other had just added.
BudgetKept ==
  \A r \in Calls : ProjectOf[r] # NoProject /\ Bucket(r) \notin torn =>
    \A t \in 0..time :
      Cardinality({q \in Calls :
        /\ phase[q] = "admitted" /\ ProjectOf[q] = ProjectOf[r]
        /\ stamp[q] \in t .. (t + Duration - 1)}) <= Budget

\* The limits neither refuse what is within the budget nor, where they can tell,
\* let through what exceeds it.
ThrottleSafe == ThrottleTypeOK /\ RefusalIsEarned /\ BudgetKept

=============================================================================
