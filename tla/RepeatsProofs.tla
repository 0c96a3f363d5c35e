---------------------------- MODULE RepeatsProofs -----------------------------
(***************************************************************************)
(* Proofs about Batches and Webhooks: any number of workers, items,        *)
(* retries, processes, events and faults.                                  *)
(***************************************************************************)
EXTENDS MCRepeats, FiniteSetTheorems, TLAPS

-----------------------------------------------------------------------------
(* Batches *)

\* An item that waits is due once more often than it was handled at least.
Owing == \A i \in Items : handled[i] + (IF i \in due THEN 1 ELSE 0) <= times[i]

BatchesInv == BatchesTypeOK /\ Owing

\* A run counts its items, and a message its retries.
LEMMA BatchesTypeStep ==
  ASSUME BatchesAssumption, BatchesTypeOK, [BatchesNext]_batchVars
  PROVE  BatchesTypeOK'
<1>. USE DEF BatchesTypeOK, runVars
<1>1. CASE UNCHANGED batchVars
  BY <1>1 DEF batchVars
<1>2. ASSUME NEW i \in Items, FallDue(i) PROVE BatchesTypeOK'
  BY <1>2 DEF FallDue
<1>3. CASE Beat
  BY <1>3 DEF Beat, BatchesAssumption
<1>4. ASSUME NEW w \in Workers, NEW n \in queue, Take(w, n) PROVE BatchesTypeOK'
  BY <1>4 DEF Take, BatchesAssumption
<1>5. ASSUME NEW w \in Workers, NEW i \in left[w], Handle(w, i) \/ Skip(w, i) \/ Fail(w, i)
      PROVE  BatchesTypeOK'
  <2>1. i \in Items /\ spent[w] + 1 \in 0..Capacity
    BY <1>5 DEF Handle, Skip, Fail, Round, BatchesAssumption
  <2>2. /\ UNCHANGED <<queue, busy, retries, times, faults>>
        /\ spent' = [spent EXCEPT ![w] = @ + 1]
        /\ left' = [left EXCEPT ![w] = @ \ {i}]
    BY <1>5 DEF Handle, Skip, Fail, Round, Done
  <2>3. due' \subseteq Items
    BY <1>5 DEF Handle, Skip, Fail
  <2>4. handled' \in [Items -> Nat]
    BY <1>5, <2>1 DEF Handle, Skip, Fail
  <2>5. spent' \in [Workers -> 0..Capacity] /\ left' \in [Workers -> SUBSET Items]
    BY <2>1, <2>2
  <2>. QED
    BY <2>2, <2>3, <2>4, <2>5
<1>6. ASSUME NEW w \in Workers, Finish(w) \/ TimeLimit(w) \/ DbError(w) \/ WorkerLost(w)
      PROVE  BatchesTypeOK'
  <2>1. busy' \subseteq Workers /\ left' \in [Workers -> SUBSET Items]
    BY <1>6 DEF Finish, TimeLimit, DbError, WorkerLost, Stop
  <2>2. queue' \subseteq 0..MaxRetries
    <3>1. queue \subseteq 0..MaxRetries /\ retries[w] \in 0..MaxRetries
      OBVIOUS
    <3>2. queue' \in {queue, queue \cup Retry(retries[w]), queue \cup {retries[w]}}
      BY <1>6 DEF Finish, TimeLimit, DbError, WorkerLost
    <3>. QED
      BY <3>1, <3>2 DEF Retry
  <2>3. faults' \in 0..MaxFaults
    BY <1>6 DEF Finish, TimeLimit, DbError, WorkerLost, BatchesAssumption
  <2>. QED
    BY <1>6, <2>1, <2>2, <2>3 DEF Finish, TimeLimit, DbError, WorkerLost, Stop
<1>. QED
  BY <1>1, <1>2, <1>3, <1>4, <1>5, <1>6 DEF BatchesNext

\* Only what is due is handled, under its lock, and then it is due no more.
LEMMA OwingStep ==
  ASSUME BatchesTypeOK, Owing, [BatchesNext]_batchVars
  PROVE  Owing'
<1>. USE DEF BatchesTypeOK, Owing
<1>1. CASE UNCHANGED <<due, times, handled>>
  BY <1>1
<1>2. ASSUME NEW i \in Items, FallDue(i) PROVE Owing'
  BY <1>2 DEF FallDue
<1>3. ASSUME NEW w \in Workers, NEW i \in left[w], Handle(w, i) PROVE Owing'
  BY <1>3 DEF Handle, Round, StillDue
<1>. QED
  BY <1>1, <1>2, <1>3
  DEF BatchesNext, batchVars, Beat, Take, Skip, Fail, Round, Finish, TimeLimit, DbError,
      WorkerLost, Stop

\* However many runs overlap, and however often they are retried and delivered
\* again, BatchesInv is kept.
LEMMA BatchesStep ==
  ASSUME BatchesAssumption, BatchesInv, [BatchesNext]_batchVars
  PROVE  BatchesInv'
BY BatchesTypeStep, OwingStep DEF BatchesInv

\* Nothing is due at first.
LEMMA BatchesInitHolds ==
  ASSUME BatchesAssumption
  PROVE  BatchesInit => BatchesInv
BY DEF BatchesAssumption, BatchesInit, BatchesInv, BatchesTypeOK, Owing

-----------------------------------------------------------------------------
(* What one run of a batch comes to: why a failing item starves nobody *)

VARIABLES
  failed,   \* history: the items that each worker's run has failed on
  reached   \* history: those it has handled, or skipped as no longer due

Begins(w) == \E n \in queue : Take(w, n)

\* The steps of Batches, and what each run has come to.
WatchedNext ==
  /\ BatchesNext
  /\ failed' = [w \in Workers |->
       IF Begins(w) THEN {}
       ELSE failed[w] \cup {i \in left[w] : Fail(w, i)}]
  /\ reached' = [w \in Workers |->
       IF Begins(w) THEN {}
       ELSE reached[w] \cup {i \in left[w] : Handle(w, i) \/ Skip(w, i)}]

WatchedVars == <<batchVars, failed, reached>>

WatchedSpec ==
  /\ BatchesInit
  /\ failed = [w \in Workers |-> {}] /\ reached = [w \in Workers |-> {}]
  /\ [][WatchedNext]_WatchedVars

\* "One bad invoice must not hold up the rest of the batch": of the items that a
\* run has spent its time on, all but the failing ones were served, so a run that
\* is cut short has come to some that do not fail, and more of them the longer it
\* may take. No order of the list and no overlap with other runs changes this.
OthersReached ==
  \A w \in busy :
    /\ Cardinality(reached[w]) + Cardinality(Bad) >= spent[w]
    /\ spent[w] = Capacity => reached[w] # {}

\* A run has spent one step on each item it came to, and comes to none twice.
Accounts ==
  \A w \in busy :
    /\ failed[w] \subseteq Bad /\ reached[w] \subseteq Items
    /\ (failed[w] \cup reached[w]) \cap left[w] = {}
    /\ spent[w] = Cardinality(failed[w]) + Cardinality(reached[w])

\* One worker moves, on one item.
LEMMA OneRound ==
  ASSUME BatchesTypeOK, NEW w \in busy, NEW i \in left[w],
         Handle(w, i) \/ Skip(w, i) \/ Fail(w, i),
         NEW v \in Workers
  PROVE  /\ ~Begins(v)
         /\ \A j \in left[v] : Handle(v, j) \/ Skip(v, j) \/ Fail(v, j) => v = w /\ j = i
<1>1. /\ w \in Workers /\ spent' = [spent EXCEPT ![w] = @ + 1] /\ spent[w] \in Nat
      /\ busy' = busy /\ left' = [left EXCEPT ![w] = @ \ {i}]
  BY DEF BatchesTypeOK, Handle, Skip, Fail, Round, Done
<1>2. ~Begins(v)
  BY <1>1 DEF Begins, Take, BatchesTypeOK
<1>3. ASSUME NEW j \in left[v], Handle(v, j) \/ Skip(v, j) \/ Fail(v, j)
      PROVE  v = w /\ j = i
  <2>1. left' = [left EXCEPT ![v] = @ \ {j}]
    BY <1>3 DEF Handle, Skip, Fail, Done
  <2> QED
    BY <1>1, <1>3, <2>1 DEF BatchesTypeOK
<1> QED
  BY <1>2, <1>3

\* Where no item is worked on and no run begins, nothing is added.
LEMMA QuietWatch ==
  ASSUME BatchesTypeOK, WatchedNext, UNCHANGED spent, busy' \subseteq busy,
         NEW v \in busy
  PROVE  failed'[v] = failed[v] /\ reached'[v] = reached[v]
<1>1. v \in Workers /\ spent[v] \in Nat
  BY DEF BatchesTypeOK
<1>2. ~Begins(v)
  BY <1>1 DEF Begins, Take
<1>3. \A i \in left[v] : ~(Handle(v, i) \/ Skip(v, i) \/ Fail(v, i))
  BY <1>1 DEF Handle, Skip, Fail, Round, BatchesTypeOK
<1> QED
  BY <1>1, <1>2, <1>3 DEF WatchedNext

\* Each item that a run comes to leaves its list and is counted once.
LEMMA AccountsStep ==
  ASSUME BatchesAssumption, BatchesTypeOK, Accounts, [WatchedNext]_WatchedVars
  PROVE  Accounts'
<1>0. SUFFICES ASSUME NEW v \in busy'
      PROVE  /\ failed'[v] \subseteq Bad /\ reached'[v] \subseteq Items
             /\ (failed'[v] \cup reached'[v]) \cap left'[v] = {}
             /\ spent'[v] = Cardinality(failed'[v]) + Cardinality(reached'[v])
  BY DEF Accounts
<1>1. CASE UNCHANGED WatchedVars
  BY <1>1 DEF WatchedVars, batchVars, runVars, Accounts
<1>2. ASSUME WatchedNext, UNCHANGED spent, busy' \subseteq busy,
             \A w \in Workers : left'[w] \subseteq left[w]
      PROVE  /\ failed'[v] \subseteq Bad /\ reached'[v] \subseteq Items
             /\ (failed'[v] \cup reached'[v]) \cap left'[v] = {}
             /\ spent'[v] = Cardinality(failed'[v]) + Cardinality(reached'[v])
  BY <1>2, QuietWatch DEF Accounts, BatchesTypeOK
<1>3. CASE WatchedNext /\ \/ \E i \in Items : FallDue(i)
                          \/ Beat
  BY <1>2, <1>3 DEF FallDue, Beat, runVars
<1>4. ASSUME WatchedNext, NEW w \in Workers,
             Finish(w) \/ TimeLimit(w) \/ DbError(w) \/ WorkerLost(w)
      PROVE  /\ failed'[v] \subseteq Bad /\ reached'[v] \subseteq Items
             /\ (failed'[v] \cup reached'[v]) \cap left'[v] = {}
             /\ spent'[v] = Cardinality(failed'[v]) + Cardinality(reached'[v])
  <2>1. Stop(w)
    BY <1>4 DEF Finish, TimeLimit, DbError, WorkerLost
  <2> QED
    BY <1>2, <1>4, <2>1 DEF Stop, BatchesTypeOK
<1>5. ASSUME WatchedNext, NEW w \in Workers, NEW n \in queue, Take(w, n)
      PROVE  /\ failed'[v] \subseteq Bad /\ reached'[v] \subseteq Items
             /\ (failed'[v] \cup reached'[v]) \cap left'[v] = {}
             /\ spent'[v] = Cardinality(failed'[v]) + Cardinality(reached'[v])
  <2>1. CASE v = w
    <3>1. Begins(v) /\ v \in Workers
      BY <1>5, <2>1 DEF Begins
    <3>2. failed'[v] = {} /\ reached'[v] = {}
      BY <1>5, <3>1 DEF WatchedNext
    <3>3. spent'[v] = 0
      BY <1>5, <2>1 DEF Take, BatchesTypeOK
    <3> QED
      BY <3>2, <3>3, FS_EmptySet
  <2>2. CASE v # w
    <3>1. v \in busy /\ v \in Workers /\ spent'[v] = spent[v] /\ left'[v] = left[v]
      BY <1>5, <2>2 DEF Take, BatchesTypeOK
    <3>2. ~Begins(v)
      BY <3>1 DEF Begins, Take
    <3>3. \A i \in left[v] : ~(Handle(v, i) \/ Skip(v, i) \/ Fail(v, i))
      BY <1>5 DEF Take, Handle, Skip, Fail, Round, Done
    <3>4. failed'[v] = failed[v] /\ reached'[v] = reached[v]
      BY <1>5, <3>1, <3>2, <3>3 DEF WatchedNext
    <3> QED
      BY <3>1, <3>4 DEF Accounts
  <2> QED
    BY <2>1, <2>2
<1>6. ASSUME WatchedNext, NEW w \in Workers, NEW i \in left[w],
             Handle(w, i) \/ Skip(w, i) \/ Fail(w, i)
      PROVE  /\ failed'[v] \subseteq Bad /\ reached'[v] \subseteq Items
             /\ (failed'[v] \cup reached'[v]) \cap left'[v] = {}
             /\ spent'[v] = Cardinality(failed'[v]) + Cardinality(reached'[v])
  <2>0. /\ w \in busy /\ v \in busy /\ v \in Workers /\ i \in Items
        /\ spent' = [spent EXCEPT ![w] = @ + 1]
        /\ left' = [left EXCEPT ![w] = @ \ {i}]
    BY <1>6 DEF Handle, Skip, Fail, Round, Done, BatchesTypeOK
  <2>1. ~Begins(v)
    BY <1>6, <2>0, OneRound
  <2>2. /\ failed'[v] = failed[v] \cup {j \in left[v] : Fail(v, j)}
        /\ reached'[v] = reached[v] \cup {j \in left[v] : Handle(v, j) \/ Skip(v, j)}
    BY <1>6, <2>0, <2>1 DEF WatchedNext
  <2>3. CASE v # w
    <3>1. {j \in left[v] : Fail(v, j)} = {}
      BY <1>6, <2>0, <2>3, OneRound
    <3>2. {j \in left[v] : Handle(v, j) \/ Skip(v, j)} = {}
      BY <1>6, <2>0, <2>3, OneRound
    <3>3. left'[v] = left[v] /\ spent'[v] = spent[v]
      BY <2>0, <2>3 DEF BatchesTypeOK
    <3> QED
      BY <2>0, <2>2, <3>1, <3>2, <3>3 DEF Accounts
  <2>4. CASE v = w
    <3>0. /\ i \notin failed[v] /\ i \notin reached[v]
          /\ failed[v] \subseteq Bad /\ reached[v] \subseteq Items
          /\ (failed[v] \cup reached[v]) \cap left[v] = {}
          /\ spent[v] = Cardinality(failed[v]) + Cardinality(reached[v])
      BY <1>6, <2>0, <2>4 DEF Accounts
    <3>1. /\ IsFiniteSet(failed[v]) /\ IsFiniteSet(reached[v])
          /\ Cardinality(failed[v]) \in Nat /\ Cardinality(reached[v]) \in Nat
      BY <3>0, FS_Subset, FS_CardinalityType DEF BatchesAssumption
    <3>2. left'[v] = left[v] \ {i} /\ spent'[v] = spent[v] + 1
      BY <2>0, <2>4 DEF BatchesTypeOK
    <3>3. CASE Fail(w, i)
      <4>1. {j \in left[v] : Fail(v, j)} = {i}
        BY <1>6, <2>0, <2>4, <3>3, OneRound
      <4>2. {j \in left[v] : Handle(v, j) \/ Skip(v, j)} = {}
        <5>1. ~Handle(w, i) /\ ~Skip(w, i)
          BY <3>3 DEF Fail, Handle, Skip
        <5> QED
          BY <1>6, <2>0, <2>4, <5>1, OneRound
      <4>3. failed'[v] = failed[v] \cup {i} /\ reached'[v] = reached[v] /\ i \in Bad
        BY <2>2, <3>3, <4>1, <4>2 DEF Fail
      <4>4. Cardinality(failed'[v]) = Cardinality(failed[v]) + 1
        <5>1. Cardinality(failed[v] \cup {i}) = Cardinality(failed[v]) + 1
          BY <3>0, <3>1, FS_AddElement
        <5> QED
          BY <4>3, <5>1
      <4>5. spent'[v] = Cardinality(failed'[v]) + Cardinality(reached'[v])
        <5>1. Cardinality(reached'[v]) = Cardinality(reached[v])
          BY <4>3
        <5>2. spent'[v] = Cardinality(failed[v]) + Cardinality(reached[v]) + 1
          BY <2>4, <3>0, <3>2
        <5> QED
          BY <3>1, <4>4, <5>1, <5>2
      <4>6. failed'[v] \subseteq Bad /\ reached'[v] \subseteq Items
        BY <3>0, <4>3
      <4>7. (failed'[v] \cup reached'[v]) \cap left'[v] = {}
        BY <3>0, <3>2, <4>3
      <4> QED
        BY <4>5, <4>6, <4>7
    <3>4. CASE Handle(w, i) \/ Skip(w, i)
      <4>1. {j \in left[v] : Handle(v, j) \/ Skip(v, j)} = {i}
        BY <1>6, <2>0, <2>4, <3>4, OneRound
      <4>2. {j \in left[v] : Fail(v, j)} = {}
        <5>1. ~Fail(w, i)
          BY <3>4 DEF Fail, Handle, Skip
        <5> QED
          BY <1>6, <2>0, <2>4, <5>1, OneRound
      <4>3. reached'[v] = reached[v] \cup {i} /\ failed'[v] = failed[v]
        BY <2>2, <4>1, <4>2
      <4>4. Cardinality(reached'[v]) = Cardinality(reached[v]) + 1
        <5>1. Cardinality(reached[v] \cup {i}) = Cardinality(reached[v]) + 1
          BY <3>0, <3>1, FS_AddElement
        <5> QED
          BY <4>3, <5>1
      <4>5. spent'[v] = Cardinality(failed'[v]) + Cardinality(reached'[v])
        <5>1. Cardinality(failed'[v]) = Cardinality(failed[v])
          BY <4>3
        <5>2. spent'[v] = Cardinality(failed[v]) + Cardinality(reached[v]) + 1
          BY <2>4, <3>0, <3>2
        <5> QED
          BY <3>1, <4>4, <5>1, <5>2
      <4>6. failed'[v] \subseteq Bad /\ reached'[v] \subseteq Items
        BY <2>0, <3>0, <4>3
      <4>7. (failed'[v] \cup reached'[v]) \cap left'[v] = {}
        BY <3>0, <3>2, <4>3
      <4> QED
        BY <4>5, <4>6, <4>7
    <3> QED
      BY <1>6, <3>3, <3>4
  <2> QED
    BY <2>3, <2>4
<1> QED
  BY <1>1, <1>2, <1>3, <1>4, <1>5, <1>6 DEF WatchedNext, BatchesNext

\* A run has more time than there are items that fail, and fails on each once.
THEOREM OthersReachedHolds ==
  ASSUME BatchesAssumption
  PROVE  WatchedSpec => []OthersReached
<1>1. BatchesTypeOK /\ Accounts => OthersReached
  <2> SUFFICES ASSUME BatchesTypeOK, Accounts, NEW w \in busy
               PROVE  /\ Cardinality(reached[w]) + Cardinality(Bad) >= spent[w]
                      /\ spent[w] = Capacity => reached[w] # {}
    BY DEF OthersReached
  <2>1. /\ IsFiniteSet(Bad) /\ IsFiniteSet(reached[w])
        /\ Cardinality(Bad) \in Nat /\ Cardinality(reached[w]) \in Nat
    BY FS_Subset, FS_CardinalityType DEF Accounts, BatchesAssumption
  <2>2. Cardinality(failed[w]) <= Cardinality(Bad) /\ Cardinality(failed[w]) \in Nat
    BY <2>1, FS_Subset, FS_CardinalityType DEF Accounts
  <2>3. spent[w] = Cardinality(failed[w]) + Cardinality(reached[w])
    BY DEF Accounts
  <2>4. reached[w] = {} => Cardinality(reached[w]) = 0
    BY FS_EmptySet
  <2>5. Capacity > Cardinality(Bad)
    BY <2>1 DEF BatchesAssumption
  <2> QED
    BY <2>1, <2>2, <2>3, <2>4, <2>5
<1>2. BatchesInit => BatchesTypeOK /\ Accounts
  BY BatchesInitHolds DEF BatchesInv, BatchesInit, Accounts
<1>3. [WatchedNext]_WatchedVars => [BatchesNext]_batchVars
  BY DEF WatchedNext, WatchedVars
<1> QED
  BY <1>1, <1>2, <1>3, BatchesTypeStep, AccountsStep, PTL DEF WatchedSpec

-----------------------------------------------------------------------------
(* Webhooks *)

\* A payload is about an attempt that was committed, perhaps deleted since, or
\* about none of ours.
About == known \cup gone \cup Foreign

\* What is under way is about an event that the provider has sent.
Reported ==
  /\ \A e \in Events : net[e] # None => e \in sent /\ net[e].payload \in About
  /\ \A w \in Servers : job[w] # None =>
       job[w].event \in sent /\ job[w].payload \in About

\* What each process knows of the table at its next statement: who has inserted
\* an event is alone, and nothing is stored for it before the commit.
Known ==
  /\ \A w \in Servers : pc[w] = "inserted" => stored[job[w].event] = None
  /\ \A v, w \in Servers :
       pc[v] = "inserted" /\ pc[w] = "inserted" /\ job[v].event = job[w].event => v = w
  /\ \A w \in Servers : pc[w] = "done" => stored[job[w].event] # None

\* What is not stored is not settled.
Unsettled == \A e \in Events : stored[e] = None => settled[e] = 0

WebhooksInv == WebhooksTypeOK /\ Reported /\ Known /\ Unsettled

-----------------------------------------------------------------------------
\* The variables keep their types, and what is about a payment is about one that
\* was committed before the provider heard of it.
LEMMA WebhooksTypeStep ==
  ASSUME WebhooksAssumption, WebhooksTypeOK, Reported, [WebhooksNext]_webhookVars
  PROVE  WebhooksTypeOK' /\ Reported'
<1>. USE DEF WebhooksTypeOK, Reported, About, Deliveries, Jobs
<1>1. CASE UNCHANGED webhookVars
  BY <1>1 DEF webhookVars, providerVars, inboxVars
<1>2. ASSUME NEW p \in Payloads, Prepare(p) PROVE WebhooksTypeOK' /\ Reported'
  BY <1>2 DEF Prepare, inboxVars
<1>3. ASSUME NEW p \in Payloads, Delete(p) PROVE WebhooksTypeOK' /\ Reported'
  BY <1>3 DEF Delete, inboxVars
<1>4. ASSUME NEW p \in Payloads, Charge(p) PROVE WebhooksTypeOK' /\ Reported'
  BY <1>4 DEF Charge, inboxVars
<1>5. ASSUME NEW p \in Payloads, NEW e \in Events, Report(e, p)
      PROVE  WebhooksTypeOK' /\ Reported'
  <2>1. PICK age \in -Skew..Skew : net' = [net EXCEPT ![e] = [payload |-> p, age |-> age]]
    BY <1>5 DEF Report
  <2>2. [payload |-> p, age |-> age] \in Deliveries
    BY <2>1 DEF WebhooksAssumption
  <2>. QED
    BY <1>5, <2>1, <2>2 DEF Report, inboxVars, WebhooksAssumption
<1>6. ASSUME NEW e \in Events, Age(e) PROVE WebhooksTypeOK' /\ Reported'
  <2>1. [net[e] EXCEPT !.age = @ + 1] \in Deliveries
    BY <1>6 DEF Age, WebhooksAssumption
  <2>. QED
    BY <1>6, <2>1 DEF Age, inboxVars, WebhooksAssumption
<1>7. ASSUME NEW w \in Servers, NEW e \in Events, Receive(w, e)
      PROVE  WebhooksTypeOK' /\ Reported'
  BY <1>7 DEF Receive, providerVars, inboxVars
<1>8. ASSUME NEW w \in Servers, Look(w) \/ Insert(w) PROVE WebhooksTypeOK' /\ Reported'
  BY <1>8 DEF Look, Insert, providerVars, inboxVars
<1>9. ASSUME NEW w \in Servers, Commit(w) PROVE WebhooksTypeOK' /\ Reported'
  BY <1>9 DEF Commit, providerVars
<1>10. ASSUME NEW w \in Servers, Answer(w) \/ Break(w) PROVE WebhooksTypeOK' /\ Reported'
  BY <1>10 DEF Answer, Break, Leave, providerVars, WebhooksAssumption
<1>. QED
  BY <1>1, <1>2, <1>3, <1>4, <1>5, <1>6, <1>7, <1>8, <1>9, <1>10 DEF WebhooksNext, Serve

\* The unique constraint on the event id keeps all but one out, and an event
\* once stored stays.
LEMMA KnownStep ==
  ASSUME WebhooksAssumption, WebhooksTypeOK, Known, [WebhooksNext]_webhookVars
  PROVE  Known'
<1>. USE DEF WebhooksTypeOK, Known, Jobs
<1>1. CASE UNCHANGED <<pc, job, stored>>
  BY <1>1
<1>2. ASSUME NEW w \in Servers, NEW e \in Events, Receive(w, e) PROVE Known'
  BY <1>2 DEF Receive, inboxVars
<1>3. ASSUME NEW w \in Servers, Look(w) PROVE Known'
  BY <1>3 DEF Look, inboxVars
<1>4. ASSUME NEW w \in Servers, Insert(w) PROVE Known'
  BY <1>4 DEF Insert, inboxVars
<1>5. ASSUME NEW w \in Servers, Commit(w) PROVE Known'
  <2>1. job[w].event \in Events /\ job[w].payload # None
    BY <1>5 DEF Commit, WebhooksAssumption
  <2>2. ASSUME NEW v \in Servers, pc'[v] = "inserted" PROVE stored'[job[v].event] = None
    BY <1>5, <2>1, <2>2 DEF Commit
  <2>3. ASSUME NEW v \in Servers, pc'[v] = "done" PROVE stored'[job[v].event] # None
    BY <1>5, <2>1, <2>3 DEF Commit
  <2>. QED
    BY <1>5, <2>2, <2>3 DEF Commit
<1>6. ASSUME NEW w \in Servers, Answer(w) \/ Break(w) PROVE Known'
  BY <1>6 DEF Answer, Break, Leave
<1>. QED
  BY <1>1, <1>2, <1>3, <1>4, <1>5, <1>6
  DEF WebhooksNext, Serve, webhookVars, inboxVars, Prepare, Delete, Charge, Report, Age

\* settle runs only in the transaction that stores the event.
LEMMA UnsettledStep ==
  ASSUME WebhooksAssumption, WebhooksTypeOK, Unsettled, [WebhooksNext]_webhookVars
  PROVE  Unsettled'
<1>1. CASE UNCHANGED <<stored, settled>>
  BY <1>1 DEF Unsettled
<1>2. ASSUME NEW w \in Servers, Commit(w) PROVE Unsettled'
  BY <1>2 DEF Commit, Unsettled, WebhooksTypeOK, Jobs, WebhooksAssumption
<1>. QED
  BY <1>1, <1>2
  DEF WebhooksNext, Serve, webhookVars, inboxVars, Prepare, Delete, Charge, Report, Age,
      Receive, Look, Insert, Answer, Break, Leave

\* The steps above, together.
LEMMA WebhooksStep ==
  ASSUME WebhooksAssumption, WebhooksInv, [WebhooksNext]_webhookVars
  PROVE  WebhooksInv'
BY WebhooksTypeStep, KnownStep, UnsettledStep DEF WebhooksInv

\* Nothing is sent at first.
LEMMA WebhooksInitHolds ==
  ASSUME WebhooksAssumption
  PROVE  WebhooksInit => WebhooksInv
BY DEF WebhooksAssumption, WebhooksInit, WebhooksInv, WebhooksTypeOK, Reported, Known,
       Unsettled

-----------------------------------------------------------------------------
\* The commit is the step in which an event is taken.
LEMMA CommitTakes ==
  ASSUME WebhooksAssumption, WebhooksInv, NEW w \in Servers, Commit(w)
  PROVE  Abstract!Take(job[w].event, job[w].payload)
<1>. DEFINE e == job[w].event
            p == job[w].payload
<1>1. job[w] \in Jobs /\ e \in Events /\ p \in About
  BY DEF Commit, WebhooksInv, WebhooksTypeOK, Reported, Jobs
<1>2. stored[e] = None /\ settled[e] = 0
  BY <1>1 DEF Commit, WebhooksInv, Known, Unsettled
<1>3. p \in known <=> p \notin Foreign \cup gone
  BY <1>1 DEF About, WebhooksInv, WebhooksTypeOK
<1>4. (IF p \in known THEN settled[e] + 1 ELSE settled[e])
        = (IF p \in Foreign \cup gone THEN 0 ELSE 1)
  BY <1>2, <1>3
<1>5. settled' = [settled EXCEPT ![e] = IF p \in Foreign \cup gone THEN 0 ELSE 1]
  BY <1>4 DEF Commit
<1>. QED
  BY <1>2, <1>5 DEF Commit, providerVars, Abstract!Take

\* Processes that race for an event, die and are asked again implement an inbox
\* that takes each event in one step, with its settlement, and acknowledges
\* what it has taken.
THEOREM WebhooksImplementInbox ==
  ASSUME WebhooksAssumption
  PROVE  WebhooksSpec => InboxKept
<1>1. WebhooksInit => Abstract!InboxInit
  BY DEF WebhooksInit, Abstract!InboxInit
<1>2. WebhooksInv /\ [WebhooksNext]_webhookVars => [Abstract!InboxNext]_Abstract!inboxVars
  <2>. SUFFICES ASSUME WebhooksInv, [WebhooksNext]_webhookVars
                PROVE  [Abstract!InboxNext]_Abstract!inboxVars
    OBVIOUS
  <2>1. ASSUME NEW w \in Servers, Commit(w) PROVE Abstract!InboxNext
    <3>1. job[w].event \in Events /\ job[w].payload \in Payloads
      BY <2>1 DEF Commit, WebhooksInv, WebhooksTypeOK, Jobs
    <3>. QED
      BY <2>1, <3>1, CommitTakes DEF Abstract!InboxNext
  <2>2. ASSUME NEW w \in Servers, Answer(w) PROVE Abstract!InboxNext
    <3>1. job[w].event \in Events /\ stored[job[w].event] # None
      BY <2>2 DEF Answer, WebhooksInv, WebhooksTypeOK, Known, Jobs
    <3>2. Abstract!Acknowledge(job[w].event)
      BY <2>2, <3>1 DEF Answer, Leave, providerVars, Abstract!Acknowledge
    <3>. QED
      BY <3>1, <3>2 DEF Abstract!InboxNext
  <2>3. ASSUME NEW p \in Payloads, Delete(p) PROVE Abstract!InboxNext
    <3>1. Abstract!Delete(p)
      BY <2>3 DEF Delete, inboxVars, WebhooksInv, WebhooksTypeOK, Abstract!Delete
    <3>. QED
      BY <3>1 DEF Abstract!InboxNext
  <2>4. CASE UNCHANGED <<stored, settled, acked, gone>>
    BY <2>4 DEF Abstract!inboxVars
  <2>. QED
    BY <2>1, <2>2, <2>3, <2>4
    DEF WebhooksNext, Serve, webhookVars, providerVars, inboxVars, Prepare, Charge, Report,
        Age, Receive, Look, Insert, Break, Leave
<1>. QED
  BY <1>1, <1>2, WebhooksInitHolds, WebhooksStep, PTL DEF WebhooksSpec, InboxKept, Abstract!InboxSpec

-----------------------------------------------------------------------------
(* Both, as the run checks them *)

\* No item is handled twice from two lists, and no process reaches a state that
\* the code does not know, whatever is repeated.
THEOREM RepeatsSafeHolds ==
  ASSUME BatchesAssumption, WebhooksAssumption
  PROVE  RepeatsSpec => []RepeatsSafe
<1>. DEFINE Both == BatchesInv /\ WebhooksInv
<1>1. RepeatsInit => Both
  BY BatchesInitHolds, WebhooksInitHolds DEF RepeatsInit
<1>2. Both /\ [RepeatsNext]_<<part, batchVars, webhookVars>> => Both'
  BY BatchesStep, WebhooksStep DEF RepeatsNext
<1>3. Both => RepeatsSafe
  BY DEF RepeatsSafe, BatchesInv, BatchesTypeOK, Owing, HandledOncePerDue, WebhooksInv
<1>. QED
  BY <1>1, <1>2, <1>3, PTL DEF RepeatsSpec

=============================================================================
