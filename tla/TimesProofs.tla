------------------------------ MODULE TimesProofs ------------------------------
(***************************************************************************)
(* Proofs about Clocks and Throttle: any number of hosts and of requests,  *)
(* any skew, budget and duration, and runs of any length.                  *)
(***************************************************************************)
EXTENDS Throttle, Clocks, FiniteSetTheorems, SequenceTheorems, TLAPS

-----------------------------------------------------------------------------
(* Clocks *)

\* A stamp is as wrong as the clock that made it; stamped steps take time.
Stamped ==
  /\ issuedAt - reissued \in -Skew..Skew
  /\ \A a \in 1..tries : madeAt[a] < now /\ stampedAt[a] - madeAt[a] \in -Skew..Skew

\* One attempt is under way, or has succeeded.
Single ==
  \A a, b \in Tries : {attempt[a], attempt[b]} \subseteq {"pending", "success"} => a = b

\* What has failed while the invoice is issued was made before.
FailedBefore ==
  invoice = "issued" => \A a \in Tries : attempt[a] = "failed" => madeAt[a] < reissued

ClocksInv == ClocksTypeOK /\ Stamped /\ Single /\ FailedBefore

LEMMA ClocksInitHolds ==
  ASSUME ClocksAssumption, ClocksInit
  PROVE  ClocksInv
<1>1. PICK h \in Hosts : issuedAt = offset[h]
  BY DEF ClocksInit
<1>2. offset[h] \in -Skew..Skew /\ Skew \in Nat /\ MaxNow \in Nat /\ MaxTries \in Nat
  BY DEF ClocksInit, ClocksAssumption
<1>3. issuedAt \in Stamps /\ 0 \in Stamps /\ issuedAt - 0 \in -Skew..Skew
  BY <1>1, <1>2 DEF Stamps
<1>. QED
  BY <1>2, <1>3 DEF ClocksInit, ClocksInv, ClocksTypeOK, Stamped, Single, FailedBefore, Tries

\* A new attempt is stamped by the host that makes it, and is alone.
LEMMA PrepareStep ==
  ASSUME ClocksAssumption, ClocksInv, NEW h \in Hosts, Prepare(h)
  PROVE  ClocksInv'
<1>. USE DEF ClocksInv
<1>1. Skew \in Nat /\ MaxNow \in Nat /\ MaxTries \in Nat /\ now \in Nat /\ now < MaxNow
      /\ now' = now + 1 /\ tries' = tries + 1 /\ tries \in Nat /\ tries < MaxTries
  BY DEF Prepare, ClocksAssumption, ClocksTypeOK
<1>. DEFINE n == tries + 1
<1>2. /\ attempt' = [attempt EXCEPT ![n] = "pending"]
      /\ stampedAt' = [stampedAt EXCEPT ![n] = now + offset[h]]
      /\ madeAt' = [madeAt EXCEPT ![n] = now]
      /\ UNCHANGED <<offset, invoice, issuedAt, reissued>>
      /\ invoice \in {"issued", "failed", "overdue"}
  BY <1>1 DEF Prepare
<1>3. n \in Tries /\ offset[h] \in -Skew..Skew /\ now + offset[h] \in Stamps
      /\ (now + offset[h]) - now \in -Skew..Skew
  BY <1>1 DEF Tries, Stamps, ClocksTypeOK
<1>4. \A a \in Tries : attempt[a] \notin {"pending", "success"}
  BY DEF Prepare, MayTry, Having
<1>5. ClocksTypeOK'
  <2>1. \A a \in Tries : attempt'[a] = "none" <=> a > tries'
    BY <1>1, <1>2, <1>3 DEF ClocksTypeOK, Tries
  <2>2. invoice' = "paid" <=> \E a \in Tries : attempt'[a] = "success"
    BY <1>2, <1>3, <1>4 DEF ClocksTypeOK
  <2>3. madeAt' \in [Tries -> 0..now'] /\ reissued' \in 0..now'
    BY <1>1, <1>2, <1>3 DEF ClocksTypeOK
  <2>. QED
    BY <1>1, <1>2, <1>3, <2>1, <2>2, <2>3 DEF ClocksTypeOK
<1>6. Stamped'
  <2>1. ASSUME NEW a \in 1..tries'
        PROVE  madeAt'[a] < now' /\ stampedAt'[a] - madeAt'[a] \in -Skew..Skew
    <3>1. CASE a = n
      BY <1>1, <1>2, <1>3, <3>1 DEF ClocksTypeOK
    <3>2. CASE a # n
      <4>1. a \in 1..tries /\ a \in Tries
        BY <1>1, <2>1, <3>2 DEF Tries
      <4>2. madeAt[a] \in 0..now
        BY <4>1 DEF ClocksTypeOK
      <4>. QED
        BY <1>1, <1>2, <3>2, <4>1, <4>2 DEF Stamped, ClocksTypeOK
    <3>. QED
      BY <3>1, <3>2
  <2>. QED
    BY <1>2, <2>1 DEF Stamped
<1>7. Single'
  BY <1>2, <1>4 DEF Single, ClocksTypeOK
<1>8. FailedBefore'
  BY <1>2, <1>3 DEF FailedBefore, ClocksTypeOK
<1>. QED
  BY <1>5, <1>6, <1>7, <1>8

\* The one attempt under way succeeds or fails; no other has succeeded.
LEMMA SettleStep ==
  ASSUME ClocksAssumption, ClocksInv, NEW a \in Tries, Settle(a)
  PROVE  ClocksInv'
<1>. USE DEF ClocksInv
<1>1. /\ attempt[a] = "pending"
      /\ UNCHANGED <<now, offset, issuedAt, tries, stampedAt, madeAt, reissued>>
  BY DEF Settle
<1>2. \A b \in Tries : attempt[b] # "success"
  BY <1>1 DEF Single
<1>3. invoice # "paid"
  BY <1>2 DEF ClocksTypeOK
<1>4. CASE attempt' = [attempt EXCEPT ![a] = "success"] /\ invoice' = "paid"
  <2>1. ClocksTypeOK'
    BY <1>1, <1>4 DEF ClocksTypeOK
  <2>2. Stamped' /\ Single' /\ FailedBefore'
    BY <1>1, <1>4 DEF ClocksTypeOK, Stamped, Single, FailedBefore
  <2>. QED
    BY <2>1, <2>2
<1>5. CASE /\ attempt' = [attempt EXCEPT ![a] = "failed"]
           /\ invoice' = IF invoice = "issued" THEN "failed" ELSE invoice
  <2>1. ClocksTypeOK'
    BY <1>1, <1>2, <1>3, <1>5 DEF ClocksTypeOK
  <2>2. Stamped' /\ Single' /\ FailedBefore'
    BY <1>1, <1>5 DEF ClocksTypeOK, Stamped, Single, FailedBefore
  <2>. QED
    BY <2>1, <2>2
<1>. QED
  BY <1>4, <1>5 DEF Settle

\* A reissue comes after all attempts so far.
LEMMA ReissueStep ==
  ASSUME ClocksAssumption, ClocksInv, NEW h \in Hosts, Reissue(h)
  PROVE  ClocksInv'
<1>. USE DEF ClocksInv
<1>1. Skew \in Nat /\ MaxNow \in Nat /\ now \in Nat /\ now < MaxNow /\ now' = now + 1
  BY DEF Reissue, ClocksAssumption, ClocksTypeOK
<1>2. /\ reissued' = now /\ issuedAt' = now + offset[h]
      /\ invoice = "failed" /\ invoice' = "issued"
      /\ UNCHANGED <<offset, tries, attempt, stampedAt, madeAt>>
  BY DEF Reissue, attemptVars
<1>3. offset[h] \in -Skew..Skew /\ now + offset[h] \in Stamps
      /\ (now + offset[h]) - now \in -Skew..Skew
  BY <1>1 DEF Stamps, ClocksTypeOK
<1>4. \A a \in 1..tries : a \in Tries /\ madeAt[a] \in 0..now
  <2>1. tries \in 0..MaxTries /\ MaxTries \in Nat /\ madeAt \in [Tries -> 0..now]
    BY DEF ClocksTypeOK, ClocksAssumption
  <2>. QED
    BY <2>1 DEF Tries
<1>5. ClocksTypeOK'
  <2>1. madeAt' \in [Tries -> 0..now'] /\ reissued' \in 0..now' /\ now' \in 0..MaxNow
    BY <1>1, <1>2 DEF ClocksTypeOK
  <2>. QED
    BY <1>2, <1>3, <2>1 DEF ClocksTypeOK
<1>6. Stamped'
  BY <1>1, <1>2, <1>3, <1>4 DEF Stamped
<1>7. Single'
  BY <1>2 DEF Single
<1>8. FailedBefore'
  <2>1. \A a \in Tries : attempt[a] = "failed" => a \in 1..tries
    BY DEF ClocksTypeOK, Tries, ClocksAssumption
  <2>. QED
    BY <1>2, <2>1 DEF FailedBefore, Stamped
<1>. QED
  BY <1>5, <1>6, <1>7, <1>8

\* The inductive invariant of the clocks.
THEOREM ClocksInvariant ==
  ASSUME ClocksAssumption
  PROVE  ClocksSpec => []ClocksInv
<1>1. ClocksInit => ClocksInv
  BY ClocksInitHolds
<1>2. ClocksInv /\ [ClocksNext]_clocksVars => ClocksInv'
  <2>. SUFFICES ASSUME ClocksInv, [ClocksNext]_clocksVars PROVE ClocksInv'
    OBVIOUS
  <2>1. CASE Tick
    <3>1. now \in Nat /\ now < MaxNow /\ now' = now + 1 /\ MaxNow \in Nat
          /\ offset' \in [Hosts -> -Skew..Skew]
          /\ UNCHANGED <<invoice, issuedAt, tries, attempt, stampedAt, madeAt, reissued>>
      BY <2>1 DEF Tick, attemptVars, ClocksInv, ClocksTypeOK, ClocksAssumption
    <3>2. madeAt' \in [Tries -> 0..now'] /\ reissued' \in 0..now' /\ now' \in 0..MaxNow
      BY <3>1 DEF ClocksInv, ClocksTypeOK
    <3>3. ClocksTypeOK'
      BY <3>1, <3>2 DEF ClocksInv, ClocksTypeOK
    <3>4. \A a \in 1..tries : madeAt[a] \in Nat
      BY DEF Tries, ClocksInv, ClocksTypeOK, ClocksAssumption
    <3>. QED
      BY <3>1, <3>3, <3>4 DEF ClocksInv, Stamped, Single, FailedBefore
  <2>2. CASE GiveUp
    BY <2>2 DEF GiveUp, attemptVars, ClocksInv, ClocksTypeOK, Stamped, Single, FailedBefore
  <2>3. ASSUME NEW h \in Hosts, Prepare(h) PROVE ClocksInv'
    BY <2>3, PrepareStep
  <2>4. ASSUME NEW h \in Hosts, Reissue(h) PROVE ClocksInv'
    BY <2>4, ReissueStep
  <2>5. ASSUME NEW a \in Tries, Settle(a) PROVE ClocksInv'
    BY <2>5, SettleStep
  <2>6. CASE UNCHANGED clocksVars
    BY <2>6 DEF clocksVars, attemptVars, ClocksInv, ClocksTypeOK, Stamped, Single, FailedBefore
  <2>. QED
    BY <2>1, <2>2, <2>3, <2>4, <2>5, <2>6 DEF ClocksNext
<1>. QED
  BY <1>1, <1>2, PTL DEF ClocksSpec

\* However wrong the clocks are, one attempt is under way at a time, and the charge
\* of a reissued invoice is lost only by clocks that differ more than it was late.
THEOREM ClocksSafeHolds ==
  ASSUME ClocksAssumption
  PROVE  ClocksSpec => []ClocksSafe
<1>1. ASSUME ClocksInv PROVE OneUnderWay
  <2>. DEFINE S == Having("pending") \cup Having("success")
  <2>1. \A a, b \in S : a = b
    BY <1>1 DEF ClocksInv, Single, Having
  <2>2. CASE S = {}
    BY <2>2, FS_EmptySet DEF OneUnderWay
  <2>3. CASE S # {}
    <3>1. PICK a : S = {a}
      BY <2>1, <2>3
    <3>2. Cardinality(S) = 1
      BY <3>1, FS_Singleton
    <3>. QED
      BY <3>2 DEF OneUnderWay
  <2>. QED
    BY <2>2, <2>3
<1>2. ASSUME ClocksInv, Stranded
      PROVE  \E a \in ThisIssue : reissued - madeAt[a] \in 1 .. 2 * Skew
  <2>1. PICK a \in 1..tries : stampedAt[a] >= issuedAt
    BY <1>2 DEF Stranded, ThisIssue
  <2>2. a \in ThisIssue /\ a \in Tries
    BY <1>2, <2>1 DEF ThisIssue, Tries, ClocksInv, ClocksTypeOK, ClocksAssumption
  <2>3. attempt[a] = "failed"
    <3>1. attempt[a] # "none" /\ attempt[a] # "success"
      BY <1>2, <2>1, <2>2 DEF ClocksInv, ClocksTypeOK, Stranded
    <3>2. attempt[a] # "pending"
      BY <1>2, <2>2 DEF Stranded, Having
    <3>. QED
      BY <1>2, <2>2, <3>1, <3>2 DEF ClocksInv, ClocksTypeOK
  <2>4. madeAt[a] < reissued
    BY <1>2, <2>2, <2>3 DEF ClocksInv, FailedBefore, Stranded
  <2>5. /\ stampedAt[a] \in Int /\ madeAt[a] \in Int /\ issuedAt \in Int /\ reissued \in Int
        /\ Skew \in Nat
    BY <1>2, <2>2 DEF ClocksInv, ClocksTypeOK, Stamps, ClocksAssumption
  <2>6. stampedAt[a] - madeAt[a] <= Skew /\ issuedAt - reissued >= -Skew
    BY <1>2, <2>1, <2>5 DEF ClocksInv, Stamped
  <2>. QED
    BY <2>1, <2>2, <2>4, <2>5, <2>6
<1>3. ClocksInv => ClocksSafe
  BY <1>1, <1>2 DEF ClocksInv, ClocksSafe, StrandedOnlyBySkew
<1>. QED
  BY <1>3, ClocksInvariant, PTL

-----------------------------------------------------------------------------
(* Throttle *)

\* What a list of bucket b, cached or read at time m, holds: requests that were let
\* through, each once, the newest first.
InOrder(list, b, m) ==
  /\ list \in Seq(Calls)
  /\ \A i \in 1..Len(list) :
       Bucket(list[i]) = b /\ phase[list[i]] \in {"admitted", "open"} /\ stamp[list[i]] <= m
  /\ \A i, j \in 1..Len(list) :
       i < j => list[i] # list[j] /\ stamp[list[j]] <= stamp[list[i]]

Cached == \A b \in Buckets : InOrder(history[b], b, time)

Copied == \A r \in Calls : phase[r] = "read" => InOrder(copy[r], Bucket(r), stamp[r])

NoneFromTheFuture == \A r \in Calls : stamp[r] <= time

\* A list that nobody wrote over lacks only what is too old for its newest entry.
Complete ==
  \A b \in Buckets \ torn : \A q \in Calls :
    Bucket(q) = b /\ phase[q] = "admitted" =>
      \/ \E i \in 1..Len(history[b]) : history[b][i] = q
      \/ history[b] # <<>> /\ stamp[q] <= stamp[history[b][1]] - Duration

\* BudgetKept, of all buckets and of any Duration
Window(b, t) ==
  {q \in Calls : phase[q] = "admitted" /\ Bucket(q) = b /\ stamp[q] \in t .. (t + Duration - 1)}

WindowsKept == \A b \in Buckets \ torn : \A t \in Nat : Cardinality(Window(b, t)) <= Budget

ThrottleInv ==
  /\ ThrottleTypeOK /\ NoneFromTheFuture /\ Cached /\ Copied
  /\ Complete /\ WindowsKept /\ RefusalIsEarned

\* An initial part of 1..m is as long as it has elements.
LEMMA InitialPart ==
  ASSUME NEW m \in Nat, NEW F \in SUBSET (1..m), \A i \in F : 1..i \subseteq F
  PROVE  Cardinality(F) \in 0..m /\ F = 1..Cardinality(F)
<1>. DEFINE k == Cardinality(F)
<1>1. IsFiniteSet(1..m) /\ Cardinality(1..m) = m
  BY FS_Interval
<1>2. IsFiniteSet(F) /\ k <= m
  <2>1. F \subseteq 1..m
    OBVIOUS
  <2>2. IsFiniteSet(F) /\ Cardinality(F) <= Cardinality(1..m)
    BY <1>1, <2>1, FS_Subset, Zenon
  <2>. QED
    BY <1>1, <2>2
<1>3. k \in Nat
  BY <1>2, FS_CardinalityType
<1>. HIDE DEF k
<1>4. ASSUME NEW i \in F PROVE i <= k
  <2>1. i \in Nat /\ IsFiniteSet(1..i) /\ Cardinality(1..i) = i
    BY FS_Interval
  <2>2. Cardinality(1..i) <= Cardinality(F)
    BY <1>2, FS_Subset
  <2>. QED
    BY <2>1, <2>2 DEF k
<1>5. F \subseteq 1..k
  BY <1>3, <1>4
<1>6. IsFiniteSet(1..k) /\ Cardinality(1..k) = k
  BY <1>3, FS_Interval
<1>7. F = 1..k
  BY <1>5, <1>6, FS_Subset DEF k
<1>. QED
  BY <1>2, <1>3, <1>7 DEF k

\* Each entry of a list counts once.
LEMMA EntriesCount ==
  ASSUME NEW list \in Seq(Calls),
         \A i, j \in 1..Len(list) : i < j => list[i] # list[j]
  PROVE  /\ IsFiniteSet({list[i] : i \in 1..Len(list)})
         /\ Cardinality({list[i] : i \in 1..Len(list)}) = Len(list)
<1>. DEFINE n == Len(list)
            S == {list[i] : i \in 1..n}
            f == [i \in 1..n |-> list[i]]
<1>1. n \in Nat /\ IsFiniteSet(1..n) /\ Cardinality(1..n) = n
  <2>1. n \in Nat
    BY LenProperties
  <2>. HIDE DEF n
  <2>2. IsFiniteSet(1..n) /\ Cardinality(1..n) = n
    BY <2>1, FS_Interval
  <2>. QED
    BY <2>1, <2>2
<1>2. f \in Bijection(1..n, S)
  <2>1. f \in [1..n -> S] /\ \A x \in S : \E i \in 1..n : f[i] = x
    OBVIOUS
  <2>2. \A i, j \in 1..n : f[i] = f[j] => i = j
    BY <1>1
  <2>. HIDE DEF f, S, n
  <2>3. f \in Injection(1..n, S)
    BY <2>1, <2>2 DEF Injection, IsInjective
  <2>4. f \in Surjection(1..n, S)
    BY <2>1 DEF Surjection
  <2>. QED
    BY <2>3, <2>4 DEF Bijection
<1>3. ExistsBijection(1..n, S)
  BY <1>2 DEF ExistsBijection
<1>. QED
  BY <1>1, <1>3, FS_Bijection

\* What is left of the list that r read: its entries younger than Duration.
LEMMA RecentIs ==
  ASSUME ThrottleAssumption, ThrottleTypeOK, NEW r \in Calls, NEW b, NEW m,
         InOrder(copy[r], b, m)
  PROVE  /\ Recent(r) \in Seq(Calls) /\ Len(Recent(r)) <= Len(copy[r])
         /\ \A i \in 1..Len(Recent(r)) : Recent(r)[i] = copy[r][i]
         /\ \A i \in 1..Len(copy[r]) :
              i <= Len(Recent(r)) <=> stamp[copy[r][i]] > stamp[r] - Duration
<1>. DEFINE list == copy[r]
            F == {i \in DOMAIN list : stamp[list[i]] > stamp[r] - Duration}
            n == CHOOSE n \in F \cup {0} : \A i \in F : i <= n
<1>1. list \in Seq(Calls) /\ Len(list) \in Nat /\ DOMAIN list = 1..Len(list)
  BY LenProperties DEF InOrder
<1>2. /\ stamp \in [Calls -> Int] /\ stamp[r] \in Int /\ Duration \in Int
      /\ \A i \in 1..Len(list) : list[i] \in Calls /\ stamp[list[i]] \in Int
  BY <1>1, ElementOfSeq DEF ThrottleTypeOK, ThrottleAssumption
<1>3. F \in SUBSET (1..Len(list))
  BY <1>1
<1>4. ASSUME NEW i \in F, NEW j \in 1..i PROVE j \in F
  <2>1. i \in 1..Len(list) /\ j \in 1..Len(list) /\ (j < i \/ j = i)
    BY <1>1, <1>3
  <2>2. stamp[list[i]] <= stamp[list[j]]
    BY <1>2, <2>1 DEF InOrder
  <2>. QED
    BY <1>1, <1>2, <2>1, <2>2
<1>5. Cardinality(F) \in 0..Len(list) /\ F = 1..Cardinality(F)
  <2>1. \A i \in F : 1..i \subseteq F
    <3>. HIDE DEF F
    <3>. QED
      BY <1>4
  <2>2. Len(list) \in Nat
    BY <1>1
  <2>. HIDE DEF F, list
  <2>. QED
    BY <1>3, <2>1, <2>2, InitialPart
<1>6. n \in 0..Len(list) /\ F = 1..n
  <2>. DEFINE k == Cardinality(F)
  <2>1. k \in F \cup {0} /\ \A i \in F : i <= k
    <3>1. k \in Nat /\ F = 1..k
      BY <1>1, <1>5
    <3>. HIDE DEF F, k
    <3>. QED
      BY <3>1
  <2>2. n \in F \cup {0} /\ \A i \in F : i <= n
    <3>. HIDE DEF F, k
    <3>. QED
      BY <2>1
  <2>. HIDE DEF F, n
  <2>3. n = k
    BY <1>1, <1>5, <2>1, <2>2
  <2>. QED
    BY <1>5, <2>3
<1>7. Recent(r) = SubSeq(list, 1, n)
  BY DEF Recent
<1>. HIDE DEF n
<1>8. /\ SubSeq(list, 1, n) \in Seq(Calls) /\ Len(SubSeq(list, 1, n)) = n
      /\ \A i \in 1..n : SubSeq(list, 1, n)[i] = list[i]
  <2>1. n \in Int /\ 1 \in Int /\ (\A i \in 1..n : list[i] \in Calls) /\ n \in Nat /\ n <= Len(list)
    BY <1>1, <1>2, <1>6
  <2>2. /\ SubSeq(list, 1, n) \in Seq(Calls)
        /\ Len(SubSeq(list, 1, n)) = IF 1 <= n THEN n - 1 + 1 ELSE 0
        /\ \A i \in 1 .. n - 1 + 1 : SubSeq(list, 1, n)[i] = list[1 + i - 1]
    <3>. HIDE DEF list
    <3>. QED
      BY <2>1, SubSeqProperties
  <2>. QED
    BY <2>1, <2>2
<1>9. \A i \in 1..Len(list) : i <= n <=> stamp[list[i]] > stamp[r] - Duration
  BY <1>1, <1>6
<1>. QED
  BY <1>6, <1>7, <1>8, <1>9

\* The list that r writes: itself in front of what is left of what it read.
LEMMA StoredList ==
  ASSUME ThrottleAssumption, ThrottleTypeOK, Copied, NEW r \in Calls,
         phase[r] = "read", ~OverBudget(r), Store(r)
  PROVE  \E n \in 0..Len(copy[r]) :
           /\ n < Budget
           /\ history' \in [Buckets -> Seq(Calls)]
           /\ \A c \in Buckets \ {Bucket(r)} : history'[c] = history[c]
           /\ Len(history'[Bucket(r)]) = n + 1
           /\ history'[Bucket(r)][1] = r
           /\ \A i \in 1..n : history'[Bucket(r)][i + 1] = copy[r][i]
           /\ \A i \in 1..Len(copy[r]) : i <= n <=> stamp[copy[r][i]] > stamp[r] - Duration
<1>. DEFINE b == Bucket(r)
            n == Len(Recent(r))
            new == <<r>> \o Recent(r)
<1>1. /\ Recent(r) \in Seq(Calls) /\ n <= Len(copy[r])
      /\ \A i \in 1..n : Recent(r)[i] = copy[r][i]
      /\ \A i \in 1..Len(copy[r]) : i <= n <=> stamp[copy[r][i]] > stamp[r] - Duration
  BY RecentIs DEF Copied
<1>2. n \in Nat /\ Len(copy[r]) \in Nat /\ n < Budget /\ Budget \in Nat
  BY <1>1, LenProperties DEF ThrottleTypeOK, OverBudget, ThrottleAssumption
<1>3. <<r>> \in Seq(Calls) /\ Len(<<r>>) = 1 /\ <<r>>[1] = r
  OBVIOUS
<1>4. /\ new \in Seq(Calls) /\ Len(new) = 1 + n
      /\ \A i \in 1 .. 1 + n : new[i] = IF i <= 1 THEN <<r>>[i] ELSE Recent(r)[i - 1]
  BY <1>1, <1>3, ConcatProperties
<1>5. b \in Buckets /\ history' = [history EXCEPT ![b] = new]
  BY DEF Buckets, Store
<1>. HIDE DEF n, new, b
<1>6. new[1] = r /\ \A i \in 1..n : new[i + 1] = copy[r][i]
  BY <1>1, <1>2, <1>3, <1>4
<1>7. /\ history' \in [Buckets -> Seq(Calls)] /\ history'[b] = new
      /\ \A c \in Buckets \ {b} : history'[c] = history[c]
  BY <1>4, <1>5 DEF ThrottleTypeOK
<1>. QED
  BY <1>1, <1>2, <1>4, <1>6, <1>7 DEF b

\* What no step undoes: a request that was let through was, and stays stamped.
LEMMA ThrottleStepKeeps ==
  ASSUME ThrottleAssumption, ThrottleTypeOK, [ThrottleNext]_throttleVars
  PROVE  /\ time \in Nat /\ time' \in Nat /\ time <= time' /\ torn \subseteq torn'
         /\ \A q \in Calls : phase[q] \in {"admitted", "open"} => phase'[q] = phase[q]
         /\ \A q \in Calls : phase[q] # "new" => stamp'[q] = stamp[q]
         /\ \A q \in Calls : stamp'[q] \in {stamp[q], time}
         /\ \A q \in Calls : phase[q] = "new" => phase'[q] \in {"new", "read", "open"}
<1>. USE DEF ThrottleTypeOK, ThrottleAssumption
<1>1. CASE Second
  BY <1>1 DEF Second
<1>2. ASSUME NEW r \in Calls, ReadList(r) \/ Refuse(r) \/ Admit(r) \/ FailOpen(r)
      PROVE  /\ time' = time /\ torn \subseteq torn'
             /\ \A q \in Calls : phase[q] \in {"admitted", "open"} => phase'[q] = phase[q]
             /\ \A q \in Calls : phase[q] # "new" => stamp'[q] = stamp[q]
             /\ \A q \in Calls : stamp'[q] \in {stamp[q], time}
             /\ \A q \in Calls : phase[q] = "new" => phase'[q] \in {"new", "read", "open"}
  <2>1. CASE ReadList(r)
    BY <2>1 DEF ReadList
  <2>2. CASE Refuse(r)
    BY <2>2 DEF Refuse
  <2>3. CASE Admit(r)
    BY <2>3 DEF Admit, Store
  <2>4. CASE FailOpen(r)
    BY <2>4 DEF FailOpen, Store
  <2>. QED
    BY <1>2, <2>1, <2>2, <2>3, <2>4
<1>3. CASE UNCHANGED throttleVars
  BY <1>3 DEF throttleVars
<1>. QED
  BY <1>1, <1>2, <1>3 DEF ThrottleNext

\* Requests are admitted by Admit.
LEMMA AdmittedByAdmit ==
  ASSUME ThrottleTypeOK, [ThrottleNext]_throttleVars
  PROVE  \A q \in Calls : phase'[q] = "admitted" => phase[q] = "admitted" \/ Admit(q)
<1>. USE DEF ThrottleTypeOK
<1>1. ASSUME NEW r \in Calls, ReadList(r) \/ Refuse(r) \/ FailOpen(r)
      PROVE  \A q \in Calls : phase'[q] = "admitted" => phase[q] = "admitted"
  BY <1>1 DEF ReadList, Refuse, FailOpen
<1>2. ASSUME NEW r \in Calls, Admit(r)
      PROVE  \A q \in Calls \ {r} : phase'[q] = phase[q]
  BY <1>2 DEF Admit
<1>3. CASE Second \/ UNCHANGED throttleVars
  BY <1>3 DEF Second, throttleVars
<1>. QED
  BY <1>1, <1>2, <1>3 DEF ThrottleNext

\* So a list stays in order...
LEMMA ListKeeps ==
  ASSUME ThrottleAssumption, ThrottleTypeOK, [ThrottleNext]_throttleVars,
         NEW CONSTANT list, NEW CONSTANT b, NEW CONSTANT m \in Nat, NEW CONSTANT n \in Nat,
         m <= n, InOrder(list, b, m)
  PROVE  InOrder(list, b, n)'
<1>1. ASSUME NEW i \in 1..Len(list)
      PROVE  /\ list[i] \in Calls /\ phase'[list[i]] = phase[list[i]]
             /\ stamp'[list[i]] = stamp[list[i]] /\ stamp[list[i]] \in Nat
  <2>1. list[i] \in Calls /\ phase[list[i]] \in {"admitted", "open"}
    BY ElementOfSeq DEF InOrder
  <2>2. phase'[list[i]] = phase[list[i]] /\ stamp'[list[i]] = stamp[list[i]]
    BY <2>1, ThrottleStepKeeps
  <2>3. stamp[list[i]] \in Nat
    BY <2>1 DEF ThrottleTypeOK, ThrottleAssumption
  <2>. QED
    BY <2>1, <2>2, <2>3
<1>2. ASSUME NEW i \in 1..Len(list)
      PROVE  /\ Bucket(list[i]) = b /\ phase'[list[i]] \in {"admitted", "open"}
             /\ stamp'[list[i]] <= n
  <2>1. /\ Bucket(list[i]) = b /\ phase[list[i]] \in {"admitted", "open"}
        /\ stamp[list[i]] <= m
    BY DEF InOrder
  <2>. QED
    BY <1>1, <2>1
<1>3. ASSUME NEW i \in 1..Len(list), NEW j \in 1..Len(list), i < j
      PROVE  list[i] # list[j] /\ stamp'[list[j]] <= stamp'[list[i]]
  <2>1. list[i] # list[j] /\ stamp[list[j]] <= stamp[list[i]]
    BY <1>3 DEF InOrder
  <2>. QED
    BY <1>1, <2>1
<1>4. list \in Seq(Calls)
  BY DEF InOrder
<1>. QED
  BY <1>2, <1>3, <1>4 DEF InOrder

\* ... and so does the one that r writes, with r in front.
LEMMA StoredInOrder ==
  ASSUME ThrottleAssumption, ThrottleInv, NEW r \in Calls, Admit(r) \/ FailOpen(r),
         phase[r] = "read", ~OverBudget(r), Store(r)
  PROVE  /\ InOrder(history[Bucket(r)], Bucket(r), time)'
         /\ Len(history'[Bucket(r)]) <= Budget
<1>. DEFINE b == Bucket(r)
<1>. USE DEF ThrottleInv
<1>1. PICK new : new = history'[b]
  OBVIOUS
<1>2. PICK list, m, u : list = copy[r] /\ m = stamp[r] /\ u = time
  OBVIOUS
<1>3. PICK n \in 0..Len(list) :
        /\ n < Budget /\ history' \in [Buckets -> Seq(Calls)]
        /\ Len(new) = n + 1 /\ new[1] = r
        /\ \A i \in 1..n : new[i + 1] = list[i]
  BY <1>1, <1>2, StoredList
<1>4. InOrder(list, b, m) /\ list \in Seq(Calls) /\ Len(list) \in Nat
  BY <1>2, LenProperties DEF Copied, InOrder
<1>5. m \in Nat /\ u \in Nat /\ m <= u /\ Budget \in Nat
  BY <1>2 DEF ThrottleTypeOK, NoneFromTheFuture, ThrottleAssumption
<1>6. /\ time' = u /\ stamp'[r] = m /\ phase'[r] \in {"admitted", "open"}
      /\ [ThrottleNext]_throttleVars
  BY <1>2 DEF Admit, FailOpen, ThrottleTypeOK, ThrottleNext
<1>7. InOrder(list, b, m)'
  BY <1>4, <1>5, <1>6, ListKeeps
<1>8. \A i \in 1..n : list[i] # r
  BY <1>3, <1>4 DEF InOrder
<1>9. new \in Seq(Calls)
  BY <1>1, <1>3 DEF Buckets
<1>10. ASSUME NEW i \in 1..n + 1
       PROVE  \/ i = 1 /\ new[i] = r
              \/ i - 1 \in 1..n /\ i - 1 \in 1..Len(list) /\ new[i] = list[i - 1]
  <2>1. CASE i = 1
    BY <1>3, <2>1
  <2>2. CASE i # 1
    <3>1. i - 1 \in 1..n /\ i - 1 \in 1..Len(list) /\ (i - 1) + 1 = i
      BY <1>3, <1>4, <1>10, <2>2
    <3>. QED
      BY <1>3, <3>1
  <2>. QED
    BY <2>1, <2>2
<1>11. \A i \in 1..n + 1 :
         Bucket(new[i]) = b /\ phase'[new[i]] \in {"admitted", "open"} /\ stamp'[new[i]] <= m
  BY <1>5, <1>6, <1>7, <1>10 DEF InOrder
<1>12. ASSUME NEW i \in 1..n + 1, NEW j \in 1..n + 1, i < j
       PROVE  new[i] # new[j] /\ stamp'[new[j]] <= stamp'[new[i]]
  <2>1. j - 1 \in 1..n /\ j - 1 \in 1..Len(list) /\ new[j] = list[j - 1]
    BY <1>10, <1>12
  <2>2. CASE i = 1
    BY <1>3, <1>6, <1>8, <1>11, <2>1, <2>2
  <2>3. CASE i # 1
    <3>1. i - 1 \in 1..n /\ i - 1 \in 1..Len(list) /\ new[i] = list[i - 1] /\ i - 1 < j - 1
      BY <1>10, <1>12, <2>3
    <3>. QED
      BY <1>7, <2>1, <3>1 DEF InOrder
  <2>. QED
    BY <2>2, <2>3
<1>13. \A i \in 1..n + 1 : stamp'[new[i]] <= u
  <2>1. stamp' = stamp /\ \A i \in 1..n + 1 : new[i] \in Calls
    BY <1>3, <1>9, ElementOfSeq DEF Admit, FailOpen
  <2>2. \A q \in Calls : stamp[q] <= time
    BY DEF NoneFromTheFuture
  <2>. QED
    BY <1>2, <2>1, <2>2
<1>14. InOrder(new, b, u)'
  BY <1>3, <1>9, <1>11, <1>12, <1>13 DEF InOrder
<1>. QED
  BY <1>1, <1>3, <1>5, <1>6, <1>14

\* A step writes no list, or a request that read one writes it.
LEMMA WritesOrNot ==
  ASSUME ThrottleTypeOK, [ThrottleNext]_throttleVars
  PROVE  \/ history' = history /\ torn' = torn
         \/ \E r \in Calls : /\ Admit(r) \/ FailOpen(r)
                             /\ phase[r] = "read" /\ ~OverBudget(r) /\ Store(r)
BY DEF ThrottleNext, throttleVars, Second, ReadList, Refuse, Admit, FailOpen

LEMMA CachedStep ==
  ASSUME ThrottleAssumption, ThrottleInv, [ThrottleNext]_throttleVars
  PROVE  Cached' /\ \A b \in Buckets : history'[b] \in Seq(Calls) /\ Len(history'[b]) <= Budget
<1>. USE DEF ThrottleInv
<1>1. /\ ThrottleTypeOK /\ Cached /\ time \in Nat /\ time' \in Nat /\ time <= time'
  BY ThrottleStepKeeps
<1>2. ASSUME NEW b \in Buckets, history'[b] = history[b]
      PROVE  InOrder(history[b], b, time)' /\ Len(history'[b]) <= Budget
  <2>1. PICK list, m, n : list = history[b] /\ m = time /\ n = time'
    OBVIOUS
  <2>2. InOrder(list, b, m)
    BY <2>1 DEF Cached
  <2>3. InOrder(list, b, n)'
    BY <1>1, <2>1, <2>2, ListKeeps
  <2>4. Len(list) <= Budget
    BY <2>1 DEF ThrottleTypeOK
  <2>. QED
    BY <1>2, <2>1, <2>3, <2>4
<1>3. ASSUME NEW b \in Buckets
      PROVE  InOrder(history[b], b, time)' /\ Len(history'[b]) <= Budget
  <2>1. CASE history' = history
    BY <1>2, <2>1
  <2>2. ASSUME NEW r \in Calls, Admit(r) \/ FailOpen(r),
               phase[r] = "read", ~OverBudget(r), Store(r)
        PROVE  InOrder(history[b], b, time)' /\ Len(history'[b]) <= Budget
    <3>1. CASE b = Bucket(r)
      BY <2>2, <3>1, StoredInOrder
    <3>2. CASE b # Bucket(r)
      BY <1>2, <2>2, <3>2 DEF Store, ThrottleTypeOK
    <3>. QED
      BY <3>1, <3>2
  <2>. QED
    BY <2>1, <2>2, WritesOrNot
<1>4. Cached'
  BY <1>3 DEF Cached, Buckets
<1>. QED
  BY <1>3, <1>4 DEF InOrder

LEMMA CopiedStep ==
  ASSUME ThrottleAssumption, ThrottleInv, [ThrottleNext]_throttleVars
  PROVE  Copied'
<1>. USE DEF ThrottleInv
<1>. SUFFICES ASSUME NEW r \in Calls, phase'[r] = "read"
              PROVE  InOrder(copy[r], Bucket(r), stamp[r])'
  BY DEF Copied
<1>1. PICK list, m : list = copy'[r] /\ m = stamp'[r]
  OBVIOUS
<1>2. m \in Nat /\ InOrder(list, Bucket(r), m)
  <2>1. CASE phase[r] = "read"
    <3>1. copy'[r] = copy[r] /\ stamp'[r] = stamp[r]
      BY <2>1 DEF ThrottleNext, throttleVars, Second, ReadList, Refuse, Admit, FailOpen, ThrottleTypeOK
    <3>. QED
      BY <1>1, <2>1, <3>1 DEF Copied, ThrottleTypeOK, ThrottleAssumption
  <2>2. CASE ReadList(r)
    <3>1. copy'[r] = history[Bucket(r)] /\ stamp'[r] = time
      BY <2>2 DEF ReadList, ThrottleTypeOK
    <3>2. Bucket(r) \in Buckets
      BY DEF Buckets
    <3>. QED
      BY <1>1, <3>1, <3>2 DEF Cached, ThrottleTypeOK, ThrottleAssumption
  <2>3. phase[r] = "read" \/ ReadList(r)
    BY DEF ThrottleNext, throttleVars, Second, ReadList, Refuse, Admit, FailOpen, ThrottleTypeOK
  <2>. QED
    BY <2>1, <2>2, <2>3
<1>3. InOrder(list, Bucket(r), m)'
  BY <1>2, ListKeeps
<1>. QED
  BY <1>1, <1>3

LEMMA ThrottleTypeStep ==
  ASSUME ThrottleAssumption, ThrottleInv, [ThrottleNext]_throttleVars
  PROVE  ThrottleTypeOK' /\ NoneFromTheFuture'
<1>. USE DEF ThrottleInv
<1>1. Cached' /\ \A b \in Buckets : history'[b] \in Seq(Calls) /\ Len(history'[b]) <= Budget
  BY CachedStep
<1>2. history' \in [Buckets -> Seq(Calls)]
  <2>1. CASE history' = history
    BY <2>1 DEF ThrottleTypeOK
  <2>2. ASSUME NEW r \in Calls, Store(r), phase[r] = "read", ~OverBudget(r)
        PROVE  history' \in [Buckets -> Seq(Calls)]
    BY <2>2, StoredList
  <2>. QED
    BY <2>1, <2>2, WritesOrNot
<1>3. ASSUME NEW b \in Buckets, NEW i \in DOMAIN history'[b]
      PROVE  phase'[history'[b][i]] \in {"admitted", "open"}
  <2>1. i \in 1..Len(history'[b])
    BY <1>1, LenProperties
  <2>2. InOrder(history[b], b, time)'
    BY <1>1 DEF Cached, Buckets
  <2>. QED
    BY <2>1, <2>2 DEF InOrder
<1>4. /\ time' \in 0..MaxTime
      /\ phase' \in [Calls -> {"new", "read", "admitted", "refused", "open"}]
      /\ stamp' \in [Calls -> 0..MaxTime]
      /\ torn' \subseteq Buckets
  <2>. USE DEF ThrottleTypeOK
  <2>1. CASE Second \/ UNCHANGED throttleVars
    BY <2>1 DEF Second, throttleVars, ThrottleAssumption
  <2>2. ASSUME NEW r \in Calls, ReadList(r)
        PROVE  /\ time' \in 0..MaxTime /\ stamp' \in [Calls -> 0..MaxTime]
               /\ phase' \in [Calls -> {"new", "read", "admitted", "refused", "open"}]
               /\ torn' \subseteq Buckets
    BY <2>2 DEF ReadList
  <2>3. ASSUME NEW r \in Calls, Refuse(r) \/ Admit(r) \/ FailOpen(r)
        PROVE  /\ time' \in 0..MaxTime /\ stamp' \in [Calls -> 0..MaxTime]
               /\ phase' \in [Calls -> {"new", "read", "admitted", "refused", "open"}]
               /\ torn' \subseteq Buckets
    <3>1. Bucket(r) \in Buckets
      BY DEF Buckets
    <3>2. CASE Refuse(r)
      BY <3>2 DEF Refuse
    <3>3. CASE Admit(r)
      BY <3>1, <3>3 DEF Admit, Store
    <3>4. CASE FailOpen(r)
      <4>1. torn' \in {torn, torn \cup {Bucket(r)}}
        BY <3>4 DEF FailOpen, Store
      <4>2. /\ stamp' \in [Calls -> 0..MaxTime] /\ time' = time
            /\ phase' = [phase EXCEPT ![r] = "open"]
        BY <3>4 DEF FailOpen
      <4>. QED
        BY <3>1, <4>1, <4>2
    <3>. QED
      BY <2>3, <3>2, <3>3, <3>4
  <2>. QED
    BY <2>1, <2>2, <2>3 DEF ThrottleNext
<1>5. copy' \in [Calls -> Seq(Calls)]
  <2>1. <<>> \in Seq(Calls)
    OBVIOUS
  <2>2. \A r \in Calls : history[Bucket(r)] \in Seq(Calls)
    BY DEF ThrottleTypeOK, Buckets
  <2>. QED
    BY <2>1, <2>2
    DEF ThrottleTypeOK, ThrottleNext, throttleVars, Second, ReadList, Refuse, Admit, FailOpen
<1>6. ThrottleTypeOK'
  <2>1. /\ time' \in 0..MaxTime /\ history' \in [Buckets -> Seq(Calls)]
        /\ \A b \in Buckets :
             /\ Len(history'[b]) <= Budget
             /\ \A i \in DOMAIN history'[b] : phase'[history'[b][i]] \in {"admitted", "open"}
    BY <1>1, <1>2, <1>3, <1>4
  <2>. QED
    BY <1>4, <1>5, <2>1, Zenon DEF ThrottleTypeOK, Buckets
<1>7. NoneFromTheFuture'
  <2>1. ASSUME NEW r \in Calls PROVE stamp'[r] <= time'
    <3>1. stamp[r] \in Nat /\ stamp[r] <= time
      BY DEF ThrottleTypeOK, ThrottleAssumption, NoneFromTheFuture
    <3>2. stamp'[r] \in {stamp[r], time} /\ time <= time' /\ time \in Nat /\ time' \in Nat
      BY ThrottleStepKeeps
    <3>. QED
      BY <3>1, <3>2
  <2>. QED
    BY <2>1 DEF NoneFromTheFuture
<1>. QED
  BY <1>6, <1>7

\* Who is newly let through is in front of the list, or leaves no trace; its list
\* lacks only what is too old for it, unless it wrote over one that it had not read.
LEMMA CompleteStep ==
  ASSUME ThrottleAssumption, ThrottleInv, [ThrottleNext]_throttleVars
  PROVE  Complete'
<1>. USE DEF ThrottleInv
<1>. SUFFICES ASSUME NEW b \in Buckets \ torn', NEW q \in Calls,
                     Bucket(q) = b, phase'[q] = "admitted"
              PROVE  \/ \E i \in 1..Len(history'[b]) : history'[b][i] = q
                     \/ history'[b] # <<>> /\ stamp'[q] <= stamp'[history'[b][1]] - Duration
  BY DEF Complete, Buckets
<1>1. b \in Buckets \ torn
  BY ThrottleStepKeeps
<1>2. /\ \A x \in Calls : stamp[x] \in Nat
      /\ Duration \in Nat \ {0}
      /\ history[b] \in Seq(Calls) /\ Len(history[b]) \in Nat
  BY <1>1, LenProperties DEF ThrottleTypeOK, ThrottleAssumption
<1>3. InOrder(history[b], b, time)
  BY <1>1 DEF Cached
<1>4. CASE phase[q] = "admitted" /\ history'[b] = history[b]
  <2>1. stamp'[q] = stamp[q]
    BY <1>4, ThrottleStepKeeps
  <2>2. CASE \E i \in 1..Len(history[b]) : history[b][i] = q
    BY <1>4, <2>2
  <2>3. CASE history[b] # <<>> /\ stamp[q] <= stamp[history[b][1]] - Duration
    <3>1. 1 \in 1..Len(history[b])
      BY <1>2, <2>3
    <3>2. history[b][1] \in Calls /\ phase[history[b][1]] \in {"admitted", "open"}
      BY <1>2, <1>3, <3>1, ElementOfSeq DEF InOrder
    <3>3. stamp'[history[b][1]] = stamp[history[b][1]]
      BY <3>2, ThrottleStepKeeps
    <3>. QED
      BY <1>4, <2>1, <2>3, <3>3
  <2>. QED
    BY <1>1, <1>4, <2>2, <2>3 DEF Complete
<1>5. ASSUME NEW r \in Calls, Admit(r) \/ FailOpen(r),
             phase[r] = "read", ~OverBudget(r), Store(r), Bucket(r) = b
      PROVE  \/ \E i \in 1..Len(history'[b]) : history'[b][i] = q
             \/ history'[b] # <<>> /\ stamp'[q] <= stamp'[history'[b][1]] - Duration
  <2>1. copy[r] = history[b] /\ stamp' = stamp
    BY <1>5 DEF Store, Admit, FailOpen
  <2>2. PICK n \in 0..Len(copy[r]) :
          /\ Len(history'[b]) = n + 1 /\ history'[b][1] = r
          /\ \A i \in 1..n : history'[b][i + 1] = copy[r][i]
          /\ \A i \in 1..Len(copy[r]) : i <= n <=> stamp[copy[r][i]] > stamp[r] - Duration
    BY <1>5, StoredList
  <2>3. history'[b] # <<>> /\ n \in Nat
    BY <2>2
  <2>4. CASE q = r
    <3>1. 1 \in 1..Len(history'[b])
      BY <2>2, <2>3
    <3>. QED
      BY <2>2, <2>4, <3>1
  <2>5. CASE q # r
    <3>1. phase[q] = "admitted"
      BY <1>5, <2>5 DEF Admit, FailOpen, ThrottleTypeOK
    <3>2. ASSUME NEW i \in 1..Len(history[b]), history[b][i] = q
          PROVE  \/ \E j \in 1..Len(history'[b]) : history'[b][j] = q
                 \/ history'[b] # <<>> /\ stamp'[q] <= stamp'[history'[b][1]] - Duration
      <4>1. CASE i <= n
        <5>1. i \in 1..n /\ i + 1 \in 1..Len(history'[b])
          BY <1>2, <2>2, <2>3, <4>1
        <5>2. history'[b][i + 1] = history[b][i]
          BY <2>1, <2>2, <5>1
        <5>. QED
          BY <3>2, <5>1, <5>2
      <4>2. CASE ~(i <= n)
        BY <1>2, <2>1, <2>2, <2>3, <3>2, <4>2
      <4>. QED
        BY <4>1, <4>2
    <3>3. CASE history[b] # <<>> /\ stamp[q] <= stamp[history[b][1]] - Duration
      <4>1. 1 \in 1..Len(history[b])
        BY <1>2, <3>3
      <4>2. stamp[history[b][1]] <= stamp[r] /\ history[b][1] \in Calls
        BY <1>2, <1>5, <2>1, <4>1, ElementOfSeq DEF Copied, InOrder
      <4>3. stamp[q] <= stamp[r] - Duration
        BY <1>2, <3>3, <4>2
      <4>. QED
        BY <2>1, <2>2, <2>3, <4>3
    <3>. QED
      BY <1>1, <3>1, <3>2, <3>3 DEF Complete
  <2>. QED
    BY <2>4, <2>5
<1>6. phase[q] = "admitted" \/ Admit(q)
  BY AdmittedByAdmit
<1>7. CASE Admit(q)
  BY <1>5, <1>7 DEF Admit
<1>8. CASE phase[q] = "admitted"
  <2>1. CASE history'[b] = history[b]
    BY <1>4, <1>8, <2>1
  <2>2. CASE history'[b] # history[b]
    <3>1. PICK r \in Calls : /\ Admit(r) \/ FailOpen(r)
                            /\ phase[r] = "read" /\ ~OverBudget(r) /\ Store(r)
      BY <2>2, WritesOrNot
    <3>2. Bucket(r) = b
      BY <2>2, <3>1, <1>1 DEF Store, ThrottleTypeOK
    <3>. QED
      BY <1>5, <3>1, <3>2
  <2>. QED
    BY <2>1, <2>2
<1>. QED
  BY <1>6, <1>7, <1>8

\* Whoever is admitted finds, in the list it read, everyone of its windows.
LEMMA WindowsStep ==
  ASSUME ThrottleAssumption, ThrottleInv, [ThrottleNext]_throttleVars
  PROVE  WindowsKept'
<1>. USE DEF ThrottleInv
<1>. SUFFICES ASSUME NEW b \in Buckets \ torn', NEW t \in Nat
              PROVE  Cardinality(Window(b, t)') <= Budget
  BY DEF WindowsKept, Buckets
<1>1. b \in Buckets \ torn
  BY ThrottleStepKeeps
<1>2. /\ \A x \in Calls : stamp[x] \in Nat
      /\ Duration \in Nat \ {0} /\ Budget \in Nat \ {0} /\ IsFiniteSet(Calls)
  BY DEF ThrottleTypeOK, ThrottleAssumption
<1>3. IsFiniteSet(Window(b, t)) /\ Cardinality(Window(b, t)) <= Budget
  BY <1>1, <1>2, FS_Subset DEF Window, WindowsKept
<1>4. CASE \A q \in Calls : phase'[q] = "admitted" => phase[q] = "admitted"
  <2>1. \A q \in Calls : phase[q] = "admitted" => stamp'[q] = stamp[q]
    BY ThrottleStepKeeps
  <2>2. Window(b, t)' \in SUBSET Window(b, t)
    BY <1>4, <2>1 DEF Window
  <2>3. Cardinality(Window(b, t)') <= Cardinality(Window(b, t))
    BY <1>3, <2>2, FS_Subset
  <2>4. Cardinality(Window(b, t)') \in Nat /\ Cardinality(Window(b, t)) \in Nat
    BY <1>3, <2>2, FS_Subset, FS_CardinalityType
  <2>. QED
    BY <1>2, <1>3, <2>3, <2>4
<1>5. ASSUME NEW r \in Calls, Admit(r) PROVE Cardinality(Window(b, t)') <= Budget
  <2>1. /\ stamp' = stamp /\ phase' = [phase EXCEPT ![r] = "admitted"]
        /\ phase[r] = "read" /\ ~OverBudget(r) /\ Store(r)
    BY <1>5 DEF Admit
  <2>2. CASE r \notin Window(b, t)'
    <3>1. Window(b, t)' \in SUBSET Window(b, t)
      BY <2>1, <2>2 DEF Window, ThrottleTypeOK
    <3>2. Cardinality(Window(b, t)') <= Cardinality(Window(b, t))
      BY <1>3, <3>1, FS_Subset
    <3>3. Cardinality(Window(b, t)') \in Nat /\ Cardinality(Window(b, t)) \in Nat
      BY <1>3, <3>1, FS_Subset, FS_CardinalityType
    <3>. QED
      BY <1>2, <1>3, <3>2, <3>3
  <2>3. CASE r \in Window(b, t)'
    <3>1. Bucket(r) = b /\ copy[r] = history[b]
      BY <2>1, <2>3 DEF Window, Store
    <3>2. PICK recent : recent = Recent(r)
      OBVIOUS
    <3>3. /\ recent \in Seq(Calls) /\ Len(recent) \in Nat /\ Len(recent) < Budget
          /\ Len(recent) <= Len(copy[r]) /\ Len(copy[r]) \in Nat
          /\ \A i \in 1..Len(recent) : recent[i] = copy[r][i]
          /\ \A i \in 1..Len(copy[r]) :
               i <= Len(recent) <=> stamp[copy[r][i]] > stamp[r] - Duration
      <4>1. /\ InOrder(copy[r], Bucket(r), stamp[r]) /\ copy[r] \in Seq(Calls)
        BY <2>1 DEF Copied, ThrottleTypeOK
      <4>2. /\ recent \in Seq(Calls) /\ Len(recent) <= Len(copy[r])
            /\ \A i \in 1..Len(recent) : recent[i] = copy[r][i]
            /\ \A i \in 1..Len(copy[r]) :
                 i <= Len(recent) <=> stamp[copy[r][i]] > stamp[r] - Duration
        BY <3>2, <4>1, RecentIs
      <4>3. Len(recent) \in Nat /\ Len(copy[r]) \in Nat
        BY <4>1, <4>2, LenProperties
      <4>4. Len(recent) < Budget
        BY <1>2, <2>1, <3>2, <4>3 DEF OverBudget
      <4>. QED
        BY <4>2, <4>3, <4>4
    <3>4. InOrder(copy[r], b, stamp[r])
      BY <2>1, <3>1 DEF Copied
    <3>5. \A i, j \in 1..Len(recent) : i < j => recent[i] # recent[j]
      BY <3>3, <3>4 DEF InOrder
    <3>. DEFINE S == {recent[i] : i \in 1..Len(recent)}
    <3>6. IsFiniteSet(S) /\ Cardinality(S) = Len(recent)
      BY <3>3, <3>5, EntriesCount
    <3>7. ASSUME NEW q \in Window(b, t)', q # r PROVE q \in S
      <4>1. /\ q \in Calls /\ phase[q] = "admitted" /\ Bucket(q) = b
            /\ stamp[q] \in t .. (t + Duration - 1) /\ stamp[r] \in t .. (t + Duration - 1)
        BY <2>1, <2>3, <3>7 DEF Window, ThrottleTypeOK
      <4>2. stamp[q] > stamp[r] - Duration
        BY <1>2, <4>1
      <4>3. CASE history[b] # <<>> /\ stamp[q] <= stamp[history[b][1]] - Duration
        <5>1. 1 \in 1..Len(history[b]) /\ history[b] \in Seq(Calls)
          BY <3>1, <3>3, <4>3 DEF ThrottleTypeOK
        <5>2. stamp[history[b][1]] <= stamp[r] /\ history[b][1] \in Calls
          BY <3>1, <3>4, <5>1, ElementOfSeq DEF InOrder
        <5>. QED
          BY <1>2, <4>1, <4>2, <4>3, <5>2
      <4>4. ASSUME NEW i \in 1..Len(history[b]), history[b][i] = q PROVE q \in S
        <5>1. i <= Len(recent)
          BY <3>1, <3>3, <4>2, <4>4
        <5>2. i \in 1..Len(recent) /\ recent[i] = q
          BY <3>1, <3>3, <4>4, <5>1
        <5>. QED
          BY <5>2
      <4>. QED
        BY <1>1, <4>1, <4>3, <4>4 DEF Complete
    <3>. HIDE DEF S
    <3>8. Window(b, t)' \in SUBSET (S \cup {r})
      BY <3>7
    <3>9. IsFiniteSet(S \cup {r}) /\ Cardinality(S \cup {r}) <= Len(recent) + 1
      <4>1. Cardinality(S \cup {r}) = IF r \in S THEN Cardinality(S) ELSE Cardinality(S) + 1
        BY <3>6, FS_AddElement
      <4>2. IsFiniteSet(S \cup {r})
        BY <3>6, FS_AddElement
      <4>. QED
        BY <3>3, <3>6, <4>1, <4>2
    <3>10. Cardinality(Window(b, t)') <= Cardinality(S \cup {r})
           /\ Cardinality(Window(b, t)') \in Nat /\ Cardinality(S \cup {r}) \in Nat
      BY <3>8, <3>9, FS_Subset, FS_CardinalityType
    <3>. QED
      BY <1>2, <3>3, <3>9, <3>10
  <2>. QED
    BY <2>2, <2>3
<1>6. (\A q \in Calls : phase'[q] = "admitted" => phase[q] = "admitted")
      \/ \E r \in Calls : Admit(r)
  BY AdmittedByAdmit
<1>. QED
  BY <1>4, <1>5, <1>6

\* The requests that RefusalIsEarned counts for r
Spent(r) ==
  {q \in Calls :
    /\ phase[q] \in {"admitted", "open"}
    /\ Bucket(q) = Bucket(r)
    /\ stamp[q] \in (stamp[r] - Duration + 1) .. stamp[r]}

\* Whoever is refused has read a full list of them; and they stay let through.
LEMMA EarnedStep ==
  ASSUME ThrottleAssumption, ThrottleInv, [ThrottleNext]_throttleVars
  PROVE  RefusalIsEarned'
<1>. USE DEF ThrottleInv
<1>. SUFFICES ASSUME NEW r \in Calls, phase'[r] = "refused"
              PROVE  Cardinality(Spent(r)') >= Budget
  BY DEF RefusalIsEarned, Spent
<1>1. /\ \A x \in Calls : stamp[x] \in Nat
      /\ Duration \in Nat \ {0} /\ Budget \in Nat \ {0} /\ IsFiniteSet(Calls)
  BY DEF ThrottleTypeOK, ThrottleAssumption
<1>2. IsFiniteSet(Spent(r)') /\ Cardinality(Spent(r)') \in Nat
  <2>1. Spent(r)' \in SUBSET Calls
    BY DEF Spent
  <2>. QED
    BY <1>1, <2>1, FS_Subset, FS_CardinalityType
<1>3. stamp'[r] = stamp[r]
  BY ThrottleStepKeeps DEF ThrottleTypeOK
<1>4. Spent(r) \in SUBSET (Spent(r)')
  BY <1>3, ThrottleStepKeeps DEF Spent
<1>5. Cardinality(Spent(r)) <= Cardinality(Spent(r)') /\ Cardinality(Spent(r)) \in Nat
  BY <1>2, <1>4, FS_Subset, FS_CardinalityType
<1>6. CASE phase[r] = "refused"
  <2>1. Cardinality(Spent(r)) >= Budget
    BY <1>6 DEF RefusalIsEarned, Spent
  <2>. QED
    BY <1>1, <1>2, <1>5, <2>1
<1>7. CASE Refuse(r)
  <2>1. PICK recent : recent = Recent(r)
    OBVIOUS
  <2>2. InOrder(copy[r], Bucket(r), stamp[r]) /\ copy[r] \in Seq(Calls)
    BY <1>7 DEF Refuse, Copied, ThrottleTypeOK
  <2>3. /\ recent \in Seq(Calls) /\ Len(recent) <= Len(copy[r])
        /\ \A i \in 1..Len(recent) : recent[i] = copy[r][i]
        /\ \A i \in 1..Len(copy[r]) :
             i <= Len(recent) <=> stamp[copy[r][i]] > stamp[r] - Duration
    BY <2>1, <2>2, RecentIs
  <2>4. Len(recent) \in Nat /\ Len(copy[r]) \in Nat /\ Len(recent) >= Budget
    BY <1>7, <2>1, <2>2, <2>3, LenProperties DEF Refuse, OverBudget
  <2>5. \A i, j \in 1..Len(recent) : i < j => recent[i] # recent[j]
    BY <2>2, <2>3, <2>4 DEF InOrder
  <2>. DEFINE S == {recent[i] : i \in 1..Len(recent)}
  <2>6. IsFiniteSet(S) /\ Cardinality(S) = Len(recent)
    BY <2>3, <2>5, EntriesCount
  <2>7. ASSUME NEW i \in 1..Len(recent) PROVE recent[i] \in Spent(r)
    <3>1. i \in 1..Len(copy[r]) /\ recent[i] = copy[r][i] /\ recent[i] \in Calls
      BY <2>3, <2>4, ElementOfSeq
    <3>2. /\ phase[recent[i]] \in {"admitted", "open"} /\ Bucket(recent[i]) = Bucket(r)
          /\ stamp[recent[i]] <= stamp[r] /\ stamp[recent[i]] > stamp[r] - Duration
      BY <2>2, <2>3, <2>4, <3>1 DEF InOrder
    <3>3. stamp[recent[i]] \in (stamp[r] - Duration + 1) .. stamp[r]
      BY <1>1, <3>1, <3>2
    <3>. QED
      BY <3>1, <3>2, <3>3 DEF Spent
  <2>8. S \in SUBSET Spent(r)
    BY <2>7
  <2>9. Spent(r) \in SUBSET Calls
    BY DEF Spent
  <2>. HIDE DEF S
  <2>10. Cardinality(S) <= Cardinality(Spent(r))
    BY <1>1, <2>8, <2>9, FS_Subset
  <2>. QED
    BY <1>1, <1>2, <1>5, <2>4, <2>6, <2>10
<1>8. phase[r] = "refused" \/ Refuse(r)
  BY DEF ThrottleNext, throttleVars, Second, ReadList, Refuse, Admit, FailOpen, ThrottleTypeOK
<1>. QED
  BY <1>6, <1>7, <1>8

LEMMA ThrottleInitHolds ==
  ASSUME ThrottleAssumption, ThrottleInit
  PROVE  ThrottleInv
<1>. USE DEF ThrottleInit, ThrottleAssumption
<1>1. <<>> \in Seq(Calls) /\ Len(<<>>) = 0 /\ DOMAIN <<>> = {}
  OBVIOUS
<1>2. \A b \in Buckets : history[b] = <<>>
  OBVIOUS
<1>3. ThrottleTypeOK
  BY <1>1, <1>2 DEF ThrottleTypeOK
<1>4. Cached /\ Copied /\ NoneFromTheFuture /\ Complete /\ RefusalIsEarned
  BY <1>1, <1>2 DEF Cached, Copied, InOrder, NoneFromTheFuture, Complete, RefusalIsEarned
<1>5. WindowsKept
  <2>1. \A b, t : Window(b, t) = {}
    BY DEF Window
  <2>2. Cardinality({}) = 0 /\ 0 <= Budget
    BY FS_EmptySet
  <2>. QED
    BY ONLY <2>1, <2>2 DEF WindowsKept
<1>. QED
  BY <1>3, <1>4, <1>5 DEF ThrottleInv

\* The inductive invariant of the rate limits.
THEOREM ThrottleInvariant ==
  ASSUME ThrottleAssumption
  PROVE  ThrottleSpec => []ThrottleInv
<1>1. ThrottleInit => ThrottleInv
  BY ThrottleInitHolds
<1>2. ThrottleInv /\ [ThrottleNext]_throttleVars => ThrottleInv'
  <2>. SUFFICES ASSUME ThrottleInv, [ThrottleNext]_throttleVars PROVE ThrottleInv'
    OBVIOUS
  <2>. QED
    BY CachedStep, CopiedStep, ThrottleTypeStep, CompleteStep, WindowsStep, EarnedStep
    DEF ThrottleInv
<1>. QED
  BY <1>1, <1>2, PTL DEF ThrottleSpec

\* A request is refused only after a whole budget was let through, and nobody gets
\* more than the budget where no list was written over one that was not read.
THEOREM ThrottleSafeHolds ==
  ASSUME ThrottleAssumption
  PROVE  ThrottleSpec => []ThrottleSafe
<1>1. ASSUME ThrottleInv PROVE BudgetKept
  <2>. SUFFICES ASSUME NEW r \in Calls, ProjectOf[r] # NoProject, Bucket(r) \notin torn,
                       NEW t \in 0..time
                PROVE  Cardinality({q \in Calls :
                         /\ phase[q] = "admitted" /\ ProjectOf[q] = ProjectOf[r]
                         /\ stamp[q] \in t .. (t + Duration - 1)}) <= Budget
    BY DEF BudgetKept
  <2>1. t \in Nat /\ Bucket(r) \in Buckets
    BY <1>1 DEF ThrottleInv, ThrottleTypeOK, Buckets
  <2>2. \A q \in Calls : ProjectOf[q] = ProjectOf[r] <=> Bucket(q) = Bucket(r)
    BY DEF Bucket
  <2>3. {q \in Calls : /\ phase[q] = "admitted" /\ ProjectOf[q] = ProjectOf[r]
                       /\ stamp[q] \in t .. (t + Duration - 1)} = Window(Bucket(r), t)
    BY <2>2 DEF Window
  <2>. QED
    BY <1>1, <2>1, <2>3 DEF ThrottleInv, WindowsKept
<1>2. ThrottleInv => ThrottleSafe
  BY <1>1 DEF ThrottleInv, ThrottleSafe
<1>. QED
  BY <1>2, ThrottleInvariant, PTL

=============================================================================
