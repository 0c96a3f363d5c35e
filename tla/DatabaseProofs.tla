---------------------------- MODULE DatabaseProofs ----------------------------
(***************************************************************************)
(* Proofs about Locks and Upgrade: any number of connections, and any rows.*)
(***************************************************************************)
EXTENDS Locks, Upgrade, TLAPS

\* The rows of a family below its subscription
Below(s) == Family(s) \ {s}

\* Transactions that lock invoices or attempts have asked for the subscription
\* in a statement before.
SubscriptionFirst(asked) ==
  \A q \in asked, s \in Subs : q.mode = "update" /\ q.row \in Below(s) =>
    \E r \in asked : r.row = s /\ r.mode = "update" /\ r.step < q.step

\* What a transaction has yet to lock is asked for after its subscription.
Guarded ==
  \A t \in Txns, s \in Subs : \A q \in todo[t] :
    q.mode = "update" /\ q.row \in Below(s) =>
      \/ <<s, "update">> \in held[t]
      \/ \E r \in todo[t] : r.row = s /\ r.mode = "update" /\ r.step < q.step

\* Who has locked a row of a family has locked its subscription.
Covered ==
  \A t \in Txns, s \in Subs : \A r \in Family(s) :
    <<r, "update">> \in held[t] => <<s, "update">> \in held[t]

\* No two transactions have one subscription.
Exclusive ==
  \A t, u \in Txns, s \in Subs :
    <<s, "update">> \in held[t] /\ <<s, "update">> \in held[u] => t = u

LocksInv == LocksTypeOK /\ Guarded /\ Covered /\ Exclusive

-----------------------------------------------------------------------------
\* Each transaction there is locks the subscription first.
LEMMA BeginsWell ==
  ASSUME LocksAssumption, NEW t \in Txns, ServiceBegins(t)
  PROVE  \E asked \in SUBSET Requests : SubscriptionFirst(asked) /\ Begin(t, asked)
<1>. DEFINE Good(asked) == asked \in SUBSET Requests /\ SubscriptionFirst(asked)
<1>1. ASSUME NEW asked \in SUBSET Requests, NEW s \in Subs, Ask(1, s, "update") \in asked,
             \A q \in asked, z \in Subs : q.row \in Below(z) => z = s /\ q.step > 1
      PROVE  Good(asked)
  BY <1>1 DEF SubscriptionFirst, Ask
<1>2. ASSUME NEW s \in Subs, NEW open \in SUBSET InvoicesOf(s)
      PROVE  Good(CancelLocks(s, open))
  <2>. DEFINE Fits(q) == /\ q \in Requests
                         /\ \A z \in Subs : q.row \in Below(z) => z = s /\ q.step > 1
  <2>1. Fits(Ask(1, s, "update"))
    BY DEF LocksAssumption, Below, Family, InvoicesOf, Ask, Requests, Rows, Modes
  <2>2. ASSUME NEW i \in open PROVE Fits(Ask(2, i, "update"))
    <3>1. i \in Invoices /\ SubOf[i] = s
      BY DEF InvoicesOf
    <3>. QED
      BY <3>1 DEF LocksAssumption, Below, Family, InvoicesOf, Ask, Requests, Rows, Modes
  <2>3. \A q \in CancelLocks(s, open) : Fits(q)
    <3>. HIDE DEF Fits
    <3>. QED
      BY <2>1, <2>2 DEF CancelLocks
  <2>4. Ask(1, s, "update") \in CancelLocks(s, open)
    BY DEF CancelLocks
  <2>. QED
    BY <1>1, <2>3, <2>4
<1>3. ASSUME NEW i \in Invoices, NEW open \in SUBSET (InvoicesOf(SubOf[i]) \ {i})
      PROVE  Good(DunLocks(i, open))
  <2>. DEFINE s == SubOf[i]
              Fits(q) == /\ q \in Requests
                         /\ \A z \in Subs : q.row \in Below(z) => z = s /\ q.step > 1
  <2>1. s \in Subs
    BY DEF LocksAssumption
  <2>2. Fits(Ask(1, s, "update")) /\ Fits(Ask(2, i, "update"))
    BY <2>1 DEF LocksAssumption, Below, Family, InvoicesOf, Ask, Requests, Rows, Modes
  <2>3. ASSUME NEW j \in open PROVE Fits(Ask(3, j, "update"))
    <3>1. j \in Invoices /\ SubOf[j] = s
      BY DEF InvoicesOf
    <3>. QED
      BY <3>1 DEF LocksAssumption, Below, Family, InvoicesOf, Ask, Requests, Rows, Modes
  <2>4. \A q \in DunLocks(i, open) : Fits(q)
    <3>. HIDE DEF Fits
    <3>. QED
      BY <2>2, <2>3 DEF DunLocks
  <2>5. Ask(1, s, "update") \in DunLocks(i, open)
    BY DEF DunLocks
  <2>. QED
    BY <1>1, <2>1, <2>4, <2>5
<1>. USE DEF LocksAssumption, SubscriptionFirst, Below, Family, InvoicesOf, Ask, AtCommit,
             Requests, Rows, Modes
<1>4. ASSUME NEW c \in Customers, NEW p \in Plans PROVE Good(CreateLocks(c, p))
  BY DEF CreateLocks
<1>5. ASSUME NEW s \in Subs PROVE Good(RollLocks(s))
  BY DEF RollLocks
<1>6. ASSUME NEW i \in Invoices, NEW keyed \in BOOLEAN PROVE Good(PrepareLocks(i, keyed))
  <2>. DEFINE bare == {Ask(1, SubOf[i], "update"), Ask(2, i, "update"), AtCommit(Project)}
  <2>1. PrepareLocks(i, keyed) \in {bare, bare \cup {Ask(3, Project, "no_key")}}
    BY ZenonT(30) DEF PrepareLocks
  <2>2. Good(bare)
    OBVIOUS
  <2>3. Good(bare \cup {Ask(3, Project, "no_key")})
    OBVIOUS
  <2>. QED
    BY <2>1, <2>2, <2>3, Zenon
<1>7. ASSUME NEW a \in Attempts, NEW x \in Charges PROVE Good(SettleLocks(a, x))
  BY DEF SettleLocks
<1>8. ASSUME NEW e \in Events, NEW a \in Attempts, NEW x \in Charges
      PROVE  Good(WebhookLocks(e, a, x))
  BY DEF WebhookLocks, SettleLocks
<1>9. ASSUME NEW s \in Subs, NEW c \in Customers, NEW p \in Plans
      PROVE  Good(EditLocks(s, c, p))
  BY DEF EditLocks
<1>10. ASSUME NEW r \in Rows \ (Subs \cup Charges \cup Events) PROVE Good(SaveLocks(r))
  <2>1. SaveLocks(r) \in {{Ask(1, r, "no_key")},
                          {Ask(1, r, "no_key"), AtCommit(Project)}}
    <3>1. CASE r \in Customers \cup Plans
      BY <3>1 DEF SaveLocks
    <3>2. CASE r \notin Customers \cup Plans
      BY <3>2 DEF SaveLocks
    <3>. QED
      BY <3>1, <3>2
  <2>2. Good({Ask(1, r, "no_key")})
    OBVIOUS
  <2>3. Good({Ask(1, r, "no_key"), AtCommit(Project)})
    OBVIOUS
  <2>. QED
    BY <2>1, <2>2, <2>3, Zenon
<1>. HIDE DEF Good
<1>11. \E asked : Good(asked) /\ Begin(t, asked)
  BY <1>2, <1>3, <1>4, <1>5, <1>6, <1>7, <1>8, <1>9, <1>10
  DEF ServiceBegins
<1>. QED
  BY <1>11 DEF Good

\* A row is locked after its subscription, and a subscription by one at a time.
LEMMA LockStep ==
  ASSUME LocksAssumption, LocksInv, NEW t \in Txns, NEW q \in todo[t], Lock(t, q)
  PROVE  LocksInv'
<1>. USE DEF LocksInv, LocksTypeOK
<1>1. /\ q \in Requests /\ \A r \in todo[t] : q.step <= r.step
      /\ todo' = [todo EXCEPT ![t] = @ \ {q}]
      /\ held' = [held EXCEPT ![t] = @ \cup {<<q.row, q.mode>>}]
  BY DEF Lock, Front
<1>2. <<q.row, q.mode>> \in Rows \X Modes
  BY <1>1 DEF Requests
<1>3. LocksTypeOK'
  BY <1>1, <1>2
<1>4. Guarded'
  BY <1>1 DEF Guarded
<1>5. Covered'
  <2>1. ASSUME NEW s \in Subs, q.mode = "update", q.row \in Below(s)
        PROVE  <<s, "update">> \in held[t]
    <3>1. ASSUME NEW r \in todo[t], r.step < q.step PROVE FALSE
      BY <1>1, <3>1 DEF Requests
    <3>. QED
      BY <2>1, <3>1 DEF Guarded
  <2>. QED
    BY <1>1, <2>1 DEF Covered, Below
<1>6. Exclusive'
  <2>1. ASSUME NEW u \in Txns \ {t}, NEW s \in Subs, q.row = s, q.mode = "update"
        PROVE  <<s, "update">> \notin held[u]
    BY <2>1 DEF Lock, Blocks, Conflict, Modes
  <2>. QED
    BY <1>1, <2>1 DEF Exclusive
<1>. QED
  BY <1>3, <1>4, <1>5, <1>6

\* The inductive invariant.
THEOREM LocksInvariant ==
  ASSUME LocksAssumption
  PROVE  LocksSpec => []LocksInv
<1>1. LocksInit => LocksInv
  BY DEF LocksInit, LocksInv, LocksTypeOK, Guarded, Covered, Exclusive
<1>2. LocksInv /\ [LocksNext]_lockVars => LocksInv'
  <2>. SUFFICES ASSUME LocksInv, [LocksNext]_lockVars PROVE LocksInv'
    OBVIOUS
  <2>. USE DEF LocksInv, LocksTypeOK, Guarded, Covered, Exclusive
  <2>1. CASE UNCHANGED lockVars
    BY <2>1 DEF lockVars
  <2>2. ASSUME NEW t \in Txns, ServiceBegins(t) PROVE LocksInv'
    <3>1. PICK asked \in SUBSET Requests : SubscriptionFirst(asked) /\ Begin(t, asked)
      BY <2>2, BeginsWell
    <3>. QED
      BY <3>1 DEF SubscriptionFirst, Begin
  <2>3. ASSUME NEW t \in Txns, End(t) PROVE LocksInv'
    BY <2>3 DEF End
  <2>4. ASSUME NEW t \in Txns, NEW q \in todo[t], Lock(t, q) PROVE LocksInv'
    BY <2>4, LockStep
  <2>. QED
    BY <2>1, <2>2, <2>3, <2>4 DEF LocksNext
<1>. QED
  BY <1>1, <1>2, PTL DEF LocksSpec

\* One transaction at a time is at work on a subscription, its invoices and their
\* attempts: what makes a transaction one action in Billing and Charging.
THEOREM LocksSafeHolds ==
  ASSUME LocksAssumption
  PROVE  LocksSpec => []LocksSafe
<1>1. LocksInv => LocksSafe
  BY DEF LocksInv, Covered, Exclusive, LocksSafe, FamilySerial
<1>. QED
  BY <1>1, LocksInvariant, PTL

-----------------------------------------------------------------------------
(* No deadlock *)

\* The order in which the code reaches the tables
Rank(r) ==
  IF r \in Events THEN 1 ELSE
  IF r \in Subs THEN 2 ELSE
  IF r \in Invoices THEN 3 ELSE
  IF r \in Attempts THEN 4 ELSE
  IF r \in Customers THEN 5 ELSE
  IF r \in Plans THEN 6 ELSE
  IF r \in Charges THEN 7 ELSE 8

\* A transaction that has or asks for row r in mode m may ask for q afterwards: a
\* row further on, another invoice of the subscription it has, or the project its
\* foreign keys name.
After(r, m, q) ==
  \/ Rank(r) < Rank(q.row)
  \/ {r, q.row} \subseteq Invoices /\ m = "update" /\ q.mode = "update"
  \/ q.row = Project /\ q.mode = "key_share"

Planned(asked) ==
  \A q, n \in asked : q # n /\ q.step <= n.step => After(q.row, q.mode, n)

\* Nobody wants the project for itself; an invoice is dealt with or saved.
Moderate(asked) ==
  \A q \in asked :
    /\ q.row = Project => q.mode # "update"
    /\ q.row \in Invoices => q.mode \in {"update", "no_key"}

\* A save asks for nothing but its row and the project.
SavesAlone(asked) ==
  \A q \in asked : q.mode = "no_key" /\ q.row # Project =>
    \A n \in asked : n # q => q.step < n.step

\* What was asked for at the beginning remains in order...
Ordered ==
  \A t \in Txns :
    /\ Planned(todo[t]) /\ Moderate(todo[t]) /\ SavesAlone(todo[t])
    /\ <<Project, "update">> \notin held[t]

\* ... and comes after what has been locked.
Ascending ==
  \A t \in Txns : \A h \in held[t], q \in todo[t] :
    /\ After(h[1], h[2], q)
    /\ ~(q.mode = "no_key" /\ q.row # Project)

DeadlockInv == LocksInv /\ Ordered /\ Ascending

LEMMA Ranks ==
  ASSUME LocksAssumption
  PROVE  /\ \A r \in Events : Rank(r) = 1
         /\ \A r \in Subs : Rank(r) = 2
         /\ \A r \in Invoices : Rank(r) = 3
         /\ \A r \in Attempts : Rank(r) = 4
         /\ \A r \in Customers : Rank(r) = 5
         /\ \A r \in Plans : Rank(r) = 6
         /\ \A r \in Charges : Rank(r) = 7
         /\ Rank(Project) = 8
         /\ \A r : Rank(r) \in 1..8
BY DEF LocksAssumption, Rank

Orderly(asked) == Planned(asked) /\ Moderate(asked) /\ SavesAlone(asked)

\* A subscription and then some of its invoices are in order.
LEMMA OneAndInvoices ==
  ASSUME LocksAssumption, NEW s \in Subs, NEW asked,
         \A q \in asked :
           \/ q = Ask(1, s, "update")
           \/ q.step \in {2, 3} /\ q.row \in Invoices /\ q.mode = "update"
  PROVE  Orderly(asked)
<1>1. s \notin Invoices /\ s # Project /\ Project \notin Invoices
  BY DEF LocksAssumption
<1>2. Ask(1, s, "update").step = 1 /\ Ask(1, s, "update").row = s /\ Ask(1, s, "update").mode = "update"
  BY DEF Ask
<1>3. ASSUME NEW q \in asked, NEW n \in asked, q # n, q.step <= n.step
      PROVE  After(q.row, q.mode, n)
  <2>1. n.row \in Invoices /\ n.mode = "update"
    BY <1>2, <1>3
  <2>2. CASE q.row \in Invoices /\ q.mode = "update"
    BY <2>1, <2>2 DEF After
  <2>3. CASE q = Ask(1, s, "update")
    BY <1>2, <2>1, <2>3, Ranks DEF After
  <2>. QED
    BY <2>2, <2>3
<1>4. Planned(asked)
  BY <1>3 DEF Planned
<1>5. \A q \in asked : q.mode = "update" /\ q.row # Project
  BY <1>1, <1>2
<1>. QED
  BY <1>4, <1>5 DEF Orderly, Moderate, SavesAlone

\* Each transaction there is reaches the tables in order.
LEMMA BeginsInOrder ==
  ASSUME LocksAssumption, NEW t \in Txns, ServiceBegins(t)
  PROVE  \E asked : Orderly(asked) /\ Begin(t, asked)
<1>1. ASSUME NEW s \in Subs, NEW open \in SUBSET InvoicesOf(s)
      PROVE  Orderly(CancelLocks(s, open))
  <2>1. open \subseteq Invoices
    BY DEF InvoicesOf
  <2>2. \A q \in CancelLocks(s, open) :
          \/ q = Ask(1, s, "update")
          \/ q.step \in {2, 3} /\ q.row \in Invoices /\ q.mode = "update"
    BY <2>1 DEF CancelLocks, Ask
  <2>3. s \in Subs /\ s \notin Invoices /\ s # Project /\ Project \notin Invoices
    BY DEF LocksAssumption
  <2>. QED
    BY <2>2, <2>3, OneAndInvoices
<1>2. ASSUME NEW i \in Invoices, NEW open \in SUBSET (InvoicesOf(SubOf[i]) \ {i})
      PROVE  Orderly(DunLocks(i, open))
  <2>1. open \subseteq Invoices
    BY DEF InvoicesOf
  <2>2. \A q \in DunLocks(i, open) :
          \/ q = Ask(1, SubOf[i], "update")
          \/ q.step \in {2, 3} /\ q.row \in Invoices /\ q.mode = "update"
    BY <2>1 DEF DunLocks, Ask
  <2>3. SubOf[i] \in Subs
    BY DEF LocksAssumption
  <2>. QED
    BY <2>2, <2>3, OneAndInvoices
<1>. USE Ranks DEF LocksAssumption, Orderly, Planned, Moderate, SavesAlone, After, Ask, AtCommit
<1>3. ASSUME NEW c \in Customers, NEW p \in Plans PROVE Orderly(CreateLocks(c, p))
  BY DEF CreateLocks
<1>4. ASSUME NEW s \in Subs PROVE Orderly(RollLocks(s))
  BY DEF RollLocks
<1>5. ASSUME NEW i \in Invoices, NEW keyed \in BOOLEAN PROVE Orderly(PrepareLocks(i, keyed))
  <2>. DEFINE bare == {Ask(1, SubOf[i], "update"), Ask(2, i, "update"), AtCommit(Project)}
  <2>1. PrepareLocks(i, keyed) \in {bare, bare \cup {Ask(3, Project, "no_key")}}
    BY ZenonT(30) DEF PrepareLocks
  <2>2. Orderly(bare)
    OBVIOUS
  <2>3. Orderly(bare \cup {Ask(3, Project, "no_key")})
    OBVIOUS
  <2>. HIDE DEF Orderly
  <2>. QED
    BY <2>1, <2>2, <2>3, Zenon
<1>6. ASSUME NEW a \in Attempts, NEW x \in Charges PROVE Orderly(SettleLocks(a, x))
  BY DEF SettleLocks
<1>7. ASSUME NEW e \in Events, NEW a \in Attempts, NEW x \in Charges
      PROVE  Orderly(WebhookLocks(e, a, x))
  BY DEF WebhookLocks, SettleLocks
<1>8. ASSUME NEW s \in Subs, NEW c \in Customers, NEW p \in Plans
      PROVE  Orderly(EditLocks(s, c, p))
  BY DEF EditLocks
<1>9. ASSUME NEW r \in Rows \ (Subs \cup Charges \cup Events) PROVE Orderly(SaveLocks(r))
  <2>1. SaveLocks(r) \in {{Ask(1, r, "no_key")},
                          {Ask(1, r, "no_key"), AtCommit(Project)}}
    <3>1. CASE r \in Customers \cup Plans
      BY <3>1 DEF SaveLocks
    <3>2. CASE r \notin Customers \cup Plans
      BY <3>2 DEF SaveLocks
    <3>. QED
      BY <3>1, <3>2
  <2>2. Orderly({Ask(1, r, "no_key")})
    OBVIOUS
  <2>3. Orderly({Ask(1, r, "no_key"), AtCommit(Project)})
    OBVIOUS
  <2>. HIDE DEF Orderly
  <2>. QED
    BY <2>1, <2>2, <2>3, Zenon
<1>. HIDE DEF Orderly
<1>10. \E asked : Orderly(asked) /\ Begin(t, asked)
  BY <1>1, <1>2, <1>3, <1>4, <1>5, <1>6, <1>7, <1>8, <1>9, ZenonT(60) DEF ServiceBegins
<1>. QED
  BY <1>10

\* A lock that is granted keeps to the order.
LEMMA LockKeepsOrder ==
  ASSUME LocksAssumption, DeadlockInv, NEW t \in Txns, NEW q \in todo[t], Lock(t, q)
  PROVE  Ordered' /\ Ascending'
<1>. USE DEF DeadlockInv, LocksInv, LocksTypeOK
<1>1. /\ q \in Requests /\ \A n \in todo[t] : q.step <= n.step
      /\ todo' = [todo EXCEPT ![t] = @ \ {q}]
      /\ held' = [held EXCEPT ![t] = @ \cup {<<q.row, q.mode>>}]
  BY DEF Lock, Front
<1>2. /\ todo'[t] = todo[t] \ {q}
      /\ held'[t] = held[t] \cup {<<q.row, q.mode>>}
      /\ \A u \in Txns \ {t} : todo'[u] = todo[u] /\ held'[u] = held[u]
  BY <1>1
<1>3. Planned(todo[t]) /\ Moderate(todo[t]) /\ SavesAlone(todo[t])
  BY DEF Ordered
<1>4. Ordered'
  <2>1. \A u \in Txns : todo'[u] \subseteq todo[u]
    BY <1>2
  <2>2. \A u \in Txns : Planned(todo'[u]) /\ Moderate(todo'[u]) /\ SavesAlone(todo'[u])
    BY <2>1 DEF Ordered, Planned, Moderate, SavesAlone
  <2>3. <<Project, "update">> # <<q.row, q.mode>>
    BY <1>3 DEF Moderate
  <2>. QED
    BY <1>2, <2>2, <2>3 DEF Ordered
<1>5. Ascending'
  <2>1. ASSUME NEW n \in todo'[t]
        PROVE  After(q.row, q.mode, n) /\ ~(n.mode = "no_key" /\ n.row # Project)
    <3>1. n \in todo[t] /\ n # q /\ n \in Requests
      BY <1>2, <2>1
    <3>2. q.step <= n.step /\ q.step \in 1..9 /\ n.step \in 1..9
      BY <1>1, <3>1 DEF Requests
    <3>3. ~(n.step < q.step)
      BY <3>2
    <3>. QED
      BY <1>3, <3>1, <3>2, <3>3 DEF Planned, SavesAlone
  <2>2. ASSUME NEW h \in held'[t], NEW n \in todo'[t]
        PROVE  After(h[1], h[2], n) /\ ~(n.mode = "no_key" /\ n.row # Project)
    <3>1. CASE h = <<q.row, q.mode>>
      BY <2>1, <3>1
    <3>2. CASE h \in held[t]
      BY <1>2, <3>2 DEF Ascending
    <3>. QED
      BY <1>2, <3>1, <3>2
  <2>. QED
    BY <1>2, <2>2 DEF Ascending
<1>. QED
  BY <1>4, <1>5

\* The inductive invariant of the order.
THEOREM DeadlockInvariant ==
  ASSUME LocksAssumption
  PROVE  LocksSpec => []DeadlockInv
<1>1. LocksInit => Ordered /\ Ascending
  BY DEF LocksInit, Ordered, Ascending, Planned, Moderate, SavesAlone
<1>2. LocksInv /\ LocksInv' /\ Ordered /\ Ascending /\ [LocksNext]_lockVars
        => Ordered' /\ Ascending'
  <2>. SUFFICES ASSUME LocksInv, Ordered, Ascending, [LocksNext]_lockVars
                PROVE  Ordered' /\ Ascending'
    OBVIOUS
  <2>1. CASE UNCHANGED lockVars
    BY <2>1 DEF lockVars, Ordered, Ascending
  <2>2. ASSUME NEW t \in Txns, ServiceBegins(t) PROVE Ordered' /\ Ascending'
    <3>1. PICK asked : Orderly(asked) /\ Begin(t, asked)
      BY <2>2, BeginsInOrder
    <3>2. /\ held' = held /\ held[t] = {}
          /\ todo'[t] = asked /\ \A u \in Txns \ {t} : todo'[u] = todo[u]
      BY <3>1 DEF Begin, LocksInv, LocksTypeOK
    <3>3. Ordered'
      BY <3>1, <3>2 DEF Ordered, Orderly
    <3>4. Ascending'
      BY <3>2 DEF Ascending
    <3>. QED
      BY <3>3, <3>4
  <2>3. ASSUME NEW t \in Txns, End(t) PROVE Ordered' /\ Ascending'
    <3>1. /\ todo'[t] = {} /\ held'[t] = {}
          /\ \A u \in Txns \ {t} : todo'[u] = todo[u] /\ held'[u] = held[u]
      BY <2>3 DEF End, LocksInv, LocksTypeOK
    <3>2. Ordered'
      BY <3>1 DEF Ordered, Planned, Moderate, SavesAlone
    <3>3. Ascending'
      BY <3>1 DEF Ascending
    <3>. QED
      BY <3>2, <3>3
  <2>4. ASSUME NEW t \in Txns, NEW q \in todo[t], Lock(t, q) PROVE Ordered' /\ Ascending'
    BY <2>4, LockKeepsOrder DEF DeadlockInv
  <2>. QED
    BY <2>1, <2>2, <2>3, <2>4 DEF LocksNext
<1>. QED
  BY <1>1, <1>2, LocksInvariant, PTL DEF LocksSpec, DeadlockInv

-----------------------------------------------------------------------------
\* How far on a transaction waits with request q. A save has nothing that another
\* could wait for.
Level(q) == IF q.mode = "no_key" /\ q.row # Project THEN 0 ELSE Rank(q.row)

\* Who is waited for waits further on.
LEMMA WaitsFurtherOn ==
  ASSUME LocksAssumption, DeadlockInv,
         NEW t \in Txns, NEW u \in Txns, NEW v \in Txns, t # u, u # v,
         NEW q \in Front(t), Blocks(u, q), NEW n \in Front(u), Blocks(v, n)
  PROVE  Level(q) < Level(n)
<1>. USE DEF DeadlockInv, LocksInv, LocksTypeOK
<1>1. /\ q \in todo[t] /\ q \in Requests
      /\ n \in todo[u] /\ n \in Requests
  BY DEF Front
<1>2. PICK m \in Modes : <<q.row, m>> \in held[u] /\ Conflict(q.mode, m)
  BY DEF Blocks
<1>3. PICK k \in Modes : <<n.row, k>> \in held[v] /\ Conflict(n.mode, k)
  BY DEF Blocks
<1>4. After(q.row, m, n) /\ ~(n.mode = "no_key" /\ n.row # Project)
  BY <1>1, <1>2 DEF Ascending
<1>5. Level(n) = Rank(n.row) /\ Level(n) \in 1..8 /\ Rank(q.row) \in 1..8
  BY <1>4, Ranks DEF Level
<1>6. CASE Rank(q.row) < Rank(n.row)
  BY <1>5, <1>6 DEF Level
<1>7. CASE {q.row, n.row} \subseteq Invoices /\ m = "update" /\ n.mode = "update"
  <2>1. CASE q.mode = "no_key"
    BY <1>5, <1>7, <2>1 DEF Level, LocksAssumption
  <2>2. CASE q.mode # "no_key"
    <3>. DEFINE s == SubOf[q.row]
    <3>1. s \in Subs /\ q.row \in Below(s) /\ q.mode = "update"
      BY <1>1, <1>7, <2>2 DEF LocksAssumption, Below, Family, InvoicesOf, Ordered, Moderate
    <3>2. <<s, "update">> \in held[t]
      <4>1. ASSUME NEW r \in todo[t], r.step < q.step PROVE FALSE
        BY <1>1, <4>1 DEF Front, Requests
      <4>. QED
        BY <1>1, <3>1, <4>1 DEF Guarded
    <3>3. <<s, "update">> \in held[u]
      BY <1>2, <1>7, <3>1 DEF Covered, Below
    <3>. QED
      BY <3>1, <3>2, <3>3 DEF Exclusive
  <2>. QED
    BY <2>1, <2>2
<1>8. CASE n.row = Project /\ n.mode = "key_share"
  BY <1>3, <1>8 DEF Conflict, Ordered
<1>. QED
  BY <1>4, <1>6, <1>7, <1>8 DEF After

\* Transactions that lock rows in these orders never wait for each other in a
\* circle, however many they are and whatever rows they meet on.
THEOREM DeadlockFreeHolds ==
  ASSUME LocksAssumption
  PROVE  LocksSpec => []DeadlockFree
<1>1. ASSUME DeadlockInv PROVE DeadlockFree
  <2>. SUFFICES ASSUME NEW D \in SUBSET Txns, D # {},
                       \A t \in D : \E u \in D : Waits(t, u)
                PROVE  FALSE
    BY DEF DeadlockFree
  <2>. DEFINE At(l) == \E t \in D : \E u \in D, q \in Front(t) :
                         t # u /\ Blocks(u, q) /\ Level(q) = l
  <2>1. \A t \in D : \E u \in D, q \in Front(t) : t # u /\ Blocks(u, q)
    BY DEF Waits
  <2>2. \A q : Level(q) \in 0..8
    BY Ranks DEF Level
  <2>3. \E l \in 0..8 : At(l)
    BY <2>1, <2>2
  <2>4. ASSUME NEW l \in 0..8, At(l) PROVE \E k \in 0..8 : l < k /\ At(k)
    <3>1. PICK t \in D : \E u \in D, q \in Front(t) :
                           t # u /\ Blocks(u, q) /\ Level(q) = l
      BY <2>4
    <3>2. PICK u \in D, q \in Front(t) : t # u /\ Blocks(u, q) /\ Level(q) = l
      BY <3>1
    <3>3. PICK v \in D, n \in Front(u) : u # v /\ Blocks(v, n)
      BY <2>1
    <3>4. l < Level(n)
      BY <1>1, <3>2, <3>3, WaitsFurtherOn
    <3>. QED
      BY <2>1, <2>2, <3>2, <3>3, <3>4
  <2>. HIDE DEF At
  <2>5. ~At(8)
    BY <2>4
  <2>6. ~At(7) /\ ~At(6)
    BY <2>4, <2>5
  <2>7. ~At(5) /\ ~At(4)
    BY <2>4, <2>5, <2>6
  <2>8. ~At(3) /\ ~At(2)
    BY <2>4, <2>5, <2>6, <2>7
  <2>9. ~At(1) /\ ~At(0)
    BY <2>4, <2>5, <2>6, <2>7, <2>8
  <2>. QED
    BY <2>3, <2>5, <2>6, <2>7, <2>8, <2>9
<1>. QED
  BY <1>1, DeadlockInvariant, PTL

-----------------------------------------------------------------------------
(* The upgrade *)

\* What each migration has established, if it has been applied. Once subscriptions
\* are checked, the operator moves nothing any more.
Established ==
  /\ "subscriptions_0003" \in applied =>
       \A s \in OldSubs : ~Mismatched(s) /\ subOrg[s] = customerOrg[OldCustomerOf[s]]
  /\ "invoices_0003" \in applied => invoiceOrg = subOrg /\ lineOrg = subOrg
  /\ "payments_0004" \notin applied => \A e \in OldEvents : eventOrg[e] = Null
  /\ "payments_0004" \in applied =>
       /\ \A a \in OldAttempts : attemptOrg[a] = subOrg[OldSubOf[a]] /\ clientKey[a] # Blank
       /\ \A e \in OldEvents :
            eventOrg[e] = IF About[e] = Unknown THEN Null ELSE attemptOrg[About[e]]
       /\ \A a, b \in OldAttempts :
            clientKey[a] # Null /\ clientKey[a] = clientKey[b] /\ attemptOrg[a] = attemptOrg[b]
              => a = b
  /\ "payments_0005" \in applied => \A a \in OldAttempts : providerKey[a] = a

UpgradeInv == UpgradeTypeOK /\ Established

\* A fresh history has no project anywhere.
LEMMA UpgradeInitHolds ==
  ASSUME UpgradeInit
  PROVE  UpgradeInv
BY DEF UpgradeInit, UpgradeInv, UpgradeTypeOK, Established, MaybeOrg, Migrations

\* The operator corrects rows only before the subscriptions are checked.
LEMMA CorrectStep ==
  ASSUME UpgradeAssumption, UpgradeInv, Correct
  PROVE  UpgradeInv'
<1>. USE DEF UpgradeInv
<1>1. /\ "subscriptions_0003" \notin applied
      /\ UNCHANGED <<applied, subOrg, invoiceOrg, lineOrg, attemptOrg, eventOrg, clientKey,
                     providerKey, eventId>>
  BY DEF Correct, invoiceColumns, attemptColumns, providerColumns
<1>2. customerOrg' \in [OldCustomers -> Projects] /\ planOrg' \in [OldPlans -> Projects]
  BY DEF Correct, UpgradeTypeOK
<1>3. UpgradeTypeOK'
  BY <1>1, <1>2 DEF UpgradeTypeOK
<1>4. Established'
  BY <1>1 DEF Established
<1>. QED
  BY <1>3, <1>4

\* A migration is applied after those it depends on, and moves no customer or plan.
LEMMA Applied ==
  ASSUME UpgradeTypeOK, NEW m \in Migrations, Apply(m)
  PROVE  /\ applied' = applied \cup {m} /\ m \notin applied
         /\ applied' \subseteq Migrations
         /\ \A n \in applied' : Dependencies[n] \subseteq applied'
         /\ customerOrg' = customerOrg /\ planOrg' = planOrg
         /\ \A s \in OldSubs : Mismatched(s)' <=> Mismatched(s)
BY DEF Apply, UpgradeTypeOK, parentColumns, Mismatched

\* What depends on what
LEMMA Chain ==
  ASSUME UpgradeTypeOK
  PROVE  /\ "invoices_0003" \in applied => "subscriptions_0003" \in applied
         /\ "payments_0004" \in applied => "invoices_0003" \in applied
         /\ "payments_0005" \in applied => "payments_0004" \in applied
BY DEF UpgradeTypeOK, Dependencies, Migrations

\* Each migration establishes what it is for, and undoes nothing.
LEMMA MigrateStep ==
  ASSUME UpgradeAssumption, UpgradeInv, Migrate
  PROVE  UpgradeInv'
<1>. USE DEF UpgradeInv
<1>1. CASE Memberships
  <2>1. PICK m \in {"accounts_0002", "accounts_0003"} : Apply(m)
    BY <1>1 DEF Memberships
  <2>2. UNCHANGED <<subOrg, invoiceOrg, lineOrg, attemptOrg, eventOrg, clientKey,
                    providerKey, eventId>>
    BY <1>1 DEF Memberships, invoiceColumns, attemptColumns, providerColumns
  <2>3. m \in Migrations
    BY <2>1 DEF Migrations
  <2>4. UpgradeTypeOK'
    BY <2>1, <2>2, <2>3, Applied DEF UpgradeTypeOK
  <2>5. Established'
    BY <2>1, <2>2, <2>3, Applied DEF Established
  <2>. QED
    BY <2>4, <2>5
<1>2. CASE SubscriptionOrganization
  <2>1. /\ Apply("subscriptions_0003") /\ "subscriptions_0003" \in Migrations
        /\ \A s \in OldSubs : ~Mismatched(s)
        /\ subOrg' = [s \in OldSubs |-> customerOrg[OldCustomerOf[s]]]
        /\ UNCHANGED <<invoiceOrg, lineOrg, attemptOrg, eventOrg, clientKey, providerKey, eventId>>
    BY <1>2 DEF SubscriptionOrganization, Migrations, invoiceColumns, attemptColumns, providerColumns
  <2>2. \A s \in OldSubs : customerOrg[OldCustomerOf[s]] \in Projects
    BY DEF UpgradeTypeOK, UpgradeAssumption
  <2>3. subOrg' \in [OldSubs -> Projects]
    BY <2>1, <2>2
  <2>4. UpgradeTypeOK'
    BY <2>1, <2>3, Applied DEF UpgradeTypeOK
  <2>5. /\ "invoices_0003" \notin applied' /\ "payments_0004" \notin applied'
        /\ "payments_0005" \notin applied'
    BY <2>1, Applied, Chain
  <2>6. Established'
    BY <2>1, <2>5, Applied, Chain DEF Established
  <2>. QED
    BY <2>4, <2>6
<1>3. CASE InvoiceOrganization
  <2>1. /\ Apply("invoices_0003") /\ "invoices_0003" \in Migrations
        /\ invoiceOrg' = subOrg /\ lineOrg' = subOrg
        /\ UNCHANGED <<subOrg, attemptOrg, eventOrg, clientKey, providerKey, eventId>>
    BY <1>3 DEF InvoiceOrganization, Migrations, attemptColumns, providerColumns
  <2>2. "subscriptions_0003" \in applied
    BY <2>1 DEF Apply, Dependencies, Migrations
  <2>3. UpgradeTypeOK'
    BY <2>1, <2>2, Applied DEF UpgradeTypeOK
  <2>4. "payments_0004" \notin applied' /\ "payments_0005" \notin applied'
    BY <2>1, Applied, Chain
  <2>5. Established'
    BY <2>1, <2>2, <2>4, Applied DEF Established
  <2>. QED
    BY <2>3, <2>5
<1>4. CASE PaymentOrganization
  <2>1. /\ Apply("payments_0004") /\ "payments_0004" \in Migrations
        /\ attemptOrg' = [a \in OldAttempts |-> invoiceOrg[OldSubOf[a]]]
        /\ clientKey' = [a \in OldAttempts |-> IF clientKey[a] = Blank THEN Null ELSE clientKey[a]]
        /\ eventOrg' = [e \in OldEvents |->
             IF About[e] = Unknown THEN eventOrg[e] ELSE attemptOrg'[About[e]]]
        /\ UNCHANGED <<subOrg, invoiceOrg, lineOrg, providerKey, eventId>>
    BY <1>4 DEF PaymentOrganization, Migrations, invoiceColumns, providerColumns
  <2>2. "subscriptions_0003" \in applied /\ "invoices_0003" \in applied
    BY <2>1, Chain DEF Apply, Dependencies, Migrations
  <2>3. invoiceOrg = subOrg /\ \A s \in OldSubs : invoiceOrg[s] \in Projects
    BY <2>2 DEF Established, UpgradeTypeOK
  <2>4. attemptOrg' \in [OldAttempts -> Projects]
    BY <2>1, <2>3 DEF UpgradeAssumption
  <2>5. clientKey' \in [OldAttempts -> OldKeys \cup {Blank, Null}]
    BY <2>1 DEF UpgradeTypeOK
  <2>6. eventOrg' \in [OldEvents -> MaybeOrg]
    BY <2>1, <2>4 DEF UpgradeTypeOK, UpgradeAssumption, MaybeOrg
  <2>7. UpgradeTypeOK'
    <3>1. /\ applied' = applied \cup {"payments_0004"} /\ applied' \subseteq Migrations
          /\ \A n \in applied' : Dependencies[n] \subseteq applied'
          /\ customerOrg' = customerOrg /\ planOrg' = planOrg
      BY <2>1, Applied
    <3>. QED
      BY <2>1, <2>2, <2>4, <2>5, <2>6, <3>1 DEF UpgradeTypeOK
  <2>8. \A a \in OldAttempts : attemptOrg'[a] = subOrg'[OldSubOf[a]] /\ clientKey'[a] # Blank
    BY <2>1, <2>3 DEF UpgradeAssumption
  <2>9. \A e \in OldEvents :
          eventOrg'[e] = IF About[e] = Unknown THEN Null ELSE attemptOrg'[About[e]]
    BY <2>1, Applied DEF Established
  <2>10. \A a, b \in OldAttempts :
           clientKey'[a] # Null /\ clientKey'[a] = clientKey'[b] /\ attemptOrg'[a] = attemptOrg'[b]
             => a = b
    BY <1>4 DEF PaymentOrganization
  <2>11. "payments_0005" \notin applied'
    BY <2>1, Applied, Chain
  <2>12. Established'
    <3>1. "payments_0004" \in applied'
      BY <2>1, Applied
    <3>2. \A s \in OldSubs : ~Mismatched(s)' /\ subOrg'[s] = customerOrg'[OldCustomerOf[s]]
      BY <2>1, <2>2, Applied DEF Established
    <3>3. invoiceOrg' = subOrg' /\ lineOrg' = subOrg'
      BY <2>1, <2>2 DEF Established
    <3>. QED
      BY <2>8, <2>9, <2>10, <2>11, <3>1, <3>2, <3>3 DEF Established
  <2>. QED
    BY <2>7, <2>12
<1>5. CASE PaymentGateway
  <2>1. /\ Apply("payments_0005") /\ "payments_0005" \in Migrations
        /\ providerKey' = [a \in OldAttempts |-> a] /\ eventId' = [e \in OldEvents |-> e]
        /\ UNCHANGED <<subOrg, invoiceOrg, lineOrg, attemptOrg, eventOrg, clientKey>>
    BY <1>5 DEF PaymentGateway, Migrations, invoiceColumns, attemptColumns
  <2>2. UpgradeTypeOK'
    BY <2>1, Applied DEF UpgradeTypeOK
  <2>3. Established'
    BY <2>1, Applied DEF Established
  <2>. QED
    BY <2>2, <2>3
<1>. QED
  BY <1>1, <1>2, <1>3, <1>4, <1>5 DEF Migrate

\* The inductive invariant of the upgrade.
THEOREM UpgradeInvariant ==
  ASSUME UpgradeAssumption
  PROVE  UpgradeSpec => []UpgradeInv
<1>1. UpgradeInit => UpgradeInv
  BY UpgradeInitHolds
<1>2. UpgradeInv /\ [UpgradeNext]_upgradeVars => UpgradeInv'
  <2>. SUFFICES ASSUME UpgradeInv, [UpgradeNext]_upgradeVars PROVE UpgradeInv'
    OBVIOUS
  <2>1. CASE Correct
    BY <2>1, CorrectStep
  <2>2. CASE Migrate
    BY <2>2, MigrateStep
  <2>3. CASE UNCHANGED upgradeVars
    BY <2>3 DEF upgradeVars, parentColumns, invoiceColumns, attemptColumns, providerColumns,
                UpgradeInv, UpgradeTypeOK, Established, Mismatched
  <2>. QED
    BY <2>1, <2>2, <2>3 DEF UpgradeNext
<1>. QED
  BY <1>1, <1>2, PTL DEF UpgradeSpec

\* Whatever the history, however often the upgrade stopped and was repeated: once
\* all migrations are applied, the chain of a subscription names one project.
THEOREM UpgradeSafeHolds ==
  ASSUME UpgradeAssumption
  PROVE  UpgradeSpec => []UpgradeSafe
<1>1. ASSUME UpgradeInv PROVE UpgradedAgrees
  <2>. SUFFICES ASSUME applied = Migrations PROVE UpgradedAgrees
    BY DEF UpgradedAgrees
  <2>1. {"subscriptions_0003", "invoices_0003", "payments_0004", "payments_0005"} \subseteq applied
    BY DEF Migrations
  <2>2. \A s \in OldSubs :
          {customerOrg[OldCustomerOf[s]], planOrg[OldPlanOf[s]], invoiceOrg[s], lineOrg[s]}
            = {subOrg[s]}
    BY <1>1, <2>1 DEF UpgradeInv, Established, Mismatched
  <2>3. \A a, b \in OldAttempts :
          /\ providerKey[a] = providerKey[b] => a = b
          /\ <<attemptOrg[a], clientKey[a]>> = <<attemptOrg[b], clientKey[b]>>
               => a = b \/ clientKey[a] = Null
    BY <1>1, <2>1 DEF UpgradeInv, Established
  <2>. QED
    BY <1>1, <2>1, <2>2, <2>3 DEF UpgradeInv, Established, UpgradedAgrees
<1>2. UpgradeInv => UpgradeSafe
  BY <1>1 DEF UpgradeInv, UpgradeSafe
<1>. QED
  BY <1>2, UpgradeInvariant, PTL

\* What the guards of Migrate ask: a migration whose dependencies are applied, and
\* client keys that are unique in any project once those left empty are none. It
\* is NeverStuck without its ENABLED.
GuardsMet ==
  /\ applied # Migrations => \E m \in Migrations \ applied : Dependencies[m] \subseteq applied
  /\ "payments_0004" \notin applied =>
       \A a, b \in OldAttempts : clientKey[a] = clientKey[b] => a = b \/ clientKey[a] \in {Blank, Null}

KeysUnique ==
  "payments_0004" \notin applied =>
    \A a, b \in OldAttempts : clientKey[a] = clientKey[b] => a = b \/ clientKey[a] = Null

\* From any history, and wherever the upgrade stopped, no row but a mismatched
\* subscription keeps the next migration from being applied.
THEOREM GuardsHold ==
  ASSUME UpgradeAssumption
  PROVE  UpgradeSpec => []GuardsMet
<1>1. UpgradeInit => KeysUnique
  BY DEF UpgradeInit, KeysUnique
<1>2. UpgradeInv /\ KeysUnique /\ [UpgradeNext]_upgradeVars => KeysUnique'
  <2>. SUFFICES ASSUME UpgradeInv, KeysUnique, [UpgradeNext]_upgradeVars,
                       "payments_0004" \notin applied'
                PROVE  KeysUnique'
    BY DEF KeysUnique
  <2>1. clientKey' = clientKey /\ "payments_0004" \notin applied
    <3>1. CASE Correct
      BY <3>1 DEF Correct, attemptColumns
    <3>2. CASE Migrate
      <4>1. ~PaymentOrganization /\ "payments_0004" \notin applied
        BY <3>2 DEF PaymentOrganization, Migrate, Memberships, SubscriptionOrganization,
                    InvoiceOrganization, PaymentGateway, Apply
      <4>. QED
        BY <3>2, <4>1 DEF Migrate, Memberships, SubscriptionOrganization,
                          InvoiceOrganization, PaymentGateway, attemptColumns
    <3>3. CASE UNCHANGED upgradeVars
      BY <3>3 DEF upgradeVars, attemptColumns
    <3>. QED
      BY <3>1, <3>2, <3>3 DEF UpgradeNext
  <2>. QED
    BY <2>1 DEF KeysUnique
<1>3. UpgradeInv /\ KeysUnique => GuardsMet
  <2>. SUFFICES ASSUME UpgradeInv, KeysUnique, applied # Migrations
                PROVE  \E m \in Migrations \ applied : Dependencies[m] \subseteq applied
    BY DEF KeysUnique, GuardsMet
  <2>1. PICK m \in Migrations : m \notin applied
    BY DEF UpgradeInv, UpgradeTypeOK
  <2>2. /\ Dependencies["accounts_0002"] = {} /\ Dependencies["subscriptions_0003"] = {}
        /\ Dependencies["accounts_0003"] = {"accounts_0002"}
        /\ Dependencies["invoices_0003"] = {"subscriptions_0003"}
        /\ Dependencies["payments_0004"] = {"invoices_0003"}
        /\ Dependencies["payments_0005"] = {"payments_0004", "accounts_0003"}
    BY DEF Dependencies, Migrations
  <2>. QED
    BY <2>1, <2>2 DEF Migrations
<1>. QED
  BY <1>1, <1>2, <1>3, UpgradeInvariant, PTL DEF UpgradeSpec

=============================================================================
