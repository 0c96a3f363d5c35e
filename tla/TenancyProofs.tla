--------------------------- MODULE TenancyProofs ---------------------------
(***************************************************************************)
(* Proofs about module Tenancy, for any number of rows and connections,    *)
(* and whichever plans are deleted. A plan that is not there is not locked *)
(* by those who look for it, so what holds by its lock holds only of rows  *)
(* that stay: customers, and plans that nobody deletes.                    *)
(*                                                                         *)
(* The argument is the one of the code's comment on lock_parents: whoever  *)
(* is about to write has its rule checked (Checked) under locks (Locked)   *)
(* that exclude every other writer that could falsify the rule (Excluded). *)
(***************************************************************************)
EXTENDS Tenancy, TLAPS

\* What each kind of job may be working on: rows that are there, if they stay.
Sensible ==
  \A t \in Txns :
    LET j == job[t] IN
    /\ at[t] # "idle" => j.op # "none"
    /\ j.op \in {"create", "edit"} =>
         /\ j.customer \in Customers /\ owner[j.customer] # None
         /\ j.plan \in Plans /\ (j.plan \notin Deletable => owner[j.plan] # None)
    /\ j.op = "create" => at[t] # "row"
    /\ j.op = "edit" => j.row \in Subs /\ parents[j.row] # None /\ j.org \in Orgs
    /\ j.op = "save" => /\ at[t] \notin {"customer", "plan"}
                        /\ j.row \in Parents
                        /\ j.row \notin Deletable => owner[j.row] # None
                        /\ j.org \in Orgs
                        /\ j.archive => j.row \in Plans
    /\ j.op = "delete" => at[t] \notin {"customer", "plan", "check"} /\ j.row \in Deletable

\* Locks that exclude each other are not held by two transactions.
Excluded ==
  \A t, u \in Txns : \A r \in Rows :
    t # u /\ <<r, "update">> \in held[t] =>
      <<r, "update">> \notin held[u] /\ <<r, "share">> \notin held[u]

\* An edit that reached its check without parent locks keeps its parents.
Kept(t) == parents[job[t].row] = <<job[t].customer, job[t].plan>>

SharesParents(t) ==
  /\ <<job[t].customer, "share">> \in held[t]
  /\ job[t].plan \notin Deletable => <<job[t].plan, "share">> \in held[t]

\* The instance's own row is locked for good: it was there.
OwnsRow(t) ==
  job[t].op = "edit" \/ (job[t].op = "save" /\ job[t].row \notin Deletable)

\* The locks that t has taken on its way.
Holds(t) ==
  /\ at[t] = "plan" => <<job[t].customer, "share">> \in held[t]
  /\ at[t] \in {"customer", "plan", "check", "write"} /\ OwnsRow(t) =>
       <<job[t].row, "update">> \in held[t]
  /\ at[t] \in {"check", "write"} =>
       /\ job[t].op = "create" => SharesParents(t)
       /\ job[t].op = "edit" => Kept(t) \/ SharesParents(t)

Locked == \A t \in Txns : Holds(t)

\* The rule of t's operation, at its write, as far as it is about rows that stay.
Ready(t) ==
  LET j == job[t] IN
  at[t] = "write" =>
    /\ j.op = "create" /\ j.plan \notin Deletable => MayCreate(j.customer, j.plan)
    /\ j.op = "edit" => /\ owner[j.customer] = j.org /\ project[j.row] = j.org
                        /\ j.plan \notin Deletable => owner[j.plan] = j.org
    /\ j.op = "save" /\ j.row \notin Deletable => MayMove(j.row, j.org)

\* The rule of an operation still holds when it writes.
Checked == \A t \in Txns : Ready(t)

\* A subscription row has a project.
Rooted == \A s \in Subs : parents[s] = None <=> project[s] = None

Owned == OwnershipAgrees /\ Rooted

TenancyInv ==
  TenancyTypeOK /\ Sensible /\ Excluded /\ Locked /\ Checked /\ Owned

-----------------------------------------------------------------------------
(* What a step that locks does *)

\* The instance's own row is locked, if it is there.
LEMMA RowLocked ==
  ASSUME TenancyAssumption, TenancyTypeOK, Sensible, NEW t \in Txns, LockRow(t)
  PROVE  /\ job[t].op \in {"edit", "save", "delete"} /\ job[t].row \in Rows
         /\ at[t] = "row" /\ Free(t, job[t].row, "update")
         /\ \/ held' = [held EXCEPT ![t] = @ \cup {<<job[t].row, "update">>}]
            \/ held' = held /\ ~OwnsRow(t)
         /\ at' = [at EXCEPT ![t] = IF job[t].op = "edit" /\ ~Kept(t) THEN "customer"
                                    ELSE IF job[t].op = "delete" THEN "write" ELSE "check"]
         /\ UNCHANGED <<rowVars, job>>
<1>1. job[t].op \in {"edit", "save", "delete"}
  BY DEF LockRow, Sensible, TenancyTypeOK, Jobs
<1>2. job[t].row \in Rows
  BY <1>1 DEF Sensible, Rows, Parents, TenancyAssumption
<1>3. OwnsRow(t) => Exists(job[t].row)
  BY <1>1 DEF Sensible, Exists, OwnsRow, Rows, Parents, TenancyAssumption
<1>4. held' = held \/ held' = [held EXCEPT ![t] = @ \cup {<<job[t].row, "update">>}]
  BY DEF LockRow, Lock, TenancyTypeOK
<1>5. Exists(job[t].row) => held' = [held EXCEPT ![t] = @ \cup {<<job[t].row, "update">>}]
  BY DEF LockRow, Lock
<1>. QED
  BY <1>1, <1>2, <1>3, <1>4, <1>5 DEF LockRow, Lock, Goto, Kept

\* The customer is locked, by an operation that locks it.
LEMMA CustomerLocked ==
  ASSUME TenancyAssumption, TenancyTypeOK, Sensible, NEW t \in Txns, LockCustomer(t)
  PROVE  /\ job[t].op \in {"create", "edit"} /\ job[t].customer \in Rows
         /\ at[t] = "customer" /\ Free(t, job[t].customer, "share")
         /\ held' = [held EXCEPT ![t] = @ \cup {<<job[t].customer, "share">>}]
         /\ at' = [at EXCEPT ![t] = "plan"]
         /\ UNCHANGED <<rowVars, job>>
<1>1. job[t].op \in {"create", "edit"}
  BY DEF LockCustomer, Sensible, TenancyTypeOK, Jobs
<1>2. job[t].customer \in Rows /\ Exists(job[t].customer)
  BY <1>1 DEF Sensible, Exists, Rows, Parents, TenancyAssumption
<1>. QED
  BY <1>1, <1>2 DEF LockCustomer, Lock, Goto

\* The plan is locked, by an operation that locks it, if it is there.
LEMMA PlanLocked ==
  ASSUME TenancyAssumption, TenancyTypeOK, Sensible, NEW t \in Txns, LockPlan(t)
  PROVE  /\ job[t].op \in {"create", "edit"} /\ job[t].plan \in Rows
         /\ at[t] = "plan" /\ Free(t, job[t].plan, "share")
         /\ \/ held' = [held EXCEPT ![t] = @ \cup {<<job[t].plan, "share">>}]
            \/ held' = held /\ job[t].plan \in Deletable
         /\ at' = [at EXCEPT ![t] = "check"]
         /\ UNCHANGED <<rowVars, job>>
<1>1. job[t].op \in {"create", "edit"}
  BY DEF LockPlan, Sensible, TenancyTypeOK, Jobs
<1>2. job[t].plan \in Rows
  BY <1>1 DEF Sensible, Rows, Parents
<1>3. job[t].plan \notin Deletable => Exists(job[t].plan)
  BY <1>1 DEF Sensible, Exists, Rows, Parents, TenancyAssumption
<1>4. held' = held \/ held' = [held EXCEPT ![t] = @ \cup {<<job[t].plan, "share">>}]
  BY DEF LockPlan, Lock, TenancyTypeOK
<1>5. Exists(job[t].plan) => held' = [held EXCEPT ![t] = @ \cup {<<job[t].plan, "share">>}]
  BY DEF LockPlan, Lock
<1>. QED
  BY <1>1, <1>2, <1>3, <1>4, <1>5 DEF LockPlan, Lock, Goto

-----------------------------------------------------------------------------
(* Every operation keeps the types *)

\* A transaction starts with a job that is one, at its first lock.
LEMMA StartTyped ==
  ASSUME TenancyTypeOK, NEW t \in Txns, NEW step \in {"row", "customer"},
         NEW task \in Jobs, Start(t, step, task)
  PROVE  TenancyTypeOK'
BY DEF Start, rowVars, TenancyTypeOK

\* A transaction that ends leaves nothing behind.
LEMMA EndTyped ==
  ASSUME NEW t \in Txns, TenancyTypeOK, End(t)
  PROVE  /\ at' \in [Txns -> {"idle", "row", "customer", "plan", "check", "write"}]
         /\ job' \in [Txns -> Jobs]
         /\ held' \in [Txns -> SUBSET (Rows \X {"share", "update"})]
         /\ \A u \in Txns : at'[u] = "idle" => job'[u] = Nothing /\ held'[u] = {}
BY DEF End, TenancyTypeOK, Jobs, Nothing

\* Types are kept by every step.
LEMMA TypingStep ==
  ASSUME TenancyAssumption, TenancyTypeOK, Sensible, [TenancyNext]_tenancyVars
  PROVE  TenancyTypeOK'
<1>1. CASE UNCHANGED tenancyVars
  BY <1>1 DEF tenancyVars, rowVars, txnVars, TenancyTypeOK
<1>2. ASSUME NEW r \in Parents, NEW o \in Orgs, Add(r, o) PROVE TenancyTypeOK'
  BY <1>2 DEF Add, txnVars, TenancyTypeOK
<1>3. ASSUME NEW t \in Txns, NEW r \in Parents, NEW o \in Orgs, NEW arch \in BOOLEAN,
             StartSave(t, r, o, arch)
      PROVE  TenancyTypeOK'
  BY <1>3, StartTyped DEF StartSave, Jobs, Rows
<1>4. ASSUME NEW t \in Txns, NEW p \in Deletable, StartDelete(t, p) PROVE TenancyTypeOK'
  BY <1>4, StartTyped DEF StartDelete, Jobs, Rows, Parents, TenancyAssumption
<1>5. ASSUME NEW t \in Txns, NEW c \in Customers, NEW p \in Plans, StartCreate(t, c, p)
      PROVE  TenancyTypeOK'
  BY <1>5, StartTyped DEF StartCreate, Jobs
<1>6. ASSUME NEW t \in Txns, NEW s \in Subs, NEW c \in Customers, NEW p \in Plans,
             NEW o \in Orgs, StartEdit(t, s, c, p, o)
      PROVE  TenancyTypeOK'
  BY <1>6, StartTyped DEF StartEdit, Jobs, Rows
<1>7. ASSUME NEW t \in Txns, LockRow(t) PROVE TenancyTypeOK'
  BY <1>7, RowLocked DEF rowVars, TenancyTypeOK
<1>8. ASSUME NEW t \in Txns, LockCustomer(t) PROVE TenancyTypeOK'
  BY <1>8, CustomerLocked DEF rowVars, TenancyTypeOK
<1>9. ASSUME NEW t \in Txns, LockPlan(t) PROVE TenancyTypeOK'
  BY <1>9, PlanLocked DEF rowVars, TenancyTypeOK
<1>10. ASSUME NEW t \in Txns, Check(t) PROVE TenancyTypeOK'
  BY <1>10 DEF Check, Goto, rowVars, TenancyTypeOK
<1>11. ASSUME NEW t \in Txns, Rollback(t) PROVE TenancyTypeOK'
  BY <1>11, EndTyped DEF Rollback, rowVars, TenancyTypeOK
<1>12. ASSUME NEW t \in Txns, WriteSave(t) PROVE TenancyTypeOK'
  <2>1. job[t].row \in Parents /\ job[t].org \in Orgs
    BY <1>12 DEF WriteSave, Sensible
  <2>2. owner' \in [Parents -> Orgs \cup {None}]
    BY <1>12, <2>1 DEF WriteSave, TenancyTypeOK
  <2>3. job[t].archive => job[t].row \in Plans
    BY <1>12 DEF WriteSave, Sensible
  <2>. QED
    BY <1>12, <2>2, <2>3, EndTyped DEF WriteSave, TenancyTypeOK
<1>13. ASSUME NEW t \in Txns, WriteDelete(t) PROVE TenancyTypeOK'
  <2>1. job[t].row \in Plans
    BY <1>13 DEF WriteDelete, Sensible, TenancyAssumption
  <2>2. owner' \in [Parents -> Orgs \cup {None}]
    BY <1>13, <2>1 DEF WriteDelete, TenancyTypeOK
  <2>. QED
    BY <1>13, <2>2, EndTyped DEF WriteDelete, TenancyTypeOK
<1>14. ASSUME NEW t \in Txns, WriteEdit(t) PROVE TenancyTypeOK'
  BY <1>14, EndTyped DEF WriteEdit, Sensible, TenancyTypeOK
<1>15. ASSUME NEW t \in Txns, NEW s \in Subs, WriteCreate(t, s) PROVE TenancyTypeOK'
  <2>1. job[t].customer \in Customers /\ job[t].plan \in Plans
    BY <1>15 DEF WriteCreate, Sensible
  <2>2. owner[job[t].customer] \in Orgs \cup {None}
    BY <2>1 DEF TenancyTypeOK, Parents
  <2>. QED
    BY <1>15, <2>1, <2>2, EndTyped DEF WriteCreate, TenancyTypeOK
<1>. QED
  BY <1>1, <1>2, <1>3, <1>4, <1>5, <1>6, <1>7, <1>8, <1>9, <1>10, <1>11, <1>12,
     <1>13, <1>14, <1>15
  DEF TenancyNext
-----------------------------------------------------------------------------
(* What a transaction has in memory stays sensible *)

\* Rows that stay are still there after a step.
StillThere ==
  /\ \A r \in Parents \ Deletable : owner[r] # None => owner'[r] # None
  /\ \A s \in Subs : parents[s] # None => parents'[s] # None

\* What the job of a transaction that makes no step is about is still there.
LEMMA SensibleKept ==
  ASSUME TenancyAssumption, TenancyTypeOK, Sensible, StillThere,
         NEW t \in Txns, job'[t] = job[t], at'[t] = at[t]
  PROVE  LET j == job'[t] IN
         /\ at'[t] # "idle" => j.op # "none"
         /\ j.op \in {"create", "edit"} =>
              /\ j.customer \in Customers /\ owner'[j.customer] # None
              /\ j.plan \in Plans /\ (j.plan \notin Deletable => owner'[j.plan] # None)
         /\ j.op = "create" => at'[t] # "row"
         /\ j.op = "edit" => j.row \in Subs /\ parents'[j.row] # None /\ j.org \in Orgs
         /\ j.op = "save" => /\ at'[t] \notin {"customer", "plan"}
                             /\ j.row \in Parents
                             /\ j.row \notin Deletable => owner'[j.row] # None
                             /\ j.org \in Orgs
                             /\ j.archive => j.row \in Plans
         /\ j.op = "delete" => /\ at'[t] \notin {"customer", "plan", "check"}
                               /\ j.row \in Deletable
BY DEF Sensible, StillThere, Parents, TenancyAssumption

\* A transaction that ends leaves the others' jobs alone, and none of its own.
LEMMA SensibleEnd ==
  ASSUME TenancyAssumption, TenancyTypeOK, Sensible, StillThere, NEW t \in Txns, End(t)
  PROVE  Sensible'
<1>1. job'[t] = Nothing /\ at'[t] = "idle"
  BY DEF End, TenancyTypeOK
<1>2. \A u \in Txns \ {t} : job'[u] = job[u] /\ at'[u] = at[u]
  BY DEF End, TenancyTypeOK
<1>. QED
  BY <1>1, <1>2, SensibleKept DEF Sensible, Nothing

\* A step that only moves one transaction on.
LEMMA SensibleOn ==
  ASSUME TenancyTypeOK, Sensible, NEW t \in Txns, NEW step,
         at' = [at EXCEPT ![t] = step], at[t] # "idle",
         job[t].op = "create" => step # "row",
         job[t].op = "save" => step \notin {"customer", "plan"},
         job[t].op = "delete" => step \notin {"customer", "plan", "check"},
         UNCHANGED <<rowVars, job>>
  PROVE  Sensible'
BY DEF Sensible, rowVars, TenancyTypeOK

\* A transaction that starts.
LEMMA SensibleStart ==
  ASSUME TenancyTypeOK, Sensible, NEW t \in Txns, NEW step \in {"row", "customer"},
         NEW task, Start(t, step, task),
         task.op \in {"create", "edit", "save", "delete"},
         task.op \in {"create", "edit"} =>
           /\ task.customer \in Customers /\ owner[task.customer] # None
           /\ task.plan \in Plans /\ owner[task.plan] # None,
         task.op = "create" => step # "row",
         task.op = "edit" =>
           task.row \in Subs /\ parents[task.row] # None /\ task.org \in Orgs,
         task.op = "save" => /\ step = "row"
                             /\ task.row \in Parents /\ owner[task.row] # None
                             /\ task.org \in Orgs
                             /\ task.archive => task.row \in Plans,
         task.op = "delete" => step = "row" /\ task.row \in Deletable
  PROVE  Sensible'
<1>1. job'[t] = task /\ at'[t] = step
  BY DEF Start, TenancyTypeOK
<1>2. \A u \in Txns \ {t} : job'[u] = job[u] /\ at'[u] = at[u]
  BY DEF Start, TenancyTypeOK
<1>. QED
  BY <1>1, <1>2 DEF Sensible, Start, rowVars

\* Every step keeps the jobs sensible.
LEMMA SensibleStep ==
  ASSUME TenancyAssumption, TenancyTypeOK, Sensible, [TenancyNext]_tenancyVars
  PROVE  Sensible'
<1>1. CASE UNCHANGED tenancyVars
  BY <1>1 DEF tenancyVars, rowVars, txnVars, Sensible
<1>2. ASSUME NEW r \in Parents, NEW o \in Orgs, Add(r, o) PROVE Sensible'
  <2>1. \A q \in Parents : owner[q] # None => owner'[q] # None
    BY <1>2 DEF Add, TenancyTypeOK
  <2>. QED
    BY <1>2, <2>1 DEF Add, txnVars, Sensible, Parents
<1>3. ASSUME NEW t \in Txns, NEW r \in Parents, NEW o \in Orgs, NEW arch \in BOOLEAN,
             StartSave(t, r, o, arch)
      PROVE  Sensible'
  BY <1>3, SensibleStart DEF StartSave
<1>4. ASSUME NEW t \in Txns, NEW c \in Customers, NEW p \in Plans, StartCreate(t, c, p)
      PROVE  Sensible'
  BY <1>4, SensibleStart DEF StartCreate, Agree
<1>5. ASSUME NEW t \in Txns, NEW s \in Subs, NEW c \in Customers, NEW p \in Plans,
             NEW o \in Orgs, StartEdit(t, s, c, p, o)
      PROVE  Sensible'
  <2>1. parents[s] # None /\ owner[c] # None /\ owner[p] # None
    BY <1>5 DEF StartEdit, Exists, Parents, TenancyAssumption
  <2>. QED
    BY <1>5, <2>1, SensibleStart DEF StartEdit
<1>6. ASSUME NEW t \in Txns, LockRow(t) PROVE Sensible'
  BY <1>6, RowLocked, SensibleOn
<1>7. ASSUME NEW t \in Txns, LockCustomer(t) PROVE Sensible'
  BY <1>7, CustomerLocked, SensibleOn
<1>8. ASSUME NEW t \in Txns, LockPlan(t) PROVE Sensible'
  BY <1>8, PlanLocked, SensibleOn
<1>9. ASSUME NEW t \in Txns, Check(t) PROVE Sensible'
  BY <1>9, SensibleOn DEF Check, Goto, Sensible
<1>10. ASSUME NEW t \in Txns, Rollback(t) PROVE Sensible'
  BY <1>10, SensibleEnd DEF Rollback, rowVars, StillThere
<1>11. ASSUME NEW t \in Txns, WriteSave(t) PROVE Sensible'
  <2>1. StillThere
    BY <1>11 DEF WriteSave, Sensible, StillThere, TenancyTypeOK, TenancyAssumption
  <2>. QED
    BY <1>11, <2>1, SensibleEnd DEF WriteSave
<1>12. ASSUME NEW t \in Txns, WriteDelete(t) PROVE Sensible'
  <2>1. StillThere
    BY <1>12 DEF WriteDelete, Sensible, StillThere, TenancyTypeOK
  <2>. QED
    BY <1>12, <2>1, SensibleEnd DEF WriteDelete
<1>13. ASSUME NEW t \in Txns, WriteEdit(t) PROVE Sensible'
  <2>1. StillThere
    BY <1>13 DEF WriteEdit, Sensible, StillThere, TenancyTypeOK, TenancyAssumption
  <2>. QED
    BY <1>13, <2>1, SensibleEnd DEF WriteEdit
<1>14. ASSUME NEW t \in Txns, NEW s \in Subs, WriteCreate(t, s) PROVE Sensible'
  <2>1. StillThere
    <3>1. <<job[t].customer, job[t].plan>> # None
      BY <1>14 DEF WriteCreate, Sensible, TenancyAssumption
    <3>. QED
      BY <1>14, <3>1 DEF WriteCreate, StillThere, TenancyTypeOK
  <2>. QED
    BY <1>14, <2>1, SensibleEnd DEF WriteCreate
<1>15. ASSUME NEW t \in Txns, NEW p \in Deletable, StartDelete(t, p) PROVE Sensible'
  BY <1>15, SensibleStart DEF StartDelete
<1>. QED
  BY <1>1, <1>2, <1>3, <1>4, <1>5, <1>6, <1>7, <1>8, <1>9, <1>10, <1>11, <1>12,
     <1>13, <1>14, <1>15
  DEF TenancyNext
-----------------------------------------------------------------------------
(* Locks *)

\* A lock is only given if it is free.
LEMMA ExcludedLock ==
  ASSUME TenancyTypeOK, Excluded, NEW t \in Txns, NEW r \in Rows,
         NEW mode \in {"share", "update"}, Free(t, r, mode),
         held' = [held EXCEPT ![t] = @ \cup {<<r, mode>>}]
  PROVE  Excluded'
BY DEF Excluded, Free, TenancyTypeOK

\* No step hands out two locks that exclude each other.
LEMMA ExcludedStep ==
  ASSUME TenancyAssumption, TenancyTypeOK, Sensible, Excluded, [TenancyNext]_tenancyVars
  PROVE  Excluded'
<1>1. CASE UNCHANGED held
  BY <1>1 DEF Excluded
<1>2. ASSUME NEW t \in Txns, End(t) PROVE Excluded'
  BY <1>2 DEF End, Excluded, TenancyTypeOK
<1>3. ASSUME NEW t \in Txns, LockRow(t) PROVE Excluded'
  <2>1. job[t].row \in Rows /\ Free(t, job[t].row, "update")
    BY <1>3, RowLocked
  <2>2. held' = held \/ held' = [held EXCEPT ![t] = @ \cup {<<job[t].row, "update">>}]
    BY <1>3, RowLocked
  <2>. QED
    BY <1>1, <2>1, <2>2, ExcludedLock
<1>4. ASSUME NEW t \in Txns, LockCustomer(t) PROVE Excluded'
  BY <1>4, CustomerLocked, ExcludedLock
<1>5. ASSUME NEW t \in Txns, LockPlan(t) PROVE Excluded'
  <2>1. job[t].plan \in Rows /\ Free(t, job[t].plan, "share")
    BY <1>5, PlanLocked
  <2>2. held' = held \/ held' = [held EXCEPT ![t] = @ \cup {<<job[t].plan, "share">>}]
    BY <1>5, PlanLocked
  <2>. QED
    BY <1>1, <2>1, <2>2, ExcludedLock
<1>. QED
  BY <1>1, <1>2, <1>3, <1>4, <1>5
  DEF TenancyNext, tenancyVars, txnVars, Add, StartSave, StartDelete, StartCreate,
      StartEdit, Start, Check, Rollback, WriteSave, WriteDelete, WriteEdit, WriteCreate

\* A step of another transaction leaves a transaction's locks and job, and the
\* parents of a subscription that it has locked.
LEMMA HoldsOther ==
  ASSUME TenancyTypeOK, Sensible, Excluded, Locked, NEW u \in Txns, NEW t \in Txns \ {u},
         at'[u] = at[u], job'[u] = job[u], held'[u] = held[u],
         \A s \in Subs : parents[s] # None /\ parents'[s] # parents[s] =>
           <<s, "update">> \in held[t]
  PROVE  Holds(u)'
<1>1. Holds(u)
  BY DEF Locked, OwnsRow, Holds
<1>2. CASE at[u] \in {"check", "write"} /\ job[u].op = "edit" /\ Kept(u)
  <2>1. job[u].row \in Subs /\ parents[job[u].row] # None
    BY <1>2 DEF Sensible
  <2>2. <<job[u].row, "update">> \in held[u]
    BY <1>1, <1>2 DEF Holds, OwnsRow
  <2>3. parents'[job[u].row] = parents[job[u].row]
    BY <2>1, <2>2 DEF Excluded, Rows
  <2>. QED
    BY <1>1, <1>2, <2>3 DEF Holds, OwnsRow, SharesParents, Kept
<1>3. CASE ~(at[u] \in {"check", "write"} /\ job[u].op = "edit" /\ Kept(u))
  BY <1>1, <1>3 DEF Holds, OwnsRow, SharesParents, Kept
<1>. QED
  BY <1>2, <1>3

\* A transaction that ends or starts has no lock to account for.
LEMMA HoldsEnd ==
  ASSUME TenancyTypeOK, Sensible, Excluded, Locked, NEW t \in Txns, End(t),
         \A s \in Subs : parents[s] # None /\ parents'[s] # parents[s] =>
           <<s, "update">> \in held[t]
  PROVE  Locked'
<1>1. at'[t] = "idle"
  BY DEF End, TenancyTypeOK
<1>2. \A u \in Txns \ {t} : at'[u] = at[u] /\ job'[u] = job[u] /\ held'[u] = held[u]
  BY DEF End, TenancyTypeOK
<1>3. \A u \in Txns \ {t} : Holds(u)'
  BY <1>2, HoldsOther
<1>. QED
  BY <1>1, <1>3 DEF Locked, OwnsRow, Holds

\* A step that locks or checks for t, with the subscriptions as they are.
LEMMA HoldsOn ==
  ASSUME TenancyTypeOK, Sensible, Excluded, Locked, NEW t \in Txns,
         NEW step, at' = [at EXCEPT ![t] = step],
         \A u \in Txns \ {t} : held'[u] = held[u],
         UNCHANGED <<rowVars, job>>,
         Holds(t)'
  PROVE  Locked'
<1>1. \A u \in Txns \ {t} : at'[u] = at[u] /\ job'[u] = job[u]
  BY DEF TenancyTypeOK
<1>2. \A u \in Txns \ {t} : Holds(u)'
  BY <1>1, HoldsOther DEF rowVars
<1>. QED
  BY <1>2 DEF Locked, OwnsRow, Holds

\* A transaction that starts is before its first lock.
LEMMA HoldsStart ==
  ASSUME TenancyTypeOK, Sensible, Excluded, Locked, NEW t \in Txns,
         NEW step, NEW task, Start(t, step, task),
         \/ step = "row"
         \/ step = "customer" /\ task.op = "create"
  PROVE  Locked'
<1>1. at'[t] = step /\ job'[t] = task
  BY DEF Start, TenancyTypeOK
<1>2. \A u \in Txns \ {t} : at'[u] = at[u] /\ job'[u] = job[u] /\ held'[u] = held[u]
  BY DEF Start, TenancyTypeOK
<1>3. \A u \in Txns \ {t} : Holds(u)'
  BY <1>2, HoldsOther DEF Start, rowVars
<1>. QED
  BY <1>1, <1>3 DEF Locked, OwnsRow, Holds

\* Every step keeps the account of the locks.
LEMMA LockedStep ==
  ASSUME TenancyAssumption, TenancyTypeOK, Sensible, Excluded, Locked,
         [TenancyNext]_tenancyVars
  PROVE  Locked'
<1>1. CASE UNCHANGED tenancyVars
  BY <1>1 DEF tenancyVars, rowVars, txnVars, Locked, Holds, OwnsRow, SharesParents, Kept
<1>2. ASSUME NEW r \in Parents, NEW o \in Orgs, Add(r, o) PROVE Locked'
  BY <1>2 DEF Add, txnVars, Locked, Holds, OwnsRow, SharesParents, Kept
<1>3. ASSUME NEW t \in Txns, NEW r \in Parents, NEW o \in Orgs, NEW arch \in BOOLEAN,
             StartSave(t, r, o, arch)
      PROVE  Locked'
  BY <1>3, HoldsStart DEF StartSave
<1>4. ASSUME NEW t \in Txns, NEW p \in Deletable, StartDelete(t, p) PROVE Locked'
  BY <1>4, HoldsStart DEF StartDelete
<1>5. ASSUME NEW t \in Txns, NEW c \in Customers, NEW p \in Plans, StartCreate(t, c, p)
      PROVE  Locked'
  BY <1>5, HoldsStart DEF StartCreate
<1>6. ASSUME NEW t \in Txns, NEW s \in Subs, NEW c \in Customers, NEW p \in Plans,
             NEW o \in Orgs, StartEdit(t, s, c, p, o)
      PROVE  Locked'
  BY <1>6, HoldsStart DEF StartEdit
<1>7. ASSUME NEW t \in Txns, LockRow(t) PROVE Locked'
  <2>. DEFINE step == IF job[t].op = "edit" /\ ~Kept(t) THEN "customer"
                      ELSE IF job[t].op = "delete" THEN "write" ELSE "check"
  <2>1. /\ job[t].op \in {"edit", "save", "delete"}
        /\ \/ held' = [held EXCEPT ![t] = @ \cup {<<job[t].row, "update">>}]
           \/ held' = held /\ ~OwnsRow(t)
        /\ at' = [at EXCEPT ![t] = step]
        /\ UNCHANGED <<rowVars, job>>
    BY <1>7, RowLocked
  <2>2. Holds(t)'
    BY <2>1 DEF Holds, OwnsRow, SharesParents, Kept, rowVars, TenancyTypeOK
  <2>3. \A u \in Txns \ {t} : held'[u] = held[u]
    BY <2>1 DEF TenancyTypeOK
  <2>. QED
    BY <2>1, <2>2, <2>3, HoldsOn
<1>8. ASSUME NEW t \in Txns, LockCustomer(t) PROVE Locked'
  <2>1. /\ job[t].op \in {"create", "edit"} /\ at[t] = "customer"
        /\ held' = [held EXCEPT ![t] = @ \cup {<<job[t].customer, "share">>}]
        /\ at' = [at EXCEPT ![t] = "plan"]
        /\ UNCHANGED <<rowVars, job>>
    BY <1>8, CustomerLocked
  <2>2. Holds(t)'
    BY <2>1 DEF Locked, OwnsRow, Holds, SharesParents, Kept, rowVars, TenancyTypeOK
  <2>3. \A u \in Txns \ {t} : held'[u] = held[u]
    BY <2>1 DEF TenancyTypeOK
  <2>. QED
    BY <2>1, <2>2, <2>3, HoldsOn
<1>9. ASSUME NEW t \in Txns, LockPlan(t) PROVE Locked'
  <2>1. /\ job[t].op \in {"create", "edit"} /\ at[t] = "plan"
        /\ \/ held' = [held EXCEPT ![t] = @ \cup {<<job[t].plan, "share">>}]
           \/ held' = held /\ job[t].plan \in Deletable
        /\ at' = [at EXCEPT ![t] = "check"]
        /\ UNCHANGED <<rowVars, job>>
    BY <1>9, PlanLocked
  <2>2. /\ at'[t] = "check" /\ held[t] \subseteq held'[t]
        /\ job[t].plan \notin Deletable => <<job[t].plan, "share">> \in held'[t]
    BY <2>1 DEF TenancyTypeOK
  <2>3. /\ <<job[t].customer, "share">> \in held[t]
        /\ OwnsRow(t) => <<job[t].row, "update">> \in held[t]
    BY <2>1 DEF Locked, Holds
  <2>4. Holds(t)'
    <3>1. SharesParents(t)' /\ (OwnsRow(t)' <=> OwnsRow(t))
      BY <2>1, <2>2, <2>3 DEF SharesParents, OwnsRow
    <3>2. OwnsRow(t)' => (<<job[t].row, "update">> \in held[t])'
      BY <3>1, <2>1, <2>2, <2>3
    <3>. QED
      BY <3>1, <3>2, <2>2 DEF Holds
  <2>5. \A u \in Txns \ {t} : held'[u] = held[u]
    BY <2>1 DEF TenancyTypeOK
  <2>. QED
    BY <2>1, <2>4, <2>5, HoldsOn
<1>10. ASSUME NEW t \in Txns, Check(t) PROVE Locked'
  <2>1. Holds(t)'
    BY <1>10 DEF Check, Goto, Locked, OwnsRow, Holds, SharesParents, Kept, rowVars,
                 TenancyTypeOK
  <2>. QED
    BY <1>10, <2>1, HoldsOn DEF Check, Goto
<1>11. ASSUME NEW t \in Txns, Rollback(t) PROVE Locked'
  BY <1>11, HoldsEnd DEF Rollback, rowVars
<1>12. ASSUME NEW t \in Txns, WriteSave(t) PROVE Locked'
  BY <1>12, HoldsEnd DEF WriteSave
<1>13. ASSUME NEW t \in Txns, WriteDelete(t) PROVE Locked'
  BY <1>13, HoldsEnd DEF WriteDelete
<1>14. ASSUME NEW t \in Txns, WriteEdit(t) PROVE Locked'
  <2>1. \A s \in Subs : parents'[s] # parents[s] => s = job[t].row
    BY <1>14 DEF WriteEdit, TenancyTypeOK
  <2>2. <<job[t].row, "update">> \in held[t]
    BY <1>14 DEF WriteEdit, Locked, Holds, OwnsRow
  <2>. QED
    BY <1>14, <2>1, <2>2, HoldsEnd DEF WriteEdit
<1>15. ASSUME NEW t \in Txns, NEW s \in Subs, WriteCreate(t, s) PROVE Locked'
  <2>1. \A q \in Subs : parents'[q] # parents[q] => parents[q] = None
    BY <1>15 DEF WriteCreate, TenancyTypeOK
  <2>. QED
    BY <1>15, <2>1, HoldsEnd DEF WriteCreate
<1>. QED
  BY <1>1, <1>2, <1>3, <1>4, <1>5, <1>6, <1>7, <1>8, <1>9, <1>10, <1>11, <1>12,
     <1>13, <1>14, <1>15
  DEF TenancyNext
-----------------------------------------------------------------------------
(* Rules, once checked, hold until the write *)

\* t's write to a customer or plan leaves alone what u has checked.
LEMMA ReadyBesideSave ==
  ASSUME TenancyAssumption, TenancyTypeOK, Sensible, Excluded, Locked, Checked,
         NEW t \in Txns, WriteSave(t), NEW u \in Txns \ {t}
  PROVE  Ready(u)'
<1>. DEFINE r == job[t].row
<1>1. /\ r \in Parents /\ job[t].org \in Orgs /\ job[t].op = "save"
      /\ job[t].archive => r \in Plans
      /\ r \notin Deletable => /\ <<r, "update">> \in held[t]
                              /\ owner[r] # None /\ MayMove(r, job[t].org)
  BY DEF WriteSave, Sensible, Locked, Holds, OwnsRow, Checked, Ready
<1>2. job'[u] = job[u] /\ at'[u] = at[u] /\ UNCHANGED <<parents, project>>
  BY DEF WriteSave, End, TenancyTypeOK
<1>3. /\ \A q \in Parents \ {r} : owner'[q] = owner[q]
      /\ \A p \in Plans \ {r} : p \in archived' <=> p \in archived
      /\ r \notin Deletable /\ SubsOf(r) # {} => owner' = owner
  BY <1>1 DEF WriteSave, MayMove, TenancyTypeOK
<1>4. Ready(u)
  BY DEF Checked
<1>. HIDE DEF r
<1>5. CASE at[u] = "write" /\ job[u].op = "create"
  <2>. SUFFICES ASSUME job[u].plan \notin Deletable
                PROVE  MayCreate(job[u].customer, job[u].plan)'
    BY <1>2, <1>5 DEF Ready
  <2>1. /\ SharesParents(u) /\ job[u].customer \in Customers /\ job[u].plan \in Plans
        /\ job[u].customer \notin Deletable
    BY <1>5 DEF Locked, Holds, OwnsRow, Sensible, TenancyAssumption
  <2>2. job[u].customer # r /\ job[u].plan # r
    BY <2>1, <1>1 DEF Excluded, SharesParents, Rows, r
  <2>3. MayCreate(job[u].customer, job[u].plan)
    BY <1>4, <1>5 DEF Ready
  <2>. QED
    BY <1>2, <1>3, <2>1, <2>2, <2>3 DEF MayCreate, Agree, Parents
<1>6. CASE at[u] = "write" /\ job[u].op = "edit"
  <2>1. /\ job[u].customer \in Customers \ Deletable /\ job[u].plan \in Plans
        /\ job[u].row \in Subs /\ parents[job[u].row] # None
        /\ Kept(u) \/ SharesParents(u)
    BY <1>6 DEF Locked, Holds, OwnsRow, Sensible, TenancyAssumption
  <2>2. ASSUME NEW q \in {job[u].customer, job[u].plan} \ Deletable
        PROVE  owner'[q] = owner[q]
    <3>1. CASE SharesParents(u)
      BY <3>1, <2>1, <1>1, <1>3 DEF Excluded, SharesParents, Rows, Parents, r
    <3>2. CASE Kept(u)
      <4>1. parents[job[u].row][1] = job[u].customer
            /\ parents[job[u].row][2] = job[u].plan
        BY <3>2 DEF Kept
      <4>2. job[u].row \in SubsOf(q)
        BY <4>1, <2>1, Zenon DEF SubsOf
      <4>. QED
        BY <4>2, <2>1, <1>3 DEF Parents
    <3>. QED
      BY <2>1, <3>1, <3>2
  <2>. QED
    BY <1>2, <1>4, <1>6, <2>1, <2>2 DEF Ready
<1>7. CASE at[u] = "write" /\ job[u].op = "save"
  <2>. SUFFICES ASSUME job[u].row \notin Deletable
                PROVE  MayMove(job[u].row, job[u].org)'
    BY <1>2, <1>7 DEF Ready
  <2>1. <<job[u].row, "update">> \in held[u] /\ job[u].row \in Parents
    BY <1>7 DEF Locked, Holds, OwnsRow, Sensible
  <2>2. job[u].row # r
    BY <1>1, <2>1 DEF Excluded, Rows, r
  <2>3. MayMove(job[u].row, job[u].org)
    BY <1>4, <1>7 DEF Ready
  <2>. QED
    BY <1>2, <1>3, <2>1, <2>2, <2>3 DEF MayMove, SubsOf
<1>. QED
  BY <1>2, <1>5, <1>6, <1>7 DEF Ready

\* A new subscription, or new parents of one, leave alone what u has checked:
\* they are under shared locks, and so not being moved.
LEMMA ReadyBesideSubscription ==
  ASSUME TenancyAssumption, TenancyTypeOK, Sensible, Excluded, Locked, Checked,
         NEW t \in Txns, NEW s \in Subs, NEW u \in Txns \ {t},
         job'[u] = job[u], at'[u] = at[u], UNCHANGED <<owner, archived>>,
         at[t] = "write",
         job[t].op \in {"create", "edit"},
         parents' = [parents EXCEPT ![s] = <<job[t].customer, job[t].plan>>],
         parents[s] = <<job[t].customer, job[t].plan>> \/ SharesParents(t),
         \A q \in Subs : project'[q] # project[q] =>
           q = s /\ (parents[q] = None \/ <<q, "update">> \in held[t])
  PROVE  Ready(u)'
<1>1. Ready(u)
  BY DEF Checked
<1>2. CASE at[u] = "write" /\ job[u].op = "create"
  BY <1>1, <1>2 DEF Ready, MayCreate, Agree
<1>3. CASE at[u] = "write" /\ job[u].op = "edit"
  <2>1. job[u].row \in Subs /\ parents[job[u].row] # None
        /\ <<job[u].row, "update">> \in held[u]
    BY <1>3 DEF Sensible, Locked, Holds, OwnsRow
  <2>2. project'[job[u].row] = project[job[u].row]
    BY <2>1 DEF Excluded, Rows
  <2>. QED
    BY <1>1, <1>3, <2>2 DEF Ready, MayEdit, Agree
<1>4. CASE at[u] = "write" /\ job[u].op = "save"
  <2>. SUFFICES ASSUME job[u].row \notin Deletable
                PROVE  MayMove(job[u].row, job[u].org)'
    BY <1>4 DEF Ready
  <2>1. <<job[u].row, "update">> \in held[u] /\ job[u].row \in Parents
    BY <1>4 DEF Sensible, Locked, Holds, OwnsRow
  <2>2. job[t].customer \in Customers /\ job[t].plan \in Plans
    BY DEF Sensible
  <2>3. SubsOf(job[u].row) = {} => SubsOf(job[u].row)' = {}
    <3>1. CASE parents[s] = <<job[t].customer, job[t].plan>>
      BY <3>1 DEF SubsOf, TenancyTypeOK
    <3>2. CASE SharesParents(t)
      <4>1. job[u].row # job[t].customer /\ job[u].row # job[t].plan
        BY <2>1, <2>2, <3>2 DEF SharesParents, Excluded, Rows
      <4>2. ASSUME NEW q \in Subs PROVE parents'[q] = parents[q] \/
                                        parents'[q] = <<job[t].customer, job[t].plan>>
        BY DEF TenancyTypeOK
      <4>. QED
        BY <4>1, <4>2 DEF SubsOf
    <3>. QED
      BY <3>1, <3>2
  <2>4. MayMove(job[u].row, job[u].org)
    BY <1>1, <1>4 DEF Ready
  <2>. QED
    BY <2>3, <2>4 DEF MayMove
<1>. QED
  BY <1>2, <1>3, <1>4 DEF Ready

\* The deletion of a plan leaves alone what others have checked of rows that stay.
LEMMA ReadyBesideDelete ==
  ASSUME TenancyAssumption, TenancyTypeOK, Sensible, Checked,
         NEW t \in Txns, WriteDelete(t), NEW u \in Txns \ {t}
  PROVE  Ready(u)'
<1>1. /\ job'[u] = job[u] /\ at'[u] = at[u] /\ UNCHANGED <<parents, project>>
      /\ archived' \subseteq archived
      /\ \A q \in Parents \ Deletable : owner'[q] = owner[q]
  BY DEF WriteDelete, End, Sensible, TenancyTypeOK
<1>2. Ready(u)
  BY DEF Checked
<1>3. CASE at[u] = "write" /\ job[u].op = "create"
  <2>1. /\ job[u].customer \in Parents \ Deletable
        /\ job[u].plan \notin Deletable => job[u].plan \in Parents \ Deletable
    BY <1>3 DEF Sensible, Parents, TenancyAssumption
  <2>. QED
    BY <1>1, <1>2, <1>3, <2>1 DEF Ready, MayCreate, Agree
<1>4. CASE at[u] = "write" /\ job[u].op = "edit"
  <2>1. /\ job[u].customer \in Parents \ Deletable
        /\ job[u].plan \notin Deletable => job[u].plan \in Parents \ Deletable
    BY <1>4 DEF Sensible, Parents, TenancyAssumption
  <2>. QED
    BY <1>1, <1>2, <1>4, <2>1 DEF Ready
<1>5. CASE at[u] = "write" /\ job[u].op = "save"
  <2>1. job[u].row \in Parents
    BY <1>5 DEF Sensible
  <2>. QED
    BY <1>1, <1>2, <1>5, <2>1 DEF Ready, MayMove, SubsOf
<1>. QED
  BY <1>1, <1>3, <1>4, <1>5 DEF Ready

\* A step of t that writes no row.
LEMMA ReadyOn ==
  ASSUME TenancyTypeOK, Checked, NEW t \in Txns, UNCHANGED rowVars,
         \A u \in Txns \ {t} : at'[u] = at[u] /\ job'[u] = job[u],
         Ready(t)'
  PROVE  Checked'
<1>1. ASSUME NEW u \in Txns \ {t} PROVE Ready(u)'
  BY <1>1 DEF Checked, Ready, MayCreate, MayEdit, MayMove, Agree, SubsOf, rowVars
<1>. QED
  BY <1>1 DEF Checked, Ready

\* No step makes another transaction's check stale.
LEMMA CheckedStep ==
  ASSUME TenancyAssumption, TenancyTypeOK, Sensible, Excluded, Locked,
         Checked, Rooted, [TenancyNext]_tenancyVars
  PROVE  Checked'
<1>1. CASE UNCHANGED tenancyVars
  BY <1>1 DEF tenancyVars, rowVars, txnVars, Checked, Ready, MayCreate, MayEdit, MayMove,
              Agree, SubsOf
<1>2. ASSUME NEW r \in Parents, NEW o \in Orgs, Add(r, o) PROVE Checked'
  BY <1>2 DEF Add, txnVars, Checked, Ready
<1>3. ASSUME NEW t \in Txns, NEW step \in {"row", "customer"}, NEW task,
             Start(t, step, task)
      PROVE  Checked'
  BY <1>3, ReadyOn DEF Start, Ready, TenancyTypeOK
<1>4. ASSUME NEW t \in Txns, LockRow(t) \/ LockCustomer(t) \/ LockPlan(t)
      PROVE  Checked'
  <2>1. /\ at'[t] # "write" \/ job'[t].op = "delete"
        /\ UNCHANGED rowVars
        /\ \A u \in Txns \ {t} : at'[u] = at[u] /\ job'[u] = job[u]
    BY <1>4, RowLocked, CustomerLocked, PlanLocked DEF TenancyTypeOK
  <2>. QED
    BY <2>1, ReadyOn DEF Ready
<1>5. ASSUME NEW t \in Txns, Check(t) PROVE Checked'
  <2>1. UNCHANGED rowVars /\ job'[t] = job[t]
        /\ \A u \in Txns \ {t} : at'[u] = at[u] /\ job'[u] = job[u]
    BY <1>5 DEF Check, Goto, TenancyTypeOK
  <2>2. Ready(t)'
    BY <1>5, <2>1 DEF Check, Ready, MayCreate, MayEdit, MayMove, Agree, SubsOf, rowVars
  <2>. QED
    BY <2>1, <2>2, ReadyOn
<1>6. ASSUME NEW t \in Txns, Rollback(t) PROVE Checked'
  BY <1>6, ReadyOn DEF Rollback, End, Ready, TenancyTypeOK
<1>7. ASSUME NEW t \in Txns, WriteSave(t) PROVE Checked'
  <2>1. at'[t] = "idle"
    BY <1>7 DEF WriteSave, End, TenancyTypeOK
  <2>. QED
    BY <1>7, <2>1, ReadyBesideSave DEF Checked, Ready
<1>8. ASSUME NEW t \in Txns, WriteDelete(t) PROVE Checked'
  <2>1. at'[t] = "idle"
    BY <1>8 DEF WriteDelete, End, TenancyTypeOK
  <2>. QED
    BY <1>8, <2>1, ReadyBesideDelete DEF Checked, Ready
<1>9. ASSUME NEW t \in Txns, WriteEdit(t) PROVE Checked'
  <2>1. /\ job[t].row \in Subs
        /\ <<job[t].row, "update">> \in held[t]
        /\ Kept(t) \/ SharesParents(t)
    BY <1>9 DEF WriteEdit, Sensible, Locked, Holds, OwnsRow
  <2>2. at'[t] = "idle" /\ \A u \in Txns \ {t} : at'[u] = at[u] /\ job'[u] = job[u]
    BY <1>9 DEF WriteEdit, End, TenancyTypeOK
  <2>3. \A q \in Subs : project'[q] # project[q] => q = job[t].row
    BY <1>9 DEF WriteEdit, TenancyTypeOK
  <2>4. ASSUME NEW u \in Txns \ {t} PROVE Ready(u)'
    <3>1. /\ at[t] = "write" /\ job[t].op = "edit" /\ UNCHANGED <<owner, archived>>
          /\ parents' = [parents EXCEPT ![job[t].row] = <<job[t].customer, job[t].plan>>]
      BY <1>9 DEF WriteEdit
    <3>2. \A q \in Subs : project'[q] # project[q] =>
            q = job[t].row /\ (parents[q] = None \/ <<q, "update">> \in held[t])
      BY <2>1, <2>3
    <3>3. parents[job[t].row] = <<job[t].customer, job[t].plan>> \/ SharesParents(t)
      BY <2>1 DEF Kept
    <3>. QED
      BY <2>1, <2>2, <3>1, <3>2, <3>3, ReadyBesideSubscription
  <2>. QED
    BY <2>2, <2>4 DEF Checked, Ready
<1>10. ASSUME NEW t \in Txns, NEW s \in Subs, WriteCreate(t, s) PROVE Checked'
  <2>1. SharesParents(t)
    BY <1>10 DEF WriteCreate, Locked, Holds, OwnsRow
  <2>2. at'[t] = "idle" /\ \A u \in Txns \ {t} : at'[u] = at[u] /\ job'[u] = job[u]
    BY <1>10 DEF WriteCreate, End, TenancyTypeOK
  <2>3. \A q \in Subs : project'[q] # project[q] => q = s /\ parents[q] = None
    BY <1>10 DEF WriteCreate, TenancyTypeOK
  <2>4. ASSUME NEW u \in Txns \ {t} PROVE Ready(u)'
    <3>1. /\ at[t] = "write" /\ job[t].op = "create"
          /\ parents' = [parents EXCEPT ![s] = <<job[t].customer, job[t].plan>>]
          /\ UNCHANGED <<owner, archived>>
      BY <1>10 DEF WriteCreate
    <3>2. \A q \in Subs : project'[q] # project[q] =>
            q = s /\ (parents[q] = None \/ <<q, "update">> \in held[t])
      BY <2>3
    <3>. QED
      BY <3>1, <3>2, <2>1, <2>2, ReadyBesideSubscription
  <2>. QED
    BY <2>2, <2>4 DEF Checked, Ready
<1>. QED
  BY <1>1, <1>2, <1>3, <1>4, <1>5, <1>6, <1>7, <1>8, <1>9, <1>10
  DEF TenancyNext, StartSave, StartDelete, StartCreate, StartEdit

-----------------------------------------------------------------------------
(* Ownership *)

\* Writes made under checked rules keep the ownership in order.
LEMMA OwnedStep ==
  ASSUME TenancyAssumption, TenancyTypeOK, Sensible, Checked, Owned,
         [TenancyNext]_tenancyVars
  PROVE  Owned'
<1>1. CASE UNCHANGED rowVars
  BY <1>1 DEF rowVars, Owned, OwnershipAgrees, Rooted
<1>2. ASSUME NEW r \in Parents, NEW o \in Orgs, Add(r, o) PROVE Owned'
  <2>1. \A s \in Subs : parents[s] # None =>
          r # parents[s][1] /\ r # parents[s][2]
    BY <1>2 DEF Add, Owned, OwnershipAgrees, Rooted
  <2>. QED
    BY <1>2, <2>1 DEF Add, Owned, OwnershipAgrees, Rooted, TenancyTypeOK, Parents
<1>3. ASSUME NEW t \in Txns, WriteSave(t) PROVE Owned'
  <2>1. /\ job[t].row \in Parents /\ job[t].org \in Orgs /\ job[t].org # None
        /\ job[t].row \notin Deletable =>
             owner[job[t].row] # None /\ MayMove(job[t].row, job[t].org)
    BY <1>3 DEF WriteSave, Sensible, Checked, Ready, TenancyAssumption
  <2>2. ASSUME NEW s \in Subs, parents[s] # None
        PROVE  /\ parents[s][1] \in Customers \ Deletable /\ parents[s][2] \in Plans
               /\ s \in SubsOf(parents[s][1]) /\ s \in SubsOf(parents[s][2])
    BY <2>2 DEF SubsOf, TenancyTypeOK, TenancyAssumption
  <2>3. \A q \in Parents : owner'[q] = IF q = job[t].row THEN job[t].org ELSE owner[q]
    BY <1>3 DEF WriteSave, TenancyTypeOK
  <2>4. \A s \in Subs : parents[s] # None =>
          /\ owner'[parents[s][1]] = owner[parents[s][1]]
          /\ parents[s][2] \notin Deletable => owner'[parents[s][2]] = owner[parents[s][2]]
          /\ owner[parents[s][2]] # None => owner'[parents[s][2]] # None
    BY <2>1, <2>2, <2>3 DEF MayMove, Parents
  <2>. QED
    BY <1>3, <2>4 DEF WriteSave, Owned, OwnershipAgrees, Rooted
<1>4. ASSUME NEW t \in Txns, WriteDelete(t) PROVE Owned'
  <2>1. job[t].row \in Deletable /\ SubsOf(job[t].row) = {}
    BY <1>4 DEF WriteDelete, Sensible
  <2>2. \A s \in Subs : parents[s] # None =>
          /\ parents[s][1] \in Customers /\ parents[s][2] \in Plans
          /\ parents[s][1] # job[t].row /\ parents[s][2] # job[t].row
    BY <2>1 DEF SubsOf, TenancyTypeOK
  <2>3. \A s \in Subs : parents[s] # None =>
          /\ owner'[parents[s][1]] = owner[parents[s][1]]
          /\ owner'[parents[s][2]] = owner[parents[s][2]]
    BY <1>4, <2>2 DEF WriteDelete, TenancyTypeOK, Parents
  <2>. QED
    BY <1>4, <2>3 DEF WriteDelete, Owned, OwnershipAgrees, Rooted
<1>5. ASSUME NEW t \in Txns, WriteEdit(t) PROVE Owned'
  <2>1. /\ job[t].customer \in Customers /\ job[t].plan \in Plans
        /\ job[t].row \in Subs /\ job[t].org \in Orgs
        /\ owner[job[t].customer] = job[t].org /\ owner[job[t].plan] # None
        /\ job[t].plan \notin Deletable => owner[job[t].plan] = job[t].org
    BY <1>5 DEF WriteEdit, Exists, Sensible, Checked, Ready, Parents, TenancyAssumption
  <2>2. /\ parents' = [parents EXCEPT ![job[t].row] = <<job[t].customer, job[t].plan>>]
        /\ project' = [project EXCEPT ![job[t].row] = job[t].org]
        /\ UNCHANGED owner
    BY <1>5 DEF WriteEdit
  <2>3. <<job[t].customer, job[t].plan>> # None /\ job[t].org # None
    BY <2>1 DEF TenancyAssumption
  <2>. QED
    BY <2>1, <2>2, <2>3 DEF Owned, OwnershipAgrees, Rooted, TenancyTypeOK
<1>6. ASSUME NEW t \in Txns, NEW s \in Subs, WriteCreate(t, s) PROVE Owned'
  <2>1. /\ job[t].customer \in Customers /\ job[t].plan \in Plans
        /\ Agree(job[t].customer, job[t].plan)
    BY <1>6 DEF WriteCreate, Sensible
  <2>2. /\ parents' = [parents EXCEPT ![s] = <<job[t].customer, job[t].plan>>]
        /\ project' = [project EXCEPT ![s] = owner[job[t].customer]]
        /\ UNCHANGED owner
    BY <1>6 DEF WriteCreate
  <2>3. <<job[t].customer, job[t].plan>> # None
    BY <2>1 DEF TenancyAssumption
  <2>. QED
    BY <2>1, <2>2, <2>3 DEF Agree, Owned, OwnershipAgrees, Rooted, TenancyTypeOK
<1>. QED
  BY <1>1, <1>2, <1>3, <1>4, <1>5, <1>6
  DEF TenancyNext, tenancyVars, rowVars, StartSave, StartDelete, StartCreate, StartEdit,
      Start, LockRow, LockCustomer, LockPlan, Check, Rollback

-----------------------------------------------------------------------------
(* Theorems *)

\* The inductive invariant: each layer above, together.
THEOREM TenancyInvariant ==
  ASSUME TenancyAssumption
  PROVE  TenancySpec => []TenancyInv
<1>1. TenancyInit => TenancyInv
  BY DEF TenancyInit, TenancyInv, TenancyTypeOK, Sensible, Excluded, Locked, Holds,
         OwnsRow, Checked, Ready, Owned, OwnershipAgrees, Rooted, Jobs, Nothing
<1>2. TenancyInv /\ [TenancyNext]_tenancyVars => TenancyInv'
  BY TypingStep, SensibleStep, ExcludedStep, LockedStep, CheckedStep, OwnedStep
  DEF TenancyInv, Owned
<1>. QED
  BY <1>1, <1>2, PTL DEF TenancySpec

\* Transactions hold only locks and instances of rows there are.
THEOREM TenancyTyping ==
  ASSUME TenancyAssumption
  PROVE  TenancySpec => []TenancyTypeOK
BY TenancyInvariant, PTL DEF TenancyInv

\* A subscription and its parents are of one project, in every interleaving of
\* any number of moves, subscriptions and edits.
THEOREM OwnershipHolds ==
  ASSUME TenancyAssumption
  PROVE  TenancySpec => []OwnershipAgrees
<1>1. TenancyInv => OwnershipAgrees
  BY DEF TenancyInv, Owned
<1>. QED
  BY <1>1, TenancyInvariant, PTL

\* A subscription never leaves its project.
THEOREM ProjectIsKept ==
  ASSUME TenancyAssumption
  PROVE  TenancySpec => ProjectKept
<1>. DEFINE Keeps == \A s \in Subs : project[s] # None => project'[s] = project[s]
<1>1. ASSUME TenancyInv, [TenancyNext]_tenancyVars PROVE [Keeps]_tenancyVars
  <2>1. CASE UNCHANGED project
    BY <2>1
  <2>2. ASSUME NEW t \in Txns, WriteEdit(t) PROVE Keeps
    <3>1. project[job[t].row] = job[t].org
      BY <1>1, <2>2 DEF WriteEdit, TenancyInv, Checked, Ready, MayEdit
    <3>. QED
      BY <1>1, <2>2, <3>1 DEF WriteEdit, TenancyInv, TenancyTypeOK
  <2>3. ASSUME NEW t \in Txns, NEW s \in Subs, WriteCreate(t, s) PROVE Keeps
    <3>1. project[s] = None
      BY <1>1, <2>3 DEF WriteCreate, TenancyInv, Owned, Rooted
    <3>. QED
      BY <1>1, <2>3, <3>1 DEF WriteCreate, TenancyInv, TenancyTypeOK
  <2>. QED
    BY <1>1, <2>1, <2>2, <2>3
    DEF TenancyNext, tenancyVars, rowVars, StartSave, StartDelete, StartCreate,
        StartEdit, Start, LockRow, LockCustomer, LockPlan, Check, Rollback, Add,
        WriteSave, WriteDelete
<1>2. TenancyInv /\ [TenancyNext]_tenancyVars => [Keeps]_tenancyVars
  BY <1>1
<1>. QED
  BY <1>2, TenancyInvariant, PTL DEF TenancySpec, ProjectKept

\* Nobody is subscribed to a plan that is archived at that moment.
THEOREM SubscribedActive ==
  ASSUME TenancyAssumption
  PROVE  TenancySpec => SubscribedWhileActive
<1>. DEFINE Active == \A s \in Subs : parents[s] = None /\ parents'[s] # None =>
                        parents'[s][2] \notin archived \ Deletable
<1>1. ASSUME TenancyInv, [TenancyNext]_tenancyVars PROVE [Active]_tenancyVars
  <2>1. CASE UNCHANGED parents
    BY <2>1
  <2>2. ASSUME NEW t \in Txns, WriteEdit(t) PROVE Active
    <3>1. parents[job[t].row] # None
      BY <1>1, <2>2 DEF WriteEdit, TenancyInv, Sensible
    <3>. QED
      BY <1>1, <2>2, <3>1 DEF WriteEdit, TenancyInv, TenancyTypeOK
  <2>3. ASSUME NEW t \in Txns, NEW s \in Subs, WriteCreate(t, s) PROVE Active
    <3>1. job[t].plan \notin archived \ Deletable
      BY <1>1, <2>3 DEF WriteCreate, TenancyInv, Checked, Ready, MayCreate
    <3>. QED
      BY <1>1, <2>3, <3>1 DEF WriteCreate, TenancyInv, TenancyTypeOK
  <2>. QED
    BY <1>1, <2>1, <2>2, <2>3
    DEF TenancyNext, tenancyVars, rowVars, StartSave, StartDelete, StartCreate,
        StartEdit, Start, LockRow, LockCustomer, LockPlan, Check, Rollback, Add,
        WriteSave, WriteDelete
<1>2. TenancyInv /\ [TenancyNext]_tenancyVars => [Active]_tenancyVars
  BY <1>1
<1>. QED
  BY <1>2, TenancyInvariant, PTL DEF TenancySpec, SubscribedWhileActive

\* Where no plan is deleted, what run `revived` refutes holds: a subscription and
\* its plan are always of one project.
THEOREM PlanAgreesUndeleted ==
  ASSUME TenancyAssumption, Deletable = {}
  PROVE  TenancySpec => []PlanAgrees
<1>1. OwnershipAgrees => PlanAgrees
  BY DEF OwnershipAgrees, PlanAgrees
<1>. QED
  BY <1>1, OwnershipHolds, PTL

=============================================================================
