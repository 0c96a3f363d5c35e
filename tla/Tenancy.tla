------------------------------ MODULE Tenancy ------------------------------
(***************************************************************************)
(* Which project (accounts.Organization) owns a customer, a plan and the   *)
(* subscriptions that join them. Customers and plans may be moved to       *)
(* another project, but not while they have subscriptions; a subscription  *)
(* belongs to the project of both its parents. Row locks are what keeps    *)
(* the two rules from racing, so here a transaction takes several steps,   *)
(* one per statement that locks or reads, and other transactions see its   *)
(* writes when it commits (READ COMMITTED).                                *)
(***************************************************************************)
EXTENDS FiniteSets

CONSTANTS
  Customers, Plans, Subs,   \* primary keys
  Orgs,       \* projects
  Txns,       \* database connections
  Deletable,  \* the plans that clients delete
  None        \* no row, or an empty column

Parents == Customers \cup Plans
Rows == Parents \cup Subs

ASSUME TenancyAssumption ==
  /\ None \notin Rows \cup Orgs \cup (Customers \X Plans)
  /\ Customers \cap Plans = {} /\ Parents \cap Subs = {}
  /\ Deletable \subseteq Plans

VARIABLES
  owner,    \* organization_id of each customer and plan, None if there is no row
  archived, \* the plans whose status is ARCHIVED
  parents,  \* customer and plan of each subscription, None if there is no row
  project,  \* organization_id of each subscription
  at,       \* the next statement of each transaction
  job,      \* what it works on: the instance in the process's memory
  held      \* its row locks

rowVars == <<owner, archived, parents, project>>
txnVars == <<at, job, held>>
tenancyVars == <<rowVars, txnVars>>

Nothing == [op |-> "none", row |-> None, customer |-> None, plan |-> None,
            org |-> None, archive |-> FALSE]

Jobs == [op : {"none", "create", "edit", "save", "delete"},
         row : Rows \cup {None}, customer : Customers \cup {None},
         plan : Plans \cup {None}, org : Orgs \cup {None}, archive : BOOLEAN]

TenancyTypeOK ==
  /\ owner \in [Parents -> Orgs \cup {None}]
  /\ archived \subseteq Plans
  /\ parents \in [Subs -> (Customers \X Plans) \cup {None}]
  /\ project \in [Subs -> Orgs \cup {None}]
  /\ at \in [Txns -> {"idle", "row", "customer", "plan", "check", "write"}]
  /\ job \in [Txns -> Jobs]
  /\ held \in [Txns -> SUBSET (Rows \X {"share", "update"})]
  /\ \A t \in Txns : at[t] = "idle" => job[t] = Nothing /\ held[t] = {}

TenancyInit ==
  /\ owner = [r \in Parents |-> None]
  /\ archived = {}
  /\ parents = [s \in Subs |-> None]
  /\ project = [s \in Subs |-> None]
  /\ at = [t \in Txns |-> "idle"]
  /\ job = [t \in Txns |-> Nothing]
  /\ held = [t \in Txns |-> {}]

-----------------------------------------------------------------------------
Exists(r) == IF r \in Subs THEN parents[r] # None ELSE owner[r] # None

\* The subscriptions of a customer or a plan.
SubsOf(r) == {s \in Subs : parents[s] # None /\ r \in {parents[s][1], parents[s][2]}}

Agree(c, p) == owner[c] # None /\ owner[c] = owner[p]

Start(t, step, task) ==
  /\ at[t] = "idle"
  /\ at' = [at EXCEPT ![t] = step]
  /\ job' = [job EXCEPT ![t] = task]
  /\ UNCHANGED <<rowVars, held>>

Goto(t, step) == at' = [at EXCEPT ![t] = step] /\ UNCHANGED job

\* Bug: the locks outlive the transaction.
EndHolding(t) ==
  /\ at' = [at EXCEPT ![t] = "idle"]
  /\ job' = [job EXCEPT ![t] = Nothing]
  /\ UNCHANGED held

\* Commit or rollback: the locks go.
End(t) ==
  /\ at' = [at EXCEPT ![t] = "idle"]
  /\ job' = [job EXCEPT ![t] = Nothing]
  /\ held' = [held EXCEPT ![t] = {}]

\* Any statement may fail, and the process may die.
Rollback(t) ==
  /\ at[t] # "idle"
  /\ End(t)
  /\ UNCHANGED rowVars

-----------------------------------------------------------------------------
(* Row locks. FOR SHARE excludes FOR UPDATE, FOR NO KEY UPDATE and DELETE,   *)
(* all of them "update" here, which also exclude each other.                 *)

\* Bug: a shared lock excludes nobody.
FreeForShare(t, r, mode) ==
  mode = "update" => \A u \in Txns \ {t} : <<r, "update">> \notin held[u]

Free(t, r, mode) ==
  \A u \in Txns \ {t} : /\ <<r, "update">> \notin held[u]
                        /\ mode = "update" => <<r, "share">> \notin held[u]

\* A row that is not there is not locked, and this is no error.
Lock(t, r, mode) ==
  /\ Free(t, r, mode)
  /\ held' = [held EXCEPT ![t] = IF Exists(r) THEN @ \cup {<<r, mode>>} ELSE @]

\* The instance's own row. A subscription that keeps its parents does not
\* lock them.
LockRow(t) ==
  LET j == job[t]
      moved == j.op = "edit" /\ parents[j.row] # <<j.customer, j.plan>>
  IN /\ at[t] = "row"
     /\ Lock(t, j.row, "update")
     /\ Goto(t, IF moved THEN "customer"
                ELSE IF j.op = "delete" THEN "write" ELSE "check")
     /\ UNCHANGED rowVars

\* lock_parents
LockCustomer(t) ==
  /\ at[t] = "customer"
  /\ Lock(t, job[t].customer, "share")
  /\ Goto(t, "plan")
  /\ UNCHANGED rowVars

LockPlan(t) ==
  /\ at[t] = "plan"
  /\ Lock(t, job[t].plan, "share")
  /\ Goto(t, "check")
  /\ UNCHANGED rowVars

-----------------------------------------------------------------------------
(* Customers and plans *)

\* A new customer or plan of project o.
Add(r, o) ==
  /\ owner[r] = None
  /\ \A t \in Txns : at[t] = "idle"   \* a primary key is used once
  /\ owner' = [owner EXCEPT ![r] = o]
  /\ UNCHANGED <<archived, parents, project, txnVars>>

\* An API call or the admin loads a row and changes it in memory. All columns
\* are written back, so o is the new project or the one that was loaded, and
\* archive the new status or the one that was loaded.
StartSave(t, r, o, archive) ==
  /\ owner[r] # None
  /\ archive => r \in Plans
  /\ Start(t, "row", [op |-> "save", row |-> r, customer |-> None, plan |-> None,
                      org |-> o, archive |-> archive])

\* Customer.clean, Plan.clean
MayMove(r, o) == owner[r] \in {o, None} \/ SubsOf(r) = {}

\* UPDATE, which waits for the row like any lock, or INSERT if the row is gone.
WriteSave(t) ==
  LET j == job[t] IN
  /\ at[t] = "write" /\ j.op = "save"
  /\ Free(t, j.row, "update")
  /\ owner' = [owner EXCEPT ![j.row] = j.org]
  /\ archived' = IF j.archive THEN archived \cup {j.row} ELSE archived \ {j.row}
  /\ End(t)
  /\ UNCHANGED <<parents, project>>

\* perform_destroy: Django first looks for subscriptions (on_delete=PROTECT).
StartDelete(t, p) ==
  /\ owner[p] # None
  /\ SubsOf(p) = {}
  /\ Start(t, "row", [op |-> "delete", row |-> p, customer |-> None, plan |-> None,
                      org |-> None, archive |-> FALSE])

\* The foreign key of subscriptions is checked at commit; if it is violated
\* the deletion is rolled back. A row that was gone is not deleted again.
WriteDelete(t) ==
  LET p == job[t].row IN
  /\ at[t] = "write" /\ job[t].op = "delete"
  /\ <<p, "update">> \in held[t]
  /\ SubsOf(p) = {}
  /\ owner' = [owner EXCEPT ![p] = None]
  /\ archived' = archived \ {p}
  /\ End(t)
  /\ UNCHANGED <<parents, project>>

-----------------------------------------------------------------------------
(* Subscriptions *)

\* An API call finds both parents in the project of the request.
StartCreate(t, c, p) ==
  /\ Agree(c, p)
  /\ Start(t, "customer", [op |-> "create", row |-> None, customer |-> c, plan |-> p,
                           org |-> None, archive |-> FALSE])

\* SubscriptionService.create reads the parents again, under their locks.
MayCreate(c, p) == Agree(c, p) /\ p \notin archived

\* save() locks the parents once more, in case one was not there, and reads them.
WriteCreate(t, s) ==
  LET j == job[t] IN
  /\ at[t] = "write" /\ j.op = "create"
  /\ parents[s] = None
  /\ Free(t, j.customer, "share") /\ Free(t, j.plan, "share")
  /\ Agree(j.customer, j.plan)
  /\ parents' = [parents EXCEPT ![s] = <<j.customer, j.plan>>]
  /\ project' = [project EXCEPT ![s] = owner[j.customer]]
  /\ End(t)
  /\ UNCHANGED <<owner, archived>>

\* The admin loads subscription s and changes its parents or its project; the
\* form accepts rows that are there.
StartEdit(t, s, c, p, o) ==
  /\ Exists(s) /\ Exists(c) /\ Exists(p)
  /\ Start(t, "row", [op |-> "edit", row |-> s, customer |-> c, plan |-> p,
                      org |-> o, archive |-> FALSE])

\* Bug: the subscription follows its parents to another project.
MayEditAnyProject(s, c, p, o) == Agree(c, p) /\ owner[c] = o

\* Subscription.clean
MayEdit(s, c, p, o) == Agree(c, p) /\ owner[c] = o /\ project[s] = o

\* The foreign keys are checked at commit.
WriteEdit(t) ==
  LET j == job[t] IN
  /\ at[t] = "write" /\ j.op = "edit"
  /\ Exists(j.customer) /\ Exists(j.plan)
  /\ parents' = [parents EXCEPT ![j.row] = <<j.customer, j.plan>>]
  /\ project' = [project EXCEPT ![j.row] = j.org]
  /\ End(t)
  /\ UNCHANGED <<owner, archived>>

\* The rule of each operation, read under its locks.
Check(t) ==
  LET j == job[t] IN
  /\ at[t] = "check"
  /\ \/ j.op = "create" /\ MayCreate(j.customer, j.plan)
     \/ j.op = "edit" /\ MayEdit(j.row, j.customer, j.plan, j.org)
     \/ j.op = "save" /\ MayMove(j.row, j.org)
  /\ Goto(t, "write")
  /\ UNCHANGED <<rowVars, held>>

-----------------------------------------------------------------------------
TenancyNext ==
  \/ \E r \in Parents, o \in Orgs : Add(r, o)
  \/ \E t \in Txns :
       \/ \E r \in Parents, o \in Orgs, arch \in BOOLEAN : StartSave(t, r, o, arch)
       \/ \E p \in Deletable : StartDelete(t, p)
       \/ \E c \in Customers, p \in Plans : StartCreate(t, c, p)
       \/ \E s \in Subs, c \in Customers, p \in Plans, o \in Orgs :
            StartEdit(t, s, c, p, o)
       \/ LockRow(t) \/ LockCustomer(t) \/ LockPlan(t) \/ Check(t) \/ Rollback(t)
       \/ WriteSave(t) \/ WriteDelete(t) \/ WriteEdit(t)
       \/ \E s \in Subs : WriteCreate(t, s)

TenancySpec == TenancyInit /\ [][TenancyNext]_tenancyVars

-----------------------------------------------------------------------------
(* Safety *)

\* A subscription, its customer and its plan are of one project, whatever
\* moves, subscribes, edits and deletions run at once: Subscription.clean and
\* Customer.clean each read rows that the other's transaction may be writing.
\* Only a plan that is deleted may come back in another project, and none is
\* deleted from under its subscriptions, though PROTECT looks for them before
\* the row is locked.
OwnershipAgrees ==
  \A s \in Subs : parents[s] # None =>
    /\ owner[parents[s][1]] = project[s]
    /\ owner[parents[s][2]] # None
    /\ parents[s][2] \notin Deletable => owner[parents[s][2]] = project[s]

\* "Customer and plan must belong to the same organization."
\* (src/subscriptions/domain/models.py:64), also when plans are deleted.
PlanAgrees ==
  \A s \in Subs : parents[s] # None => owner[parents[s][2]] = project[s]

(* Steps *)

\* Nobody is subscribed to a plan that is archived at that moment; except to one
\* that was deleted while it was looked up: what a stale edit inserted again was
\* not there to be locked.
SubscribedWhileActive ==
  [][\A s \in Subs : parents[s] = None /\ parents'[s] # None =>
       parents'[s][2] \notin archived \ Deletable]_tenancyVars

\* A subscription never leaves its project.
ProjectKept ==
  [][\A s \in Subs : project[s] # None => project'[s] = project[s]]_tenancyVars

=============================================================================
