------------------------------- MODULE Locks -------------------------------
(***************************************************************************)
(* The row locks of the transactions. Elsewhere a transaction on a         *)
(* subscription is one action; this module says why: what each transaction *)
(* of the services, the tasks and the admin locks, and in which order. A   *)
(* transaction is the set of its requests; requests of one step are made   *)
(* in no particular order (rows in the order of a scan). PostgreSQL keeps  *)
(* a lock to the end of the transaction. Deletions are left out.           *)
(***************************************************************************)
EXTENDS Naturals, FiniteSets

CONSTANTS
  Txns,                               \* database connections
  Subs, Invoices, Attempts,           \* rows
  Customers, Plans, Project,          \* rows
  Charges, Events,                    \* provider_charge_id, provider_event_id
  SubOf, InvoiceOf, PlanOf, CustomerOf   \* foreign keys

Rows == Subs \cup Invoices \cup Attempts \cup Customers \cup Plans
          \cup {Project} \cup Charges \cup Events

Modes == {"key_share", "share", "no_key", "update"}

\* The tables have no row in common.
ASSUME LocksAssumption ==
  /\ Subs \cap Invoices = {} /\ (Subs \cup Invoices) \cap Attempts = {}
  /\ (Subs \cup Invoices \cup Attempts)
       \cap (Customers \cup Plans \cup {Project} \cup Charges \cup Events) = {}
  /\ Customers \cap Plans = {} /\ Charges \cap Events = {}
  /\ (Customers \cup Plans) \cap ({Project} \cup Charges \cup Events) = {}
  /\ Project \notin Charges \cup Events
  /\ SubOf \in [Invoices -> Subs]
  /\ InvoiceOf \in [Attempts -> Invoices]
  /\ PlanOf \in [Subs -> Plans]
  /\ CustomerOf \in [Subs -> Customers]

VARIABLES
  todo,   \* the requests a transaction has yet to make
  held    \* the locks it has

lockVars == <<todo, held>>

Requests == [step : 1..9, row : Rows, mode : Modes]

LocksTypeOK ==
  /\ todo \in [Txns -> SUBSET Requests]
  /\ held \in [Txns -> SUBSET (Rows \X Modes)]

LocksInit ==
  /\ todo = [t \in Txns |-> {}]
  /\ held = [t \in Txns |-> {}]

-----------------------------------------------------------------------------
(* PostgreSQL's row locks *)

\* FOR KEY SHARE (a foreign key's check), FOR SHARE, FOR NO KEY UPDATE (also an
\* UPDATE), FOR UPDATE (also a DELETE). A unique value is locked by inserting it.
Conflict(m, n) ==
  \/ "update" \in {m, n}
  \/ m = "no_key" /\ n \in {"share", "no_key"}
  \/ n = "no_key" /\ m \in {"share", "no_key"}

Ask(n, r, m) == [step |-> n, row |-> r, mode |-> m]

\* Foreign keys are deferred: the new parent is locked at commit.
AtCommit(r) == Ask(9, r, "key_share")

-----------------------------------------------------------------------------
(* What the transactions lock *)

InvoicesOf(s) == {i \in Invoices : SubOf[i] = s}

\* SubscriptionService.create, through lock_parents
CreateLocks(c, p) == {Ask(1, c, "share"), Ask(2, p, "share"), AtCommit(Project)}

\* activate, renew and their tasks: FOR UPDATE with select_related("plan") locks
\* the plan as well.
RollLocks(s) == {Ask(1, s, "update"), Ask(2, PlanOf[s], "update"), AtCommit(Project)}

\* cancel, with cancel_open_for_subscription on those that are open
CancelLocks(s, open) == {Ask(1, s, "update")} \cup {Ask(2, i, "update") : i \in open}

\* Bug: dunning starts from the invoice it was given.
DunLocksInvoiceOnly(i, open) ==
  {Ask(2, i, "update")} \cup {Ask(3, j, "update") : j \in open}

\* _dun_invoice: reissues i, or gives up and cancels the subscription.
DunLocks(i, open) ==
  {Ask(1, SubOf[i], "update"), Ask(2, i, "update")}
    \cup {Ask(3, j, "update") : j \in open}

\* _prepare; only a request with a key locks the project.
PrepareLocks(i, keyed) ==
  {Ask(1, SubOf[i], "update"), Ask(2, i, "update"), AtCommit(Project)}
    \cup IF keyed THEN {Ask(3, Project, "no_key")} ELSE {}

\* settle; the charge id may be in use, or be inserted by another right now.
SettleLocks(a, x) ==
  LET i == InvoiceOf[a] IN
  {Ask(2, SubOf[i], "update"), Ask(3, i, "update"), Ask(4, a, "update"),
   Ask(5, x, "update")}

\* handle_webhook stores the event first.
WebhookLocks(e, a, x) == {Ask(1, e, "update"), AtCommit(Project)} \cup SettleLocks(a, x)

\* Bug: Subscription.save locks the new parents before its own row.
EditLocksParentsFirst(s, c, p) ==
  {Ask(1, c, "share"), Ask(2, p, "share"), Ask(3, s, "update")}

\* Subscription.save with new parents, in the admin
EditLocks(s, c, p) == {Ask(1, s, "update"), Ask(2, c, "share"), Ask(3, p, "share")}

\* Customer.save, Plan.save, and Model.save of any other row
SaveLocks(r) == {Ask(1, r, "no_key")}
             \cup IF r \in Customers \cup Plans THEN {AtCommit(Project)} ELSE {}

-----------------------------------------------------------------------------
Begin(t, requests) ==
  /\ todo[t] = {} /\ held[t] = {}
  /\ todo' = [todo EXCEPT ![t] = requests]
  /\ UNCHANGED held

\* The requests of the statement that comes next.
Front(t) == {q \in todo[t] : \A r \in todo[t] : q.step <= r.step}

Blocks(u, q) == \E m \in Modes : <<q.row, m>> \in held[u] /\ Conflict(q.mode, m)

Lock(t, q) ==
  /\ q \in Front(t)
  /\ \A u \in Txns \ {t} : ~Blocks(u, q)
  /\ todo' = [todo EXCEPT ![t] = @ \ {q}]
  /\ held' = [held EXCEPT ![t] = @ \cup {<<q.row, q.mode>>}]

\* Commit, also after an early return, or rollback.
End(t) ==
  /\ held[t] # {}
  /\ todo' = [todo EXCEPT ![t] = {}]
  /\ held' = [held EXCEPT ![t] = {}]

ServiceBegins(t) ==
  \/ \E c \in Customers, p \in Plans : Begin(t, CreateLocks(c, p))
  \/ \E s \in Subs : Begin(t, RollLocks(s))
  \/ \E s \in Subs : \E open \in SUBSET InvoicesOf(s) : Begin(t, CancelLocks(s, open))
  \/ \E i \in Invoices : \E open \in SUBSET (InvoicesOf(SubOf[i]) \ {i}) :
       Begin(t, DunLocks(i, open))
  \/ \E i \in Invoices, keyed \in BOOLEAN : Begin(t, PrepareLocks(i, keyed))
  \/ \E a \in Attempts, x \in Charges : Begin(t, SettleLocks(a, x))
  \/ \E e \in Events, a \in Attempts, x \in Charges : Begin(t, WebhookLocks(e, a, x))
  \/ \E s \in Subs, c \in Customers, p \in Plans : Begin(t, EditLocks(s, c, p))
  \/ \E r \in Rows \ (Subs \cup Charges \cup Events) : Begin(t, SaveLocks(r))

LocksNext ==
  \E t \in Txns :
    \/ ServiceBegins(t) \/ End(t)
    \/ \E q \in todo[t] : Lock(t, q)

LocksSpec == LocksInit /\ [][LocksNext]_lockVars

-----------------------------------------------------------------------------
(* Safety *)

Waits(t, u) == t # u /\ \E q \in Front(t) : Blocks(u, q)

\* Services, tasks, webhooks and edits never wait for each other in a circle,
\* in whatever order they reach subscriptions, parents, the project, events and
\* charge ids: no batch is ended, and no webhook refused, by a deadlock.
DeadlockFree ==
  \A D \in SUBSET Txns : D # {} => \E t \in D : \A u \in D : ~Waits(t, u)

Family(s) == {s} \cup InvoicesOf(s) \cup {a \in Attempts : SubOf[InvoiceOf[a]] = s}

\* One transaction at a time is at work on a subscription, its invoices and
\* their attempts, wherever it entered: by the subscription, an invoice (dunning,
\* payment) or an attempt (settlement).
FamilySerial ==
  \A s \in Subs, t, u \in Txns :
    /\ \E r \in Family(s) : <<r, "update">> \in held[t]
    /\ \E r \in Family(s) : <<r, "update">> \in held[u]
    => t = u

\* Every transaction holds and awaits rows in modes the database has, and the rows
\* of one family are held by one transaction at a time.
LocksSafe == LocksTypeOK /\ FamilySerial

=============================================================================
