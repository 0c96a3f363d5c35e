------------------------------ MODULE Upgrade ------------------------------
(***************************************************************************)
(* The migrations that give historical rows their project and their        *)
(* provider columns. Each is one PostgreSQL transaction, its schema change *)
(* included: it is applied as a whole or leaves nothing behind. Nothing    *)
(* else runs meanwhile, but the run may die between two of them or stop at *)
(* one and be repeated, and between runs the operator corrects the data.   *)
(* The order is whatever the declared dependencies allow.                  *)
(***************************************************************************)
CONSTANTS
  Projects,
  OldCustomers, OldPlans,             \* rows older than the upgrade
  OldSubs, OldCustomerOf, OldPlanOf,  \* subscriptions; each has one invoice here
  OldAttempts, OldSubOf,              \* payment attempts, on the invoice of a subscription
  OldEvents, About,                   \* webhook events, and the attempt each names
  OldKeys,                            \* client idempotency keys
  Unknown,                            \* an attempt that is not there
  Blank, Null                         \* the empty string and NULL

ASSUME UpgradeAssumption ==
  /\ OldCustomerOf \in [OldSubs -> OldCustomers] /\ OldPlanOf \in [OldSubs -> OldPlans]
  /\ OldSubOf \in [OldAttempts -> OldSubs]
  /\ About \in [OldEvents -> OldAttempts \cup {Unknown}] /\ Unknown \notin OldAttempts
  /\ Null \notin Projects \cup OldKeys \cup {Blank}

VARIABLES
  customerOrg, planOrg,  \* organization of customers and plans
  applied,               \* django_migrations
  subOrg, invoiceOrg, lineOrg, attemptOrg, eventOrg,  \* the new columns
  clientKey,             \* idempotency_key
  providerKey, eventId   \* provider_idempotency_key, provider_event_id

parentColumns == <<customerOrg, planOrg>>
invoiceColumns == <<invoiceOrg, lineOrg>>
attemptColumns == <<attemptOrg, eventOrg, clientKey>>
providerColumns == <<providerKey, eventId>>
upgradeVars == <<parentColumns, applied, subOrg, invoiceColumns, attemptColumns, providerColumns>>

Migrations ==
  {"accounts_0002", "accounts_0003", "subscriptions_0003", "invoices_0003",
   "payments_0004", "payments_0005"}

Dependencies ==
  [m \in Migrations |->
     CASE m \in {"accounts_0002", "subscriptions_0003"} -> {}
       [] m = "accounts_0003" -> {"accounts_0002"}
       [] m = "invoices_0003" -> {"subscriptions_0003"}
       [] m = "payments_0004" -> {"invoices_0003"}
       [] m = "payments_0005" -> {"payments_0004", "accounts_0003"}]

MaybeOrg == Projects \cup {Null}

UpgradeTypeOK ==
  /\ customerOrg \in [OldCustomers -> Projects] /\ planOrg \in [OldPlans -> Projects]
  /\ applied \subseteq Migrations
  /\ \A m \in applied : Dependencies[m] \subseteq applied
  /\ subOrg \in [OldSubs -> IF "subscriptions_0003" \in applied THEN Projects ELSE {Null}]
  /\ {invoiceOrg, lineOrg} \subseteq
       [OldSubs -> IF "invoices_0003" \in applied THEN Projects ELSE {Null}]
  /\ attemptOrg \in [OldAttempts -> IF "payments_0004" \in applied THEN Projects ELSE {Null}]
  /\ eventOrg \in [OldEvents -> MaybeOrg]
  /\ clientKey \in [OldAttempts -> OldKeys \cup {Blank, Null}]
  /\ providerKey \in [OldAttempts -> OldAttempts \cup {Null}]
  /\ eventId \in [OldEvents -> OldEvents \cup {Null}]

\* Any history: the old model kept subscriptions to its customer and plan only
\* by a check in the API, and client keys were unique over all projects.
UpgradeInit ==
  /\ customerOrg \in [OldCustomers -> Projects] /\ planOrg \in [OldPlans -> Projects]
  /\ applied = {}
  /\ subOrg = [s \in OldSubs |-> Null]
  /\ invoiceOrg = subOrg /\ lineOrg = subOrg
  /\ attemptOrg = [a \in OldAttempts |-> Null]
  /\ eventOrg = [e \in OldEvents |-> Null]
  /\ clientKey \in [OldAttempts -> OldKeys \cup {Blank, Null}]
  /\ \A a, b \in OldAttempts : clientKey[a] = clientKey[b] => a = b \/ clientKey[a] = Null
  /\ providerKey = [a \in OldAttempts |-> Null]
  /\ eventId = [e \in OldEvents |-> Null]

-----------------------------------------------------------------------------
Mismatched(s) == customerOrg[OldCustomerOf[s]] # planOrg[OldPlanOf[s]]

\* The migration stopped; the operator moves customers or plans. The unchanged
\* old program allows it.
Correct ==
  /\ "subscriptions_0003" \notin applied
  /\ \E s \in OldSubs : Mismatched(s)
  /\ \E p \in Projects :
       \/ \E c \in OldCustomers : customerOrg' = [customerOrg EXCEPT ![c] = p] /\ UNCHANGED planOrg
       \/ \E l \in OldPlans : planOrg' = [planOrg EXCEPT ![l] = p] /\ UNCHANGED customerOrg
  /\ UNCHANGED <<applied, subOrg, invoiceColumns, attemptColumns, providerColumns>>

Apply(m) ==
  /\ m \notin applied /\ Dependencies[m] \subseteq applied
  /\ applied' = applied \cup {m}
  /\ UNCHANGED parentColumns

\* Bug: the customer's project is taken, whatever the plan's.
SubscriptionsUnchecked ==
  /\ Apply("subscriptions_0003")
  /\ subOrg' = [s \in OldSubs |-> customerOrg[OldCustomerOf[s]]]
  /\ UNCHANGED <<invoiceColumns, attemptColumns, providerColumns>>

\* A mismatch raises ValueError and undoes all of it.
SubscriptionOrganization ==
  /\ Apply("subscriptions_0003")
  /\ \A s \in OldSubs : ~Mismatched(s)
  /\ subOrg' = [s \in OldSubs |-> customerOrg[OldCustomerOf[s]]]
  /\ UNCHANGED <<invoiceColumns, attemptColumns, providerColumns>>

\* The lines follow the invoices just filled.
InvoiceOrganization ==
  /\ Apply("invoices_0003")
  /\ invoiceOrg' = subOrg
  /\ lineOrg' = invoiceOrg'
  /\ UNCHANGED <<subOrg, attemptColumns, providerColumns>>

\* Bug: a missing key becomes an empty one, instead of the reverse.
PaymentKeysEmptied ==
  /\ Apply("payments_0004")
  /\ attemptOrg' = [a \in OldAttempts |-> invoiceOrg[OldSubOf[a]]]
  /\ clientKey' = [a \in OldAttempts |-> IF clientKey[a] = Null THEN Blank ELSE clientKey[a]]
  /\ \A a, b \in OldAttempts :
       clientKey'[a] = clientKey'[b] /\ attemptOrg'[a] = attemptOrg'[b] => a = b
  /\ UNCHANGED <<subOrg, eventOrg, invoiceColumns, providerColumns>>

\* The column becomes NOT NULL, and the key unique within the project.
PaymentOrganization ==
  /\ Apply("payments_0004")
  /\ attemptOrg' = [a \in OldAttempts |-> invoiceOrg[OldSubOf[a]]]
  /\ clientKey' = [a \in OldAttempts |-> IF clientKey[a] = Blank THEN Null ELSE clientKey[a]]
  /\ eventOrg' = [e \in OldEvents |->
       IF About[e] = Unknown THEN eventOrg[e] ELSE attemptOrg'[About[e]]]
  /\ \A a, b \in OldAttempts :
       clientKey'[a] # Null /\ clientKey'[a] = clientKey'[b] /\ attemptOrg'[a] = attemptOrg'[b]
         => a = b
  /\ UNCHANGED <<subOrg, invoiceColumns, providerColumns>>

\* legacy-payment-<pk> and legacy-webhook-<pk>: named after the row, then unique.
\* The cards' columns are new and empty; the currency is the invoice's.
PaymentGateway ==
  /\ Apply("payments_0005")
  /\ providerKey' = [a \in OldAttempts |-> a]
  /\ eventId' = [e \in OldEvents |-> e]
  /\ UNCHANGED <<subOrg, invoiceColumns, attemptColumns>>

\* accounts_0002 adds an empty table; accounts_0003 has no operations.
Memberships ==
  /\ Apply("accounts_0002") \/ Apply("accounts_0003")
  /\ UNCHANGED <<subOrg, invoiceColumns, attemptColumns, providerColumns>>

Migrate ==
  \/ Memberships \/ SubscriptionOrganization \/ InvoiceOrganization
  \/ PaymentOrganization \/ PaymentGateway

UpgradeNext == Correct \/ Migrate

UpgradeSpec == UpgradeInit /\ [][UpgradeNext]_upgradeVars

-----------------------------------------------------------------------------
\* Once the upgrade has finished, over however many runs, the whole chain of a
\* subscription names the one project of its customer and its plan, as module
\* Tenancy assumes from then on; only an event about an unknown payment has no
\* project; and no two requests of a project share a client key, empty or not.
UpgradedAgrees ==
  applied = Migrations =>
    /\ \A s \in OldSubs :
         {customerOrg[OldCustomerOf[s]], planOrg[OldPlanOf[s]], invoiceOrg[s], lineOrg[s]} = {subOrg[s]}
    /\ \A a \in OldAttempts : attemptOrg[a] = subOrg[OldSubOf[a]] /\ clientKey[a] # Blank
    /\ \A e \in OldEvents :
         eventOrg[e] = IF About[e] = Unknown THEN Null ELSE attemptOrg[About[e]]
    /\ \A a, b \in OldAttempts :
         /\ providerKey[a] = providerKey[b] => a = b
         /\ <<attemptOrg[a], clientKey[a]>> = <<attemptOrg[b], clientKey[b]>>
              => a = b \/ clientKey[a] = Null

\* Only mismatched data stops the upgrade: once the operator has corrected it, a
\* further migration can be applied until there is none left, whatever else the
\* history holds.
NeverStuck ==
  (\A s \in OldSubs : ~Mismatched(s)) /\ applied # Migrations => ENABLED Migrate

\* The upgrade of any history leaves rows that fit the constraints added on the way.
UpgradeSafe == UpgradeTypeOK /\ UpgradedAgrees

=============================================================================
