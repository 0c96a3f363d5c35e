------------------------------ MODULE Webhooks ------------------------------
(***************************************************************************)
(* WebhookView.post and PaymentService.handle_webhook, statement by        *)
(* statement, in several processes at once: the window of the signature,   *)
(* the look-up of the event id, the insertion under a unique constraint,   *)
(* the settlement in the same transaction, and the answer after it. The    *)
(* provider repeats an event until it is answered 200, perhaps with        *)
(* another payload; deliveries are late, lost or doubled; a process may    *)
(* die at any statement, and an attempt may be deleted. What settle does   *)
(* is in modules Billing and Charging; here it either happens, with the    *)
(* commit, or raises.                                                      *)
(***************************************************************************)
EXTENDS Integers

CONSTANTS
  Servers,    \* processes that serve the endpoint
  Events,     \* provider_event_ids
  Payloads,   \* what an event can report: an attempt, its status and charge id
  Foreign,    \* the payloads about payments that are not ours
  None,
  Window,     \* how old or early a stamp may be: 300 seconds
  Skew,       \* how far the provider's clock may be from ours
  MaxBreaks   \* bound: deaths of processes, and exceptions

Deliveries == [payload : Payloads, age : -Skew .. Window + 1]
Jobs == [event : Events, payload : Payloads]

ASSUME WebhooksAssumption ==
  /\ Foreign \subseteq Payloads
  /\ None \notin Payloads \cup Deliveries \cup Jobs
  /\ {Window, Skew, MaxBreaks} \subseteq Nat /\ Skew <= Window

VARIABLES
  known,    \* payloads whose attempt is committed
  gone,     \* payloads whose attempt was deleted with its customer
  charged,  \* payloads whose charge the provider was asked for
  sent,     \* history: the events the provider has to report
  net,      \* the latest delivery of each event, with the age of its stamp
  pc,       \* the next statement of each process
  job,      \* the event and payload it serves
  stored, settled, acked,  \* as in module Inbox
  breaks    \* how many so far

providerVars == <<known, gone, charged, sent, net>>
inboxVars == <<stored, settled, acked>>
webhookVars == <<providerVars, pc, job, inboxVars, breaks>>

WebhooksTypeOK ==
  /\ {known, gone} \subseteq SUBSET (Payloads \ Foreign)
  /\ known \cap gone = {} /\ charged \subseteq known \cup gone
  /\ sent \subseteq Events
  /\ net \in [Events -> Deliveries \cup {None}]
  /\ pc \in [Servers -> {"idle", "verified", "absent", "inserted", "done"}]
  /\ job \in [Servers -> Jobs \cup {None}]
  /\ \A w \in Servers : pc[w] = "idle" <=> job[w] = None
  /\ stored \in [Events -> Payloads \cup {None}]
  /\ settled \in [Events -> Nat]
  /\ acked \subseteq sent
  /\ breaks \in 0..MaxBreaks

WebhooksInit ==
  /\ known = {} /\ gone = {} /\ charged = {} /\ sent = {}
  /\ net = [e \in Events |-> None]
  /\ pc = [w \in Servers |-> "idle"]
  /\ job = [w \in Servers |-> None]
  /\ stored = [e \in Events |-> None]
  /\ settled = [e \in Events |-> 0]
  /\ acked = {}
  /\ breaks = 0

-----------------------------------------------------------------------------
(* The attempt and the provider *)

\* _prepare commits.
Prepare(p) ==
  /\ p \notin Foreign \cup known \cup gone
  /\ known' = known \cup {p}
  /\ UNCHANGED <<gone, charged, sent, net, pc, job, inboxVars, breaks>>

\* The admin deletes the customer, whatever is under way; events stay.
Delete(p) ==
  /\ p \in known
  /\ known' = known \ {p} /\ gone' = gone \cup {p}
  /\ UNCHANGED <<charged, sent, net, pc, job, inboxVars, breaks>>

\* _charge calls the provider, in no transaction, with what it read of the attempt.
Charge(p) ==
  /\ p \in known \cup gone
  /\ charged' = charged \cup {p}
  /\ UNCHANGED <<known, gone, sent, net, pc, job, inboxVars, breaks>>

\* The provider reports, or repeats, an event with a fresh stamp of its clock.
Report(e, p) ==
  /\ p \in charged \cup Foreign
  /\ sent' = sent \cup {e}
  /\ \E age \in -Skew..Skew : net' = [net EXCEPT ![e] = [payload |-> p, age |-> age]]
  /\ UNCHANGED <<known, gone, charged, pc, job, inboxVars, breaks>>

\* A delivery is late.
Age(e) ==
  /\ net[e] # None /\ net[e].age <= Window
  /\ net' = [net EXCEPT ![e].age = @ + 1]
  /\ UNCHANGED <<known, gone, charged, sent, pc, job, inboxVars, breaks>>

-----------------------------------------------------------------------------
(* The endpoint *)

\* verify_webhook_signature
InWindow(age) == age \in -Window..Window

\* A delivery may be received again: it stays on the net. Any other answer than
\* 200 leaves the provider where it was.
Receive(w, e) ==
  /\ pc[w] = "idle"
  /\ net[e] # None /\ InWindow(net[e].age)
  /\ pc' = [pc EXCEPT ![w] = "verified"]
  /\ job' = [job EXCEPT ![w] = [event |-> e, payload |-> net[e].payload]]
  /\ UNCHANGED <<providerVars, inboxVars, breaks>>

\* Bug: a known event is answered with an error.
LookOrRefuse(w) ==
  /\ pc[w] = "verified"
  /\ LET absent == stored[job[w].event] = None IN
       /\ pc' = [pc EXCEPT ![w] = IF absent THEN "absent" ELSE "idle"]
       /\ job' = [job EXCEPT ![w] = IF absent THEN @ ELSE None]
  /\ UNCHANGED <<providerVars, inboxVars, breaks>>

\* exists(): a known event is answered at once.
Look(w) ==
  /\ pc[w] = "verified"
  /\ pc' = [pc EXCEPT ![w] = IF stored[job[w].event] = None THEN "absent" ELSE "done"]
  /\ UNCHANGED <<providerVars, job, inboxVars, breaks>>

\* Bug: no unique constraint on the event id.
InsertFreely(w) ==
  /\ pc[w] = "absent"
  /\ pc' = [pc EXCEPT ![w] = "inserted"]
  /\ UNCHANGED <<providerVars, job, inboxVars, breaks>>

\* create(): waits for the transaction that is inserting the same event, and is
\* refused if that one committed.
Insert(w) ==
  LET e == job[w].event IN
  /\ pc[w] = "absent"
  /\ \A v \in Servers : pc[v] = "inserted" => job[v].event # e
  /\ pc' = [pc EXCEPT ![w] = IF stored[e] = None THEN "inserted" ELSE "done"]
  /\ UNCHANGED <<providerVars, job, inboxVars, breaks>>

\* The payment is looked up, settled if it is ours, and all of it is committed.
\* If it is deleted before settle has locked it, settle raises: Break.
Commit(w) ==
  LET e == job[w].event
      p == job[w].payload IN
  /\ pc[w] = "inserted"
  /\ pc' = [pc EXCEPT ![w] = "done"]
  /\ stored' = [stored EXCEPT ![e] = p]
  /\ settled' = [settled EXCEPT ![e] = IF p \in known THEN @ + 1 ELSE @]
  /\ UNCHANGED <<providerVars, job, acked, breaks>>

Leave(w) ==
  /\ pc' = [pc EXCEPT ![w] = "idle"]
  /\ job' = [job EXCEPT ![w] = None]
  /\ UNCHANGED <<providerVars, stored, settled>>

Answer(w) ==
  /\ pc[w] = "done"
  /\ Leave(w)
  /\ acked' = acked \cup {job[w].event}
  /\ UNCHANGED breaks

\* The process dies or a statement raises: the transaction is rolled back, or it
\* was committed and nobody is told.
Break(w) ==
  /\ pc[w] # "idle"
  /\ Leave(w)
  /\ breaks < MaxBreaks /\ breaks' = breaks + 1
  /\ UNCHANGED acked

-----------------------------------------------------------------------------
Serve(w) == Look(w) \/ Insert(w) \/ Commit(w) \/ Answer(w)

WebhooksNext ==
  \/ \E p \in Payloads :
       Prepare(p) \/ Delete(p) \/ Charge(p) \/ \E e \in Events : Report(e, p)
  \/ \E e \in Events : Age(e)
  \/ \E w \in Servers : Serve(w) \/ Break(w) \/ \E e \in Events : Receive(w, e)

WebhooksSpec == WebhooksInit /\ [][WebhooksNext]_webhookVars

\* The provider repeats what was not acknowledged, a delivery that comes again
\* and again is in time once, and a request that was received is served.
WebhooksFairness ==
  /\ \A e \in Events :
       /\ WF_webhookVars(e \in sent \ acked /\ \E p \in Payloads : Report(e, p))
       /\ SF_webhookVars(\E w \in Servers : Receive(w, e))
  /\ \A w \in Servers : WF_webhookVars(Serve(w))

FairWebhooks == WebhooksSpec /\ WebhooksFairness

-----------------------------------------------------------------------------
Abstract == INSTANCE Inbox

\* However deliveries race, repeat, disagree or fail halfway, an event is stored
\* once, settled once if the payment is ours, in the step that stores it, and
\* acknowledged only then: the provider never stops repeating what was lost, and
\* never hears "ok" for a payment of ours that was taken for an unknown one.
InboxKept == Abstract!InboxSpec

\* What the provider repeats is acknowledged in the end, so also after a process
\* died between the commit and the answer.
Acknowledged == \A e \in Events : e \in sent ~> e \in acked

=============================================================================
