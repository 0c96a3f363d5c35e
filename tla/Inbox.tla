------------------------------- MODULE Inbox -------------------------------
(***************************************************************************)
(* What PaymentService.handle_webhook promises the provider, as one step:  *)
(* "Events are deduplicated by provider and provider event ID; the first   *)
(* committed payload wins", an event for a payment of ours is settled in   *)
(* the step that stores it and never again, an event for an unknown        *)
(* or a deleted payment is retained and settles nothing, and only what is  *)
(* stored is acknowledged. Module Webhooks implements it.                  *)
(***************************************************************************)
EXTENDS Naturals

CONSTANTS
  Events,    \* provider_event_ids
  Payloads,  \* what an event can report: an attempt, its status and charge id
  Foreign,   \* the payloads about payments that are not ours
  None

VARIABLES
  stored,   \* the payload of each WebhookEvent
  settled,  \* how often settle was run for it
  acked,    \* the events answered 200
  gone      \* the payloads about payments that were deleted

inboxVars == <<stored, settled, acked, gone>>

InboxInit ==
  /\ stored = [e \in Events |-> None]
  /\ settled = [e \in Events |-> 0]
  /\ acked = {} /\ gone = {}

Take(e, p) ==
  /\ stored[e] = None
  /\ stored' = [stored EXCEPT ![e] = p]
  /\ settled' = [settled EXCEPT ![e] = IF p \in Foreign \cup gone THEN 0 ELSE 1]
  /\ UNCHANGED <<acked, gone>>

Acknowledge(e) ==
  /\ stored[e] # None
  /\ acked' = acked \cup {e}
  /\ UNCHANGED <<stored, settled, gone>>

Delete(p) ==
  /\ p \notin Foreign
  /\ gone' = gone \cup {p}
  /\ UNCHANGED <<stored, settled, acked>>

InboxNext ==
  \/ \E e \in Events : Acknowledge(e) \/ \E p \in Payloads : Take(e, p)
  \/ \E p \in Payloads : Delete(p)

InboxSpec == InboxInit /\ [][InboxNext]_inboxVars

=============================================================================
