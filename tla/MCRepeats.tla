----------------------------- MODULE MCRepeats ------------------------------
(***************************************************************************)
(* Small instances for TLC of the parts that are repeated until they are   *)
(* done: batch tasks, by beat and broker, and webhooks, by the provider.   *)
(* They share no state, so each behaviour follows one of them.             *)
(***************************************************************************)
EXTENDS Batches, Webhooks

VARIABLE part  \* the part that a behaviour follows

RepeatsInit == part \in {"batches", "webhooks"} /\ BatchesInit /\ WebhooksInit

RepeatsNext ==
  /\ \/ part = "batches" /\ BatchesNext /\ UNCHANGED webhookVars
     \/ part = "webhooks" /\ WebhooksNext /\ UNCHANGED batchVars
  /\ UNCHANGED part

RepeatsSpec ==
  /\ RepeatsInit /\ [][RepeatsNext]_<<part, batchVars, webhookVars>>
  /\ part = "batches" => BatchesFairness
  /\ part = "webhooks" => WebhooksFairness

\* However runs and deliveries overlap and repeat, each row is in a state that the
\* code knows, and an item is handled once for each time it became due.
RepeatsSafe == BatchesTypeOK /\ WebhooksTypeOK /\ HandledOncePerDue

=============================================================================
