------------------------------ MODULE Provider ------------------------------
(***************************************************************************)
(* What a payment gateway promises to the processes that call it: each     *)
(* idempotency key is decided once, and everybody who asks with that key   *)
(* is told that decision.                                                  *)
(***************************************************************************)
CONSTANTS
  Keys,      \* provider_idempotency_key
  Callers,   \* processes
  Results,   \* what a charge can come to
  Undecided

VARIABLES
  decision,  \* the result of each key
  told       \* what each caller has been told, by key

providerVars == <<decision, told>>

ProviderInit ==
  /\ decision = [k \in Keys |-> Undecided]
  /\ told = {}

Decide(k) ==
  /\ decision[k] = Undecided
  /\ \E r \in Results : decision' = [decision EXCEPT ![k] = r]
  /\ UNCHANGED told

Tell(c, k) ==
  /\ decision[k] # Undecided
  /\ told' = told \cup {<<c, k, decision[k]>>}
  /\ UNCHANGED decision

ProviderNext == \E k \in Keys : Decide(k) \/ \E c \in Callers : Tell(c, k)

ProviderSpec == ProviderInit /\ [][ProviderNext]_providerVars

=============================================================================
