---------------------------- MODULE MCConstraints ----------------------------
(***************************************************************************)
(* Small instances for TLC of the parts that take no row locks and are     *)
(* decided by unique constraints: memberships, credentials and the         *)
(* gateway's receipts. They share no state, so no interleaving of two of   *)
(* them can do what one alone cannot: each behaviour follows one part.     *)
(***************************************************************************)
EXTENDS Access, Credentials, Gateway, TLC

CONSTANTS ann, Ann, bob, d1

VARIABLE part  \* the part that a behaviour follows

\* Two spellings of one address; staff add bob.
MCFold == (ann :> ann) @@ (Ann :> ann) @@ (bob :> bob)

ConstraintsInit ==
  /\ part \in {"access", "credentials", "gateway"}
  /\ AccessInit /\ CredentialsInit /\ GatewayInit
  /\ part = "gateway" \/ card = d1

ConstraintsNext ==
  /\ \/ part = "access" /\ AccessNext /\ UNCHANGED <<credentialsVars, gatewayVars>>
     \/ part = "credentials" /\ CredentialsNext /\ UNCHANGED <<accessVars, gatewayVars>>
     \/ part = "gateway" /\ GatewayNext /\ UNCHANGED <<accessVars, credentialsVars>>
  /\ UNCHANGED part

ConstraintsSpec ==
  ConstraintsInit
    /\ [][ConstraintsNext]_<<part, accessVars, credentialsVars, gatewayVars>>

\* What is interchangeable in the largest part.
Symmetry == Permutations(Users) \cup Permutations(Orgs)
              \cup Permutations(Invites) \cup Permutations(Requests)

=============================================================================
