----------------------------- MODULE MCTenancy -----------------------------
(* Small instances of Tenancy for TLC. *)
EXTENDS Tenancy, TLC

\* Connections, projects and subscriptions are interchangeable.
Symmetry == Permutations(Txns) \cup Permutations(Orgs) \cup Permutations(Subs)

=============================================================================
