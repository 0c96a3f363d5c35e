----------------------------- MODULE MCCharging -----------------------------
(* Small instances of Charging for TLC. *)
EXTENDS Charging, TLC

CONSTANTS p1

\* All subscriptions belong to one project.
MCOrgOf == [s \in Subs |-> p1]

\* The provider's charge for an attempt is named like the attempt, so both are
\* permuted together.
Symmetry == Permutations(Attempts) \cup Permutations(Workers)

=============================================================================
