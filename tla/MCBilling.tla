----------------------------- MODULE MCBilling -----------------------------
(* Small instances of Billing for TLC. *)
EXTENDS Billing, TLC

CONSTANTS p1, p2, s1

\* One subscription in project p1, the others in p2.
MCOrgOf == [s \in Subs |-> IF s = s1 THEN p1 ELSE p2]

\* Attempts, charge ids and keys are interchangeable.
Symmetry ==
  Permutations(Attempts) \cup Permutations(Charges) \cup Permutations(Keys)

=============================================================================
