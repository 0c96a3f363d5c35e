----------------------------- MODULE MCDatabase -----------------------------
(***************************************************************************)
(* Small instances for TLC of the parts that are about the database: the   *)
(* order of the row locks, and the migrations that made historical rows    *)
(* fit. They share no state, so each behaviour follows one of them.        *)
(***************************************************************************)
EXTENDS Locks, Upgrade, TLC

CONSTANTS s1, s2, i1, i2, i3, a1, a2, a3, c1, c2, p1, e1, e2, o1

VARIABLE part  \* the part that a behaviour follows

\* Locks: subscription s1 has two invoices, s2 has one; one attempt on each.
MCSubOf == i1 :> s1 @@ i2 :> s1 @@ i3 :> s2
MCInvoiceOf == a1 :> i1 @@ a2 :> i2 @@ a3 :> i3
MCPlanOf == [s \in Subs |-> p1]
MCCustomerOf == [s \in Subs |-> c1]

\* Upgrade: two subscriptions of one plan, the second one with two attempts.
MCOldCustomerOf == s1 :> c1 @@ s2 :> c2
MCOldPlanOf == [s \in OldSubs |-> p1]
MCOldSubOf == a1 :> s1 @@ a2 :> s2 @@ a3 :> s2
MCAbout == e1 :> a2 @@ e2 :> Unknown

DatabaseInit ==
  /\ part \in {"locks", "upgrade"}
  /\ LocksInit /\ UpgradeInit
  /\ \/ part = "upgrade"
     \/ /\ \A c \in OldCustomers : customerOrg[c] = o1
        /\ \A l \in OldPlans : planOrg[l] = o1
        /\ \A a \in OldAttempts : clientKey[a] = Null

DatabaseNext ==
  /\ \/ part = "locks" /\ LocksNext /\ UNCHANGED upgradeVars
     \/ part = "upgrade" /\ UpgradeNext /\ UNCHANGED lockVars
  /\ UNCHANGED part

DatabaseSpec == DatabaseInit /\ [][DatabaseNext]_<<part, lockVars, upgradeVars>>

\* Database connections are interchangeable.
Symmetry == Permutations(Txns)

=============================================================================
