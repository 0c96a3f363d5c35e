----------------------------- MODULE Collection -----------------------------
(***************************************************************************)
(* What billing promises about the money of each invoice, without any word *)
(* on attempts, workers, messages or retries: it is taken once at most,    *)
(* and once taken it is credited to the invoice if that is still owed, and *)
(* set aside for a person to review if the invoice was closed meanwhile.   *)
(***************************************************************************)
CONSTANT Bills   \* every invoice there may be

VARIABLES
  status,   \* is the invoice owed, paid or closed
  money     \* where the money for it is

InitCollection ==
  /\ status = [i \in Bills |-> "none"]
  /\ money = [i \in Bills |-> "none"]

Issue(i) ==
  /\ status[i] = "none"
  /\ status' = [status EXCEPT ![i] = "owed"]
  /\ UNCHANGED money

\* The provider takes the money; the invoice may have been closed already.
Take(i) ==
  /\ status[i] \in {"owed", "closed"}
  /\ money[i] = "none"
  /\ money' = [money EXCEPT ![i] = "taken"]
  /\ UNCHANGED status

Credit(i) ==
  /\ status[i] = "owed" /\ money[i] = "taken"
  /\ status' = [status EXCEPT ![i] = "paid"]
  /\ money' = [money EXCEPT ![i] = "credited"]

SetAside(i) ==
  /\ status[i] = "closed" /\ money[i] = "taken"
  /\ money' = [money EXCEPT ![i] = "review"]
  /\ UNCHANGED status

\* A cancellation closes all that a subscription owes.
Close(S) ==
  /\ \A i \in S : status[i] = "owed"
  /\ status' = [i \in Bills |-> IF i \in S THEN "closed" ELSE status[i]]
  /\ UNCHANGED money

NextCollection ==
  \/ \E i \in Bills : Issue(i) \/ Take(i) \/ Credit(i) \/ SetAside(i)
  \/ \E S \in SUBSET Bills : Close(S)

SpecCollection == InitCollection /\ [][NextCollection]_<<status, money>>

=============================================================================
