------------------------------ MODULE Gateway -------------------------------
(***************************************************************************)
(* A call of MockPaymentGateway.charge, statement by statement. It runs    *)
(* outside any transaction, so two processes that charge one attempt may   *)
(* both find no receipt, both draw a result, and both insert; the unique   *)
(* key of the receipts decides, and the loser reads the winner's. A stored *)
(* receipt is replayed only to a request with the same parameters, which   *)
(* are the attempt's copy of the customer's: clients edit their customers  *)
(* between two calls.                                                      *)
(***************************************************************************)
EXTENDS FiniteSets

CONSTANTS
  Attempts,  \* each with its own provider_idempotency_key (unique_provider_payment_key)
  Workers,   \* processes
  Charges,   \* provider_charge_ids, a fresh one per draw (uuid4)
  Cards,     \* provider_customer_id and provider_payment_method_id of the customer
  Null

VARIABLES
  card,      \* the customer's present card
  snapshot,  \* the card each attempt was made with, Null before it is made
  pc, job,   \* the next statement of each worker, and its attempt
  asked,     \* the card in its ChargeRequest
  draw,      \* the result it has drawn
  seen,      \* the receipt it has read
  receipt,   \* MockChargeReceipt by key
  used,      \* charge ids drawn so far
  told,      \* history: what charge() returned, to whom, for which attempt
  refused    \* history: attempts for which charge() raised

bookVars == <<card, snapshot>>
callVars == <<pc, job, asked, draw, seen>>
gatewayVars == <<bookVars, callVars, receipt, used, told, refused>>

Results == [success : BOOLEAN, charge : Charges]
Receipts == [fingerprint : Cards, result : Results]

ASSUME GatewayAssumption == Null \notin Attempts \cup Cards \cup Results \cup Receipts

GatewayTypeOK ==
  /\ card \in Cards
  /\ snapshot \in [Attempts -> Cards \cup {Null}]
  /\ pc \in [Workers -> {"idle", "look", "insert", "reread", "compare"}]
  /\ job \in [Workers -> Attempts \cup {Null}]
  /\ asked \in [Workers -> Cards \cup {Null}]
  /\ draw \in [Workers -> Results \cup {Null}]
  /\ seen \in [Workers -> Receipts \cup {Null}]
  /\ receipt \in [Attempts -> Receipts \cup {Null}]
  /\ used \subseteq Charges
  /\ told \subseteq Workers \X Attempts \X Results
  /\ refused \subseteq Attempts
  /\ \A w \in Workers : pc[w] = "idle" <=> job[w] = Null

GatewayInit ==
  /\ card \in Cards
  /\ snapshot = [a \in Attempts |-> Null]
  /\ pc = [w \in Workers |-> "idle"]
  /\ job = [w \in Workers |-> Null]
  /\ asked = [w \in Workers |-> Null]
  /\ draw = [w \in Workers |-> Null]
  /\ seen = [w \in Workers |-> Null]
  /\ receipt = [a \in Attempts |-> Null]
  /\ used = {}
  /\ told = {}
  /\ refused = {}

-----------------------------------------------------------------------------
(* The books *)

\* A client changes the customer's provider ids.
EditCustomer(c) ==
  /\ card' = c
  /\ UNCHANGED <<snapshot, callVars, receipt, used, told, refused>>

\* _prepare copies the customer's ids into the attempt.
MakeAttempt(a) ==
  /\ snapshot[a] = Null
  /\ snapshot' = [snapshot EXCEPT ![a] = card]
  /\ UNCHANGED <<card, callVars, receipt, used, told, refused>>

\* PaymentAttempt.clean compares the instance with the stored row.
MaySave(a, c) == c = snapshot[a]

\* The admin saves an attempt, with card c in the form.
SaveAttempt(a, c) ==
  /\ snapshot[a] # Null
  /\ MaySave(a, c)
  /\ snapshot' = [snapshot EXCEPT ![a] = c]
  /\ UNCHANGED <<card, callVars, receipt, used, told, refused>>

-----------------------------------------------------------------------------
(* charge() *)

GoTo(w, step) == pc' = [pc EXCEPT ![w] = step]

Leave(w) ==
  /\ GoTo(w, "idle")
  /\ job' = [job EXCEPT ![w] = Null]
  /\ asked' = [asked EXCEPT ![w] = Null]
  /\ draw' = [draw EXCEPT ![w] = Null]
  /\ seen' = [seen EXCEPT ![w] = Null]

CardOf(a) == snapshot[a]

\* _charge makes the request from the attempt it has read.
Call(w, a) ==
  /\ pc[w] = "idle"
  /\ snapshot[a] # Null
  /\ GoTo(w, "look")
  /\ job' = [job EXCEPT ![w] = a]
  /\ asked' = [asked EXCEPT ![w] = CardOf(a)]
  /\ UNCHANGED <<bookVars, draw, seen, receipt, used, told, refused>>

\* The receipt, or, if there is none, a result of one's own.
Look(w) ==
  /\ pc[w] = "look"
  /\ \/ /\ receipt[job[w]] # Null
        /\ seen' = [seen EXCEPT ![w] = receipt[job[w]]]
        /\ GoTo(w, "compare")
        /\ UNCHANGED <<draw, used>>
     \/ /\ receipt[job[w]] = Null
        /\ \E s \in BOOLEAN, c \in Charges \ used :
             /\ draw' = [draw EXCEPT ![w] = [success |-> s, charge |-> c]]
             /\ used' = used \cup {c}
        /\ GoTo(w, "insert")
        /\ UNCHANGED seen
  /\ UNCHANGED <<bookVars, job, asked, receipt, told, refused>>

\* Bug: update_or_create.
InsertAnyway(w) ==
  LET mine == [fingerprint |-> asked[w], result |-> draw[w]] IN
  /\ pc[w] = "insert"
  /\ receipt' = [receipt EXCEPT ![job[w]] = mine]
  /\ seen' = [seen EXCEPT ![w] = mine]
  /\ GoTo(w, "compare")
  /\ UNCHANGED <<bookVars, job, asked, draw, used, told, refused>>

\* The insertion commits, or fails on the key that was inserted meanwhile.
Insert(w) ==
  LET mine == [fingerprint |-> asked[w], result |-> draw[w]] IN
  /\ pc[w] = "insert"
  /\ \/ /\ receipt[job[w]] = Null
        /\ receipt' = [receipt EXCEPT ![job[w]] = mine]
        /\ seen' = [seen EXCEPT ![w] = mine]
        /\ GoTo(w, "compare")
     \/ /\ receipt[job[w]] # Null
        /\ GoTo(w, "reread")
        /\ UNCHANGED <<seen, receipt>>
  /\ UNCHANGED <<bookVars, job, asked, draw, used, told, refused>>

\* Bug: the loser answers with its own result.
RereadOwn(w) ==
  /\ pc[w] = "reread"
  /\ seen' = [seen EXCEPT ![w] = [fingerprint |-> asked[w], result |-> draw[w]]]
  /\ GoTo(w, "compare")
  /\ UNCHANGED <<bookVars, job, asked, draw, receipt, used, told, refused>>

Reread(w) ==
  /\ pc[w] = "reread"
  /\ seen' = [seen EXCEPT ![w] = receipt[job[w]]]
  /\ GoTo(w, "compare")
  /\ UNCHANGED <<bookVars, job, asked, draw, receipt, used, told, refused>>

\* The fingerprints agree and the result is returned, or ValueError.
Compare(w) ==
  /\ pc[w] = "compare"
  /\ \/ /\ seen[w].fingerprint = asked[w]
        /\ told' = told \cup {<<w, job[w], seen[w].result>>}
        /\ UNCHANGED refused
     \/ /\ seen[w].fingerprint # asked[w]
        /\ refused' = refused \cup {job[w]}
        /\ UNCHANGED told
  /\ Leave(w)
  /\ UNCHANGED <<bookVars, receipt, used>>

\* The process dies; receipts that were inserted stay.
Die(w) ==
  /\ pc[w] # "idle"
  /\ Leave(w)
  /\ UNCHANGED <<bookVars, receipt, used, told, refused>>

-----------------------------------------------------------------------------
GatewayNext ==
  \/ \E c \in Cards : EditCustomer(c)
  \/ \E a \in Attempts :
       \/ MakeAttempt(a)
       \/ \E c \in Cards : SaveAttempt(a, c)
       \/ \E w \in Workers : Call(w, a)
  \/ \E w \in Workers : Look(w) \/ Insert(w) \/ Reread(w) \/ Compare(w) \/ Die(w)

GatewaySpec == GatewayInit /\ [][GatewayNext]_gatewayVars

-----------------------------------------------------------------------------
(* Safety *)

\* Whoever charges an attempt, and however often, is told one result: no two
\* callers act on different charges for one attempt.
OneAnswer ==
  \A x, y \in told : x[2] = y[2] => x[3] = y[3]

\* The fingerprint check, which would leave an attempt PENDING for ever, never
\* refuses one of the program's own calls, though customers are edited between
\* two calls for one attempt.
NeverRefused == refused = {}

\* However calls for one attempt race, die and are repeated while its customer is
\* edited, all are told one result and none is turned away.
GatewaySafe == GatewayTypeOK /\ OneAnswer /\ NeverRefused

\* The gateway decides each key once and tells everybody that decision.
ResultOf(a) == IF receipt[a] = Null THEN Null ELSE receipt[a].result
Promise == INSTANCE Provider WITH Keys <- Attempts, Callers <- Workers,
                                  Undecided <- Null, decision <- [a \in Attempts |-> ResultOf(a)]
PromiseKept == Promise!ProviderSpec

=============================================================================
