---------------------------- MODULE Credentials ----------------------------
(***************************************************************************)
(* How people get in: they register, or are added by staff, and log in,    *)
(* and are given a token. Every request looks first and writes later, and  *)
(* others commit in between; unique constraints on the address and on the  *)
(* token's user decide what the look-ups miss. What a user may do then is  *)
(* in module Access.                                                       *)
(***************************************************************************)
CONSTANTS
  Spellings,  \* e-mail addresses as they are typed
  Fold,       \* lower(): the spelling in lower case
  ByStaff,    \* the spellings in which staff add users
  Tokens,     \* random keys of tokens
  Entries,    \* requests to register or to log in
  Nil         \* no token, or nobody

ASSUME CredentialsAssumption ==
  /\ Fold \in [Spellings -> Spellings]
  /\ \A s \in Spellings : Fold[Fold[s]] = Fold[s]
  /\ ByStaff \subseteq {Fold[s] : s \in Spellings}  \* see Not modelled
  /\ Nil \notin Spellings \cup Tokens

VARIABLES
  users,     \* User.email, as stored
  token,     \* authtoken: the key of each user
  stage,     \* what each request does next
  subject,   \* the address it is about
  answered   \* history: users and the tokens they were given

credentialsVars == <<users, token, stage, subject, answered>>

CredentialsTypeOK ==
  /\ users \subseteq Spellings
  /\ token \in [Spellings -> Tokens \cup {Nil}]
  /\ \A s \in Spellings : token[s] # Nil => s \in users
  /\ stage \in [Entries -> {"idle", "insert", "get", "create"}]
  /\ subject \in [Entries -> Spellings \cup {Nil}]
  /\ \A q \in Entries : stage[q] = "idle" <=> subject[q] = Nil
  /\ answered \subseteq Spellings \X Tokens

CredentialsInit ==
  /\ users = {}
  /\ token = [s \in Spellings |-> Nil]
  /\ stage = [q \in Entries |-> "idle"]
  /\ subject = [q \in Entries |-> Nil]
  /\ answered = {}

-----------------------------------------------------------------------------
Start(q, step, x) ==
  /\ stage[q] = "idle"
  /\ stage' = [stage EXCEPT ![q] = step]
  /\ subject' = [subject EXCEPT ![q] = x]

Finish(q) ==
  /\ stage' = [stage EXCEPT ![q] = "idle"]
  /\ subject' = [subject EXCEPT ![q] = Nil]

\* An error, or the death of the process.
Abort(q) ==
  /\ stage[q] # "idle" /\ Finish(q)
  /\ UNCHANGED <<users, token, answered>>

Fresh(t) == \A s \in Spellings : token[s] # t /\ <<s, t>> \notin answered

Give(s, t) == answered' = answered \cup {<<s, t>>}

\* RegisterSerializer.validate_email: nobody has the address, in any case; it
\* is stored in lower case.
CheckAddress(q, s) ==
  /\ \A u \in users : Fold[u] # Fold[s]
  /\ Start(q, "insert", Fold[s])
  /\ UNCHANGED <<users, token, answered>>

\* RegisterView.post: the user and the token, unless the address was taken.
InsertUser(q, t) ==
  LET s == subject[q] IN
  /\ stage[q] = "insert"
  /\ s \notin users /\ Fresh(t)
  /\ users' = users \cup {s}
  /\ token' = [token EXCEPT ![s] = t]
  /\ Give(s, t) /\ Finish(q)

\* The admin compares addresses as they are typed, and makes no token.
AddByStaff(s) ==
  /\ s \in ByStaff \ users
  /\ users' = users \cup {s}
  /\ UNCHANGED <<token, stage, subject, answered>>

\* LoginView.post: the password is right.
Login(q, s) ==
  /\ Fold[s] \in users
  /\ Start(q, "get", Fold[s])
  /\ UNCHANGED <<users, token, answered>>

\* get_or_create finds the token, or goes on to create one.
GetToken(q) ==
  LET s == subject[q] IN
  /\ stage[q] = "get"
  /\ IF token[s] # Nil
       THEN Give(s, token[s]) /\ Finish(q)
       ELSE stage' = [stage EXCEPT ![q] = "create"] /\ UNCHANGED <<subject, answered>>
  /\ UNCHANGED <<users, token>>

\* Bug: the last of two logins wins.
ReplaceToken(q, t) ==
  LET s == subject[q] IN
  /\ stage[q] = "create" /\ Fresh(t)
  /\ token' = [token EXCEPT ![s] = t] /\ Give(s, t)
  /\ Finish(q)
  /\ UNCHANGED users

\* The insertion fails if another login was faster; then its token is read.
CreateToken(q, t) ==
  LET s == subject[q] IN
  /\ stage[q] = "create" /\ Fresh(t)
  /\ IF token[s] = Nil
       THEN token' = [token EXCEPT ![s] = t] /\ Give(s, t)
       ELSE Give(s, token[s]) /\ UNCHANGED token
  /\ Finish(q)
  /\ UNCHANGED users

-----------------------------------------------------------------------------
CredentialsNext ==
  \/ \E s \in Spellings : AddByStaff(s)
  \/ \E q \in Entries :
       \/ \E s \in Spellings : CheckAddress(q, s) \/ Login(q, s)
       \/ \E t \in Tokens : InsertUser(q, t) \/ CreateToken(q, t)
       \/ GetToken(q) \/ Abort(q)

CredentialsSpec == CredentialsInit /\ [][CredentialsNext]_credentialsVars

-----------------------------------------------------------------------------
\* An address belongs to one user whatever its case, though the constraint
\* compares letters: registrations that race cannot split it, and an invitation,
\* which is matched without regard to case, has one addressee.
AddressNamesOne == \A u, v \in users : Fold[u] = Fold[v] => u = v

\* A user has one token, and each registration and login that ever answered gave
\* that one: no login that raced with it makes a session worthless.
TokenIsOne == \A x \in answered : token[x[1]] = x[2]

\* However registrations and logins race, an address has one user and a user has
\* one token, which is the one that everybody was given.
CredentialsSafe == CredentialsTypeOK /\ AddressNamesOne /\ TokenIsOne

=============================================================================
