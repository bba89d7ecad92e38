--------------------------- MODULE AccountsProofs ---------------------------
(***************************************************************************)
(* Proofs about Accounts for any requests, addresses and subjects, and      *)
(* about StripeBilling for any subscriptions, requests and reconciliations. *)
(***************************************************************************)
EXTENDS Accounts, StripeBilling, FiniteSetTheorems, TLAPS

-----------------------------------------------------------------------------
(* The inductive invariant of Accounts.                                     *)

Row == [role : Roles \cup {""}, admin : BOOLEAN, password : BOOLEAN]

\* What a request can be at, with what it carries along.
Callback ==
  [at : {"email"}, email : Addressees, subject : Subjects,
   known : Addressees \cup {Nobody}, copy : Row \cup {NoRow}]
SigningIn ==
  [at : {"create", "load", "link", "sync", "promote", "issue"}, email : Addressees,
   subject : Subjects \cup {Nobody}, copy : Row \cup {NoRow}]
RoleChange == [at : {"set role", "flag of role"}, email : Addressees, role : Roles]
FlagChange == [at : {"set flag", "role of flag"}, email : Addressees, flag : BOOLEAN, was : Roles \cup {""}]
Serving == {Free} \cup Callback \cup SigningIn \cup RoleChange \cup FlagChange

AccountsTyped ==
  /\ account \in [Addressees -> Row \cup {NoRow}]
  /\ identity \in [Subjects -> Addressees \cup {Nobody}]
  /\ sessions \subseteq Addressees
  /\ signIn \in [Requesters -> Serving]
  /\ overlapped \subseteq Subjects

\* Nothing but a request that is to find or create the account names one that is
\* not there; and only a listed address whose copy has no role is promoted.
Existing ==
  /\ \A e \in sessions : account[e] # NoRow
  /\ \A s \in Subjects : identity[s] # Nobody => account[identity[s]] # NoRow
  /\ \A p \in Requesters :
       /\ signIn[p].at = "email" /\ signIn[p].known # Nobody => account[signIn[p].known] # NoRow
       /\ signIn[p].at \notin {"free", "email", "create"} => account[signIn[p].email] # NoRow
       /\ signIn[p].at = "promote" => Promotes(p)

\* What the callbacks of a subject under way can still do to its identity: of
\* those that did not overlap, whichever links it first, the others agree.
Faithful ==
  \A s \in Subjects \ overlapped :
    /\ \A p \in Linking(s) :
         /\ signIn[p].at = "email" /\ signIn[p].known # Nobody => identity[s] = signIn[p].known
         /\ ~(signIn[p].at = "email" /\ signIn[p].known # Nobody) => identity[s] \in {Nobody, signIn[p].email}
    /\ identity[s] = Nobody => \A p, q \in Linking(s) : signIn[p].email = signIn[q].email

AccountsInv == AccountsTyped /\ Existing /\ Faithful

-----------------------------------------------------------------------------
(* What a request carries along.                                            *)

LEMMA ServingFields ==
  ASSUME NEW d \in Serving
  PROVE  /\ d.at = "free" => d = Free
         /\ d.at # "free" => d.email \in Addressees
         /\ d.at = "email" => d \in Callback
         /\ d.at \in {"create", "load", "link", "sync", "promote", "issue"} => d \in SigningIn
         /\ d.at \in {"set role", "flag of role"} => d \in RoleChange
         /\ d.at \in {"set flag", "role of flag"} => d \in FlagChange
<1>1. CASE d = Free
  BY <1>1 DEF Free
<1>2. CASE d \in Callback
  <2>1. d.at = "email" /\ d.email \in Addressees
    BY <1>2 DEF Callback
  <2> QED
    BY <1>2, <2>1
<1>3. CASE d \in SigningIn
  <2>1. d.at \in {"create", "load", "link", "sync", "promote", "issue"} /\ d.email \in Addressees
    BY <1>3 DEF SigningIn
  <2> QED
    BY <1>3, <2>1
<1>4. CASE d \in RoleChange
  <2>1. d.at \in {"set role", "flag of role"} /\ d.email \in Addressees
    BY <1>4 DEF RoleChange
  <2> QED
    BY <1>4, <2>1
<1>5. CASE d \in FlagChange
  <2>1. d.at \in {"set flag", "role of flag"} /\ d.email \in Addressees
    BY <1>5 DEF FlagChange
  <2> QED
    BY <1>5, <2>1
<1> QED
  BY <1>1, <1>2, <1>3, <1>4, <1>5 DEF Serving

\* A request that only goes on keeps the rest of what it carries.
LEMMA ProceedsFields ==
  ASSUME NEW d \in SigningIn, NEW at \in {"load", "link", "sync", "promote", "issue"}
  PROVE  /\ [d EXCEPT !.at = at] \in SigningIn /\ [d EXCEPT !.at = at].at = at
         /\ [d EXCEPT !.at = at].email = d.email /\ [d EXCEPT !.at = at].subject = d.subject
         /\ [d EXCEPT !.at = at].copy = d.copy
  BY DEF SigningIn

LEMMA RowFields ==
  ASSUME NEW r \in Row, NEW role \in Roles, NEW admin \in BOOLEAN
  PROVE  /\ r.role \in Roles \cup {""} /\ r # NoRow
         /\ [r EXCEPT !.role = role] \in Row /\ [r EXCEPT !.role = role] # NoRow
         /\ [r EXCEPT !.role = role].role = role
         /\ [r EXCEPT !.admin = admin] \in Row /\ [r EXCEPT !.admin = admin] # NoRow
         /\ [r EXCEPT !.admin = admin].role = r.role
<1>1. "no row" \notin Roles \cup {""}
  BY DEF Roles
<1>2. \A x \in Row : x.role \in Roles \cup {""}
  BY DEF Row
<1>3. NoRow.role = "no row"
  BY DEF NoRow
<1>4. [r EXCEPT !.role = role] \in Row /\ [r EXCEPT !.role = role].role = role
  BY DEF Row
<1>5. [r EXCEPT !.admin = admin] \in Row /\ [r EXCEPT !.admin = admin].role = r.role
  BY DEF Row
<1> QED
  BY <1>1, <1>2, <1>3, <1>4, <1>5

-----------------------------------------------------------------------------
(* What a step of one request leaves as it was.                             *)

LEMMA ExistingKept ==
  ASSUME AccountsInv, NEW p \in Requesters, NEW d \in Serving, signIn' = [signIn EXCEPT ![p] = d],
         \A e \in Addressees : account[e] # NoRow => account'[e] # NoRow,
         \A e \in sessions' : account'[e] # NoRow,
         \A s \in Subjects : identity'[s] # Nobody => account'[identity'[s]] # NoRow,
         d.at = "email" /\ d.known # Nobody => account'[d.known] # NoRow,
         d.at \notin {"free", "email", "create"} => account'[d.email] # NoRow,
         d.at = "promote" => d.copy.role = "" /\ d.email \in AdminEmails
  PROVE  Existing'
<1>1. \A q \in Requesters : q # p => signIn'[q] = signIn[q]
  BY DEF AccountsInv, AccountsTyped
<1>2. signIn'[p] = d
  BY DEF AccountsInv, AccountsTyped
<1>3. ASSUME NEW q \in Requesters
      PROVE  /\ signIn'[q].at = "email" /\ signIn'[q].known # Nobody => account'[signIn'[q].known] # NoRow
             /\ signIn'[q].at \notin {"free", "email", "create"} => account'[signIn'[q].email] # NoRow
             /\ signIn'[q].at = "promote" => signIn'[q].copy.role = "" /\ signIn'[q].email \in AdminEmails
  <2>1. CASE q = p
    BY <1>2, <2>1
  <2>2. CASE q # p
    <3>1. signIn'[q] = signIn[q] /\ signIn[q] \in Serving
      BY <1>1, <2>2 DEF AccountsInv, AccountsTyped
    <3>2. /\ signIn[q].at # "free" => signIn[q].email \in Addressees
          /\ signIn[q].at = "email" /\ signIn[q].known # Nobody => signIn[q].known \in Addressees
      BY <3>1, ServingFields DEF Callback
    <3> QED
      BY <3>1, <3>2 DEF AccountsInv, Existing, Promotes
  <2> QED
    BY <2>1, <2>2
<1> QED
  BY <1>3 DEF Existing, Promotes

LEMMA FaithfulKept ==
  ASSUME AccountsInv, NEW p \in Requesters, NEW d \in Serving, signIn' = [signIn EXCEPT ![p] = d],
         identity' = identity, overlapped' = overlapped,
         \/ d.at \notin {"email", "create", "load", "link"}
         \/ d.at = "create" /\ d.subject = Nobody
         \/ /\ signIn[p].at \in {"create", "load"} /\ d.at \in {"load", "link"}
            /\ d.email = signIn[p].email /\ d.subject = signIn[p].subject
  PROVE  Faithful'
<1>1. /\ \A q \in Requesters : q # p => signIn'[q] = signIn[q]
      /\ signIn'[p] = d
  BY DEF AccountsInv, AccountsTyped
<1>2. ASSUME NEW s \in Subjects, NEW q \in Linking(s)'
      PROVE  /\ q \in Linking(s) /\ signIn'[q].email = signIn[q].email
             /\ signIn'[q] = signIn[q] \/ (signIn'[q].at # "email" /\ signIn[q].at # "email")
  <2>1. q \in Requesters /\ signIn'[q].at \in {"email", "create", "load", "link"} /\ signIn'[q].subject = s
    BY <1>2 DEF Linking
  <2>2. CASE q = p
    <3>1. /\ signIn[p].at \in {"create", "load"} /\ signIn'[q].at \in {"load", "link"}
          /\ signIn'[q].email = signIn[p].email /\ signIn[p].subject = s
      BY <1>1, <2>1, <2>2, AccountsAssumption DEF Nobody
    <3> QED
      BY <2>1, <2>2, <3>1 DEF Linking
  <2>3. CASE q # p
    BY <1>1, <2>1, <2>3 DEF Linking
  <2> QED
    BY <2>2, <2>3
<1>3. ASSUME NEW s \in Subjects \ overlapped', NEW q \in Linking(s)'
      PROVE  /\ signIn'[q].at = "email" /\ signIn'[q].known # Nobody => identity'[s] = signIn'[q].known
             /\ ~(signIn'[q].at = "email" /\ signIn'[q].known # Nobody) => identity'[s] \in {Nobody, signIn'[q].email}
  BY <1>2, <1>3 DEF AccountsInv, Faithful
<1>4. ASSUME NEW s \in Subjects \ overlapped', identity'[s] = Nobody, NEW q \in Linking(s)', NEW r \in Linking(s)'
      PROVE  signIn'[q].email = signIn'[r].email
  BY <1>2, <1>4 DEF AccountsInv, Faithful
<1> QED
  BY <1>3, <1>4 DEF Faithful
\* A step of one request that links and overlaps nothing.
LEMMA GoesOn ==
  ASSUME AccountsInv, NEW p \in Requesters, NEW d \in Serving, signIn' = [signIn EXCEPT ![p] = d],
         account' \in [Addressees -> Row \cup {NoRow}],
         \A e \in Addressees : account[e] # NoRow => account'[e] # NoRow,
         sessions' \subseteq Addressees, \A e \in sessions' : account'[e] # NoRow,
         identity' = identity, overlapped' = overlapped,
         d.at \notin {"free", "create"} => account'[d.email] # NoRow,
         d.at = "promote" => d.copy.role = "" /\ d.email \in AdminEmails,
         \/ d.at \notin {"email", "create", "load", "link"}
         \/ d.at = "create" /\ d.subject = Nobody
         \/ /\ signIn[p].at \in {"create", "load"} /\ d.at \in {"load", "link"}
            /\ d.email = signIn[p].email /\ d.subject = signIn[p].subject
  PROVE  AccountsInv'
<1>1. AccountsTyped'
  BY DEF AccountsInv, AccountsTyped
<1>2. \A s \in Subjects : identity'[s] # Nobody => account'[identity'[s]] # NoRow
  BY DEF AccountsInv, AccountsTyped, Existing
<1>3. Existing'
  BY <1>2, ExistingKept
<1>4. Faithful'
  BY FaithfulKept
<1> QED
  BY <1>1, <1>3, <1>4 DEF AccountsInv

-----------------------------------------------------------------------------
(* Each action keeps the invariant.                                         *)

LEMMA Unmoved ==
  ASSUME AccountsInv, UNCHANGED <<account, identity, sessions, signIn, overlapped>>
  PROVE  AccountsInv'
<1>1. AccountsTyped'
  BY DEF AccountsInv, AccountsTyped
<1>2. Existing'
  BY DEF AccountsInv, Existing, Promotes
<1>3. Faithful'
  BY DEF AccountsInv, Faithful, Linking
<1> QED
  BY <1>1, <1>2, <1>3 DEF AccountsInv

LEMMA SignsFields ==
  ASSUME AccountsInv, NEW e \in Addressees, NEW s \in Subjects \cup {Nobody},
         NEW at \in {"create", "link", "sync"}
  PROVE  [at |-> at, email |-> e, subject |-> s, copy |-> account[e]] \in SigningIn
  BY DEF AccountsInv, AccountsTyped, SigningIn

LEMMA SignInBegins ==
  ASSUME AccountsInv, NEW p \in Requesters, NEW e \in Addressees,
         handleRegister(p, e) \/ handleLogin(p, e) \/ handleRefresh(p, e)
  PROVE  AccountsInv'
<1>1. CASE UNCHANGED signIn
  <2>1. UNCHANGED <<account, identity, sessions, signIn, overlapped>>
    BY <1>1 DEF handleRegister, handleLogin, handleRefresh
  <2> QED
    BY <2>1, Unmoved
<1>2. ASSUME NEW at \in {"create", "sync"}, Signs(p, at, e, Nobody), at = "sync" => account[e] # NoRow
      PROVE  AccountsInv'
  <2>1. PICK d : d = [at |-> at, email |-> e, subject |-> Nobody, copy |-> account[e]]
    OBVIOUS
  <2>2. d \in Serving
    BY <2>1, SignsFields DEF Serving
  <2>3. signIn' = [signIn EXCEPT ![p] = d] /\ d.at = at /\ d.email = e /\ d.subject = Nobody
    BY <1>2, <2>1 DEF Signs
  <2>4. account' = account /\ sessions' = sessions /\ identity' = identity /\ overlapped' = overlapped
    BY DEF handleRegister, handleLogin, handleRefresh
  <2> QED
    BY <1>2, <2>2, <2>3, <2>4, GoesOn DEF AccountsInv, AccountsTyped, Existing
<1> QED
  BY <1>1, <1>2 DEF handleRegister, handleLogin, handleRefresh, AccountsInv, Existing

LEMMA TeamBegins ==
  ASSUME AccountsInv, NEW p \in Requesters, NEW e \in Addressees, handleAdminUserMutation(p, e)
  PROVE  AccountsInv'
<1>1. account' = account /\ sessions' = sessions /\ identity' = identity /\ overlapped' = overlapped
      /\ account[e] # NoRow
  BY DEF handleAdminUserMutation
<1>2. account[e].role \in Roles \cup {""}
  <2>1. account[e] \in Row
    BY <1>1 DEF AccountsInv, AccountsTyped
  <2> QED
    BY <2>1 DEF Row
<1>3. ASSUME NEW d \in Serving, signIn' = [signIn EXCEPT ![p] = d], d.at \in {"set role", "set flag"}, d.email = e
      PROVE  AccountsInv'
  BY <1>1, <1>3, GoesOn DEF AccountsInv, AccountsTyped, Existing
<1>4. ASSUME NEW role \in Roles, signIn' = [signIn EXCEPT ![p] = [at |-> "set role", email |-> e, role |-> role]]
      PROVE  AccountsInv'
  <2>1. PICK d : d = [at |-> "set role", email |-> e, role |-> role]
    OBVIOUS
  <2>2. d \in RoleChange /\ d.at = "set role" /\ d.email = e
    BY <2>1 DEF RoleChange
  <2> QED
    BY <1>3, <1>4, <2>1, <2>2 DEF Serving
<1>5. ASSUME NEW flag \in BOOLEAN,
             signIn' = [signIn EXCEPT ![p] = [at |-> "set flag", email |-> e, flag |-> flag, was |-> account[e].role]]
      PROVE  AccountsInv'
  <2>1. PICK d : d = [at |-> "set flag", email |-> e, flag |-> flag, was |-> account[e].role]
    OBVIOUS
  <2>2. d \in FlagChange /\ d.at = "set flag" /\ d.email = e
    BY <1>2, <2>1 DEF FlagChange
  <2> QED
    BY <1>3, <1>5, <2>1, <2>2 DEF Serving
<1> QED
  BY <1>4, <1>5 DEF handleAdminUserMutation

\* The end of a request, with or without a change of the tables.
LEMMA AnsweredKeeps ==
  ASSUME AccountsInv, NEW p \in Requesters, Answered(p),
         account' \in [Addressees -> Row \cup {NoRow}],
         \A e \in Addressees : account[e] # NoRow => account'[e] # NoRow,
         sessions' \subseteq Addressees, \A e \in sessions' : account'[e] # NoRow,
         identity' = identity, overlapped' = overlapped
  PROVE  AccountsInv'
<1>1. Free \in Serving /\ Free.at = "free"
  BY DEF Serving, Free
<1> QED
  BY <1>1, GoesOn DEF Answered

\* The next call of a sign-in, with or without a change of the accounts.
LEMMA ProceedsKeeps ==
  ASSUME AccountsInv, NEW p \in Requesters, NEW at \in {"load", "sync", "promote", "issue"}, Proceeds(p, at),
         signIn[p].at \in {"create", "load", "link", "sync", "promote"},
         at = "load" => signIn[p].at = "create",
         account' \in [Addressees -> Row \cup {NoRow}],
         \A e \in Addressees : account[e] # NoRow => account'[e] # NoRow,
         account'[signIn[p].email] # NoRow, at = "promote" => Promotes(p),
         sessions' = sessions, identity' = identity, overlapped' = overlapped
  PROVE  AccountsInv'
<1>1. signIn[p] \in SigningIn
  BY ServingFields DEF AccountsInv, AccountsTyped
<1>2. PICK d : d = [signIn[p] EXCEPT !.at = at]
  OBVIOUS
<1>6. /\ [signIn[p] EXCEPT !.at = at] \in SigningIn /\ [signIn[p] EXCEPT !.at = at].at = at
      /\ [signIn[p] EXCEPT !.at = at].email = signIn[p].email
      /\ [signIn[p] EXCEPT !.at = at].subject = signIn[p].subject
      /\ [signIn[p] EXCEPT !.at = at].copy = signIn[p].copy
  <2>1. at \in {"load", "link", "sync", "promote", "issue"}
    OBVIOUS
  <2> QED
    BY <1>1, <2>1, ProceedsFields, ZenonT(60)
<1>3. /\ d \in Serving /\ d.at = at /\ d.email = signIn[p].email /\ d.subject = signIn[p].subject
      /\ d.copy = signIn[p].copy
  BY <1>2, <1>6 DEF Serving
<1>4. signIn' = [signIn EXCEPT ![p] = d]
  BY <1>2 DEF Proceeds
<1>5. sessions' \subseteq Addressees /\ \A e \in sessions' : account'[e] # NoRow
  BY DEF AccountsInv, AccountsTyped, Existing
<1> QED
  BY <1>3, <1>4, <1>5, GoesOn DEF Promotes
\* What a write of a role or of a flag leaves of the accounts.
LEMMA RowChange ==
  ASSUME AccountsInv, NEW e \in Addressees, account[e] # NoRow,
         \/ \E role \in Roles : account' = [account EXCEPT ![e].role = role]
         \/ \E admin \in BOOLEAN : account' = [account EXCEPT ![e].admin = admin]
  PROVE  /\ account' \in [Addressees -> Row \cup {NoRow}]
         /\ \A f \in Addressees : account[f] # NoRow => account'[f] # NoRow
<1>1. account[e] \in Row
  BY DEF AccountsInv, AccountsTyped
<1>2. ASSUME NEW row \in Row, row # NoRow, account' = [account EXCEPT ![e] = row]
      PROVE  /\ account' \in [Addressees -> Row \cup {NoRow}]
             /\ \A f \in Addressees : account[f] # NoRow => account'[f] # NoRow
  BY <1>2 DEF AccountsInv, AccountsTyped
<1>3. ASSUME NEW role \in Roles, account' = [account EXCEPT ![e].role = role]
      PROVE  \E row \in Row : row # NoRow /\ account' = [account EXCEPT ![e] = row]
  <2>1. PICK row : row = [account[e] EXCEPT !.role = role]
    OBVIOUS
  <2>2. row \in Row /\ row # NoRow
    BY <1>1, <2>1, RowFields
  <2> QED
    BY <1>3, <2>1, <2>2
<1>4. ASSUME NEW admin \in BOOLEAN, account' = [account EXCEPT ![e].admin = admin]
      PROVE  \E row \in Row : row # NoRow /\ account' = [account EXCEPT ![e] = row]
  <2>0. "user" \in Roles
    BY DEF Roles
  <2>1. PICK row : row = [account[e] EXCEPT !.admin = admin]
    OBVIOUS
  <2>2. row \in Row /\ row # NoRow
    BY <1>1, <2>1, <2>0, RowFields
  <2> QED
    BY <1>4, <2>1, <2>2
<1> QED
  BY <1>2, <1>3, <1>4

LEMMA SameAccounts ==
  ASSUME AccountsInv
  PROVE  /\ account \in [Addressees -> Row \cup {NoRow}] /\ sessions \subseteq Addressees
         /\ \A e \in sessions : account[e] # NoRow
         /\ \A q \in Requesters : signIn[q].at # "free" => signIn[q].email \in Addressees
  BY ServingFields DEF AccountsInv, AccountsTyped, Existing

LEMMA CreateUserKeeps ==
  ASSUME AccountsInv, NEW p \in Requesters, CreateUser(p)
  PROVE  AccountsInv'
<1> DEFINE e == signIn[p].email
<1>1. identity' = identity /\ sessions' = sessions /\ overlapped' = overlapped /\ signIn[p].at = "create"
  BY DEF CreateUser
<1>2. CASE Answered(p) /\ account' = account
  BY <1>1, <1>2, AnsweredKeeps, SameAccounts
<1>3. CASE ~(Answered(p) /\ account' = account)
  <2>1. PICK row : row = [role |-> "", admin |-> FALSE, password |-> signIn[p].subject = Nobody]
    OBVIOUS
  <2>2. row \in Row
    BY <2>1 DEF Row
  <2>3. account[e] = NoRow /\ account' = [account EXCEPT ![e] = row] /\ Proceeds(p, "load")
    BY <1>3, <2>1 DEF CreateUser
  <2>4. e \in Addressees /\ row # NoRow
    BY <1>1, <2>2, RowFields, SameAccounts DEF Roles
  <2>5. /\ account' \in [Addressees -> Row \cup {NoRow}]
        /\ \A f \in Addressees : account[f] # NoRow => account'[f] # NoRow
        /\ account'[e] # NoRow
    BY <2>2, <2>3, <2>4, SameAccounts
  <2> QED
    BY <1>1, <2>3, <2>5, ProceedsKeeps
<1> QED
  BY <1>2, <1>3

LEMMA GetUserByIDKeeps ==
  ASSUME AccountsInv, NEW p \in Requesters, GetUserByID(p)
  PROVE  AccountsInv'
<1> DEFINE e == signIn[p].email
           s == signIn[p].subject
           at == IF s = Nobody THEN "sync" ELSE "link"
<1>1. /\ signIn[p].at = "load" /\ account' = account /\ identity' = identity
      /\ sessions' = sessions /\ overlapped' = overlapped
  BY DEF GetUserByID
<1>2. e \in Addressees /\ s \in Subjects \cup {Nobody} /\ account[e] # NoRow
  <2>1. signIn[p] \in SigningIn
    BY <1>1, ServingFields DEF AccountsInv, AccountsTyped
  <2>2. account[e] # NoRow
    BY <1>1 DEF AccountsInv, Existing
  <2> QED
    BY <2>1, <2>2 DEF SigningIn
<1>3. PICK d : d = [at |-> at, email |-> e, subject |-> s, copy |-> account[e]]
  OBVIOUS
<1>4. d \in Serving
  BY <1>2, <1>3, SignsFields DEF Serving
<1>5. signIn' = [signIn EXCEPT ![p] = d] /\ d.at = at /\ d.email = e /\ d.subject = s
  BY <1>3 DEF GetUserByID, Signs
<1> QED
  BY <1>1, <1>2, <1>4, <1>5, GoesOn, SameAccounts

LEMMA SyncKeeps ==
  ASSUME AccountsInv, NEW p \in Requesters, syncAdminFlag(p) \/ Promote(p)
  PROVE  AccountsInv'
<1> DEFINE e == signIn[p].email
<1>1. /\ signIn[p].at \in {"sync", "promote"} /\ identity' = identity
      /\ sessions' = sessions /\ overlapped' = overlapped
  BY DEF syncAdminFlag, Promote
<1>2. e \in Addressees /\ account[e] # NoRow
  BY <1>1, SameAccounts DEF AccountsInv, Existing
<1>3. ShouldBeAdmin(p) \in BOOLEAN
  <2>1. CASE signIn[p].copy.role = ""
    <3>1. ShouldBeAdmin(p) = (e \in AdminEmails)
      BY <2>1 DEF ShouldBeAdmin
    <3> QED
      BY <3>1
  <2>2. CASE signIn[p].copy.role # ""
    <3>1. ShouldBeAdmin(p) = (signIn[p].copy.role \in {"operator", "admin", "owner"})
      BY <2>2 DEF ShouldBeAdmin, IsTeamRole
    <3> QED
      BY <3>1
  <2> QED
    BY <2>1, <2>2
<1>4. \/ account' = account
      \/ \E role \in Roles : account' = [account EXCEPT ![e].role = role]
      \/ \E admin \in BOOLEAN : account' = [account EXCEPT ![e].admin = admin]
  BY <1>3 DEF syncAdminFlag, Promote, Roles
<1>5. /\ account' \in [Addressees -> Row \cup {NoRow}]
      /\ \A f \in Addressees : account[f] # NoRow => account'[f] # NoRow
      /\ account'[e] # NoRow
  BY <1>2, <1>4, RowChange, SameAccounts
<1>6. PICK at \in {"promote", "issue"} : Proceeds(p, at) /\ (at = "promote" => Promotes(p))
  BY DEF syncAdminFlag, Promote
<1> QED
  BY <1>1, <1>5, <1>6, ProceedsKeeps

LEMMA IssueKeeps ==
  ASSUME AccountsInv, NEW p \in Requesters, issueSessionTokens(p)
  PROVE  AccountsInv'
<1>1. signIn[p].email \in Addressees /\ account[signIn[p].email] # NoRow
  BY SameAccounts DEF AccountsInv, Existing, issueSessionTokens
<1> QED
  BY <1>1, AnsweredKeeps, SameAccounts DEF issueSessionTokens
LEMMA TeamFields ==
  ASSUME NEW d \in Serving
  PROVE  /\ d.at = "set role" =>
              /\ d.role \in Roles /\ [d EXCEPT !.at = "flag of role"] \in Serving
              /\ [d EXCEPT !.at = "flag of role"].at = "flag of role"
              /\ [d EXCEPT !.at = "flag of role"].email = d.email
         /\ d.at = "set flag" =>
              /\ [d EXCEPT !.at = "role of flag"] \in Serving
              /\ [d EXCEPT !.at = "role of flag"].at = "role of flag"
              /\ [d EXCEPT !.at = "role of flag"].email = d.email
<1>1. CASE d.at = "set role"
  <2>1. d \in RoleChange
    BY <1>1, ServingFields
  <2>2. d.role \in Roles /\ [d EXCEPT !.at = "flag of role"] \in RoleChange
    BY <2>1 DEF RoleChange
  <2>3. /\ [d EXCEPT !.at = "flag of role"].at = "flag of role"
        /\ [d EXCEPT !.at = "flag of role"].email = d.email
    BY <2>1 DEF RoleChange
  <2> QED
    BY <1>1, <2>2, <2>3 DEF Serving
<1>2. CASE d.at = "set flag"
  <2>1. d \in FlagChange
    BY <1>2, ServingFields
  <2>2. [d EXCEPT !.at = "role of flag"] \in FlagChange
    BY <2>1 DEF FlagChange
  <2>3. /\ [d EXCEPT !.at = "role of flag"].at = "role of flag"
        /\ [d EXCEPT !.at = "role of flag"].email = d.email
    BY <2>1 DEF FlagChange
  <2> QED
    BY <1>2, <2>2, <2>3 DEF Serving
<1> QED
  BY <1>1, <1>2

LEMMA TeamKeeps ==
  ASSUME AccountsInv, NEW p \in Requesters,
         UpdateUserRole(p) \/ SetUserAdmin(p) \/ SetFlag(p) \/ RoleOfFlag(p)
  PROVE  AccountsInv'
<1> DEFINE e == signIn[p].email
<1>1. /\ identity' = identity /\ sessions' = sessions /\ overlapped' = overlapped
      /\ signIn[p].at \in {"set role", "flag of role", "set flag", "role of flag"}
  BY DEF UpdateUserRole, SetUserAdmin, SetFlag, RoleOfFlag
<1>2. e \in Addressees /\ account[e] # NoRow
  BY <1>1, SameAccounts DEF AccountsInv, Existing
<1>3. signIn[p] \in Serving
  BY DEF AccountsInv, AccountsTyped
<1>4. \/ \E role \in Roles : account' = [account EXCEPT ![e].role = role]
      \/ \E admin \in BOOLEAN : account' = [account EXCEPT ![e].admin = admin]
  <2>1. CASE UpdateUserRole(p)
    BY <1>3, <2>1, TeamFields DEF UpdateUserRole
  <2>2. CASE SetUserAdmin(p)
    <3>1. IsTeamRole(signIn[p].role) \in BOOLEAN
      BY DEF IsTeamRole
    <3> QED
      BY <2>2, <3>1 DEF SetUserAdmin
  <2>3. CASE SetFlag(p)
    <3>1. signIn[p].flag \in BOOLEAN
      BY <1>3, <2>3, ServingFields, Zenon DEF SetFlag, FlagChange
    <3> QED
      BY <2>3, <3>1 DEF SetFlag
  <2>4. CASE RoleOfFlag(p)
    BY <2>4 DEF RoleOfFlag, Roles
  <2> QED
    BY <2>1, <2>2, <2>3, <2>4
<1>5. /\ account' \in [Addressees -> Row \cup {NoRow}]
      /\ \A f \in Addressees : account[f] # NoRow => account'[f] # NoRow
  BY <1>2, <1>4, RowChange
<1>6. sessions' \subseteq Addressees /\ \A f \in sessions' : account'[f] # NoRow
  BY <1>1, <1>5, SameAccounts
<1>7. CASE Answered(p)
  BY <1>1, <1>5, <1>6, <1>7, AnsweredKeeps
<1>8. CASE ~Answered(p)
  <2>1. \/ signIn[p].at = "set role" /\ Proceeds(p, "flag of role")
        \/ signIn[p].at = "set flag" /\ Proceeds(p, "role of flag")
    BY <1>8 DEF UpdateUserRole, SetUserAdmin, SetFlag, RoleOfFlag
  <2>2. PICK d : d \in Serving /\ d.at \in {"flag of role", "role of flag"} /\ d.email = e
                   /\ signIn' = [signIn EXCEPT ![p] = d]
    BY <1>3, <2>1, TeamFields DEF Proceeds
  <2> QED
    BY <1>1, <1>2, <1>5, <1>6, <2>2, GoesOn
<1> QED
  BY <1>7, <1>8
\* The second look at the address: the request goes on with the known account,
\* or else with the address.
LEMMA GetUserByEmailKeeps ==
  ASSUME AccountsInv, NEW p \in Requesters, GetUserByEmail(p)
  PROVE  AccountsInv'
<1> DEFINE e == signIn[p].email
           known == signIn[p].known
           s == signIn[p].subject
<1>1. /\ account' = account /\ identity' = identity /\ sessions' = sessions /\ overlapped' = overlapped
      /\ signIn[p].at = "email"
  BY DEF GetUserByEmail
<1>2. /\ e \in Addressees /\ s \in Subjects /\ known \in Addressees \cup {Nobody}
      /\ signIn[p].copy \in Row \cup {NoRow}
  <2>1. signIn[p] \in Callback
    BY <1>1, ServingFields DEF AccountsInv, AccountsTyped
  <2> QED
    BY <2>1 DEF Callback
<1>3. CASE Answered(p)
  BY <1>1, <1>3, AnsweredKeeps, SameAccounts
<1>4. ASSUME NEW at \in {"create", "link"}, NEW row \in Row \cup {NoRow},
             signIn' = [signIn EXCEPT ![p] = [at |-> at, email |-> IF known # Nobody THEN known ELSE e,
                                              subject |-> s, copy |-> row]],
             at = "link" => account[IF known # Nobody THEN known ELSE e] # NoRow
      PROVE  AccountsInv'
  <2> DEFINE f == IF known # Nobody THEN known ELSE e
  <2>1. PICK d : d = [at |-> at, email |-> f, subject |-> s, copy |-> row]
    OBVIOUS
  <2>2. d \in SigningIn /\ d.at = at /\ d.email = f /\ d.subject = s /\ f \in Addressees
    BY <1>2, <2>1 DEF SigningIn
  <2>3. signIn' = [signIn EXCEPT ![p] = d]
    BY <1>4, <2>1
  <2>4. d \in Serving
    BY <2>2 DEF Serving
  <2>5. AccountsTyped'
    BY <1>1, <2>3, <2>4 DEF AccountsInv, AccountsTyped
  <2>6. Existing'
    <3>1. \A t \in Subjects : identity'[t] # Nobody => account'[identity'[t]] # NoRow
      BY <1>1 DEF AccountsInv, AccountsTyped, Existing
    <3>2. d.at \notin {"free", "email", "create"} => account'[d.email] # NoRow
      BY <1>1, <1>4, <2>2
    <3> QED
      BY <1>1, <2>2, <2>3, <2>4, <3>1, <3>2, ExistingKept, SameAccounts
  <2>7. /\ \A q \in Requesters : q # p => signIn'[q] = signIn[q]
        /\ signIn'[p] = d
    BY <2>3 DEF AccountsInv, AccountsTyped
  <2>8. ASSUME NEW t \in Subjects
        PROVE  /\ Linking(t)' = Linking(t)
               /\ \A q \in Linking(t) : q # p => signIn'[q] = signIn[q]
               /\ p \in Linking(t) => t = s /\ p \in Linking(s)
    BY <1>1, <2>2, <2>7 DEF Linking
  <2>9. ASSUME NEW t \in Subjects \ overlapped, NEW q \in Linking(t)
        PROVE  /\ signIn'[q].at = "email" /\ signIn'[q].known # Nobody => identity[t] = signIn'[q].known
               /\ ~(signIn'[q].at = "email" /\ signIn'[q].known # Nobody) => identity[t] \in {Nobody, signIn'[q].email}
               /\ identity[t] = Nobody => signIn'[q].email = signIn[q].email
    <3>1. CASE q # p
      BY <2>8, <3>1 DEF AccountsInv, Faithful
    <3>2. CASE q = p /\ known # Nobody
      BY <1>1, <2>2, <2>7, <2>8, <3>2 DEF AccountsInv, Faithful
    <3>3. CASE q = p /\ known = Nobody
      BY <1>1, <2>2, <2>7, <2>8, <3>3 DEF AccountsInv, Faithful
    <3> QED
      BY <3>1, <3>2, <3>3
  <2>10. Faithful'
    <3>1. ASSUME NEW t \in Subjects \ overlapped', identity'[t] = Nobody, NEW q \in Linking(t)', NEW r \in Linking(t)'
          PROVE  signIn'[q].email = signIn'[r].email
      BY <1>1, <2>8, <2>9, <3>1 DEF AccountsInv, Faithful
    <3> QED
      BY <1>1, <2>8, <2>9, <3>1 DEF Faithful
  <2> QED
    BY <2>5, <2>6, <2>10 DEF AccountsInv
<1>5. known # Nobody => account[known] # NoRow
  BY <1>1 DEF AccountsInv, Existing
<1>6. account[e] \in Row \cup {NoRow}
  BY <1>2 DEF AccountsInv, AccountsTyped
<1>7. CASE ~Answered(p)
  <2>1. CASE known # Nobody
    BY <1>2, <1>4, <1>5, <1>7, <2>1 DEF GetUserByEmail
  <2>2. CASE known = Nobody /\ account[e] # NoRow
    BY <1>4, <1>6, <2>2 DEF GetUserByEmail
  <2>3. CASE known = Nobody /\ account[e] = NoRow
    BY <1>4, <2>3 DEF GetUserByEmail
  <2> QED
    BY <2>1, <2>2, <2>3
<1> QED
  BY <1>3, <1>7

\* A callback starts from the identity as it is; an address other than that of
\* another callback of the subject makes it one that overlapped.
LEMMA CallbackKeeps ==
  ASSUME AccountsInv, NEW p \in Requesters, NEW s \in Subjects, NEW e \in Addressees,
         handleGoogleCallback(p, s, e)
  PROVE  AccountsInv'
<1> DEFINE known == identity[s]
           row == IF known = Nobody THEN NoRow ELSE account[known]
<1>1. /\ account' = account /\ identity' = identity /\ sessions' = sessions /\ signIn[p] = Free
      /\ overlapped' \in {overlapped, overlapped \cup {s}}
      /\ s \notin overlapped' => \A q \in Linking(s) : signIn[q].email = e
  BY DEF handleGoogleCallback, Begins
<1>2. known \in Addressees \cup {Nobody} /\ row \in Row \cup {NoRow} /\ (known # Nobody => account[known] # NoRow)
  BY DEF AccountsInv, AccountsTyped, Existing
<1>3. PICK d : d = [at |-> "email", email |-> e, subject |-> s, known |-> known, copy |-> row]
  OBVIOUS
<1>4. signIn' = [signIn EXCEPT ![p] = d]
  BY <1>3 DEF handleGoogleCallback, ByIdentity
<1>5. d \in Callback /\ d.at = "email" /\ d.email = e /\ d.subject = s /\ d.known = known
  BY <1>2, <1>3 DEF Callback
<1>6. d \in Serving
  BY <1>5 DEF Serving
<1>7. AccountsTyped'
  BY <1>1, <1>4, <1>6 DEF AccountsInv, AccountsTyped
<1>8. Existing'
  <2>1. \A t \in Subjects : identity'[t] # Nobody => account'[identity'[t]] # NoRow
    BY <1>1 DEF AccountsInv, AccountsTyped, Existing
  <2> QED
    BY <1>1, <1>2, <1>4, <1>5, <1>6, <2>1, ExistingKept, SameAccounts
<1>9. /\ \A q \in Requesters : q # p => signIn'[q] = signIn[q]
      /\ signIn'[p] = d
  BY <1>4 DEF AccountsInv, AccountsTyped
<1>10. ASSUME NEW t \in Subjects
       PROVE  /\ \A q \in Linking(t)' : (q = p /\ t = s) \/ (q # p /\ q \in Linking(t) /\ signIn'[q] = signIn[q])
  BY <1>1, <1>5, <1>9 DEF Linking
<1>11. ASSUME NEW t \in Subjects \ overlapped', NEW q \in Linking(t)'
       PROVE  /\ signIn'[q].at = "email" /\ signIn'[q].known # Nobody => identity[t] = signIn'[q].known
              /\ ~(signIn'[q].at = "email" /\ signIn'[q].known # Nobody) => identity[t] \in {Nobody, signIn'[q].email}
  <2>1. CASE q # p
    BY <1>1, <1>10, <1>11, <2>1 DEF AccountsInv, Faithful
  <2>2. CASE q = p
    BY <1>5, <1>9, <1>10, <1>11, <2>2
  <2> QED
    BY <2>1, <2>2
<1>12. ASSUME NEW t \in Subjects \ overlapped', identity[t] = Nobody, NEW q \in Linking(t)', NEW r \in Linking(t)'
       PROVE  signIn'[q].email = signIn'[r].email
  <2>1. CASE t = s
    <3>1. \A x \in Linking(s)' : signIn'[x].email = e
      BY <1>1, <1>5, <1>9, <1>10, <1>12, <2>1
    <3> QED
      BY <2>1, <3>1, <1>12
  <2>2. CASE t # s
    BY <1>1, <1>10, <1>12, <2>2 DEF AccountsInv, Faithful
  <2> QED
    BY <2>1, <2>2
<1>13. Faithful'
  BY <1>1, <1>11, <1>12 DEF Faithful
<1> QED
  BY <1>7, <1>8, <1>13 DEF AccountsInv
\* Linking gives the subject the account that every other callback of it that did
\* not overlap would give it, or leaves it with the one it has.
LEMMA LinkKeeps ==
  ASSUME AccountsInv, NEW p \in Requesters, UpsertUserAuthIdentity(p)
  PROVE  /\ AccountsInv'
         /\ \A t \in Subjects : identity[t] \notin {Nobody, identity'[t]} => t \in overlapped
<1> DEFINE e == signIn[p].email
           s == signIn[p].subject
<1>1. /\ account' = account /\ sessions' = sessions /\ overlapped' = overlapped
      /\ signIn[p].at = "link"
  BY DEF UpsertUserAuthIdentity
<1>2. e \in Addressees /\ s \in Subjects \cup {Nobody} /\ account[e] # NoRow
  <2>1. signIn[p] \in SigningIn
    BY <1>1, ServingFields DEF AccountsInv, AccountsTyped
  <2>2. account[e] # NoRow
    BY <1>1 DEF AccountsInv, Existing
  <2> QED
    BY <2>1, <2>2 DEF SigningIn
<1>3. CASE Answered(p) /\ identity' = identity
  BY <1>1, <1>3, AnsweredKeeps, SameAccounts DEF AccountsInv, AccountsTyped
<1>4. CASE s = Nobody /\ identity' = identity /\ Proceeds(p, "sync")
  <2>1. AccountsInv'
    BY <1>1, <1>2, <1>4, ProceedsKeeps, SameAccounts
  <2> QED
    BY <1>4, <2>1 DEF AccountsInv, AccountsTyped
<1>5. CASE s \in Subjects /\ identity' = [identity EXCEPT ![s] = e] /\ Proceeds(p, "sync")
  <2>1. p \in Linking(s)
    BY <1>1 DEF Linking
  <2>2. s \notin overlapped => identity[s] \in {Nobody, e}
    BY <1>1, <1>5, <2>1 DEF AccountsInv, Faithful
  <2>3. /\ identity' \in [Subjects -> Addressees \cup {Nobody}] /\ identity'[s] = e
        /\ \A t \in Subjects : t # s => identity'[t] = identity[t]
    BY <1>2, <1>5 DEF AccountsInv, AccountsTyped
  <2>4. \A t \in Subjects : identity[t] \notin {Nobody, identity'[t]} => t \in overlapped
    BY <2>2, <2>3
  <2>5. signIn[p] \in SigningIn
    BY <1>1, ServingFields DEF AccountsInv, AccountsTyped
  <2>6. PICK d : d = [signIn[p] EXCEPT !.at = "sync"]
    OBVIOUS
  <2>7. d \in Serving /\ d.at = "sync" /\ d.email = e
    BY <2>5, <2>6, ProceedsFields DEF Serving
  <2>8. signIn' = [signIn EXCEPT ![p] = d]
    BY <1>5, <2>6 DEF Proceeds
  <2>9. AccountsTyped'
    BY <1>1, <2>3, <2>7, <2>8 DEF AccountsInv, AccountsTyped
  <2>10. Existing'
    <3>1. \A t \in Subjects : identity'[t] # Nobody => account'[identity'[t]] # NoRow
      BY <1>1, <1>2, <2>3 DEF AccountsInv, AccountsTyped, Existing
    <3> QED
      BY <1>1, <1>2, <2>7, <2>8, <3>1, ExistingKept, SameAccounts
  <2>11. /\ \A q \in Requesters : q # p => signIn'[q] = signIn[q]
         /\ signIn'[p] = d
    BY <2>8 DEF AccountsInv, AccountsTyped
  <2>12. ASSUME NEW t \in Subjects, NEW q \in Linking(t)'
         PROVE  q # p /\ q \in Linking(t) /\ signIn'[q] = signIn[q]
    BY <2>7, <2>11 DEF Linking
  <2>13. ASSUME NEW t \in Subjects \ overlapped', NEW q \in Linking(t)'
         PROVE  /\ signIn'[q].at = "email" /\ signIn'[q].known # Nobody => identity'[t] = signIn'[q].known
                /\ ~(signIn'[q].at = "email" /\ signIn'[q].known # Nobody) => identity'[t] \in {Nobody, signIn'[q].email}
    <3>1. CASE t # s
      BY <1>1, <2>3, <2>12, <2>13, <3>1 DEF AccountsInv, Faithful
    <3>2. CASE t = s /\ identity[s] = e
      BY <1>1, <2>3, <2>12, <2>13, <3>2 DEF AccountsInv, Faithful
    <3>3. CASE t = s /\ identity[s] = Nobody
      <4>1. signIn[q].email = e
        BY <1>1, <2>1, <2>12, <2>13, <3>3 DEF AccountsInv, Faithful
      <4>2. ~(signIn[q].at = "email" /\ signIn[q].known # Nobody)
        BY <1>1, <2>12, <2>13, <3>3 DEF AccountsInv, Faithful
      <4> QED
        BY <2>3, <2>12, <2>13, <3>3, <4>1, <4>2
    <3> QED
      BY <1>1, <2>2, <2>13, <3>1, <3>2, <3>3
  <2>14. e # Nobody
    BY <1>2, AccountsAssumption DEF Nobody
  <2>15. ASSUME NEW t \in Subjects \ overlapped', identity'[t] = Nobody, NEW q \in Linking(t)', NEW r \in Linking(t)'
         PROVE  signIn'[q].email = signIn'[r].email
    BY <1>1, <2>3, <2>12, <2>14, <2>15 DEF AccountsInv, Faithful
  <2>16. Faithful'
    BY <2>13, <2>15 DEF Faithful
  <2> QED
    BY <2>4, <2>9, <2>10, <2>16 DEF AccountsInv
<1>6. [identity EXCEPT ![Nobody] = e] = identity
  BY AccountsAssumption DEF AccountsInv, AccountsTyped, Nobody
<1> QED
  BY <1>2, <1>3, <1>4, <1>5, <1>6 DEF UpsertUserAuthIdentity

-----------------------------------------------------------------------------
(* The results.                                                             *)

LEMMA AdminAlone ==
  ASSUME NEW r \in Row, NEW admin
  PROVE  [r EXCEPT !.admin = admin].role = r.role
  BY DEF Row

\* A step that writes a role somebody of the team chose.
LEMMA RoleStep ==
  ASSUME AccountsInv, [AccountsNext]_accountVars, NEW e \in Addressees,
         account[e].role \in Roles, account'[e].role # account[e].role
  PROVE  \E p \in Requesters :
           /\ signIn[p].at \in {"set role", "role of flag", "promote"} /\ signIn[p].email = e
           /\ signIn[p].at = "promote" => e \in AdminEmails /\ signIn[p].copy.role = ""
<1>1. account[e] \in Row
  <2>1. NoRow.role \notin Roles
    BY DEF NoRow, Roles
  <2>2. account[e] \in Row \cup {NoRow}
    BY DEF AccountsInv, AccountsTyped
  <2> QED
    BY <2>1, <2>2
<1>2. ASSUME NEW p \in Requesters, NEW admin,
             account' = [account EXCEPT ![signIn[p].email].admin = admin]
      PROVE  FALSE
  <2>1. PICK row : row = [account[e] EXCEPT !.admin = admin]
    OBVIOUS
  <2>2. row.role = account[e].role
    BY <1>1, <2>1, AdminAlone
  <2>3. account'[e] = account[e] \/ account'[e] = row
    BY <1>2, <2>1 DEF AccountsInv, AccountsTyped
  <2> QED
    BY <2>2, <2>3
<1>3. account' # account
  OBVIOUS
<1>4. PICK p \in Requesters :
        \/ CreateUser(p) \/ syncAdminFlag(p) \/ Promote(p)
        \/ UpdateUserRole(p) \/ SetUserAdmin(p) \/ SetFlag(p) \/ RoleOfFlag(p)
  BY <1>3 DEF AccountsNext, accountVars, handleRegister, handleLogin, handleRefresh, handleAdminUserMutation,
     handleGoogleCallback, GetUserByEmail, GetUserByID, UpsertUserAuthIdentity, issueSessionTokens
<1>5. signIn[p].at # "free" => signIn[p].email \in Addressees
  BY SameAccounts
<1>6. ~CreateUser(p)
  <2>1. account[e] # NoRow
    BY <1>1, RowFields DEF Roles
  <2> QED
    BY <1>3, <2>1 DEF CreateUser, AccountsInv, AccountsTyped
<1>7. ~syncAdminFlag(p) /\ ~SetUserAdmin(p) /\ ~SetFlag(p)
  <2>1. ~syncAdminFlag(p)
    BY <1>2, <1>3 DEF syncAdminFlag
  <2>2. ~SetUserAdmin(p)
    BY <1>2 DEF SetUserAdmin
  <2>3. ~SetFlag(p)
    BY <1>2 DEF SetFlag
  <2> QED
    BY <2>1, <2>2, <2>3
<1>8. CASE Promote(p)
  <2>1. signIn[p].at = "promote" /\ Promotes(p)
    BY <1>8 DEF Promote, AccountsInv, Existing
  <2>2. signIn[p].email = e
    BY <1>3, <1>8 DEF Promote, AccountsInv, AccountsTyped
  <2> QED
    BY <2>1, <2>2 DEF Promotes
<1>9. CASE UpdateUserRole(p) \/ RoleOfFlag(p)
  <2>1. signIn[p].at \in {"set role", "role of flag"}
    BY <1>9 DEF UpdateUserRole, RoleOfFlag
  <2>2. signIn[p].email = e
    BY <1>3, <1>9 DEF UpdateUserRole, RoleOfFlag, AccountsInv, AccountsTyped
  <2> QED
    BY <2>1, <2>2
<1> QED
  BY <1>4, <1>6, <1>7, <1>8, <1>9
LEMMA AccountsInvInit == AccountsInit => AccountsInv
<1> SUFFICES ASSUME AccountsInit PROVE AccountsInv
  OBVIOUS
<1>1. Free.at = "free" /\ Free \in Serving
  BY DEF Free, Serving
<1>2. AccountsTyped
  BY <1>1 DEF AccountsInit, AccountsTyped
<1>3. Existing
  BY <1>1 DEF AccountsInit, Existing
<1>4. Faithful
  BY <1>1 DEF AccountsInit, Faithful, Linking
<1> QED
  BY <1>2, <1>3, <1>4 DEF AccountsInv

LEMMA AccountsInvStep == AccountsInv /\ [AccountsNext]_accountVars => AccountsInv'
<1> SUFFICES ASSUME AccountsInv, [AccountsNext]_accountVars PROVE AccountsInv'
  OBVIOUS
<1>1. CASE UNCHANGED accountVars
  BY <1>1, Unmoved DEF accountVars
<1>2. CASE AccountsNext
  BY <1>2, SignInBegins, TeamBegins, CallbackKeeps, GetUserByEmailKeeps, CreateUserKeeps, GetUserByIDKeeps,
     LinkKeeps, SyncKeeps, IssueKeeps, TeamKeeps DEF AccountsNext
<1> QED
  BY <1>1, <1>2

\* A person keeps the account, and the role the team chose, through whatever
\* requests run at once (handleGoogleCallback, syncAdminFlag).
THEOREM PeopleKeepAccounts == AccountsSpec => AccountsKept
<1>1. AccountsInv /\ [AccountsNext]_accountVars =>
        [/\ \A s \in Subjects : identity[s] \notin {Nobody, identity'[s]} => s \in overlapped
         /\ \A e \in Addressees :
              account[e].role \in Roles /\ account'[e].role # account[e].role =>
                \E p \in Requesters :
                  /\ signIn[p].at \in {"set role", "role of flag", "promote"} /\ signIn[p].email = e
                  /\ signIn[p].at = "promote" => e \in AdminEmails /\ signIn[p].copy.role = ""]_accountVars
  <2> SUFFICES ASSUME AccountsInv, [AccountsNext]_accountVars
               PROVE  /\ \A s \in Subjects : identity[s] \notin {Nobody, identity'[s]} => s \in overlapped
                      /\ \A e \in Addressees :
                           account[e].role \in Roles /\ account'[e].role # account[e].role =>
                             \E p \in Requesters :
                               /\ signIn[p].at \in {"set role", "role of flag", "promote"} /\ signIn[p].email = e
                               /\ signIn[p].at = "promote" => e \in AdminEmails /\ signIn[p].copy.role = ""
    OBVIOUS
  <2>1. identity' = identity \/ \E p \in Requesters : UpsertUserAuthIdentity(p)
    BY ZenonT(60) DEF AccountsNext, accountVars, handleRegister, handleLogin, handleRefresh, handleAdminUserMutation,
       handleGoogleCallback, GetUserByEmail, CreateUser, GetUserByID, syncAdminFlag, Promote, issueSessionTokens,
       UpdateUserRole, SetUserAdmin, SetFlag, RoleOfFlag
  <2>3. \A s \in Subjects : identity[s] \notin {Nobody, identity'[s]} => s \in overlapped
    BY <2>1, LinkKeeps
  <2> QED
    BY <2>3, RoleStep
<1> QED
  BY <1>1, AccountsInvInit, AccountsInvStep, PTL DEF AccountsSpec, AccountsKept

-----------------------------------------------------------------------------
(* What a customer pays for.                                                *)

\* What a request and a reconciliation can be at, when n events were sent.
Deliveries(n) ==
  {Idle} \cup [at : {"tier"}, event : 1..n] \cup [at : {"snapshot", "persist"}, object : Object]
Listings == {NoPass} \cup [at : {"snapshot", "persist"}, left : Seq(Object) \ {<<>>}]

BillingTyped ==
  /\ stripe \in [Subs -> Object \cup {None}]
  /\ sent \in Seq(Event)
  /\ processed \subseteq 1..Len(sent)
  /\ snapshot \in [Subs -> Object \cup {None}]
  /\ tier \in PaidTiers \cup {"free"}
  /\ handler \in [Handlers -> Deliveries(Len(sent))]
  /\ pass \in [Reconcilers -> Listings]
  /\ mishaps \in 0..MaxMishaps
  /\ Len(sent) <= MaxEvents + 1
  /\ spent \in [Events -> Nat]

LEMMA ObjectFields ==
  /\ None \notin Object /\ \A o \in Object : o.sub \in Subs /\ o.status \in Statuses /\ o.tier \in PaidTiers
  /\ None.status = "none"
  /\ \A o \in Object, t \in PaidTiers : [o EXCEPT !.tier = t] \in Object
  /\ \A o \in Object : [o EXCEPT !.status = "ended"] \in Object
  /\ \A s \in Subs, status \in Statuses, t \in PaidTiers : [sub |-> s, status |-> status, tier |-> t] \in Object
<1>1. \A o \in Object : o.sub \in Subs /\ o.status \in Statuses /\ o.tier \in PaidTiers
  BY DEF Object
<1>2. None.status = "none" /\ "none" \notin Statuses
  BY DEF None, Statuses
<1>3. \A o \in Object, t \in PaidTiers : [o EXCEPT !.tier = t] \in Object
  BY DEF Object
<1>4. \A o \in Object : [o EXCEPT !.status = "ended"] \in Object
  BY DEF Object, Statuses
<1>5. \A s \in Subs, status \in Statuses, t \in PaidTiers : [sub |-> s, status |-> status, tier |-> t] \in Object
  BY DEF Object
<1> QED
  BY <1>1, <1>2, <1>3, <1>4, <1>5

LEMMA DeliveryFields ==
  ASSUME NEW n \in Nat, NEW d \in Deliveries(n)
  PROVE  /\ d.at = "tier" => d.event \in 1..n
         /\ d.at \in {"snapshot", "persist"} => d.object \in Object
         /\ d.at = "snapshot" => [d EXCEPT !.at = "persist"] \in Deliveries(n)
         /\ \A m \in Nat : m >= n => d \in Deliveries(m)
<1>1. CASE d = Idle
  BY <1>1 DEF Idle, Deliveries
<1>2. CASE d \in [at : {"tier"}, event : 1..n]
  <2>1. \A m \in Nat : m >= n => d \in [at : {"tier"}, event : 1..m]
    BY <1>2
  <2>2. d.at = "tier" /\ d.event \in 1..n
    BY <1>2
  <2> QED
    BY <2>1, <2>2 DEF Deliveries
<1>3. CASE d \in [at : {"snapshot", "persist"}, object : Object]
  <2>1. d.at \in {"snapshot", "persist"} /\ d.object \in Object
    BY <1>3
  <2>2. [d EXCEPT !.at = "persist"] \in [at : {"snapshot", "persist"}, object : Object]
    BY <1>3
  <2> QED
    BY <1>3, <2>1, <2>2 DEF Deliveries
<1> QED
  BY <1>1, <1>2, <1>3 DEF Deliveries

LEMMA ListingFields ==
  ASSUME NEW d \in Listings, d.at \in {"snapshot", "persist"}
  PROVE  /\ d.left \in Seq(Object) /\ d.left # <<>> /\ Head(d.left) \in Object
         /\ Rest(d.left) \in Listings
         /\ [d EXCEPT !.at = "persist"] \in Listings
<1>1. d \in [at : {"snapshot", "persist"}, left : Seq(Object) \ {<<>>}]
  BY DEF Listings, NoPass
<1>2. d.left \in Seq(Object) /\ d.left # <<>>
  BY <1>1
<1>3. [d EXCEPT !.at = "persist"] \in [at : {"snapshot", "persist"}, left : Seq(Object) \ {<<>>}]
  BY <1>1
<1>4. Head(d.left) \in Object
  BY <1>2
<1>5. Len(d.left) # 1 => Tail(d.left) \in Seq(Object) \ {<<>>}
  <2>1. Len(d.left) \in Nat \ {0} /\ Tail(d.left) \in Seq(Object) /\ Len(Tail(d.left)) = Len(d.left) - 1
    BY <1>2
  <2>2. Len(<<>>) = 0
    OBVIOUS
  <2>3. ASSUME Len(d.left) # 1 PROVE Tail(d.left) # <<>>
    <3>1. \A n \in Nat \ {0} : n # 1 => n - 1 # 0
      OBVIOUS
    <3> QED
      BY <2>1, <2>2, <2>3, <3>1
  <2> QED
    BY <2>1, <2>3
<1>6. Rest(d.left) \in Listings
  BY <1>5 DEF Rest, Listings
<1> QED
  BY <1>2, <1>3, <1>4, <1>6 DEF Listings
LEMMA MishapTyped ==
  ASSUME BillingTyped, Mishap \/ NoMishap
  PROVE  mishaps' \in 0..MaxMishaps
  BY BoundsAssumption DEF BillingTyped, Mishap, NoMishap

LEMMA SaveTierTyped ==
  ASSUME BillingTyped, NEW object \in Object, SaveTier(object)
  PROVE  tier' \in PaidTiers \cup {"free"} /\ mishaps' \in 0..MaxMishaps
<1>1. Mishap \/ NoMishap
  BY DEF SaveTier
<1>2. tier' \in {tier, object.tier, "free"}
  BY DEF SaveTier
<1> QED
  BY <1>1, <1>2, MishapTyped, ObjectFields DEF BillingTyped

\* What Stripe sends only adds events.
LEMMA ChangeTyped ==
  ASSUME BillingTyped, NEW s \in Subs, NEW object \in Object,
         NEW kinds \in Seq({"checkout", "changed", "deleted"}), Len(kinds) <= 2, Change(s, object, kinds)
  PROVE  /\ Len(sent') <= MaxEvents + 1
         /\ stripe' \in [Subs -> Object \cup {None}] /\ sent' \in Seq(Event)
         /\ processed \subseteq 1..Len(sent') /\ handler \in [Handlers -> Deliveries(Len(sent'))]
         /\ \A o \in Object : [at |-> "snapshot", object |-> o] \in Deliveries(Len(sent'))
<1> DEFINE new == [i \in 1..Len(kinds) |-> [kind |-> kinds[i], object |-> object]]
<1>1. new \in Seq(Event) /\ Len(new) \in Nat
  <2>1. \A i \in 1..Len(kinds) : [kind |-> kinds[i], object |-> object] \in Event
    <3>1. \A i \in 1..Len(kinds) : kinds[i] \in {"checkout", "changed", "deleted"}
      OBVIOUS
    <3> QED
      BY <3>1 DEF Event
  <2>2. Len(kinds) \in Nat
    OBVIOUS
  <2>3. new \in [1..Len(kinds) -> Event]
    BY <2>1
  <2> HIDE DEF new
  <2>4. new \in Seq(Event)
    BY <2>2, <2>3
  <2> QED
    BY <2>4
<1>2. stripe' \in [Subs -> Object \cup {None}] /\ sent' = sent \o new
  BY DEF Change, BillingTyped
<1> HIDE DEF new
<1>3. sent' \in Seq(Event) /\ Len(sent') = Len(sent) + Len(new)
  BY <1>1, <1>2 DEF BillingTyped
<1>4. Len(sent) \in Nat /\ Len(sent') \in Nat /\ Len(sent') >= Len(sent)
  <2>1. Len(sent) \in Nat
    BY DEF BillingTyped
  <2> QED
    BY <1>1, <1>3, <2>1
<1>5. processed \subseteq 1..Len(sent')
  BY <1>4 DEF BillingTyped
<1>6. handler \in [Handlers -> Deliveries(Len(sent'))]
  <2>1. \A h \in Handlers : handler[h] \in Deliveries(Len(sent))
    BY DEF BillingTyped
  <2>2. \A h \in Handlers : handler[h] \in Deliveries(Len(sent'))
    BY <1>4, <2>1, DeliveryFields
  <2> QED
    BY <2>2 DEF BillingTyped
<1>7. Len(sent') <= MaxEvents + 1
  <2>1. Len(new) = Len(kinds)
    BY DEF new
  <2>2. Len(sent) < MaxEvents
    BY DEF Change
  <2>3. Len(kinds) \in Nat /\ Len(sent) \in Nat
    BY <1>4
  <2> QED
    BY <1>3, <2>1, <2>2, <2>3, BoundsAssumption
<1> QED
  BY <1>2, <1>3, <1>5, <1>6, <1>7 DEF Deliveries

LEMMA SnapshotTyped ==
  ASSUME BillingTyped, NEW o \in Object, SaveSnapshot(o)
  PROVE  snapshot' \in [Subs -> Object \cup {None}]
  BY ObjectFields DEF BillingTyped, SaveSnapshot

-----------------------------------------------------------------------------
LEMMA StripeTyped ==
  ASSUME BillingTyped, NEW s \in Subs, Subscribe(s) \/ Update(s) \/ Delete(s)
  PROVE  BillingTyped'
<1>1. UNCHANGED <<handler, processed, snapshot, tier, pass, mishaps, spent>>
  BY DEF Subscribe, Update, Delete, db
<1>2. PICK object \in Object, kinds \in Seq({"checkout", "changed", "deleted"}) :
        Len(kinds) <= 2 /\ Change(s, object, kinds)
  <2>1. <<"changed", "checkout">> \in Seq({"checkout", "changed", "deleted"}) /\ Len(<<"changed", "checkout">>) <= 2
    OBVIOUS
  <2>2. <<"changed">> \in Seq({"checkout", "changed", "deleted"}) /\ Len(<<"changed">>) <= 2
    OBVIOUS
  <2>3. <<"deleted">> \in Seq({"checkout", "changed", "deleted"}) /\ Len(<<"deleted">>) <= 2
    OBVIOUS
  <2>4. CASE Subscribe(s)
    <3>1. PICK t \in PaidTiers, status \in {"pending", "paying"} :
            Change(s, [sub |-> s, status |-> status, tier |-> t], <<"changed", "checkout">>)
      BY <2>4 DEF Subscribe
    <3>2. [sub |-> s, status |-> status, tier |-> t] \in Object
      BY ObjectFields DEF Statuses
    <3> QED
      BY <2>1, <3>1, <3>2
  <2>5. CASE Update(s)
    <3>1. PICK t \in PaidTiers, status \in Statuses :
            Change(s, [sub |-> s, status |-> status, tier |-> t], <<"changed">>)
      BY <2>5 DEF Update
    <3>2. [sub |-> s, status |-> status, tier |-> t] \in Object
      BY ObjectFields
    <3> QED
      BY <2>2, <3>1, <3>2
  <2>6. CASE Delete(s)
    <3>1. stripe[s] \in Object
      BY <2>6, ObjectFields DEF Delete, BillingTyped
    <3>2. [stripe[s] EXCEPT !.status = "ended"] \in Object
      BY <3>1, ObjectFields
    <3> QED
      BY <2>3, <2>6, <3>2 DEF Delete
  <2> QED
    BY <2>4, <2>5, <2>6
<1> QED
  BY <1>1, <1>2, ChangeTyped DEF BillingTyped

LEMMA ServeTyped ==
  ASSUME BillingTyped, NEW h \in Handlers, Receive(h) \/ Serve(h)
  PROVE  BillingTyped'
<1>1. Len(sent) \in Nat /\ handler[h] \in Deliveries(Len(sent)) /\ Idle \in Deliveries(Len(sent))
  BY DEF BillingTyped, Deliveries
<1>2. CASE Receive(h)
  <2>1. PICK i \in 1..Len(sent) : /\ FirstSeen(i) /\ processed' = processed \cup {i}
                                   /\ handler' = [handler EXCEPT ![h] = [at |-> "tier", event |-> i]]
    BY <1>2 DEF Receive
  <2>2. [at |-> "tier", event |-> i] \in Deliveries(Len(sent))
    BY DEF Deliveries
  <2>3. handler' \in [Handlers -> Deliveries(Len(sent))]
    BY <2>1, <2>2 DEF BillingTyped
  <2>4. processed' \subseteq 1..Len(sent)
    BY <2>1 DEF BillingTyped
  <2> QED
    BY <1>2, <2>3, <2>4 DEF Receive, BillingTyped
<1>3. CASE SetTier(h)
  <2>1. handler[h].event \in 1..Len(sent)
    BY <1>1, <1>3, DeliveryFields DEF SetTier
  <2>2. PICK e : e = sent[handler[h].event]
    OBVIOUS
  <2>3. e \in Event
    BY <2>1, <2>2 DEF BillingTyped
  <2>4. e.object \in Object
    BY <2>3 DEF Event
  <2>5. handler' \in [Handlers -> Deliveries(Len(sent))]
    <3>1. [at |-> "snapshot", object |-> e.object] \in Deliveries(Len(sent))
      BY <2>4 DEF Deliveries
    <3>2. PICK d \in Deliveries(Len(sent)) : handler' = [handler EXCEPT ![h] = d]
      BY <1>1, <1>3, <2>2, <3>1 DEF SetTier
    <3> QED
      BY <3>2 DEF BillingTyped
  <2>6. (Mishap \/ NoMishap) /\ tier' \in {tier, e.object.tier, "free"}
    BY <1>3, <2>2 DEF SetTier
  <2>7. mishaps' \in 0..MaxMishaps /\ tier' \in PaidTiers \cup {"free"}
    BY <2>4, <2>6, MishapTyped, ObjectFields DEF BillingTyped
  <2>8. spent' \in [Events -> Nat]
    <3>1. PICK i : i = handler[h].event
      OBVIOUS
    <3>2. spent' = [spent EXCEPT ![i] = @ + 1]
      BY <1>3, <3>1 DEF SetTier
    <3>3. spent[i] \in Nat
      BY <1>1, <2>1, <3>1, BoundsAssumption DEF BillingTyped, Events
    <3>4. spent[i] + 1 \in Nat
      BY <3>3
    <3>5. spent \in [Events -> Nat]
      BY DEF BillingTyped
    <3> QED
      BY <3>2, <3>4, <3>5
  <2> QED
    BY <1>3, <2>5, <2>7, <2>8 DEF SetTier, BillingTyped
<1>4. CASE PersistSnapshot(h)
  <2>1. handler[h].object \in Object /\ [handler[h] EXCEPT !.at = "persist"] \in Deliveries(Len(sent))
    BY <1>1, <1>4, DeliveryFields DEF PersistSnapshot
  <2>2. PICK d \in Deliveries(Len(sent)) : handler' = [handler EXCEPT ![h] = d]
    BY <1>1, <1>4, <2>1 DEF PersistSnapshot
  <2>3. handler' \in [Handlers -> Deliveries(Len(sent))]
    BY <2>2 DEF BillingTyped
  <2>4. snapshot' \in [Subs -> Object \cup {None}] /\ mishaps' \in 0..MaxMishaps
    BY <1>4, <2>1, SnapshotTyped, MishapTyped DEF PersistSnapshot, BillingTyped
  <2> QED
    BY <1>4, <2>3, <2>4 DEF PersistSnapshot, BillingTyped
<1>5. CASE PersistTier(h)
  <2>1. handler[h].object \in Object
    BY <1>1, <1>5, DeliveryFields DEF PersistTier
  <2>2. tier' \in PaidTiers \cup {"free"} /\ mishaps' \in 0..MaxMishaps
    BY <1>5, <2>1, SaveTierTyped DEF PersistTier
  <2>3. handler' \in [Handlers -> Deliveries(Len(sent))]
    BY <1>1, <1>5 DEF PersistTier, BillingTyped
  <2> QED
    BY <1>5, <2>2, <2>3 DEF PersistTier, BillingTyped
<1> QED
  BY <1>2, <1>3, <1>4, <1>5 DEF Serve

LEMMA OwnerTyped ==
  ASSUME BillingTyped, NEW h \in Handlers, NEW s \in Subs, OwnerMutate(h, s) \/ OwnerSync(h, s)
  PROVE  BillingTyped'
<1>1. CASE OwnerMutate(h, s)
  <2>1. stripe[s] \in Object
    BY <1>1, ObjectFields DEF OwnerMutate, BillingTyped
  <2>2. PICK t \in PaidTiers :
          /\ Change(s, [stripe[s] EXCEPT !.tier = t], <<"changed">>)
          /\ handler' = [handler EXCEPT ![h] = [at |-> "snapshot", object |-> [stripe[s] EXCEPT !.tier = t]]]
    BY <1>1 DEF OwnerMutate
  <2>3. PICK object : object = [stripe[s] EXCEPT !.tier = t]
    OBVIOUS
  <2>4. object \in Object
    BY <2>1, <2>3, ObjectFields
  <2>5. <<"changed">> \in Seq({"checkout", "changed", "deleted"}) /\ Len(<<"changed">>) <= 2
    OBVIOUS
  <2>6. /\ Len(sent') <= MaxEvents + 1 /\ stripe' \in [Subs -> Object \cup {None}] /\ sent' \in Seq(Event)
        /\ processed \subseteq 1..Len(sent') /\ handler \in [Handlers -> Deliveries(Len(sent'))]
        /\ [at |-> "snapshot", object |-> object] \in Deliveries(Len(sent'))
    BY <2>2, <2>3, <2>4, <2>5, ChangeTyped
  <2>7. PICK d : d = [at |-> "snapshot", object |-> object]
    OBVIOUS
  <2>8. handler' = [handler EXCEPT ![h] = d]
    BY <2>2, <2>3, <2>7
  <2>9. handler' \in [Handlers -> Deliveries(Len(sent'))]
    BY <2>6, <2>7, <2>8
  <2> QED
    BY <1>1, <2>6, <2>9 DEF OwnerMutate, BillingTyped, db
<1>2. CASE OwnerSync(h, s)
  <2>1. stripe[s] \in Object
    BY <1>2 DEF OwnerSync, BillingTyped
  <2>2. [at |-> "snapshot", object |-> stripe[s]] \in Deliveries(Len(sent))
    BY <2>1 DEF Deliveries
  <2>3. handler' \in [Handlers -> Deliveries(Len(sent))]
    BY <1>2, <2>2 DEF OwnerSync, BillingTyped
  <2> QED
    BY <1>2, <2>3 DEF OwnerSync, BillingTyped, db
<1> QED
  BY <1>1, <1>2
LEMMA StartTyped ==
  ASSUME BillingTyped, NEW r \in Reconcilers, StartReconcile(r)
  PROVE  BillingTyped'
<1> DEFINE list == {s \in Subs : Listed(s)}
           n == Cardinality(list)
<1>1. IsFiniteSet(list) /\ list # {}
  BY SubsAssumption, FS_Subset DEF StartReconcile
<1>2. n \in Nat /\ n # 0
  BY <1>1, FS_CardinalityType, FS_EmptySet
<1>3. PICK order \in [1..n -> list] :
        pass' = [pass EXCEPT ![r] = [at |-> "snapshot", left |-> [i \in DOMAIN order |-> stripe[order[i]]]]]
  BY DEF StartReconcile
<1>4. \A s \in list : stripe[s] \in Object
  BY DEF BillingTyped, Listed
<1> HIDE DEF n, list
<1>5. PICK left : left = [i \in DOMAIN order |-> stripe[order[i]]]
  OBVIOUS
<1>6. left \in [1..n -> Object]
  BY <1>4, <1>5
<1>7. left \in Seq(Object) /\ left # <<>>
  BY <1>2, <1>6
<1>8. PICK d : d = [at |-> "snapshot", left |-> left]
  OBVIOUS
<1>9. d \in Listings
  BY <1>7, <1>8 DEF Listings
<1>10. pass' = [pass EXCEPT ![r] = d]
  BY <1>3, <1>5, <1>8
<1>11. pass' \in [Reconcilers -> Listings]
  BY <1>9, <1>10 DEF BillingTyped
<1> QED
  BY <1>11 DEF StartReconcile, BillingTyped, db

LEMMA PassTyped ==
  ASSUME BillingTyped, NEW r \in Reconcilers, Pass(r)
  PROVE  BillingTyped'
<1>1. pass[r] \in Listings
  BY DEF BillingTyped
<1>2. CASE StartReconcile(r)
  BY <1>2, StartTyped
<1>3. CASE ReconcileSnapshot(r)
  <2>1. /\ Head(pass[r].left) \in Object /\ Rest(pass[r].left) \in Listings
        /\ [pass[r] EXCEPT !.at = "persist"] \in Listings
    BY <1>1, <1>3, ListingFields DEF ReconcileSnapshot
  <2>2. PICK d \in Listings : pass' = [pass EXCEPT ![r] = d]
    BY <1>3, <2>1 DEF ReconcileSnapshot
  <2>3. pass' \in [Reconcilers -> Listings]
    BY <2>2 DEF BillingTyped
  <2>4. snapshot' \in [Subs -> Object \cup {None}] /\ mishaps' \in 0..MaxMishaps
    BY <1>3, <2>1, SnapshotTyped, MishapTyped DEF ReconcileSnapshot, BillingTyped
  <2> QED
    BY <1>3, <2>3, <2>4 DEF ReconcileSnapshot, BillingTyped
<1>4. CASE ReconcileTier(r)
  <2>1. Head(pass[r].left) \in Object /\ Rest(pass[r].left) \in Listings
    BY <1>1, <1>4, ListingFields DEF ReconcileTier
  <2>2. tier' \in PaidTiers \cup {"free"} /\ mishaps' \in 0..MaxMishaps
    BY <1>4, <2>1, SaveTierTyped DEF ReconcileTier
  <2>3. pass' \in [Reconcilers -> Listings]
    BY <1>4, <2>1 DEF ReconcileTier, BillingTyped
  <2> QED
    BY <1>4, <2>2, <2>3 DEF ReconcileTier, BillingTyped
<1> QED
  BY <1>2, <1>3, <1>4 DEF Pass

LEMMA AtWorkCounted == \A i : IsFiniteSet(AtWork(i)) /\ Cardinality(AtWork(i)) \in Nat
  BY HandlersAssumption, FS_Subset, FS_CardinalityType DEF AtWork

LEMMA BillingTypedInit == Init => BillingTyped
<1> SUFFICES ASSUME Init PROVE BillingTyped
  OBVIOUS
<1>1. sent \in Seq(Event) /\ 0 \in 0..MaxMishaps /\ Len(sent) <= MaxEvents + 1
  BY BoundsAssumption DEF Init
<1>2. handler \in [Handlers -> Deliveries(Len(sent))] /\ pass \in [Reconcilers -> Listings]
  BY DEF Init, Deliveries, Listings
<1> QED
  BY <1>1, <1>2 DEF Init, BillingTyped

LEMMA BillingTypedStep == BillingTyped /\ [Next]_vars => BillingTyped'
<1> SUFFICES ASSUME BillingTyped, [Next]_vars PROVE BillingTyped'
  OBVIOUS
<1>1. CASE UNCHANGED vars
  BY <1>1 DEF vars, db, BillingTyped
<1>2. CASE \E t \in PaidTiers \cup {"free"} : UpdateUserTier(t)
  BY <1>2, MishapTyped DEF UpdateUserTier, BillingTyped
<1>3. CASE Crash
  <2>1. handler' \in [Handlers -> Deliveries(Len(sent))] /\ pass' \in [Reconcilers -> Listings]
    BY <1>3 DEF Crash, Deliveries, Listings
  <2>2. spent' \in [Events -> Nat]
    BY <1>3, AtWorkCounted DEF Crash, BillingTyped
  <2> QED
    BY <1>3, <2>1, <2>2, MishapTyped DEF Crash, BillingTyped, db
<1> QED
  BY <1>1, <1>2, <1>3, StripeTyped, ServeTyped, OwnerTyped, PassTyped DEF Next

\* Whatever arrives in whatever order, a request and a reconciliation carry
\* subscriptions of the customer, and tables and tier hold what the price list
\* knows (persistStripeSubscriptionEvent).
THEOREM BillingTyping == Spec => []TypeOK
<1>1. BillingTyped => TypeOK
  <2> SUFFICES ASSUME BillingTyped PROVE TypeOK
    OBVIOUS
  <2>1. ASSUME NEW h \in Handlers
        PROVE  \/ handler[h] = Idle
               \/ handler[h].at = "tier" /\ handler[h].event \in 1..Len(sent)
               \/ handler[h].at \in {"snapshot", "persist"} /\ handler[h].object \in Object
    BY DEF BillingTyped, Deliveries
  <2>2. ASSUME NEW r \in Reconcilers
        PROVE  pass[r] = NoPass \/ (pass[r].at \in {"snapshot", "persist"} /\ pass[r].left \in Seq(Object) \ {<<>>})
    BY DEF BillingTyped, Listings
  <2>3. \A i \in 1..Len(sent) : sent[i] \in Event
    BY DEF BillingTyped
  <2> QED
    BY <2>1, <2>2, <2>3 DEF BillingTyped, TypeOK
<1> QED
  BY <1>1, BillingTypedInit, BillingTypedStep, PTL DEF Spec

-----------------------------------------------------------------------------
(* Who takes an event on.                                                   *)

\* A request that was not at work on an event, and is not after the step.
LEMMA SameWork ==
  ASSUME BillingTyped, NEW h \in Handlers, NEW d, handler' = [handler EXCEPT ![h] = d],
         handler[h].at # "tier", d.at # "tier"
  PROVE  \A i : AtWork(i)' = AtWork(i)
<1>1. \A g \in Handlers : handler'[g] = IF g = h THEN d ELSE handler[g]
  BY DEF BillingTyped
<1> QED
  BY <1>1 DEF AtWork

LEMMA TakenOn ==
  ASSUME BillingTyped, EventsActOnce, NEW h \in Handlers, Receive(h)
  PROVE  EventsActOnce'
<1>1. PICK e \in 1..Len(sent) : /\ FirstSeen(e) /\ processed' = processed \cup {e}
                                 /\ handler' = [handler EXCEPT ![h] = [at |-> "tier", event |-> e]]
  BY DEF Receive
<1>2. \A g \in Handlers : handler'[g] = IF g = h THEN [at |-> "tier", event |-> e] ELSE handler[g]
  BY <1>1 DEF BillingTyped
<1>3. handler[h].at = "idle" /\ spent' = spent
  BY DEF Receive, Idle
<1>4. \A i : AtWork(i)' = IF i = e THEN AtWork(i) \cup {h} ELSE AtWork(i)
  BY <1>2, <1>3 DEF AtWork
<1>5. h \notin AtWork(e)
  BY <1>3 DEF AtWork
<1>6. Cardinality(AtWork(e) \cup {h}) = Cardinality(AtWork(e)) + 1
  BY <1>5, AtWorkCounted, FS_AddElement
<1>7. ASSUME NEW i \in Events
      PROVE  spent'[i] + Cardinality(AtWork(i)') = IF i \in processed' THEN 1 ELSE 0
  <2>1. spent[i] \in Nat /\ Cardinality(AtWork(i)) \in Nat
    BY AtWorkCounted DEF BillingTyped
  <2>2. spent[i] + Cardinality(AtWork(i)) = IF i \in processed THEN 1 ELSE 0
    BY DEF EventsActOnce
  <2>3. CASE i = e
    <3>1. spent[i] + Cardinality(AtWork(i)) = 0 /\ i \in processed'
      BY <1>1, <2>2, <2>3 DEF FirstSeen
    <3>2. Cardinality(AtWork(i)') = Cardinality(AtWork(i)) + 1
      BY <1>4, <1>6, <2>3
    <3> QED
      BY <1>3, <2>1, <3>1, <3>2
  <2>4. CASE i # e
    BY <1>1, <1>3, <1>4, <2>2, <2>4
  <2> QED
    BY <2>3, <2>4
<1> QED
  BY <1>7 DEF EventsActOnce, Events

LEMMA ActedOn ==
  ASSUME BillingTyped, EventsActOnce, NEW h \in Handlers, SetTier(h)
  PROVE  EventsActOnce'
<1>1. PICK e : e = handler[h].event
  OBVIOUS
<1>2. handler[h].at = "tier" /\ spent' = [spent EXCEPT ![e] = @ + 1] /\ processed' = processed
  BY <1>1 DEF SetTier
<1>3. PICK d : handler' = [handler EXCEPT ![h] = d] /\ d.at # "tier"
  <2>1. PICK o : o = [at |-> "snapshot", object |-> sent[handler[h].event].object]
    OBVIOUS
  <2>2. o.at # "tier" /\ Idle.at # "tier"
    BY <2>1 DEF Idle
  <2>3. handler' = [handler EXCEPT ![h] = Idle] \/ handler' = [handler EXCEPT ![h] = o]
    BY <2>1 DEF SetTier
  <2> QED
    BY <2>2, <2>3
<1>4. \A g \in Handlers : handler'[g] = IF g = h THEN d ELSE handler[g]
  BY <1>3 DEF BillingTyped
<1>5. \A i : AtWork(i)' = IF i = e THEN AtWork(i) \ {h} ELSE AtWork(i)
  BY <1>1, <1>2, <1>3, <1>4 DEF AtWork
<1>6. h \in AtWork(e)
  BY <1>1, <1>2 DEF AtWork
<1>7. Cardinality(AtWork(e) \ {h}) = Cardinality(AtWork(e)) - 1
  BY <1>6, AtWorkCounted, FS_RemoveElement
<1>8. ASSUME NEW i \in Events
      PROVE  spent'[i] + Cardinality(AtWork(i)') = IF i \in processed' THEN 1 ELSE 0
  <2>1. spent[i] \in Nat /\ Cardinality(AtWork(i)) \in Nat
    BY AtWorkCounted DEF BillingTyped
  <2>2. spent[i] + Cardinality(AtWork(i)) = IF i \in processed THEN 1 ELSE 0
    BY DEF EventsActOnce
  <2>3. spent'[i] = IF i = e THEN spent[i] + 1 ELSE spent[i]
    BY <1>2 DEF BillingTyped
  <2>4. Cardinality(AtWork(i)') = IF i = e THEN Cardinality(AtWork(i)) - 1 ELSE Cardinality(AtWork(i))
    BY <1>5, <1>7
  <2>5. spent'[i] + Cardinality(AtWork(i)') = spent[i] + Cardinality(AtWork(i))
    BY <2>1, <2>3, <2>4
  <2> QED
    BY <1>2, <2>2, <2>5
<1> QED
  BY <1>8 DEF EventsActOnce, Events

LEMMA CutOff ==
  ASSUME BillingTyped, EventsActOnce, Crash
  PROVE  EventsActOnce'
<1>1. handler' = [h \in Handlers |-> Idle] /\ processed' = processed
  BY DEF Crash, db
<1>2. \A i : AtWork(i)' = {}
  BY <1>1 DEF AtWork, Idle
<1>3. ASSUME NEW i \in Events
      PROVE  spent'[i] + Cardinality(AtWork(i)') = IF i \in processed' THEN 1 ELSE 0
  <2>1. spent'[i] = spent[i] + Cardinality(AtWork(i))
    BY DEF Crash
  <2>2. Cardinality(AtWork(i)') = 0
    BY <1>2, FS_EmptySet
  <2>3. spent[i] \in Nat /\ Cardinality(AtWork(i)) \in Nat
    BY AtWorkCounted DEF BillingTyped
  <2> QED
    BY <1>1, <2>1, <2>2, <2>3 DEF EventsActOnce
<1> QED
  BY <1>3 DEF EventsActOnce, Events

LEMMA ActOnceStep ==
  ASSUME BillingTyped, EventsActOnce, [Next]_vars
  PROVE  EventsActOnce'
<1>1. ASSUME spent' = spent, processed' = processed, \A i : AtWork(i)' = AtWork(i)
      PROVE  EventsActOnce'
  BY <1>1 DEF EventsActOnce, Events
<1>2. ASSUME handler' = handler PROVE \A i : AtWork(i)' = AtWork(i)
  BY <1>2 DEF AtWork
<1>3. CASE UNCHANGED vars
  BY <1>1, <1>2, <1>3 DEF vars, db
<1>4. CASE \E s \in Subs : Subscribe(s) \/ Update(s) \/ Delete(s)
  BY <1>1, <1>2, <1>4 DEF Subscribe, Update, Delete, db
<1>5. CASE \E t \in PaidTiers \cup {"free"} : UpdateUserTier(t)
  BY <1>1, <1>2, <1>5 DEF UpdateUserTier
<1>6. CASE \E r \in Reconcilers : Pass(r)
  BY <1>1, <1>2, <1>6 DEF Pass, StartReconcile, ReconcileSnapshot, ReconcileTier, db
<1>7. ASSUME NEW h \in Handlers, PersistSnapshot(h) \/ PersistTier(h) PROVE EventsActOnce'
  <2>1. handler[h].at # "tier" /\ spent' = spent /\ processed' = processed
    BY <1>7 DEF PersistSnapshot, PersistTier
  <2>2. PICK d : handler' = [handler EXCEPT ![h] = d] /\ d.at # "tier"
    <3>1. CASE handler' = [handler EXCEPT ![h] = Idle]
      <4>1. Idle.at # "tier"
        BY DEF Idle
      <4> QED
        BY <3>1, <4>1
    <3>2. CASE PersistSnapshot(h) /\ handler' = [handler EXCEPT ![h].at = "persist"]
      <4>1. handler[h] \in Deliveries(Len(sent)) /\ handler[h].at = "snapshot"
        BY <3>2 DEF BillingTyped, PersistSnapshot
      <4>2. handler[h] \in [at : {"snapshot", "persist"}, object : Object]
        BY <4>1 DEF Deliveries, Idle
      <4>3. [handler[h] EXCEPT !.at = "persist"].at = "persist"
        BY <4>2
      <4> QED
        BY <3>2, <4>3
    <3> QED
      BY <1>7, <3>1, <3>2 DEF PersistSnapshot, PersistTier
  <2>3. \A i : AtWork(i)' = AtWork(i)
    BY <2>1, <2>2, SameWork
  <2> QED
    BY <1>1, <2>1, <2>3
<1>8. ASSUME NEW h \in Handlers, NEW s \in Subs, OwnerMutate(h, s) \/ OwnerSync(h, s) PROVE EventsActOnce'
  <2>1. handler[h].at # "tier" /\ spent' = spent /\ processed' = processed
    BY <1>8 DEF OwnerMutate, OwnerSync, Idle, db
  <2>2. PICK d : handler' = [handler EXCEPT ![h] = d] /\ d.at # "tier"
    <3>1. PICK o : handler' = [handler EXCEPT ![h] = [at |-> "snapshot", object |-> o]]
      BY <1>8 DEF OwnerMutate, OwnerSync
    <3>2. [at |-> "snapshot", object |-> o].at # "tier"
      OBVIOUS
    <3> QED
      BY <3>1, <3>2
  <2>3. \A i : AtWork(i)' = AtWork(i)
    BY <2>1, <2>2, SameWork
  <2> QED
    BY <1>1, <2>1, <2>3
<1> QED
  BY <1>3, <1>4, <1>5, <1>6, <1>7, <1>8, TakenOn, ActedOn, CutOff DEF Next, Serve

\* However many requests are sent an event, at once or one after the other,
\* and whatever fails or stops, one of them takes it on, and only once it is
\* on record (handleBillingWebhook, RecordStripeProcessedEvent).
THEOREM OncePerEvent == Spec => []EventsActOnce
<1>1. Init => EventsActOnce
  <2>1. ASSUME Init PROVE \A i : AtWork(i) = {}
    BY <2>1 DEF Init, AtWork, Idle
  <2>2. ASSUME Init, NEW i \in Events PROVE spent[i] = 0 /\ i \notin processed
    BY <2>2 DEF Init
  <2> QED
    BY <2>1, <2>2, FS_EmptySet DEF EventsActOnce
<1>2. BillingTyped /\ EventsActOnce /\ [Next]_vars => (BillingTyped /\ EventsActOnce)'
  BY BillingTypedStep, ActOnceStep
<1> QED
  BY <1>1, <1>2, BillingTypedInit, PTL DEF Spec
=============================================================================
