------------------------------- MODULE Accounts -------------------------------
(***************************************************************************)
(* Accounts (internal/api/auth.go, internal/api/support.go,                 *)
(* internal/api/admin.go): registration, sign-in by password, by Google and *)
(* by refresh token, and the team's changes of a user's role.  Every        *)
(* request is a row of separate database calls without a transaction.       *)
(*                                                                         *)
(* The address of an account is unique and never changes, so it stands for  *)
(* the account.  The team members who change roles are people outside       *)
(* Emails.  Cookies and the claims of tokens are left out.                  *)
(***************************************************************************)
EXTENDS Naturals, FiniteSets

CONSTANTS
  Requesters,      \* requests being served at once
  Addressees,
  Subjects,       \* Google's ids of its users
  AdminEmails,    \* ADMIN_EMAILS
  MaxSignIns      \* bound on the requests

ASSUME AccountsAssumption ==
  /\ AdminEmails \subseteq Addressees /\ MaxSignIns \in Nat
  /\ "nobody" \notin Addressees \cup Subjects

VARIABLES
  account,        \* the table users
  identity,       \* user_auth_identities: the account of each subject
  sessions,       \* accounts that hold a refresh token
  signIn,         \* what each request is at, and its copy of the row
  overlapped,        \* history: subjects two of whose callbacks overlapped
                  \* with different addresses
  signIns

accountVars == <<account, identity, sessions, signIn, overlapped, signIns>>

Nobody == "nobody"
NoRow == [role |-> "no row"]
Free == [at |-> "free"]
Roles == {"user", "operator", "admin", "owner"}
IsTeamRole(role) == role \in {"operator", "admin", "owner"}

AccountsInit ==
  /\ account = [e \in Addressees |-> NoRow]
  /\ identity = [s \in Subjects |-> Nobody]
  /\ sessions = {}
  /\ signIn = [p \in Requesters |-> Free]
  /\ overlapped = {} /\ signIns = 0

Begins(p) == signIn[p] = Free /\ signIns < MaxSignIns /\ signIns' = signIns + 1
Proceeds(p, at) == signIn' = [signIn EXCEPT ![p].at = at]
Answered(p) == signIn' = [signIn EXCEPT ![p] = Free]
Signs(p, at, e, s) == signIn' = [signIn EXCEPT ![p] = [at |-> at, email |-> e, subject |-> s, copy |-> account[e]]]

-----------------------------------------------------------------------------
(* Signing in.                                                              *)

\* 409 for an address that has an account.
handleRegister(p, e) ==
  /\ Begins(p)
  /\ IF account[e] = NoRow THEN Signs(p, "create", e, Nobody) ELSE UNCHANGED signIn
  /\ UNCHANGED <<account, identity, sessions, overlapped>>

handleLogin(p, e) ==
  /\ Begins(p)
  /\ account[e] # NoRow /\ account[e].password
  /\ Signs(p, "sync", e, Nobody)
  /\ UNCHANGED <<account, identity, sessions, overlapped>>

handleRefresh(p, e) ==
  /\ Begins(p)
  /\ e \in sessions
  /\ Signs(p, "sync", e, Nobody)
  /\ UNCHANGED <<account, identity, sessions, overlapped>>

\* Google answers with a subject and its verified address, which is not the
\* same for ever.  Requests of a subject that are not yet past their link:
Linking(s) == {p \in Requesters : signIn[p].at \in {"email", "create", "load", "link"} /\ signIn[p].subject = s}

\* Fault: the account is looked up by its address alone.
ByAddress(s) == Nobody
\* GetUserByAuthIdentity
ByIdentity(s) == identity[s]

handleGoogleCallback(p, s, e) ==
  /\ Begins(p)
  /\ signIn' = [signIn EXCEPT ![p] = [at |-> "email", email |-> e, subject |-> s, known |-> ByIdentity(s),
       copy |-> IF ByIdentity(s) = Nobody THEN NoRow ELSE account[ByIdentity(s)]]]
  /\ overlapped' = IF \E q \in Linking(s) : signIn[q].email # e THEN overlapped \cup {s} ELSE overlapped
  /\ UNCHANGED <<account, identity, sessions>>

\* The second look: a subject of one account may not come with the address of
\* another; the known account goes before the address, which may be new.
GetUserByEmail(p) ==
  /\ signIn[p].at = "email"
  /\ LET e == signIn[p].email
         known == signIn[p].known
         Goes(at, row, email) ==
           signIn' = [signIn EXCEPT ![p] =
             [at |-> at, email |-> email, subject |-> @.subject, copy |-> row]]
     IN IF known # Nobody /\ account[e] # NoRow /\ known # e THEN Answered(p)
        ELSE IF known # Nobody THEN Goes("link", signIn[p].copy, known)
        ELSE IF account[e] # NoRow THEN Goes("link", account[e], e)
        ELSE Goes("create", NoRow, e)
  /\ UNCHANGED <<account, identity, sessions, overlapped, signIns>>

\* The address is UNIQUE: an account that came in between is an error.
CreateUser(p) ==
  /\ signIn[p].at = "create"
  /\ LET e == signIn[p].email
     IN IF account[e] # NoRow THEN Answered(p) /\ UNCHANGED account
        ELSE /\ account' = [account EXCEPT ![e] =
                  [role |-> "", admin |-> FALSE, password |-> signIn[p].subject = Nobody]]
             /\ Proceeds(p, "load")
  /\ UNCHANGED <<identity, sessions, overlapped, signIns>>

GetUserByID(p) ==
  /\ signIn[p].at = "load"
  /\ Signs(p, IF signIn[p].subject = Nobody THEN "sync" ELSE "link", signIn[p].email, signIn[p].subject)
  /\ UNCHANGED <<account, identity, sessions, overlapped, signIns>>

\* ON CONFLICT (provider, provider_subject) the row moves; an account that
\* has another subject's row violates UNIQUE (user_id, provider).
UpsertUserAuthIdentity(p) ==
  /\ signIn[p].at = "link"
  /\ LET e == signIn[p].email
         s == signIn[p].subject
     IN IF \E other \in Subjects \ {s} : identity[other] = e
          THEN Answered(p) /\ UNCHANGED identity
          ELSE identity' = [identity EXCEPT ![s] = e] /\ Proceeds(p, "sync")
  /\ UNCHANGED <<account, sessions, overlapped, signIns>>

-----------------------------------------------------------------------------
(* syncAdminFlag, on the copy; its two writes may fail unnoticed.           *)

ShouldBeAdmin(p) ==
  LET role == signIn[p].copy.role
  IN IF role = "" THEN signIn[p].email \in AdminEmails ELSE IsTeamRole(role)

\* ADMIN_EMAILS promotes accounts without a role only.
Promotes(p) == signIn[p].copy.role = "" /\ signIn[p].email \in AdminEmails

syncAdminFlag(p) ==
  /\ signIn[p].at = "sync"
  /\ IF signIn[p].copy.admin # ShouldBeAdmin(p)
       THEN account' \in {account, [account EXCEPT ![signIn[p].email].admin = ShouldBeAdmin(p)]}
       ELSE UNCHANGED account
  /\ Proceeds(p, IF Promotes(p) THEN "promote" ELSE "issue")
  /\ UNCHANGED <<identity, sessions, overlapped, signIns>>

Promote(p) ==
  /\ signIn[p].at = "promote"
  /\ account' \in {account, [account EXCEPT ![signIn[p].email].role = "admin"]}
  /\ Proceeds(p, "issue")
  /\ UNCHANGED <<identity, sessions, overlapped, signIns>>

issueSessionTokens(p) ==
  /\ signIn[p].at = "issue"
  /\ sessions' = sessions \cup {signIn[p].email}
  /\ Answered(p)
  /\ UNCHANGED <<account, identity, overlapped, signIns>>

-----------------------------------------------------------------------------
(* The team: handleAdminUserMutation.                                       *)

\* .../role and .../admin look the account up first.
handleAdminUserMutation(p, e) ==
  /\ Begins(p)
  /\ account[e] # NoRow
  /\ \/ \E role \in Roles :
          signIn' = [signIn EXCEPT ![p] = [at |-> "set role", email |-> e, role |-> role]]
     \/ \E flag \in BOOLEAN :
          signIn' = [signIn EXCEPT ![p] = [at |-> "set flag", email |-> e, flag |-> flag, was |-> account[e].role]]
  /\ UNCHANGED <<account, identity, sessions, overlapped>>

\* .../role: the role, then the flag that goes with it.
UpdateUserRole(p) ==
  /\ signIn[p].at = "set role"
  /\ account' = [account EXCEPT ![signIn[p].email].role = signIn[p].role]
  /\ Proceeds(p, "flag of role")
  /\ UNCHANGED <<identity, sessions, overlapped, signIns>>

SetUserAdmin(p) ==
  /\ signIn[p].at = "flag of role"
  /\ account' = [account EXCEPT ![signIn[p].email].admin = IsTeamRole(signIn[p].role)]
  /\ Answered(p)
  /\ UNCHANGED <<identity, sessions, overlapped, signIns>>

\* .../admin: the flag, then a role if the one that was looked up disagrees;
\* an operator and an owner keep theirs.
SetFlag(p) ==
  /\ signIn[p].at = "set flag"
  /\ account' = [account EXCEPT ![signIn[p].email].admin = signIn[p].flag]
  /\ LET was == signIn[p].was
     IN IF IF signIn[p].flag THEN ~IsTeamRole(was) ELSE was = "admin"
          THEN Proceeds(p, "role of flag")
          ELSE Answered(p)
  /\ UNCHANGED <<identity, sessions, overlapped, signIns>>

RoleOfFlag(p) ==
  /\ signIn[p].at = "role of flag"
  /\ account' = [account EXCEPT ![signIn[p].email].role = IF signIn[p].flag THEN "admin" ELSE "user"]
  /\ Answered(p)
  /\ UNCHANGED <<identity, sessions, overlapped, signIns>>

AccountsNext ==
  \E p \in Requesters :
    \/ \E e \in Addressees :
         \/ handleRegister(p, e) \/ handleLogin(p, e) \/ handleRefresh(p, e)
         \/ handleAdminUserMutation(p, e)
         \/ \E s \in Subjects : handleGoogleCallback(p, s, e)
    \/ GetUserByEmail(p) \/ CreateUser(p) \/ GetUserByID(p) \/ UpsertUserAuthIdentity(p)
    \/ syncAdminFlag(p) \/ Promote(p) \/ issueSessionTokens(p)
    \/ UpdateUserRole(p) \/ SetUserAdmin(p) \/ SetFlag(p) \/ RoleOfFlag(p)

AccountsSpec == AccountsInit /\ [][AccountsNext]_accountVars

-----------------------------------------------------------------------------
(* Properties.                                                              *)

\* A person keeps the account, whatever requests overlap and fail between
\* their calls: the Google identity of a subject moves to another account
\* only if two of its callbacks, with different addresses, were under way
\* together.  And a role somebody of the team chose is replaced by the team
\* only, or by a sign-in of a listed address that looked before the choice.
AccountsKept ==
  [][/\ \A s \in Subjects : identity[s] \notin {Nobody, identity'[s]} => s \in overlapped
     /\ \A e \in Addressees :
          account[e].role \in Roles /\ account'[e].role # account[e].role =>
            \E p \in Requesters :
              /\ signIn[p].at \in {"set role", "role of flag", "promote"} /\ signIn[p].email = e
              /\ signIn[p].at = "promote" => e \in AdminEmails /\ signIn[p].copy.role = ""]_accountVars
=============================================================================
