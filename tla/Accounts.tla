------------------------------ MODULE Accounts ------------------------------
(***************************************************************************)
(* The account behind one e-mail address: its sign-up, the links mailed to *)
(* verify it and to reset its password (auth.service.ts), the session it   *)
(* opens, and the edits of its profile (profile.service.ts).               *)
(*                                                                         *)
(* Every handler reads the whole row, changes some columns in memory and   *)
(* saves it, with a hash to compute or a mail to send in between and no    *)
(* transaction around them.  Name and phone are left out.                  *)
(***************************************************************************)
EXTENDS TypeOrmSave

CONSTANTS
  Requests,    \* requests about the account in flight; a slot is used again
  Links,       \* the tokens there are to give out, each one once
  Passwords,
  NoLink,      \* the token columns are null
  NoPassword   \* there is no row yet

ASSUME AccountsAssumption ==
  NoLink \notin Links /\ NoPassword \notin Passwords

VARIABLES
  user,       \* the row of `users`
  link,       \* each token: its mail and its expiry
  access,     \* the memberships of the person, as login looks at them
  session,    \* an access token was issued
  pc,         \* where each request is
  token,      \* the link it stores, mails or follows
  password,   \* the password it sets
  copy,       \* its copy of the row
  cols,       \* the columns its save is about to write
  stale,      \* requests whose row changed since they read it (history)
  proved,     \* somebody showed that the address is theirs (history)
  used,       \* links whose effect was saved (history)
  chosen      \* the last password that was set (history)

requestVars == <<pc, token, password, copy, cols>>
history == <<stale, proved, used, chosen>>
vars == <<user, link, access, session, requestVars, history>>

User ==
  [passwordHash : Passwords \cup {NoPassword},
   emailVerified : BOOLEAN,
   verification : Links \cup {NoLink},      \* verificationToken and its expiry
   resetPassword : Links \cup {NoLink}]     \* resetPasswordToken and its expiry

NoUser == [passwordHash |-> NoPassword, emailVerified |-> FALSE,
           verification |-> NoLink, resetPassword |-> NoLink]

Steps == {"out", "register", "acceptFind", "acceptCreate", "join", "joined",
          "memberships", "membership", "save", "write", "mail"}

\* "passwordHash" is not null.
TypeOK ==
  /\ user \in User
  /\ user.passwordHash = NoPassword => user = NoUser
  /\ link \in [Links -> {"new", "issued", "mailed", "expired"}]
  /\ access \in {"none", "active", "disabled"}
  /\ session \in BOOLEAN
  /\ pc \in [Requests -> Steps]
  /\ token \in [Requests -> Links \cup {NoLink}]
  /\ password \in [Requests -> Passwords \cup {NoPassword}]
  /\ copy \in [Requests -> User]
  /\ cols \in [Requests -> SUBSET DOMAIN NoUser]
  /\ stale \subseteq Requests
  /\ proved \in BOOLEAN
  /\ used \subseteq Links
  /\ chosen \in Passwords \cup {NoPassword}

Init ==
  /\ user = NoUser
  /\ link = [l \in Links |-> "new"]
  /\ access = "none"
  /\ session = FALSE
  /\ pc = [r \in Requests |-> "out"]
  /\ token = [r \in Requests |-> NoLink]
  /\ password = [r \in Requests |-> NoPassword]
  /\ copy = [r \in Requests |-> NoUser]
  /\ cols = [r \in Requests |-> {}]
  /\ stale = {}
  /\ proved = FALSE
  /\ used = {}
  /\ chosen = NoPassword

Exists == user # NoUser

Goto(r, from, to) ==
  /\ pc[r] = from
  /\ pc' = [pc EXCEPT ![r] = to]

\* What the request had in memory, but for the link it has to mail.
Forget(r) ==
  /\ password' = [password EXCEPT ![r] = NoPassword]
  /\ copy' = [copy EXCEPT ![r] = NoUser]
  /\ cols' = [cols EXCEPT ![r] = {}]

\* The request is answered.
End(r) ==
  /\ pc' = [pc EXCEPT ![r] = "out"]
  /\ token' = [token EXCEPT ![r] = NoLink]
  /\ Forget(r)

\* The row changes: whoever read it before and has not saved yet is stale.
SetUser(r, row) ==
  /\ user' = row
  /\ stale' = IF row = user THEN stale \ {r}
              ELSE {q \in Requests \ {r} : pc[q] \in {"save", "write"}}

-----------------------------------------------------------------------------
(* Signing up.                                                             *)

\* findByEmail, then bcrypt.
Register(r) ==
  /\ ~Exists
  /\ Goto(r, "out", "register")
  /\ \E p \in Passwords : password' = [password EXCEPT ![r] = p]
  /\ UNCHANGED <<user, link, access, session, token, copy, cols, history>>

\* Mutant of CreateUser: nothing in the database refuses a second row.
CreateAnyway(r) ==
  /\ Goto(r, "register", "mail")
  /\ \E l \in Links :
       /\ link[l] = "new"
       /\ link' = [link EXCEPT ![l] = "issued"]
       /\ token' = [token EXCEPT ![r] = l]
       /\ SetUser(r, [NoUser EXCEPT !.passwordHash = password[r], !.verification = l])
  /\ chosen' = password[r]
  /\ Forget(r)
  /\ UNCHANGED <<access, session, proved, used>>

\* The insert, which "UQ_users_email" refuses when the address is taken by now.
CreateUser(r) ==
  /\ Goto(r, "register", "mail")
  /\ ~Exists
  /\ \E l \in Links :
       /\ link[l] = "new"
       /\ link' = [link EXCEPT ![l] = "issued"]
       /\ token' = [token EXCEPT ![r] = l]
       /\ SetUser(r, [NoUser EXCEPT !.passwordHash = password[r], !.verification = l])
  /\ chosen' = password[r]
  /\ Forget(r)
  /\ UNCHANGED <<access, session, proved, used>>

\* The link reaches the address, and only the address.  A mail that fails is a
\* request that fails (Fail): what was saved stays.
SendMail(r) ==
  /\ pc[r] = "mail"
  /\ link' = [link EXCEPT ![token[r]] = "mailed"]
  /\ End(r)
  /\ UNCHANGED <<user, access, session, history>>

Expire(l) ==
  /\ link[l] = "mailed"
  /\ link' = [link EXCEPT ![l] = "expired"]
  /\ UNCHANGED <<user, access, session, requestVars, history>>

\* InvitationService.accept: whoever follows the link of an invitation has the
\* address too.  A new person gets a verified account.
AcceptInvitation(r) ==
  /\ Goto(r, "out", "acceptFind")
  /\ proved' = TRUE
  /\ \E p \in Passwords : password' = [password EXCEPT ![r] = p]
  /\ UNCHANGED <<user, link, access, session, token, copy, cols, stale, used, chosen>>

AcceptAsNewcomer(r) ==
  /\ ~Exists
  /\ Goto(r, "acceptFind", "acceptCreate")
  /\ UNCHANGED <<user, link, access, session, token, password, copy, cols, history>>

AcceptAsUser(r) ==
  /\ Exists
  /\ Goto(r, "acceptFind", "join")
  /\ Forget(r)
  /\ UNCHANGED <<user, link, access, session, token, history>>

AcceptCreate(r) ==
  /\ Goto(r, "acceptCreate", "join")
  /\ ~Exists
  /\ SetUser(r, [NoUser EXCEPT !.passwordHash = password[r], !.emailVerified = TRUE])
  /\ chosen' = password[r]
  /\ Forget(r)
  /\ UNCHANGED <<link, access, session, token, proved, used>>

\* The membership is written, or enabled again; Members has the rest.  A session
\* follows (IssueAccessToken), also for an account that was never verified.
Join(r) ==
  /\ Goto(r, "join", "joined")
  /\ access' = "active"
  /\ UNCHANGED <<user, link, session, token, password, copy, cols, history>>

-----------------------------------------------------------------------------
(* Handlers that read the row, change it in memory and save it.            *)

\* The row that was read, with the changes to it.
BeginSave(r, row, l, p) ==
  /\ Goto(r, "out", "save")
  /\ copy' = [copy EXCEPT ![r] = row]
  /\ token' = [token EXCEPT ![r] = l]
  /\ password' = [password EXCEPT ![r] = p]
  /\ UNCHANGED <<user, access, session, cols, stale, used, chosen>>

\* A token that was mailed and has not expired.
Follows(l) == link[l] = "mailed"

VerifyEmail(r, l) ==
  /\ Follows(l) /\ user.verification = l
  /\ BeginSave(r, [user EXCEPT !.emailVerified = TRUE, !.verification = NoLink], l, NoPassword)
  /\ proved' = TRUE
  /\ UNCHANGED link

Issue(l) ==
  /\ link[l] = "new"
  /\ link' = [link EXCEPT ![l] = "issued"]
  /\ UNCHANGED proved

ResendVerification(r, l) ==
  /\ Exists /\ ~user.emailVerified
  /\ Issue(l)
  /\ BeginSave(r, [user EXCEPT !.verification = l], l, NoPassword)

ForgotPassword(r, l) ==
  /\ Exists
  /\ Issue(l)
  /\ BeginSave(r, [user EXCEPT !.resetPassword = l], l, NoPassword)

\* Mutant of ResetPassword: the token stays in the row.
ResetKeepsToken(r, l, p) ==
  /\ Follows(l) /\ user.resetPassword = l
  /\ BeginSave(r, [user EXCEPT !.passwordHash = p], l, p)
  /\ UNCHANGED <<link, proved>>

ResetPassword(r, l, p) ==
  /\ Follows(l) /\ user.resetPassword = l
  /\ BeginSave(r, [user EXCEPT !.passwordHash = p, !.resetPassword = NoLink], l, p)
  /\ UNCHANGED <<link, proved>>

\* The profile's own columns are left out: what is saved is what was read.
UpdateProfile(r) ==
  /\ session
  /\ BeginSave(r, user, NoLink, NoPassword)
  /\ UNCHANGED <<link, proved>>

\* Mutant of ChangePassword: the hash is computed after the row was saved.
ChangeAfterSave(r, current, p) ==
  /\ session /\ user.passwordHash = current
  /\ BeginSave(r, user, NoLink, p)
  /\ UNCHANGED <<link, proved>>

ChangePassword(r, current, p) ==
  /\ session /\ user.passwordHash = current
  /\ BeginSave(r, [user EXCEPT !.passwordHash = p], NoLink, p)
  /\ UNCHANGED <<link, proved>>

\* The comparing read of the save.
Save(r) ==
  /\ Goto(r, "save", "write")
  /\ cols' = [cols EXCEPT ![r] = Dirty(copy[r], user)]
  /\ UNCHANGED <<user, link, access, session, token, password, copy, history>>

Mails(r) == token[r] # NoLink /\ link[token[r]] = "issued"

Write(r) ==
  /\ pc[r] = "write"
  /\ SetUser(r, Written(user, copy[r], cols[r]))
  /\ used' = IF token[r] # NoLink /\ ~Mails(r) THEN used \cup {token[r]} ELSE used
  /\ chosen' = IF password[r] # NoPassword THEN password[r] ELSE chosen
  /\ IF Mails(r) THEN pc' = [pc EXCEPT ![r] = "mail"] /\ Forget(r) /\ UNCHANGED token
     ELSE End(r)
  /\ UNCHANGED <<link, access, session, proved>>

-----------------------------------------------------------------------------
(* Sessions.                                                               *)

\* Mutant of Login: the account may not be verified yet.
LoginUnverified(r, p) ==
  /\ Exists /\ user.passwordHash = p
  /\ Goto(r, "out", "memberships")
  /\ UNCHANGED <<user, link, access, session, token, password, copy, cols, history>>

Login(r, p) ==
  /\ Exists /\ user.passwordHash = p
  /\ user.emailVerified
  /\ Goto(r, "out", "memberships")
  /\ UNCHANGED <<user, link, access, session, token, password, copy, cols, history>>

\* switchOrg trades a session for another one, for whoever is still a member.
SwitchOrg(r) ==
  /\ session
  /\ Goto(r, "out", "membership")
  /\ UNCHANGED <<user, link, access, session, token, password, copy, cols, history>>

\* The memberships: whoever has some, and none active, does not log in; whoever
\* has none may still create an organization.
IssueAccessToken(r) ==
  /\ \/ pc[r] = "memberships" /\ access # "disabled"
     \/ pc[r] = "membership" /\ access = "active"
     \/ pc[r] = "joined"
  /\ session' = TRUE
  /\ End(r)
  /\ UNCHANGED <<user, link, access, history>>

\* createMine: whoever signed in and has no membership becomes an owner.
CreateOrganization ==
  /\ session /\ access = "none"
  /\ access' = "active"
  /\ UNCHANGED <<user, link, session, requestVars, history>>

\* Managers enable and disable the person in their organizations (Members).
ToggleAccess ==
  /\ access # "none"
  /\ access' = IF access = "active" THEN "disabled" ELSE "active"
  /\ UNCHANGED <<user, link, session, requestVars, history>>

\* A check refuses, a query or a mail fails, the process stops: what was written
\* stays.
Fail(r) ==
  /\ pc[r] # "out"
  /\ End(r)
  /\ stale' = stale \ {r}
  /\ UNCHANGED <<user, link, access, session, proved, used, chosen>>

SignUp(r) ==
  \/ Register(r) \/ CreateUser(r) \/ SendMail(r)
  \/ AcceptInvitation(r) \/ AcceptAsNewcomer(r) \/ AcceptAsUser(r) \/ AcceptCreate(r)
  \/ Join(r)

Edit(r) ==
  \/ \E l \in Links :
       \/ VerifyEmail(r, l) \/ ResendVerification(r, l) \/ ForgotPassword(r, l)
       \/ \E p \in Passwords : ResetPassword(r, l, p)
  \/ UpdateProfile(r)
  \/ \E current, p \in Passwords : ChangePassword(r, current, p)
  \/ Save(r) \/ Write(r)

SignIn(r) ==
  \/ \E p \in Passwords : Login(r, p)
  \/ IssueAccessToken(r) \/ SwitchOrg(r)

Next ==
  \/ \E r \in Requests : SignUp(r) \/ Edit(r) \/ SignIn(r) \/ Fail(r)
  \/ \E l \in Links : Expire(l)
  \/ CreateOrganization \/ ToggleAccess

Spec == Init /\ [][Next]_vars

-----------------------------------------------------------------------------
(* Properties.                                                             *)

\* "Sin verificar no hay login": an account is verified, and opens a session,
\* only after somebody followed a link that was mailed to its address, whatever
\* copies of the row the saves write back.
ProvedFirst == user.emailVerified \/ session => proved

\* A save from a copy that was read before the row changed.
StaleWrite == \E r \in stale : pc[r] = "write" /\ pc'[r] # "write"

\* An account stays verified unless a stale save takes it back.
StaysVerified ==
  [][user.emailVerified => user'.emailVerified \/ StaleWrite]_vars

Stored(l) == user.verification = l \/ user.resetPassword = l

\* A link works once: its use takes it out of the row, and nothing but a stale
\* save puts it back.
LinksWorkOnce ==
  [][\A l \in used' : Stored(l)' => StaleWrite \/ (l \in used /\ Stored(l))]_vars

\* The password that was set last is the one in the row: an edit of the profile,
\* a link or a verification never brings another one back, unless it is stale.
LastPasswordStands ==
  [][user.passwordHash = chosen => user'.passwordHash = chosen' \/ StaleWrite]_vars
=============================================================================
