--------------------------- MODULE AccountsProofs ---------------------------
(***************************************************************************)
(* What an account keeps however its requests overlap, for every number of *)
(* requests, links and passwords.                                          *)
(***************************************************************************)
EXTENDS Accounts, TLAPS

\* Between its read and its save.
Saving(r) == pc[r] \in {"save", "write"}

\* A row that was seen is not lost, and who signs up has a password to set.
RowStands ==
  /\ session => user.passwordHash # NoPassword
  /\ \A r \in Requests :
       Saving(r) \/ pc[r] \in {"join", "joined", "memberships", "membership"}
       => user.passwordHash # NoPassword
  /\ \A r \in Requests : Saving(r) => copy[r].passwordHash # NoPassword
  /\ \A r \in Requests :
       pc[r] \in {"register", "acceptFind", "acceptCreate"} => password[r] # NoPassword

\* The address was proved before any copy says so, and before the steps that
\* lead to a session.
ProvedBehind ==
  /\ ProvedFirst
  /\ \A r \in Requests : Saving(r) /\ copy[r].emailVerified => proved
  /\ \A r \in Requests :
       pc[r] \in {"acceptFind", "acceptCreate", "join", "joined", "memberships", "membership"}
       => proved

\* What a save is about to write, if nobody changed the row since its read: the
\* row itself, but for what the handler changes.
Fresh(r) ==
  /\ user.emailVerified => copy[r].emailVerified
  /\ copy[r].passwordHash = IF password[r] = NoPassword THEN user.passwordHash ELSE password[r]
  /\ copy[r].verification \in {NoLink, user.verification, token[r]}
  /\ copy[r].resetPassword \in {NoLink, user.resetPassword, token[r]}
  /\ pc[r] = "write" => cols[r] = Dirty(copy[r], user)

FreshUnlessStale == \A r \in Requests : Saving(r) /\ r \notin stale => Fresh(r)

\* In some row, the one of the table or a copy, as one kind of link or the other.
Verifies(l) == user.verification = l \/ \E r \in Requests : copy[r].verification = l
Resets(l) == user.resetPassword = l \/ \E r \in Requests : copy[r].resetPassword = l

\* A link is given out once, for one purpose, to one request; a save that follows
\* one has taken it out of its copy.
LinksApart ==
  /\ \A l \in Links : ~(Verifies(l) /\ Resets(l))
  /\ \A l \in Links : Verifies(l) \/ Resets(l) => link[l] # "new"
  /\ \A r \in Requests : token[r] # NoLink => link[token[r]] # "new"
  /\ \A q, r \in Requests :
       q # r /\ token[q] = token[r] /\ token[r] # NoLink => link[token[r]] # "issued"
  /\ \A r \in Requests : pc[r] = "mail" => token[r] # NoLink /\ link[token[r]] = "issued"

TokenTakenOut ==
  \A r \in Requests : Saving(r) /\ token[r] # NoLink /\ link[token[r]] # "issued" =>
    copy[r].verification # token[r] /\ copy[r].resetPassword # token[r]

UsedWereMailed == \A l \in used : link[l] \in {"mailed", "expired"}

IInv ==
  /\ TypeOK
  /\ RowStands
  /\ ProvedBehind
  /\ FreshUnlessStale
  /\ LinksApart
  /\ TokenTakenOut
  /\ UsedWereMailed

USE AccountsAssumption

-----------------------------------------------------------------------------
\* A row is its four columns.
LEMMA UserFields ==
  ASSUME NEW u \in User
  PROVE  /\ u.passwordHash \in Passwords \cup {NoPassword}
         /\ u.emailVerified \in BOOLEAN
         /\ u.verification \in Links \cup {NoLink}
         /\ u.resetPassword \in Links \cup {NoLink}
         /\ DOMAIN u = {"passwordHash", "emailVerified", "verification", "resetPassword"}
         /\ u = [passwordHash |-> u.passwordHash, emailVerified |-> u.emailVerified,
                 verification |-> u.verification, resetPassword |-> u.resetPassword]
BY DEF User

\* No account is a row too.
LEMMA NoUserFields ==
  /\ NoUser \in User
  /\ NoUser.passwordHash = NoPassword /\ ~NoUser.emailVerified
  /\ NoUser.verification = NoLink /\ NoUser.resetPassword = NoLink
  /\ DOMAIN NoUser = {"passwordHash", "emailVerified", "verification", "resetPassword"}
BY DEF User, NoUser

\* What a save makes of the row, column by column.
LEMMA WrittenUser ==
  ASSUME NEW u \in User, NEW c \in User, NEW cs
  PROVE  /\ Written(u, c, cs) \in User
         /\ Written(u, c, cs).passwordHash =
              IF "passwordHash" \in cs THEN c.passwordHash ELSE u.passwordHash
         /\ Written(u, c, cs).emailVerified =
              IF "emailVerified" \in cs THEN c.emailVerified ELSE u.emailVerified
         /\ Written(u, c, cs).verification =
              IF "verification" \in cs THEN c.verification ELSE u.verification
         /\ Written(u, c, cs).resetPassword =
              IF "resetPassword" \in cs THEN c.resetPassword ELSE u.resetPassword
<1>1. Written(u, c, cs) =
        [passwordHash  |-> IF "passwordHash" \in cs THEN c.passwordHash ELSE u.passwordHash,
         emailVerified |-> IF "emailVerified" \in cs THEN c.emailVerified ELSE u.emailVerified,
         verification  |-> IF "verification" \in cs THEN c.verification ELSE u.verification,
         resetPassword |-> IF "resetPassword" \in cs THEN c.resetPassword ELSE u.resetPassword]
  BY UserFields DEF Written
<1>2. /\ (IF "passwordHash" \in cs THEN c.passwordHash ELSE u.passwordHash)
           \in Passwords \cup {NoPassword}
      /\ (IF "emailVerified" \in cs THEN c.emailVerified ELSE u.emailVerified) \in BOOLEAN
      /\ (IF "verification" \in cs THEN c.verification ELSE u.verification)
           \in Links \cup {NoLink}
      /\ (IF "resetPassword" \in cs THEN c.resetPassword ELSE u.resetPassword)
           \in Links \cup {NoLink}
  BY UserFields
<1> QED
  BY <1>1, <1>2 DEF User

\* A save that compared with the row as it still is writes its whole copy.
LEMMA WrittenFresh ==
  ASSUME NEW u \in User, NEW c \in User
  PROVE  Written(u, c, Dirty(c, u)) = c
<1>1. \A f \in DOMAIN u : f \notin Dirty(c, u) => c[f] = u[f]
  BY DEF Dirty
<1>2. Written(u, c, Dirty(c, u)) = [f \in DOMAIN u |-> c[f]]
  BY <1>1 DEF Written
<1>3. DOMAIN u = DOMAIN c /\ c = [f \in DOMAIN c |-> c[f]]
  BY UserFields DEF User
<1> QED
  BY <1>2, <1>3

\* Who has a row has a password.
LEMMA HasPassword ==
  ASSUME TypeOK
  PROVE  /\ Exists <=> user.passwordHash # NoPassword
         /\ user.verification # NoLink => user.passwordHash # NoPassword
         /\ user.resetPassword # NoLink => user.passwordHash # NoPassword
         /\ user.emailVerified => user.passwordHash # NoPassword
BY NoUserFields DEF TypeOK, Exists

-----------------------------------------------------------------------------
\* What the handlers that save have in common when they start.
Begins(r, row, l, p) ==
  /\ BeginSave(r, row, l, p)
  /\ row \in User /\ row.passwordHash # NoPassword /\ user.passwordHash # NoPassword
  /\ l \in Links \cup {NoLink} /\ p \in Passwords \cup {NoPassword}
  /\ proved' \in BOOLEAN /\ (proved \/ row.emailVerified => proved')
  /\ user.emailVerified => row.emailVerified
  /\ row.passwordHash = IF p = NoPassword THEN user.passwordHash ELSE p
  /\ \/ /\ l # NoLink => link[l] = "mailed" /\ row.verification # l /\ row.resetPassword # l
        /\ row.verification \in {NoLink, user.verification}
        /\ row.resetPassword \in {NoLink, user.resetPassword}
        /\ link' = link
     \/ /\ l \in Links /\ link[l] = "new" /\ link' = [link EXCEPT ![l] = "issued"]
        /\ \/ row.verification = l /\ row.resetPassword = user.resetPassword
           \/ row.verification = user.verification /\ row.resetPassword = l

\* Which they all do.
LEMMA EditBegins ==
  ASSUME IInv, NEW r \in Requests, Edit(r), ~Save(r), ~Write(r)
  PROVE  \E row \in User, l \in Links \cup {NoLink}, p \in Passwords \cup {NoPassword} :
           Begins(r, row, l, p)
<1>0. TypeOK /\ user \in User /\ ProvedFirst
  BY DEF IInv, TypeOK, ProvedBehind
<1>1. ASSUME NEW l \in Links, VerifyEmail(r, l)
      PROVE  Begins(r, [user EXCEPT !.emailVerified = TRUE, !.verification = NoLink], l, NoPassword)
  <2> DEFINE row == [user EXCEPT !.emailVerified = TRUE, !.verification = NoLink]
  <2>1. /\ row \in User /\ row.passwordHash = user.passwordHash /\ row.emailVerified
        /\ row.verification = NoLink /\ row.resetPassword = user.resetPassword
    BY <1>0, UserFields DEF User
  <2>2. /\ link[l] = "mailed" /\ user.verification = l /\ l # NoLink
        /\ BeginSave(r, row, l, NoPassword) /\ proved' = TRUE /\ link' = link
    BY <1>1 DEF VerifyEmail, Follows
  <2>3. user.resetPassword # l
    BY <2>2 DEF IInv, LinksApart, Verifies, Resets
  <2>4. user.passwordHash # NoPassword
    BY <1>0, <2>2, HasPassword
  <2> HIDE DEF row
  <2>5. Begins(r, row, l, NoPassword)
    BY <2>1, <2>2, <2>3, <2>4 DEF Begins
  <2> QED
    BY <2>5 DEF row
<1>2. ASSUME NEW l \in Links, ResendVerification(r, l)
      PROVE  Begins(r, [user EXCEPT !.verification = l], l, NoPassword)
  <2> DEFINE row == [user EXCEPT !.verification = l]
  <2>1. /\ row \in User /\ row.passwordHash = user.passwordHash
        /\ row.emailVerified = user.emailVerified
        /\ row.verification = l /\ row.resetPassword = user.resetPassword
    BY <1>0, UserFields DEF User
  <2>2. /\ link[l] = "new" /\ link' = [link EXCEPT ![l] = "issued"]
        /\ BeginSave(r, row, l, NoPassword) /\ proved' = proved
    BY <1>2 DEF ResendVerification, Issue
  <2>3. user.passwordHash # NoPassword
    BY <1>0, <1>2, HasPassword DEF ResendVerification
  <2>4. proved \in BOOLEAN /\ (user.emailVerified => proved)
    BY <1>0 DEF TypeOK, ProvedFirst
  <2> HIDE DEF row
  <2>5. Begins(r, row, l, NoPassword)
    BY <2>1, <2>2, <2>3, <2>4 DEF Begins
  <2> QED
    BY <2>5 DEF row
<1>3. ASSUME NEW l \in Links, ForgotPassword(r, l)
      PROVE  Begins(r, [user EXCEPT !.resetPassword = l], l, NoPassword)
  <2> DEFINE row == [user EXCEPT !.resetPassword = l]
  <2>1. /\ row \in User /\ row.passwordHash = user.passwordHash
        /\ row.emailVerified = user.emailVerified
        /\ row.verification = user.verification /\ row.resetPassword = l
    BY <1>0, UserFields DEF User
  <2>2. /\ link[l] = "new" /\ link' = [link EXCEPT ![l] = "issued"]
        /\ BeginSave(r, row, l, NoPassword) /\ proved' = proved
    BY <1>3 DEF ForgotPassword, Issue
  <2>3. user.passwordHash # NoPassword
    BY <1>0, <1>3, HasPassword DEF ForgotPassword
  <2>4. proved \in BOOLEAN /\ (user.emailVerified => proved)
    BY <1>0 DEF TypeOK, ProvedFirst
  <2> HIDE DEF row
  <2>5. Begins(r, row, l, NoPassword)
    BY <2>1, <2>2, <2>3, <2>4 DEF Begins
  <2> QED
    BY <2>5 DEF row
<1>4. ASSUME NEW l \in Links, NEW p \in Passwords, ResetPassword(r, l, p)
      PROVE  Begins(r, [user EXCEPT !.passwordHash = p, !.resetPassword = NoLink], l, p)
  <2> DEFINE row == [user EXCEPT !.passwordHash = p, !.resetPassword = NoLink]
  <2>1. /\ row \in User /\ row.passwordHash = p
        /\ row.emailVerified = user.emailVerified
        /\ row.verification = user.verification /\ row.resetPassword = NoLink
    BY <1>0, UserFields DEF User
  <2>2. /\ link[l] = "mailed" /\ user.resetPassword = l /\ l # NoLink /\ p # NoPassword
        /\ BeginSave(r, row, l, p) /\ proved' = proved /\ link' = link
    BY <1>4 DEF ResetPassword, Follows
  <2>3. user.verification # l
    BY <2>2 DEF IInv, LinksApart, Verifies, Resets
  <2>4. user.passwordHash # NoPassword
    BY <1>0, <2>2, HasPassword
  <2>5. proved \in BOOLEAN /\ (user.emailVerified => proved)
    BY <1>0 DEF TypeOK, ProvedFirst
  <2> HIDE DEF row
  <2>6. Begins(r, row, l, p)
    BY <2>1, <2>2, <2>3, <2>4, <2>5 DEF Begins
  <2> QED
    BY <2>6 DEF row
<1>5. ASSUME UpdateProfile(r)
      PROVE  Begins(r, user, NoLink, NoPassword)
  <2>1. user.passwordHash # NoPassword
    BY <1>5 DEF UpdateProfile, IInv, RowStands
  <2>2. proved \in BOOLEAN /\ (user.emailVerified => proved)
    BY <1>0 DEF TypeOK, ProvedFirst
  <2> QED
    BY <1>0, <1>5, <2>1, <2>2 DEF UpdateProfile, Begins
<1>6. ASSUME NEW current \in Passwords, NEW p \in Passwords, ChangePassword(r, current, p)
      PROVE  Begins(r, [user EXCEPT !.passwordHash = p], NoLink, p)
  <2> DEFINE row == [user EXCEPT !.passwordHash = p]
  <2>1. /\ row \in User /\ row.passwordHash = p
        /\ row.emailVerified = user.emailVerified
        /\ row.verification = user.verification /\ row.resetPassword = user.resetPassword
    BY <1>0, UserFields DEF User
  <2>2. /\ user.passwordHash # NoPassword /\ p # NoPassword
        /\ BeginSave(r, row, NoLink, p) /\ proved' = proved /\ link' = link
    BY <1>6 DEF ChangePassword
  <2>3. proved \in BOOLEAN /\ (user.emailVerified => proved)
    BY <1>0 DEF TypeOK, ProvedFirst
  <2> HIDE DEF row
  <2>4. Begins(r, row, NoLink, p)
    BY <2>1, <2>2, <2>3 DEF Begins
  <2> QED
    BY <2>4 DEF row
<1>7. \/ \E l \in Links :
           \/ VerifyEmail(r, l) \/ ResendVerification(r, l) \/ ForgotPassword(r, l)
           \/ \E p \in Passwords : ResetPassword(r, l, p)
      \/ UpdateProfile(r)
      \/ \E current, p \in Passwords : ChangePassword(r, current, p)
  BY DEF Edit
<1>8. ASSUME NEW row, NEW l, NEW p, Begins(r, row, l, p)
      PROVE  \E u \in User, k \in Links \cup {NoLink}, q \in Passwords \cup {NoPassword} :
               Begins(r, u, k, q)
  <2>1. row \in User /\ l \in Links \cup {NoLink} /\ p \in Passwords \cup {NoPassword}
    BY <1>8 DEF Begins
  <2> QED
    BY <1>8, <2>1
<1> QED
  BY <1>1, <1>2, <1>3, <1>4, <1>5, <1>6, <1>7, <1>8

\* Such a start keeps the invariant.
LEMMA BeginKeeps ==
  ASSUME IInv, NEW r \in Requests, NEW row, NEW l, NEW p, Begins(r, row, l, p)
  PROVE  IInv'
<1>0. /\ TypeOK /\ RowStands /\ ProvedBehind /\ FreshUnlessStale
      /\ LinksApart /\ TokenTakenOut /\ UsedWereMailed
  BY DEF IInv
<1>1. /\ pc[r] = "out" /\ pc' = [pc EXCEPT ![r] = "save"]
      /\ copy' = [copy EXCEPT ![r] = row]
      /\ token' = [token EXCEPT ![r] = l]
      /\ password' = [password EXCEPT ![r] = p]
      /\ UNCHANGED <<user, access, session, cols, stale, used, chosen>>
  BY DEF Begins, BeginSave, Goto
<1>2. /\ row \in User /\ row.passwordHash # NoPassword /\ user.passwordHash # NoPassword
      /\ l \in Links \cup {NoLink} /\ p \in Passwords \cup {NoPassword}
      /\ proved' \in BOOLEAN /\ (proved \/ row.emailVerified => proved')
      /\ user.emailVerified => row.emailVerified
      /\ row.passwordHash = IF p = NoPassword THEN user.passwordHash ELSE p
  BY DEF Begins
<1>3. \/ /\ l # NoLink => link[l] = "mailed" /\ row.verification # l /\ row.resetPassword # l
         /\ row.verification \in {NoLink, user.verification}
         /\ row.resetPassword \in {NoLink, user.resetPassword}
         /\ link' = link
      \/ /\ l \in Links /\ link[l] = "new" /\ link' = [link EXCEPT ![l] = "issued"]
         /\ \/ row.verification = l /\ row.resetPassword = user.resetPassword
            \/ row.verification = user.verification /\ row.resetPassword = l
  BY DEF Begins
<1>4. /\ link \in [Links -> {"new", "issued", "mailed", "expired"}]
      /\ token \in [Requests -> Links \cup {NoLink}]
      /\ pc \in [Requests -> Steps] /\ copy \in [Requests -> User]
      /\ password \in [Requests -> Passwords \cup {NoPassword}]
      /\ used \subseteq Links /\ user \in User
  BY <1>0 DEF TypeOK
<1>5. link' \in [Links -> {"new", "issued", "mailed", "expired"}]
  BY <1>3, <1>4
<1>6. TypeOK'
  BY <1>0, <1>1, <1>2, <1>5 DEF TypeOK, Steps
<1>7. RowStands'
  BY <1>0, <1>1, <1>2, <1>4 DEF RowStands, Saving
<1>8. ProvedBehind'
  BY <1>0, <1>1, <1>2, <1>4 DEF ProvedBehind, ProvedFirst, Saving
<1>9. FreshUnlessStale'
  <2>1. \A q \in Requests : q # r => (Fresh(q)' <=> Fresh(q)) /\ (Saving(q)' <=> Saving(q))
    BY <1>1, <1>4 DEF Fresh, Saving
  <2>2. Fresh(r)'
    BY <1>1, <1>2, <1>3, <1>4 DEF Fresh
  <2> QED
    BY <1>0, <1>1, <2>1, <2>2 DEF FreshUnlessStale
<1>10. \A k \in Links :
         /\ Verifies(k)' => Verifies(k) \/ (k = row.verification /\ k = l)
         /\ Resets(k)' => Resets(k) \/ (k = row.resetPassword /\ k = l)
  BY <1>1, <1>3, <1>4 DEF Verifies, Resets
<1>11. LinksApart'
  <2>1. CASE link' = link
    <3>1. l # NoLink => link[l] = "mailed" /\ row.verification # l /\ row.resetPassword # l
      BY <1>3, <1>4, <2>1
    <3>2. \A k \in Links : (Verifies(k)' => Verifies(k)) /\ (Resets(k)' => Resets(k))
      BY <1>10, <3>1
    <3> QED
      BY <1>0, <1>1, <1>2, <1>4, <2>1, <3>1, <3>2 DEF LinksApart
  <2>2. CASE link' # link
    <3>1. /\ l \in Links /\ link[l] = "new" /\ link' = [link EXCEPT ![l] = "issued"]
          /\ \/ row.verification = l /\ row.resetPassword = user.resetPassword
             \/ row.verification = user.verification /\ row.resetPassword = l
      BY <1>3, <2>2
    <3>2. ~Verifies(l) /\ ~Resets(l)
      BY <1>0, <3>1 DEF LinksApart
    <3>3. row.verification # row.resetPassword
      BY <3>1, <3>2 DEF Verifies, Resets
    <3>4. \A k \in Links : ~(Verifies(k)' /\ Resets(k)')
      BY <1>0, <1>10, <3>2, <3>3 DEF LinksApart
    <3>5. \A k \in Links : Verifies(k)' \/ Resets(k)' => link'[k] # "new"
      BY <1>0, <1>4, <1>10, <3>1 DEF LinksApart
    <3>6. /\ \A q \in Requests : token'[q] # NoLink => link'[token'[q]] # "new"
          /\ \A q \in Requests : pc'[q] = "mail" =>
               token'[q] # NoLink /\ link'[token'[q]] = "issued"
      BY <1>0, <1>1, <1>4, <3>1 DEF LinksApart
    <3>7. \A q \in Requests : q # r => token[q] # l
      BY <1>0, <1>4, <3>1 DEF LinksApart
    <3>8. \A q, t \in Requests :
            q # t /\ token'[q] = token'[t] /\ token'[t] # NoLink => link'[token'[t]] # "issued"
      BY <1>0, <1>1, <1>4, <3>1, <3>7 DEF LinksApart
    <3> QED
      BY <3>4, <3>5, <3>6, <3>8 DEF LinksApart
  <2> QED
    BY <2>1, <2>2
<1>12. TokenTakenOut'
  <2>1. \A q \in Requests : q # r /\ token[q] # NoLink =>
          (link'[token[q]] = "issued" <=> link[token[q]] = "issued")
    BY <1>0, <1>3, <1>4 DEF LinksApart
  <2>2. \A q \in Requests : q # r =>
          copy'[q] = copy[q] /\ token'[q] = token[q] /\ pc'[q] = pc[q]
    BY <1>1, <1>4
  <2>3. copy'[r] = row /\ token'[r] = l
    BY <1>1, <1>4
  <2>4. l # NoLink /\ link'[l] # "issued" => row.verification # l /\ row.resetPassword # l
    BY <1>2, <1>3, <1>4
  <2> QED
    BY <1>0, <2>1, <2>2, <2>3, <2>4 DEF TokenTakenOut, Saving
<1>13. UsedWereMailed'
  BY <1>0, <1>1, <1>3, <1>4 DEF UsedWereMailed
<1> QED
  BY <1>6, <1>7, <1>8, <1>9, <1>11, <1>12, <1>13 DEF IInv

\* So does the comparing read of a save.
LEMMA SaveKeeps ==
  ASSUME IInv, NEW r \in Requests, Save(r)
  PROVE  IInv'
<1>0. /\ TypeOK /\ RowStands /\ ProvedBehind /\ FreshUnlessStale
      /\ LinksApart /\ TokenTakenOut /\ UsedWereMailed
  BY DEF IInv
<1>1. /\ pc[r] = "save" /\ pc' = [pc EXCEPT ![r] = "write"]
      /\ cols' = [cols EXCEPT ![r] = Dirty(copy[r], user)]
      /\ UNCHANGED <<user, link, access, session, token, password, copy,
                     stale, proved, used, chosen>>
  BY DEF Save, Goto, history
<1>2. Dirty(copy[r], user) \subseteq DOMAIN NoUser
  BY <1>0, UserFields, NoUserFields DEF Dirty, TypeOK
<1>3. pc \in [Requests -> Steps] /\ cols \in [Requests -> SUBSET DOMAIN NoUser]
  BY <1>0 DEF TypeOK
<1>4. TypeOK'
  <2>1. cols' \in [Requests -> SUBSET DOMAIN NoUser]
    BY <1>1, <1>2, <1>3
  <2>2. pc' \in [Requests -> Steps]
    BY <1>1, <1>3 DEF Steps
  <2> QED
    BY <1>0, <1>1, <2>1, <2>2 DEF TypeOK
<1>5. \A q \in Requests : Saving(q)' <=> Saving(q)
  BY <1>1, <1>3 DEF Saving
<1>6. RowStands' /\ ProvedBehind' /\ TokenTakenOut' /\ UsedWereMailed' /\ LinksApart'
  BY <1>0, <1>1, <1>3, <1>5 DEF RowStands, ProvedBehind, ProvedFirst, TokenTakenOut,
     UsedWereMailed, LinksApart, Verifies, Resets
<1>7. FreshUnlessStale'
  <2>1. \A q \in Requests : Fresh(q) => Fresh(q)'
    BY <1>1, <1>3 DEF Fresh
  <2> QED
    BY <1>0, <1>1, <1>5, <2>1 DEF FreshUnlessStale
<1> QED
  BY <1>4, <1>6, <1>7 DEF IInv

-----------------------------------------------------------------------------
\* Whoever writes the row makes stale all those that it changes under.
LEMMA SetUserKeepsFresh ==
  ASSUME IInv, NEW r \in Requests, NEW row, SetUser(r, row), ~Saving(r)',
         \A q \in Requests : q # r =>
           /\ pc'[q] = pc[q] /\ copy'[q] = copy[q] /\ cols'[q] = cols[q]
           /\ token'[q] = token[q] /\ password'[q] = password[q]
  PROVE  FreshUnlessStale'
<1> SUFFICES ASSUME NEW q \in Requests, Saving(q)', q \notin stale'
             PROVE  Fresh(q)'
  BY DEF FreshUnlessStale
<1>1. q # r /\ Saving(q)
  BY DEF Saving
<1>2. row = user /\ q \notin stale
  BY <1>1 DEF SetUser, Saving
<1>3. Fresh(q)
  BY <1>1, <1>2 DEF IInv, FreshUnlessStale
<1> QED
  BY <1>1, <1>2, <1>3 DEF SetUser, Fresh

\* What the write of a save does, name by name.
LEMMA WriteDoes ==
  ASSUME IInv, NEW r \in Requests, Write(r)
  PROVE  /\ pc[r] = "write"
         /\ SetUser(r, Written(user, copy[r], cols[r]))
         /\ \/ /\ Mails(r) /\ pc' = [pc EXCEPT ![r] = "mail"] /\ token' = token
               /\ used' = used
            \/ /\ ~Mails(r) /\ pc' = [pc EXCEPT ![r] = "out"]
               /\ token' = [token EXCEPT ![r] = NoLink]
               /\ used' = IF token[r] # NoLink THEN used \cup {token[r]} ELSE used
         /\ password' = [password EXCEPT ![r] = NoPassword]
         /\ copy' = [copy EXCEPT ![r] = NoUser]
         /\ cols' = [cols EXCEPT ![r] = {}]
         /\ chosen' = IF password[r] # NoPassword THEN password[r] ELSE chosen
         /\ UNCHANGED <<link, access, session, proved>>
<1>1. CASE Mails(r)
  BY <1>1 DEF Write, Forget
<1>2. CASE ~Mails(r)
  BY <1>2 DEF Write, End, Forget
<1> QED
  BY <1>1, <1>2

\* The write keeps the invariant.
LEMMA WriteKeeps ==
  ASSUME IInv, NEW r \in Requests, Write(r)
  PROVE  IInv'
<1>0. /\ TypeOK /\ RowStands /\ ProvedBehind /\ FreshUnlessStale
      /\ LinksApart /\ TokenTakenOut /\ UsedWereMailed
  BY DEF IInv
<1> DEFINE row == Written(user, copy[r], cols[r])
<1>1. /\ pc[r] = "write" /\ user' = row
      /\ stale' \subseteq Requests
      /\ \/ pc' = [pc EXCEPT ![r] = "mail"] /\ Mails(r)
         \/ pc' = [pc EXCEPT ![r] = "out"]
      /\ token' \in {token, [token EXCEPT ![r] = NoLink]}
      /\ password' = [password EXCEPT ![r] = NoPassword]
      /\ copy' = [copy EXCEPT ![r] = NoUser]
      /\ cols' = [cols EXCEPT ![r] = {}]
      /\ chosen' = IF password[r] # NoPassword THEN password[r] ELSE chosen
      /\ used' \in {used, used \cup {token[r]}}
      /\ used' # used => token[r] # NoLink /\ link[token[r]] # "issued"
      /\ UNCHANGED <<link, access, session, proved>>
  BY <1>0, WriteDoes DEF SetUser, TypeOK, Mails
<1>2. /\ link \in [Links -> {"new", "issued", "mailed", "expired"}]
      /\ token \in [Requests -> Links \cup {NoLink}]
      /\ pc \in [Requests -> Steps] /\ copy \in [Requests -> User]
      /\ password \in [Requests -> Passwords \cup {NoPassword}]
      /\ used \subseteq Links /\ user \in User /\ copy[r] \in User
  BY <1>0 DEF TypeOK
<1>3. /\ row \in User
      /\ row.passwordHash \in {user.passwordHash, copy[r].passwordHash}
      /\ row.emailVerified => user.emailVerified \/ copy[r].emailVerified
      /\ row.verification \in {user.verification, copy[r].verification}
      /\ row.resetPassword \in {user.resetPassword, copy[r].resetPassword}
  BY <1>2, WrittenUser
<1> HIDE DEF row
<1>4. row.passwordHash # NoPassword
  BY <1>0, <1>1, <1>3 DEF RowStands, Saving
<1>5. TypeOK'
  <2>1. pc' \in [Requests -> Steps]
    BY <1>1, <1>2 DEF Steps
  <2>2. copy' \in [Requests -> User] /\ cols' \in [Requests -> SUBSET DOMAIN NoUser]
    BY <1>0, <1>1, NoUserFields DEF TypeOK
  <2>3. /\ token' \in [Requests -> Links \cup {NoLink}]
        /\ password' \in [Requests -> Passwords \cup {NoPassword}]
        /\ used' \subseteq Links
        /\ chosen' \in Passwords \cup {NoPassword}
    BY <1>0, <1>1, <1>2 DEF TypeOK
  <2> QED
    BY <1>0, <1>1, <1>3, <1>4, <2>1, <2>2, <2>3 DEF TypeOK
<1>6. /\ ~Saving(r)'
      /\ \A q \in Requests : q # r =>
           /\ pc'[q] = pc[q] /\ copy'[q] = copy[q] /\ cols'[q] = cols[q]
           /\ token'[q] = token[q] /\ password'[q] = password[q]
  BY <1>0, <1>1, <1>2 DEF Saving, TypeOK
<1>7. RowStands'
  BY <1>0, <1>1, <1>2, <1>4, <1>6 DEF RowStands, Saving
<1>8. ProvedBehind'
  <2>1. user'.emailVerified => proved
    BY <1>0, <1>1, <1>3 DEF ProvedBehind, ProvedFirst, Saving
  <2>2. pc'[r] \in {"mail", "out"}
    BY <1>1, <1>2
  <2> QED
    BY <1>0, <1>1, <1>6, <2>1, <2>2 DEF ProvedBehind, ProvedFirst, Saving
<1>9. FreshUnlessStale'
  BY <1>6, WriteDoes, SetUserKeepsFresh
<1>10. LinksApart'
  <2>1. \A l \in Links : (Verifies(l)' => Verifies(l)) /\ (Resets(l)' => Resets(l))
    BY <1>1, <1>2, <1>3, NoUserFields DEF Verifies, Resets
  <2>2. \A q \in Requests : token'[q] \in {token[q], NoLink}
    BY <1>1, <1>2
  <2>3. \A q \in Requests : pc'[q] = "mail" =>
          token'[q] # NoLink /\ link[token'[q]] = "issued"
    <3>1. CASE Mails(r)
      <4>1. token'[r] = token[r] /\ token[r] # NoLink /\ link[token[r]] = "issued"
        BY <3>1, WriteDoes DEF Mails
      <4> QED
        BY <1>0, <1>6, <4>1 DEF LinksApart
    <3>2. CASE ~Mails(r)
      <4>1. pc'[r] = "out"
        BY <1>1, <1>2, <3>2
      <4> QED
        BY <1>0, <1>6, <4>1 DEF LinksApart
    <3> QED
      BY <3>1, <3>2
  <2> QED
    BY <1>0, <1>1, <1>2, <2>1, <2>2, <2>3 DEF LinksApart
<1>11. TokenTakenOut'
  BY <1>0, <1>1, <1>6 DEF TokenTakenOut, Saving
<1>12. UsedWereMailed'
  <2>1. token[r] # NoLink /\ link[token[r]] # "issued" => link[token[r]] \in {"mailed", "expired"}
    BY <1>0, <1>2 DEF LinksApart
  <2> QED
    BY <1>0, <1>1, <2>1 DEF UsedWereMailed
<1> QED
  BY <1>5, <1>7, <1>8, <1>9, <1>10, <1>11, <1>12 DEF IInv

-----------------------------------------------------------------------------
\* A row is created where there was none: by a sign-up, with a link to mail, or
\* by an invitation that was accepted.
LEMMA CreateKeeps ==
  ASSUME IInv, NEW r \in Requests, CreateUser(r) \/ AcceptCreate(r)
  PROVE  IInv'
<1>0. /\ TypeOK /\ RowStands /\ ProvedBehind /\ FreshUnlessStale
      /\ LinksApart /\ TokenTakenOut /\ UsedWereMailed
  BY DEF IInv
<1>1. PICK row \in User, l \in Links \cup {NoLink} :
        /\ SetUser(r, row)
        /\ row.passwordHash = password[r] /\ password[r] # NoPassword
        /\ row.resetPassword = NoLink /\ row.verification = l
        /\ row.emailVerified => proved
        /\ user = NoUser
        /\ \/ /\ l # NoLink /\ link[l] = "new" /\ link' = [link EXCEPT ![l] = "issued"]
              /\ pc' = [pc EXCEPT ![r] = "mail"] /\ session' = session
              /\ token' = [token EXCEPT ![r] = l]
           \/ /\ l = NoLink /\ link' = link /\ proved /\ session' = session
              /\ pc' = [pc EXCEPT ![r] = "join"] /\ token' = token
        /\ access' \in {"none", "active", "disabled"}
        /\ password' = [password EXCEPT ![r] = NoPassword]
        /\ copy' = [copy EXCEPT ![r] = NoUser]
        /\ cols' = [cols EXCEPT ![r] = {}]
        /\ chosen' = password[r]
        /\ UNCHANGED <<proved, used>>
  <2>0. password[r] \in Passwords
    BY <1>0 DEF CreateUser, AcceptCreate, Goto, RowStands, TypeOK
  <2>1. CASE CreateUser(r)
    <3>1. PICK l \in Links :
            /\ link[l] = "new" /\ link' = [link EXCEPT ![l] = "issued"]
            /\ token' = [token EXCEPT ![r] = l]
            /\ SetUser(r, [NoUser EXCEPT !.passwordHash = password[r], !.verification = l])
      BY <2>1 DEF CreateUser
    <3> DEFINE row == [NoUser EXCEPT !.passwordHash = password[r], !.verification = l]
    <3>2. /\ row \in User /\ row.passwordHash = password[r] /\ ~row.emailVerified
          /\ row.verification = l /\ row.resetPassword = NoLink
      BY <2>0, NoUserFields DEF User, NoUser
    <3>3. SetUser(r, row)
      BY <3>1
    <3> HIDE DEF row
    <3> QED
      <4>1. /\ user = NoUser /\ pc' = [pc EXCEPT ![r] = "mail"]
            /\ password' = [password EXCEPT ![r] = NoPassword]
            /\ copy' = [copy EXCEPT ![r] = NoUser]
            /\ cols' = [cols EXCEPT ![r] = {}]
            /\ chosen' = password[r]
            /\ access' = access /\ session' = session /\ proved' = proved /\ used' = used
        BY <2>1 DEF CreateUser, Forget, Goto, Exists
      <4>2. access' \in {"none", "active", "disabled"} /\ l # NoLink /\ password[r] # NoPassword
        BY <1>0, <2>0, <4>1 DEF TypeOK
      <4> QED
        BY <3>1, <3>2, <3>3, <4>1, <4>2
  <2>2. CASE AcceptCreate(r)
    <3> DEFINE row == [NoUser EXCEPT !.passwordHash = password[r], !.emailVerified = TRUE]
    <3>2. /\ row \in User /\ row.passwordHash = password[r] /\ row.emailVerified
          /\ row.verification = NoLink /\ row.resetPassword = NoLink
      BY <2>0, NoUserFields DEF User, NoUser
    <3>3. SetUser(r, row) /\ proved
      BY <1>0, <2>2 DEF AcceptCreate, Goto, ProvedBehind
    <3> HIDE DEF row
    <3> QED
      <4>1. /\ user = NoUser /\ pc' = [pc EXCEPT ![r] = "join"]
            /\ token' = token
            /\ password' = [password EXCEPT ![r] = NoPassword]
            /\ copy' = [copy EXCEPT ![r] = NoUser]
            /\ cols' = [cols EXCEPT ![r] = {}]
            /\ chosen' = password[r]
            /\ access' = access /\ session' = session
            /\ link' = link /\ proved' = proved /\ used' = used
        BY <2>2 DEF AcceptCreate, Goto, Forget, Exists
      <4>2. password[r] # NoPassword
        BY <2>0
      <4>3. access' \in {"none", "active", "disabled"}
        BY <1>0, <4>1 DEF TypeOK
      <4> QED
        BY <3>2, <3>3, <4>1, <4>2, <4>3
  <2> QED
    BY <2>1, <2>2
<1>2. /\ link \in [Links -> {"new", "issued", "mailed", "expired"}]
      /\ token \in [Requests -> Links \cup {NoLink}]
      /\ pc \in [Requests -> Steps] /\ copy \in [Requests -> User]
      /\ password \in [Requests -> Passwords \cup {NoPassword}]
      /\ used \subseteq Links /\ user \in User
  BY <1>0 DEF TypeOK
<1>3. /\ user' = row /\ stale' \subseteq Requests
      /\ pc'[r] \in {"mail", "join"} /\ ~Saving(r)'
      /\ \A q \in Requests : q # r =>
           /\ pc'[q] = pc[q] /\ copy'[q] = copy[q] /\ cols'[q] = cols[q]
           /\ token'[q] = token[q] /\ password'[q] = password[q]
  BY <1>0, <1>1, <1>2 DEF Saving, TypeOK, SetUser
<1>4. TypeOK'
  <2>1. pc' \in [Requests -> Steps] /\ link' \in [Links -> {"new", "issued", "mailed", "expired"}]
    BY <1>1, <1>2 DEF Steps
  <2>2. copy' \in [Requests -> User] /\ cols' \in [Requests -> SUBSET DOMAIN NoUser]
    BY <1>0, <1>1, NoUserFields DEF TypeOK
  <2>3. /\ token' \in [Requests -> Links \cup {NoLink}]
        /\ password' \in [Requests -> Passwords \cup {NoPassword}]
        /\ chosen' \in Passwords \cup {NoPassword}
        /\ session' \in BOOLEAN
    BY <1>0, <1>1, <1>2 DEF TypeOK
  <2> QED
    BY <1>0, <1>1, <1>3, <2>1, <2>2, <2>3 DEF TypeOK
<1>5. RowStands'
  BY <1>0, <1>1, <1>2, <1>3 DEF RowStands, Saving
<1>6. ProvedBehind'
  BY <1>0, <1>1, <1>2, <1>3 DEF ProvedBehind, ProvedFirst, Saving
<1>7. FreshUnlessStale'
  BY <1>1, <1>3, SetUserKeepsFresh
<1>8. \A k \in Links :
         (Verifies(k)' => Verifies(k) \/ k = l) /\ (Resets(k)' => Resets(k))
  BY <1>1, <1>2, <1>3, NoUserFields DEF Verifies, Resets
<1>9. LinksApart'
  <2>1. CASE l = NoLink
    <3>1. link' = link /\ pc'[r] = "join"
      BY <1>1, <1>2, <2>1
    <3> QED
      BY <1>0, <1>1, <1>2, <1>3, <1>8, <2>1, <3>1 DEF LinksApart
  <2>2. CASE l # NoLink
    <3>1. l \in Links /\ link[l] = "new" /\ link' = [link EXCEPT ![l] = "issued"]
      BY <1>1, <2>2
    <3>2. ~Verifies(l) /\ ~Resets(l) /\ \A q \in Requests : token[q] # l
      BY <1>0, <2>2, <3>1 DEF LinksApart
    <3>3. \A k \in Links : ~(Verifies(k)' /\ Resets(k)')
      BY <1>0, <1>8, <3>2 DEF LinksApart
    <3>4. \A k \in Links : Verifies(k)' \/ Resets(k)' => link'[k] # "new"
      BY <1>0, <1>2, <1>8, <3>1 DEF LinksApart
    <3>5. /\ \A q \in Requests : token'[q] # NoLink => link'[token'[q]] # "new"
          /\ \A q \in Requests : pc'[q] = "mail" =>
               token'[q] # NoLink /\ link'[token'[q]] = "issued"
      BY <1>0, <1>1, <1>2, <1>3, <2>2, <3>1 DEF LinksApart
    <3>6. \A q, t \in Requests :
            q # t /\ token'[q] = token'[t] /\ token'[t] # NoLink => link'[token'[t]] # "issued"
      BY <1>0, <1>1, <1>2, <3>1, <3>2 DEF LinksApart
    <3> QED
      BY <3>3, <3>4, <3>5, <3>6 DEF LinksApart
  <2> QED
    BY <2>1, <2>2
<1>10. TokenTakenOut'
  <2>1. \A q \in Requests : token[q] # NoLink /\ link'[token[q]] # "issued"
          => link[token[q]] # "issued"
    BY <1>1, <1>2
  <2> QED
    BY <1>0, <1>3, <2>1 DEF TokenTakenOut, Saving
<1>11. UsedWereMailed'
  BY <1>0, <1>1, <1>2 DEF UsedWereMailed
<1> QED
  BY <1>4, <1>5, <1>6, <1>7, <1>9, <1>10, <1>11 DEF IInv

-----------------------------------------------------------------------------
\* What the other steps of a request have in common: they leave the row alone and
\* nothing is about to be saved after them.
Moves(r) ==
  /\ \E to \in Steps \ {"save", "write", "mail"} : pc' = [pc EXCEPT ![r] = to]
  /\ \/ pc[r] = "mail" /\ link' = [link EXCEPT ![token[r]] = "mailed"]
     \/ link' = link
  /\ copy' \in {copy, [copy EXCEPT ![r] = NoUser]}
  /\ cols' \in {cols, [cols EXCEPT ![r] = {}]}
  /\ token' \in {token, [token EXCEPT ![r] = NoLink]}
  /\ \E p \in Passwords \cup {NoPassword} : password' = [password EXCEPT ![r] = p]
  /\ stale' \in {stale, stale \ {r}}
  /\ access' \in {"none", "active", "disabled"}
  /\ session' \in BOOLEAN /\ proved' \in BOOLEAN
  /\ proved \/ session' => proved'
  /\ session' => user.passwordHash # NoPassword
  /\ pc'[r] \in {"join", "joined", "memberships", "membership"} => user.passwordHash # NoPassword
  /\ pc'[r] \in {"register", "acceptFind", "acceptCreate"} => password'[r] # NoPassword
  /\ pc'[r] \in {"acceptFind", "acceptCreate", "join", "joined", "memberships", "membership"}
     => proved'
  /\ UNCHANGED <<user, used, chosen>>

\* Such a step keeps the invariant.
LEMMA MoveKeeps ==
  ASSUME IInv, NEW r \in Requests, Moves(r)
  PROVE  IInv'
<1>0. /\ TypeOK /\ RowStands /\ ProvedBehind /\ FreshUnlessStale
      /\ LinksApart /\ TokenTakenOut /\ UsedWereMailed
  BY DEF IInv
<1>1. /\ link \in [Links -> {"new", "issued", "mailed", "expired"}]
      /\ token \in [Requests -> Links \cup {NoLink}]
      /\ pc \in [Requests -> Steps] /\ copy \in [Requests -> User]
      /\ password \in [Requests -> Passwords \cup {NoPassword}]
      /\ used \subseteq Links /\ user \in User
  BY <1>0 DEF TypeOK
<1>2. /\ pc' \in [Requests -> Steps] /\ pc'[r] \notin {"save", "write", "mail"} /\ ~Saving(r)'
      /\ \A q \in Requests : q # r =>
           /\ pc'[q] = pc[q] /\ copy'[q] = copy[q] /\ cols'[q] = cols[q]
           /\ token'[q] = token[q] /\ password'[q] = password[q]
      /\ token'[r] \in {token[r], NoLink} /\ copy'[r] \in {copy[r], NoUser}
  BY <1>0, <1>1 DEF Moves, Saving, TypeOK
<1>3. /\ link' \in [Links -> {"new", "issued", "mailed", "expired"}]
      /\ \A l \in Links : link[l] # "new" => link'[l] # "new"
      /\ \A l \in Links : link'[l] = "issued" => link[l] = "issued"
      /\ \A l \in Links : link[l] = "issued" => link'[l] = "issued" \/ (pc[r] = "mail" /\ token[r] = l)
      /\ \A l \in Links : link[l] \in {"mailed", "expired"} => link'[l] \in {"mailed", "expired"}
  <2>1. pc[r] = "mail" => token[r] \in Links /\ link[token[r]] = "issued"
    BY <1>0, <1>1 DEF LinksApart
  <2> QED
    BY <1>1, <2>1 DEF Moves
<1>4. TypeOK'
  <2>1. copy' \in [Requests -> User] /\ cols' \in [Requests -> SUBSET DOMAIN NoUser]
    BY <1>0, NoUserFields DEF Moves, TypeOK
  <2>2. /\ token' \in [Requests -> Links \cup {NoLink}]
        /\ password' \in [Requests -> Passwords \cup {NoPassword}]
        /\ stale' \subseteq Requests
    BY <1>0 DEF Moves, TypeOK
  <2> QED
    BY <1>0, <1>2, <1>3, <2>1, <2>2 DEF Moves, TypeOK
<1>5. RowStands'
  BY <1>0, <1>2 DEF Moves, RowStands, Saving
<1>6. ProvedBehind'
  BY <1>0, <1>2 DEF Moves, ProvedBehind, ProvedFirst, Saving
<1>7. FreshUnlessStale'
  <2>1. ASSUME NEW q \in Requests, Saving(q)', q \notin stale' PROVE Fresh(q)'
    <3>1. q # r /\ Saving(q) /\ q \notin stale
      BY <1>2, <2>1 DEF Moves, Saving
    <3>2. Fresh(q)
      BY <1>0, <3>1 DEF FreshUnlessStale
    <3> QED
      BY <1>2, <3>1, <3>2 DEF Moves, Fresh
  <2> QED
    BY <2>1 DEF FreshUnlessStale
<1>8. LinksApart'
  <2>1. \A l \in Links : (Verifies(l)' => Verifies(l)) /\ (Resets(l)' => Resets(l))
    BY <1>1, <1>2, NoUserFields DEF Moves, Verifies, Resets
  <2>2. \A q \in Requests : token'[q] \in {token[q], NoLink}
    BY <1>2
  <2>3. \A q \in Requests : pc'[q] = "mail" =>
          token'[q] # NoLink /\ link'[token'[q]] = "issued"
    BY <1>0, <1>1, <1>2, <1>3 DEF LinksApart
  <2> QED
    BY <1>0, <1>1, <1>3, <2>1, <2>2, <2>3 DEF LinksApart
<1>9. TokenTakenOut'
  <2>1. ASSUME NEW q \in Requests, q # r, token[q] # NoLink, link'[token[q]] # "issued"
        PROVE  link[token[q]] # "issued"
    BY <1>0, <1>1, <1>3, <2>1 DEF LinksApart
  <2> QED
    BY <1>0, <1>2, <2>1 DEF TokenTakenOut, Saving
<1>10. UsedWereMailed'
  BY <1>0, <1>1, <1>3 DEF Moves, UsedWereMailed
<1> QED
  BY <1>4, <1>5, <1>6, <1>7, <1>8, <1>9, <1>10 DEF IInv

\* The steps of signing up and in but the two that create the row.
LEMMA SignMoves ==
  ASSUME IInv, NEW r \in Requests,
         \/ Register(r) \/ SendMail(r) \/ AcceptInvitation(r) \/ AcceptAsNewcomer(r)
         \/ AcceptAsUser(r) \/ Join(r) \/ SignIn(r) \/ Fail(r)
  PROVE  Moves(r)
<1>0. TypeOK /\ RowStands /\ ProvedBehind
  BY DEF IInv
<1>1. /\ password \in [Requests -> Passwords \cup {NoPassword}]
      /\ pc \in [Requests -> Steps]
      /\ access \in {"none", "active", "disabled"}
      /\ session \in BOOLEAN /\ proved \in BOOLEAN
      /\ session \/ user.emailVerified => proved
      /\ session => user.passwordHash # NoPassword
      /\ Exists <=> user.passwordHash # NoPassword
  BY <1>0, HasPassword DEF TypeOK, RowStands, ProvedBehind, ProvedFirst
<1>2. password = [password EXCEPT ![r] = password[r]]
  BY <1>1
<1> USE DEF Steps
<1>3. CASE Register(r)
  BY <1>1, <1>3 DEF Moves, Register, Goto, history
<1>4. CASE SendMail(r)
  BY <1>1, <1>4 DEF Moves, SendMail, End, Forget, history
<1>5. CASE AcceptInvitation(r)
  BY <1>1, <1>5 DEF Moves, AcceptInvitation, Goto
<1>6. CASE AcceptAsNewcomer(r)
  BY <1>0, <1>1, <1>2, <1>6 DEF Moves, AcceptAsNewcomer, Goto, history, RowStands, ProvedBehind
<1>7. CASE AcceptAsUser(r)
  BY <1>0, <1>1, <1>7 DEF Moves, AcceptAsUser, Goto, Forget, history, ProvedBehind
<1>8. CASE Fail(r)
  BY <1>1, <1>8 DEF Moves, Fail, End, Forget
<1>9. CASE SignIn(r)
  <2>1. ASSUME NEW p \in Passwords, Login(r, p) PROVE Moves(r)
    BY <1>1, <1>2, <2>1 DEF Moves, Login, Goto, history
  <2>2. CASE SwitchOrg(r)
    BY <1>1, <1>2, <2>2 DEF Moves, SwitchOrg, Goto, history
  <2>3. CASE IssueAccessToken(r)
    <3>1. proved /\ user.passwordHash # NoPassword
      BY <1>0, <2>3 DEF IssueAccessToken, RowStands, ProvedBehind
    <3> QED
      BY <1>1, <2>3, <3>1 DEF Moves, IssueAccessToken, End, Forget, history
  <2> QED
    BY <1>9, <2>1, <2>2, <2>3 DEF SignIn
<1>10. CASE Join(r)
  BY <1>0, <1>1, <1>2, <1>10 DEF Moves, Join, Goto, history, RowStands, ProvedBehind
<1> QED
  BY <1>3, <1>4, <1>5, <1>6, <1>7, <1>8, <1>9, <1>10

\* The steps that are nobody's request.
LEMMA OutsideKeeps ==
  ASSUME IInv, (\E l \in Links : Expire(l)) \/ CreateOrganization \/ ToggleAccess \/ UNCHANGED vars
  PROVE  IInv'
<1>0. /\ TypeOK /\ RowStands /\ ProvedBehind /\ FreshUnlessStale
      /\ LinksApart /\ TokenTakenOut /\ UsedWereMailed
  BY DEF IInv
<1>1. /\ UNCHANGED <<user, session, pc, token, password, copy, cols, stale, proved, used, chosen>>
      /\ access' \in {"none", "active", "disabled"}
      /\ \/ link' = link
         \/ \E l \in Links : link[l] = "mailed" /\ link' = [link EXCEPT ![l] = "expired"]
  BY <1>0 DEF Expire, CreateOrganization, ToggleAccess, vars, requestVars, history, TypeOK
<1>2. link \in [Links -> {"new", "issued", "mailed", "expired"}]
  BY <1>0 DEF TypeOK
<1>3. /\ link' \in [Links -> {"new", "issued", "mailed", "expired"}]
      /\ \A l \in Links : link'[l] = "new" <=> link[l] = "new"
      /\ \A l \in Links : link'[l] = "issued" <=> link[l] = "issued"
      /\ \A l \in Links : link[l] \in {"mailed", "expired"} => link'[l] \in {"mailed", "expired"}
  BY <1>1, <1>2
<1>4. TypeOK'
  BY <1>0, <1>1, <1>3 DEF TypeOK
<1>5. RowStands' /\ ProvedBehind' /\ FreshUnlessStale'
  BY <1>0, <1>1 DEF RowStands, ProvedBehind, ProvedFirst, FreshUnlessStale, Fresh, Saving
<1>6. token \in [Requests -> Links \cup {NoLink}] /\ used \subseteq Links
  BY <1>0 DEF TypeOK
<1>7. LinksApart'
  BY <1>0, <1>1, <1>3, <1>6 DEF LinksApart, Verifies, Resets
<1>8. TokenTakenOut' /\ UsedWereMailed'
  BY <1>0, <1>1, <1>3, <1>6 DEF TokenTakenOut, UsedWereMailed, Saving
<1> QED
  BY <1>4, <1>5, <1>7, <1>8 DEF IInv

-----------------------------------------------------------------------------
\* The invariant holds at the start.
LEMMA InitIInv == Init => IInv
<1> SUFFICES ASSUME Init PROVE IInv
  OBVIOUS
<1> USE NoUserFields DEF Init
<1>1. TypeOK
  BY DEF TypeOK, Steps
<1>2. RowStands /\ ProvedBehind /\ FreshUnlessStale
  BY DEF RowStands, ProvedBehind, ProvedFirst, FreshUnlessStale, Saving
<1>3. LinksApart /\ TokenTakenOut /\ UsedWereMailed
  BY DEF LinksApart, TokenTakenOut, UsedWereMailed, Verifies, Resets, Saving
<1> QED
  BY <1>1, <1>2, <1>3 DEF IInv

\* Every step keeps it.
LEMMA NextIInv == IInv /\ [Next]_vars => IInv'
<1> SUFFICES ASSUME IInv, [Next]_vars PROVE IInv'
  OBVIOUS
<1>1. ASSUME NEW r \in Requests, SignUp(r) \/ SignIn(r) \/ Fail(r) PROVE IInv'
  <2>1. CASE CreateUser(r) \/ AcceptCreate(r)
    BY <2>1, CreateKeeps
  <2>2. CASE ~CreateUser(r) /\ ~AcceptCreate(r)
    <3>1. Moves(r)
      BY <1>1, <2>2, SignMoves DEF SignUp
    <3> QED
      BY <3>1, MoveKeeps
  <2> QED
    BY <2>1, <2>2
<1>2. ASSUME NEW r \in Requests, Edit(r) PROVE IInv'
  <2>1. CASE Save(r)
    BY <2>1, SaveKeeps
  <2>2. CASE Write(r)
    BY <2>2, WriteKeeps
  <2>3. CASE ~Save(r) /\ ~Write(r)
    BY <1>2, <2>3, EditBegins, BeginKeeps
  <2> QED
    BY <2>1, <2>2, <2>3
<1>3. CASE (\E l \in Links : Expire(l)) \/ CreateOrganization \/ ToggleAccess \/ UNCHANGED vars
  BY <1>3, OutsideKeeps
<1> QED
  BY <1>1, <1>2, <1>3 DEF Next

\* Hence every reachable state has it.
LEMMA InvariantHolds == Spec => []IInv
BY InitIInv, NextIInv, PTL DEF Spec

\* Row, links and requests are of their types, and nobody has an account without
\* a password.
THEOREM TypeCorrect == Spec => []TypeOK
BY InvariantHolds, PTL DEF IInv

\* However many requests overlap and fail, an account is verified and opens a
\* session only after a link that was mailed to its address was followed.
THEOREM AddressProvedFirst == Spec => []ProvedFirst
<1>1. IInv => ProvedFirst
  BY DEF IInv, ProvedBehind
<1> QED
  BY <1>1, InvariantHolds, PTL

-----------------------------------------------------------------------------
\* Three steps change the row.
LEMMA RowChanges ==
  ASSUME IInv, [Next]_vars
  PROVE  \/ UNCHANGED <<user, used, chosen>>
         \/ \E r \in Requests : Write(r) \/ CreateUser(r) \/ AcceptCreate(r)
<1>1. ASSUME NEW r \in Requests, SignUp(r) \/ SignIn(r) \/ Fail(r),
             ~CreateUser(r), ~AcceptCreate(r)
      PROVE  UNCHANGED <<user, used, chosen>>
  <2>1. Moves(r)
    BY <1>1, SignMoves DEF SignUp
  <2> QED
    BY <2>1 DEF Moves
<1>2. ASSUME NEW r \in Requests, Edit(r), ~Write(r)
      PROVE  UNCHANGED <<user, used, chosen>>
  <2>1. CASE Save(r)
    BY <2>1 DEF Save, history
  <2>2. CASE ~Save(r)
    <3>1. PICK row, l, p : Begins(r, row, l, p)
      BY <1>2, <2>2, EditBegins
    <3> QED
      BY <3>1 DEF Begins, BeginSave
  <2> QED
    BY <2>1, <2>2
<1>3. CASE (\E l \in Links : Expire(l)) \/ CreateOrganization \/ ToggleAccess \/ UNCHANGED vars
  BY <1>3 DEF Expire, CreateOrganization, ToggleAccess, vars, history
<1> QED
  BY <1>1, <1>2, <1>3 DEF Next, SignUp

\* A save that is not stale writes its copy, which is fresh.
LEMMA FreshWrite ==
  ASSUME IInv, NEW r \in Requests, Write(r), ~StaleWrite
  PROVE  Fresh(r) /\ user' = copy[r]
<1>1. pc[r] = "write" /\ pc'[r] # "write"
  <2>1. pc[r] = "write" /\ pc' \in {[pc EXCEPT ![r] = "mail"], [pc EXCEPT ![r] = "out"]}
    BY WriteDoes
  <2> QED
    BY <2>1 DEF IInv, TypeOK
<1>2. r \notin stale
  BY <1>1 DEF StaleWrite
<1>3. Fresh(r)
  BY <1>1, <1>2 DEF IInv, FreshUnlessStale, Saving
<1>4. user' = Written(user, copy[r], Dirty(copy[r], user))
  BY <1>1, <1>3, WriteDoes DEF SetUser, Fresh
<1>5. user \in User /\ copy[r] \in User
  BY DEF IInv, TypeOK
<1> QED
  BY <1>3, <1>4, <1>5, WrittenFresh

\* For any number of requests, links and passwords, nothing but a save from a
\* stale copy takes the verification of an account back.
THEOREM VerifiedStays == Spec => StaysVerified
<1>1. IInv /\ [Next]_vars => [user.emailVerified => user'.emailVerified \/ StaleWrite]_vars
  <2> SUFFICES ASSUME IInv, [Next]_vars, user.emailVerified, ~StaleWrite
               PROVE  user'.emailVerified
    OBVIOUS
  <2>1. CASE UNCHANGED <<user, used, chosen>>
    BY <2>1
  <2>2. ASSUME NEW r \in Requests, Write(r) PROVE user'.emailVerified
    BY <2>2, FreshWrite DEF Fresh
  <2>3. ASSUME NEW r \in Requests, CreateUser(r) \/ AcceptCreate(r) PROVE FALSE
    BY <2>3, NoUserFields DEF CreateUser, AcceptCreate, Exists
  <2> QED
    BY <2>1, <2>2, <2>3, RowChanges
<1> QED
  BY <1>1, InvariantHolds, PTL DEF Spec, StaysVerified

\* For any number of them, the password set last is the one in the row until a
\* save from a stale copy brings another one back.
THEOREM PasswordStands == Spec => LastPasswordStands
<1>1. IInv /\ [Next]_vars =>
        [user.passwordHash = chosen => user'.passwordHash = chosen' \/ StaleWrite]_vars
  <2> SUFFICES ASSUME IInv, [Next]_vars, user.passwordHash = chosen, ~StaleWrite
               PROVE  user'.passwordHash = chosen'
    OBVIOUS
  <2>1. CASE UNCHANGED <<user, used, chosen>>
    BY <2>1
  <2>2. ASSUME NEW r \in Requests, Write(r) PROVE user'.passwordHash = chosen'
    <3>1. chosen' = IF password[r] # NoPassword THEN password[r] ELSE chosen
      BY <2>2, WriteDoes
    <3> QED
      BY <2>2, <3>1, FreshWrite DEF Fresh
  <2>3. ASSUME NEW r \in Requests, CreateUser(r) PROVE user'.passwordHash = chosen'
    BY <2>3, NoUserFields DEF CreateUser, SetUser
  <2>4. ASSUME NEW r \in Requests, AcceptCreate(r) PROVE user'.passwordHash = chosen'
    BY <2>4, NoUserFields DEF AcceptCreate, SetUser
  <2> QED
    BY <2>1, <2>2, <2>3, <2>4, RowChanges
<1> QED
  BY <1>1, InvariantHolds, PTL DEF Spec, LastPasswordStands

\* For any number of them, a link that was used is not in the row again, unless a
\* save from a stale copy puts it back.
THEOREM LinksOnce == Spec => LinksWorkOnce
<1>1. IInv /\ [Next]_vars =>
        [\A l \in used' : Stored(l)' => StaleWrite \/ (l \in used /\ Stored(l))]_vars
  <2> SUFFICES ASSUME IInv, [Next]_vars, ~StaleWrite,
                      NEW l \in used', user'.verification = l \/ user'.resetPassword = l
               PROVE  l \in used /\ (user.verification = l \/ user.resetPassword = l)
    BY DEF Stored
  <2>0. /\ used \subseteq Links /\ token \in [Requests -> Links \cup {NoLink}]
        /\ link \in [Links -> {"new", "issued", "mailed", "expired"}]
        /\ \A k \in used : link[k] \in {"mailed", "expired"}
    BY DEF IInv, TypeOK, UsedWereMailed
  <2>1. CASE UNCHANGED <<user, used, chosen>>
    BY <2>1
  <2>2. ASSUME NEW r \in Requests, Write(r)
        PROVE  l \in used /\ (user.verification = l \/ user.resetPassword = l)
    <3>1. /\ pc[r] = "write"
          /\ \/ Mails(r) /\ used' = used
             \/ ~Mails(r) /\ used' = IF token[r] # NoLink THEN used \cup {token[r]} ELSE used
      BY <2>2, WriteDoes
    <3>2. Fresh(r) /\ user' = copy[r]
      BY <2>2, FreshWrite
    <3>3. l # token[r]
      <4>1. CASE Mails(r)
        BY <2>0, <3>1, <4>1 DEF Mails
      <4>2. CASE ~Mails(r) /\ token[r] # NoLink
        BY <3>1, <3>2, <4>2 DEF Mails, IInv, TokenTakenOut, Saving
      <4>3. CASE token[r] = NoLink
        BY <2>0, <3>1, <4>3
      <4> QED
        BY <4>1, <4>2, <4>3
    <3>4. l \in used /\ l # NoLink
      BY <2>0, <3>1, <3>3
    <3> QED
      BY <3>2, <3>3, <3>4 DEF Fresh
  <2>3. ASSUME NEW r \in Requests, CreateUser(r) PROVE FALSE
    <3>1. PICK k \in Links :
            /\ link[k] = "new"
            /\ user' = [NoUser EXCEPT !.passwordHash = password[r], !.verification = k]
      BY <2>3 DEF CreateUser, SetUser
    <3>2. user'.verification = k /\ user'.resetPassword = NoLink
      BY <3>1, NoUserFields
    <3>3. used' = used
      BY <2>3 DEF CreateUser
    <3> QED
      BY <2>0, <3>1, <3>2, <3>3
  <2>4. ASSUME NEW r \in Requests, AcceptCreate(r) PROVE FALSE
    <3>1. user'.verification = NoLink /\ user'.resetPassword = NoLink /\ used' = used
      BY <2>4, NoUserFields DEF AcceptCreate, SetUser
    <3> QED
      BY <2>0, <3>1
  <2> QED
    BY <2>1, <2>2, <2>3, <2>4, RowChanges
<1> QED
  BY <1>1, InvariantHolds, PTL DEF Spec, LinksWorkOnce
=============================================================================
