----------------------- MODULE AccountsProjectsProofs -----------------------
(***************************************************************************)
(* The inductive invariants of Accounts and of Projects, what follows from *)
(* each, and the two side by side.                                         *)
(*                                                                         *)
(* Accounts: a request carries what it has read across its statements, so  *)
(* the invariant says, request by request, how old that may be: Orderly    *)
(* and Informed.  Projects: what a request has read is either still so or  *)
(* its flag says that it is not (CopiedSoFar, NotMain, StillListed), and   *)
(* who has been admitted and not inserted yet is counted with the rows     *)
(* (WithinQuota).                                                          *)
(***************************************************************************)
EXTENDS MCAccountsProjects, FiniteSetTheorems, TLAPS

-----------------------------------------------------------------------------
(* Accounts: the invariant.                                                 *)

\* What a request is about to do fits its kind, and it is about an account that exists or
\* existed.  An administrator's request never takes the office, or the account, of the
\* administrator who asks.
Orderly(r) ==
  /\ req[r].user <= lastUser
  /\ req[r].op \in {"register", "sso"} => req[r].email \in Emails
  /\ req[r].step \in {"insert", "commit", "identity", "byEmail", "link"}
       => req[r].op \in {"register", "sso"}
  /\ req[r].step = "setPassword"  => req[r].op \in {"reset", "change"}
  /\ req[r].step = "markVerified" => req[r].op \in {"verify", "reset", "sso"}
  /\ req[r].step = "endSessions"  => req[r].op = "reset"
  /\ req[r].op \in {"role", "remove"} =>
       /\ req[r].step = "write" /\ req[r].by \in Ids
       /\ req[r].user = req[r].by => req[r].op = "role" /\ req[r].flag

\* What a request knows of passwords: only accounts that have one are about to get another;
\* a reset is about the newest password or one before it; a sign-in has read the account
\* after the last completed reset, or is marked as late.
Informed(r) ==
  req[r].user \in Accounts =>
    LET pass == users[req[r].user].pass IN
    /\ req[r].op \in {"forgot", "reset", "change"} => pass > 0
    /\ req[r].op = "reset" /\ req[r].step \in {"markVerified", "endSessions"} => req[r].pass <= pass
    /\ req[r].op = "sso" /\ req[r].step = "markVerified" => pass = 0
    /\ req[r].step \in {"templates", "seed", "link", "session"} /\ ~req[r].flag
         => resetTo[req[r].user] <= req[r].pass

Requested == \A r \in Requests : Orderly(r) /\ Informed(r)

\* No completed reset has given a password that the account does not have yet.
Resets ==
  /\ \A i \in Accounts : resetTo[i] <= users[i].pass
  /\ \A i \in Ids : i > lastUser => resetTo[i] = 0

\* Links to reset a password go to accounts that have one.  A request that has cleared the
\* old links, and that no other has overtaken since, still finds none.
Links ==
  /\ \A t \in DOMAIN tokens : tokens[t].kind = "reset" => users[tokens[t].user].pass > 0
  /\ \A r \in Requests : At(r, "issue") /\ req[r].flag => Of(r) = {}

\* Without an overlap one request at most seeds, and it found nothing.
Seeding ==
  ~overlap =>
    /\ templates.kept <= 1
    /\ \A q, r \in Requests : At(q, "seed") /\ At(r, "seed") => q = r
    /\ (\E q \in Requests : At(q, "seed")) => templates.kept = 0

AccountsInv ==
  /\ TypeOK /\ Requested /\ Resets /\ ResetEndsSessions /\ Links /\ OneActiveToken /\ Seeding

Steps == {"none", "insert", "commit", "templates", "seed", "clear", "issue", "session",
          "identity", "byEmail", "link", "setPassword", "markVerified", "endSessions", "write"}

\* What the owner of a copy does to it seeds none.
LEMMA CopyMoves ==
  ASSUME templates \in Copies, TemplateAway \/ TemplateBack \/ TemplateGone
  PROVE  templates' \in Copies /\ templates'.kept <= templates.kept
<1>1. /\ templates = [kept |-> templates.kept, back |-> templates.back, away |-> templates.away]
      /\ templates.kept \in Nat /\ templates.back \in Nat /\ templates.away \in Nat
  BY DEF Copies
<1>2. ASSUME NEW kept \in Nat, NEW back \in Nat, NEW away \in Nat, kept <= templates.kept,
             templates' = [kept |-> kept, back |-> back, away |-> away]
      PROVE  templates' \in Copies /\ templates'.kept <= templates.kept
  BY <1>2 DEF Copies
<1>3. CASE templates.kept > 0 /\ templates' = [templates EXCEPT !.kept = @ - 1, !.away = @ + 1]
  <2>1. templates' = [kept |-> templates.kept - 1, back |-> templates.back, away |-> templates.away + 1]
    BY <1>1, <1>3
  <2>2. templates.kept - 1 \in Nat /\ templates.back \in Nat /\ templates.away + 1 \in Nat /\ templates.kept - 1 <= templates.kept
    BY <1>1, <1>3
  <2> QED
    BY <1>2, <2>1, <2>2
<1>4. CASE templates.back > 0 /\ templates' = [templates EXCEPT !.back = @ - 1, !.away = @ + 1]
  <2>1. templates' = [kept |-> templates.kept, back |-> templates.back - 1, away |-> templates.away + 1]
    BY <1>1, <1>4
  <2>2. templates.kept \in Nat /\ templates.back - 1 \in Nat /\ templates.away + 1 \in Nat /\ templates.kept <= templates.kept
    BY <1>1, <1>4
  <2> QED
    BY <1>2, <2>1, <2>2
<1>5. CASE templates.away > 0 /\ templates' = [templates EXCEPT !.back = @ + 1, !.away = @ - 1]
  <2>1. templates' = [kept |-> templates.kept, back |-> templates.back + 1, away |-> templates.away - 1]
    BY <1>1, <1>5
  <2>2. templates.kept \in Nat /\ templates.back + 1 \in Nat /\ templates.away - 1 \in Nat /\ templates.kept <= templates.kept
    BY <1>1, <1>5
  <2> QED
    BY <1>2, <2>1, <2>2
<1>6. CASE templates' = [templates EXCEPT !.back = @ + 1]
  <2>1. templates' = [kept |-> templates.kept, back |-> templates.back + 1, away |-> templates.away]
    BY <1>1, <1>6
  <2>2. templates.kept \in Nat /\ templates.back + 1 \in Nat /\ templates.away \in Nat /\ templates.kept <= templates.kept
    BY <1>1, <1>6
  <2> QED
    BY <1>2, <2>1, <2>2
<1>7. CASE templates.away > 0 /\ templates' = [templates EXCEPT !.away = @ - 1]
  <2>1. templates' = [kept |-> templates.kept, back |-> templates.back, away |-> templates.away - 1]
    BY <1>1, <1>7
  <2>2. templates.kept \in Nat /\ templates.back \in Nat /\ templates.away - 1 \in Nat /\ templates.kept <= templates.kept
    BY <1>1, <1>7
  <2> QED
    BY <1>2, <2>1, <2>2
<1> QED
  BY <1>3, <1>4, <1>5, <1>6, <1>7 DEF TemplateAway, TemplateBack, TemplateGone

LEMMA Kinds == Idle \in Request /\ \A q \in Request : q.step \in Steps
BY AccountConstants DEF Idle, Request, Steps

LEMMA StepChanged ==
  ASSUME NEW q \in Request, NEW step \in Steps
  PROVE  [q EXCEPT !.step = step] \in Request
BY DEF Request, Steps

LEMMA FlagChanged ==
  ASSUME NEW q \in Request, NEW flag \in BOOLEAN
  PROVE  [q EXCEPT !.flag = flag] \in Request
BY DEF Request

LEMMA PassChanged ==
  ASSUME NEW q \in Request, NEW pass \in 0 .. MaxPasswords
  PROVE  [q EXCEPT !.pass = pass] \in Request
BY DEF Request

LEMMA UserChanged ==
  ASSUME NEW q \in Request, NEW user \in 0 .. MaxUsers
  PROVE  [q EXCEPT !.user = user] \in Request
BY DEF Request

LEMMA AfterCreateIs ==
  ASSUME NEW r \in Requests, NEW founder \in BOOLEAN
  PROVE  /\ AfterCreate(r, founder) \in {"templates", "link", "clear", "session"}
         /\ ~founder => AfterCreate(r, founder) # "templates"
         /\ AfterCreate(r, founder) = "link" => req[r].op = "sso"
BY DEF AfterCreate

LEMMA AskedTyped ==
  ASSUME req \in [Requests -> Request], NEW r \in Requests, NEW asked \in Request, Begin(r, asked)
  PROVE  req' \in [Requests -> Request]
BY DEF Begin

\* Every step keeps the types of the requests.
LEMMA RequestsTyped ==
  ASSUME TypeOK, Requested, Next
  PROVE  req' \in [Requests -> Request]
<1>0. /\ req \in [Requests -> Request] /\ users \in [Accounts -> Row]
      /\ Accounts \subseteq Ids /\ lastUser \in 0 .. MaxUsers
      /\ \A t \in DOMAIN tokens : tokens[t].user \in Ids
      /\ \A s \in sessions : s.user \in Ids
      /\ MaxUsers \in Nat /\ MaxPasswords \in Nat \ {0} /\ Ids \subseteq 0 .. MaxUsers
  BY AccountConstants DEF TypeOK, Token, Session, Ids
<1>1. ASSUME NEW r \in Requests, Arrive(r) PROVE req' \in [Requests -> Request]
  <2>1. ASSUME NEW e \in Emails, handleRegister(r, e) PROVE req' \in [Requests -> Request]
    BY <1>0, <2>1, AskedTyped, Kinds DEF handleRegister, Request
  <2>2. ASSUME NEW e \in Emails, NEW verified \in BOOLEAN, handleOIDCCallback(r, e, verified)
        PROVE  req' \in [Requests -> Request]
    BY <1>0, <2>2, AskedTyped, Kinds DEF handleOIDCCallback, Request
  <2>3. ASSUME NEW i \in Accounts, handleForgotPassword(r, i) \/ handleResendVerification(r, i)
        PROVE  req' \in [Requests -> Request]
    BY <1>0, <2>3, AskedTyped, Kinds DEF handleForgotPassword, handleResendVerification, Request
  <2>4. ASSUME NEW i \in Accounts, handleLogin(r, i) PROVE req' \in [Requests -> Request]
    <3>1. users[i].pass \in 0 .. MaxPasswords
      BY <1>0 DEF Row
    <3> QED
      BY <1>0, <2>4, <3>1, AskedTyped, Kinds DEF handleLogin, Request
  <2>5. ASSUME NEW t \in DOMAIN tokens, handleVerifyEmail(r, t) \/ handleResetPassword(r, t)
        PROVE  req' \in [Requests -> Request]
    BY <1>0, <2>5, AskedTyped, Kinds DEF handleVerifyEmail, handleResetPassword, Consume, Request
  <2>6. ASSUME NEW s \in sessions, handleChangePassword(r, s) PROVE req' \in [Requests -> Request]
    BY <1>0, <2>6, AskedTyped, Kinds DEF handleChangePassword, Request
  <2>7. ASSUME NEW s \in sessions, NEW i \in Accounts, handleAdminDeleteUser(r, s, i)
        PROVE  req' \in [Requests -> Request]
    BY <1>0, <2>7, AskedTyped, Kinds DEF handleAdminDeleteUser, Request
  <2>8. ASSUME NEW s \in sessions, NEW i \in Accounts, NEW admin \in BOOLEAN,
               handleAdminUpdateUser(r, s, i, admin)
        PROVE  req' \in [Requests -> Request]
    BY <1>0, <2>8, AskedTyped, Kinds DEF handleAdminUpdateUser, Request
  <2> QED
    BY <1>1, <2>1, <2>2, <2>3, <2>4, <2>5, <2>6, <2>7, <2>8 DEF Arrive
<1>2. ASSUME NEW r \in Requests, CreateUser(r) PROVE req' \in [Requests -> Request]
  <2> DEFINE founder == Accounts = {}
             q       == [req[r] EXCEPT !.step = "commit", !.flag = founder]
  <2>1. founder \in BOOLEAN /\ req[r] \in Request
    BY <1>0
  <2> HIDE DEF founder
  <2>2. q \in Request
    BY <2>1, StepChanged, FlagChanged DEF Steps
  <2> USE DEF founder
  <2>3. req' = [req EXCEPT ![r] = q]
    BY <1>2 DEF CreateUser
  <2> QED
    BY <1>0, <2>2, <2>3
<1>3. ASSUME NEW r \in Requests, UserCreated(r) PROVE req' \in [Requests -> Request]
  <2>1. CASE \E i \in Accounts : HasAddress(i, req[r].email)
    BY <1>0, <1>3, <2>1, Kinds DEF UserCreated, End
  <2>2. CASE ~ \E i \in Accounts : HasAddress(i, req[r].email)
    <3> DEFINE pass == IF req[r].op = "sso" THEN 0 ELSE 1
               step == IF req[r].op = "sso" THEN "markVerified" ELSE AfterCreate(r, req[r].flag)
               flag == req[r].flag /\ req[r].op = "sso"
    <3>1. req[r].flag \in BOOLEAN
      BY <1>0 DEF Request
    <3>2. step \in Steps /\ pass \in 0 .. MaxPasswords /\ flag \in BOOLEAN
      BY <1>0, <3>1, AfterCreateIs DEF Steps
    <3>3. /\ lastUser + 1 \in 0 .. MaxUsers
          /\ req' = [req EXCEPT ![r].user = lastUser + 1, ![r].pass = pass,
                                ![r].step = step, ![r].flag = flag]
      BY <1>0, <1>3, <2>2 DEF UserCreated
    <3> HIDE DEF pass, step, flag
    <3>4. [req[r] EXCEPT !.user = lastUser + 1, !.pass = pass, !.step = step, !.flag = flag] \in Request
      BY <1>0, <3>2, <3>3, StepChanged, FlagChanged, PassChanged, UserChanged
    <3> QED
      BY <1>0, <3>3, <3>4
  <2> QED
    BY <2>1, <2>2
<1>4. ASSUME NEW r \in Requests, NEW step \in Steps, Goto(r, step)
      PROVE  req' \in [Requests -> Request]
  <2>1. [req[r] EXCEPT !.step = step] \in Request
    BY <1>0, StepChanged
  <2> QED
    BY <1>0, <1>4, <2>1 DEF Goto
<1>5. ASSUME NEW r \in Requests, AfterSeeding(r) PROVE req' \in [Requests -> Request]
  BY <1>0, <1>4, <1>5, AfterCreateIs, Kinds DEF AfterSeeding, End, Steps
<1>6. ASSUME NEW r \in Requests, Templates(r) \/ seedOne(r) PROVE req' \in [Requests -> Request]
  BY <1>4, <1>5, <1>6 DEF Templates, seedOne, Steps
<1>7. ASSUME NEW r \in Requests, ClearOld(r) PROVE req' \in [Requests -> Request]
  <2>1. [req[r] EXCEPT !.step = "issue", !.flag = TRUE] \in Request
    BY <1>0, StepChanged, FlagChanged DEF Steps
  <2> QED
    BY <1>0, <1>7, <2>1 DEF ClearOld
<1>8. ASSUME NEW r \in Requests, Issue(r) PROVE req' \in [Requests -> Request]
  <2>1. \A q \in Requests : [req[q] EXCEPT !.flag = FALSE] \in Request
    BY <1>0, FlagChanged
  <2> QED
    BY <1>0, <1>8, <2>1, Kinds DEF Issue, End
<1>9. ASSUME NEW r \in Requests, SetPassword(r) PROVE req' \in [Requests -> Request]
  <2> DEFINE i    == req[r].user
             pass == IF i \in Accounts THEN users[i].pass + 1 ELSE 0
  <2>1. pass \in 0 .. MaxPasswords
    BY <1>0, <1>9 DEF SetPassword, Row
  <2>2. req' = [req EXCEPT ![r].step = "markVerified", ![r].pass = pass] \/ End(r)
    BY <1>9 DEF SetPassword
  <2> HIDE DEF pass
  <2>3. [req[r] EXCEPT !.step = "markVerified", !.pass = pass] \in Request
    BY <1>0, <2>1, StepChanged, PassChanged DEF Steps
  <2> QED
    BY <1>0, <2>2, <2>3, Kinds DEF End
<1>10. ASSUME NEW r \in Requests, MarkEmailVerified(r) PROVE req' \in [Requests -> Request]
  <2> DEFINE step == AfterCreate(r, req[r].flag)
  <2>1. req[r].flag \in BOOLEAN
    BY <1>0 DEF Request
  <2>2. step \in Steps
    BY <2>1, AfterCreateIs DEF Steps
  <2>3. \/ End(r) \/ Goto(r, "endSessions")
        \/ req' = [req EXCEPT ![r].step = step, ![r].flag = FALSE]
    BY <1>10 DEF MarkEmailVerified
  <2> HIDE DEF step
  <2>4. [req[r] EXCEPT !.step = step, !.flag = FALSE] \in Request
    BY <1>0, <2>2, StepChanged, FlagChanged
  <2> QED
    BY <1>0, <1>4, <2>3, <2>4, Kinds DEF End, Steps
<1>11. ASSUME NEW r \in Requests, DeleteUserSessions(r) PROVE req' \in [Requests -> Request]
  <2>1. \A q \in Requests : [req[q] EXCEPT !.flag = TRUE] \in Request
    BY <1>0, FlagChanged
  <2> QED
    BY <1>0, <1>11, <2>1, Kinds DEF DeleteUserSessions
<1>12. ASSUME NEW r \in Requests, CreateSession(r) \/ SetUserAdmin(r) \/ DeleteUser(r) \/ Cancelled(r)
       PROVE  req' \in [Requests -> Request]
  BY <1>0, <1>12, Kinds DEF CreateSession, SetUserAdmin, DeleteUser, Cancelled, End
<1>13. ASSUME NEW r \in Requests, NEW i \in Accounts, NEW step \in Steps, Found(r, i, step)
       PROVE  req' \in [Requests -> Request]
  <2>1. users[i].pass \in 0 .. MaxPasswords
    BY <1>0 DEF Row
  <2>2. [req[r] EXCEPT !.step = step, !.user = i, !.pass = users[i].pass, !.flag = FALSE] \in Request
    BY <1>0, <2>1, StepChanged, FlagChanged, PassChanged, UserChanged
  <2> QED
    BY <1>0, <1>13, <2>2 DEF Found
<1>14. ASSUME NEW r \in Requests, UserByOIDC(r) PROVE req' \in [Requests -> Request]
  <2>1. At(r, "identity") => req[r].email \in Emails
    BY DEF Requested, Orderly, At
  <2> QED
    BY <1>4, <1>13, <1>14, <2>1 DEF UserByOIDC, Steps, TypeOK
<1>15. ASSUME NEW r \in Requests, UserByEmail(r) PROVE req' \in [Requests -> Request]
  BY <1>4, <1>13, <1>15 DEF UserByEmail, Steps
<1>16. ASSUME NEW r \in Requests, LinkOIDC(r) PROVE req' \in [Requests -> Request]
  BY <1>0, <1>4, <1>16, Kinds DEF LinkOIDC, End, Steps
<1>17. ASSUME NEW r \in Requests, Restart(r) PROVE req' \in [Requests -> Request]
  <2>1. [Idle EXCEPT !.op = "startup", !.step = "templates"] \in Request
    BY Kinds DEF Request
  <2> QED
    BY <1>0, <1>17, <2>1, Kinds DEF Restart
<1>18. ASSUME \/ \E s \in sessions : handleLogout(s)
              \/ \E t \in DOMAIN tokens : TokenExpires(t)
              \/ TemplateAway \/ TemplateBack \/ TemplateGone
       PROVE  req' \in [Requests -> Request]
  BY <1>0, <1>18 DEF handleLogout, TokenExpires, TemplateAway, TemplateBack, TemplateGone
<1> QED
  BY <1>1, <1>2, <1>3, <1>6, <1>7, <1>8, <1>9, <1>10, <1>11, <1>12, <1>14, <1>15, <1>16, <1>17,
     <1>18 DEF Next, Proceed

-----------------------------------------------------------------------------
(* What most steps leave alone.                                             *)

FewerTokens ==
  /\ DOMAIN tokens' \subseteq DOMAIN tokens
  /\ \A t \in DOMAIN tokens' : tokens'[t] = tokens[t]

Quiet == UNCHANGED <<data, sessions, lastToken, templates, resetTo, overlap>> /\ FewerTokens

LEMMA Arrived == ASSUME NEW r \in Requests, Arrive(r) PROVE Quiet
<1>1. ASSUME NEW t \in DOMAIN tokens, handleVerifyEmail(r, t) \/ handleResetPassword(r, t)
      PROVE  Quiet
  BY <1>1 DEF handleVerifyEmail, handleResetPassword, Consume, Restrict, Quiet, FewerTokens
<1> QED
  BY <1>1, Zenon DEF Arrive, handleRegister, handleOIDCCallback, handleForgotPassword,
     handleResendVerification, handleLogin, handleChangePassword, handleAdminDeleteUser,
     handleAdminUpdateUser, Quiet, FewerTokens

LEMMA ProceededQuietly ==
  ASSUME NEW r \in Requests,
         \/ CreateUser(r) \/ ClearOld(r) \/ UserByOIDC(r) \/ UserByEmail(r)
         \/ Cancelled(r) \/ Restart(r)
  PROVE  Quiet
<1>1. CASE ClearOld(r)
  BY <1>1 DEF ClearOld, Restrict, Quiet, FewerTokens
<1> QED
  BY <1>1 DEF CreateUser, UserByOIDC, UserByEmail, Cancelled, Restart, Quiet, FewerTokens

LEMMA TypeStep ==
  ASSUME TypeOK, Requested, Next
  PROVE  TypeOK'
<1>0. req' \in [Requests -> Request] /\ menu' \in Menus
  BY RequestsTyped DEF Next, TypeOK
<1>a. ASSUME NEW r \in Requests PROVE req[r] \in Request
  BY DEF TypeOK
<1>1. ASSUME Quiet PROVE TypeOK'
  BY <1>0, <1>1 DEF TypeOK, Quiet, FewerTokens, data, Accounts
<1>2. ASSUME NEW r \in Requests, UserCreated(r) PROVE TypeOK'
  <2>1. CASE \E i \in Accounts : HasAddress(i, req[r].email)
    BY <1>0, <1>2, <2>1 DEF TypeOK, UserCreated, data, Accounts
  <2>2. CASE ~ \E i \in Accounts : HasAddress(i, req[r].email)
    <3> DEFINE i   == lastUser + 1
               row == [email |-> req[r].email, pass |-> IF req[r].op = "sso" THEN 0 ELSE 1,
                       admin |-> req[r].flag, verified |-> FALSE]
    <3>1. row \in Row
      BY <1>2, <1>a, AccountConstants DEF UserCreated, At, Requested, Orderly, Row, Request
    <3>2. /\ lastUser < MaxUsers /\ lastUser' = i
          /\ users' = [j \in Accounts \cup {i} |-> IF j \in Accounts THEN users[j] ELSE row]
          /\ UNCHANGED <<identities, sessions, tokens, lastToken, templates, resetTo, overlap>>
      BY <1>2, <2>2 DEF UserCreated
    <3> HIDE DEF row
    <3>3. /\ Accounts' = Accounts \cup {i} /\ users' \in [Accounts' -> Row]
          /\ Accounts' \subseteq 1 .. lastUser' /\ lastUser' \in 0 .. MaxUsers
      BY <3>1, <3>2, AccountConstants DEF TypeOK, Accounts
    <3> QED
      BY <1>0, <3>2, <3>3 DEF TypeOK
  <2> QED
    BY <2>1, <2>2
<1>3. ASSUME NEW r \in Requests, Templates(r) \/ seedOne(r) PROVE TypeOK'
  <2>1. UNCHANGED <<data, sessions, tokens, lastToken, resetTo>>
    BY <1>3 DEF Templates, seedOne
  <2>2. templates \in Copies /\ overlap \in BOOLEAN
    BY DEF TypeOK
  <2>3. templates' \in Copies
    BY <1>3, <2>2 DEF Templates, seedOne, Copies
  <2>4. overlap' \in BOOLEAN
    BY <1>3, <2>2, Zenon DEF Templates, seedOne
  <2> QED
    BY <1>0, <2>1, <2>3, <2>4 DEF TypeOK, data, Accounts
<1>4. ASSUME NEW r \in Requests, Issue(r) PROVE TypeOK'
  <2>1. CASE req[r].user \notin Accounts
    BY <1>0, <1>4, <2>1 DEF TypeOK, Issue, data, Accounts
  <2>2. CASE req[r].user \in Accounts
    <3>1. [user |-> req[r].user, kind |-> Kind(r), alone |-> req[r].flag] \in Token
      BY <1>a, <2>2 DEF TypeOK, Token, Kind, Request, Ids
    <3> QED
      BY <1>0, <1>4, <2>2, <3>1, AccountConstants DEF TypeOK, Issue, data, Accounts
  <2> QED
    BY <2>1, <2>2
<1>5. ASSUME NEW r \in Requests, SetPassword(r) PROVE TypeOK'
  <2>1. users' \in [Accounts -> Row] /\ Accounts' = Accounts
    BY <1>5, AccountConstants DEF TypeOK, SetPassword, Row, Accounts
  <2> QED
    BY <1>0, <1>5, <2>1 DEF TypeOK, SetPassword
<1>6. ASSUME NEW r \in Requests, MarkEmailVerified(r) PROVE TypeOK'
  <2>1. users' \in [Accounts -> Row] /\ Accounts' = Accounts
    <3>1. \A i \in Accounts : [users[i] EXCEPT !.verified = TRUE] \in Row
      BY DEF TypeOK, Row
    <3> QED
      BY <1>6, <3>1 DEF TypeOK, MarkEmailVerified, Accounts
  <2> QED
    BY <1>0, <1>6, <2>1 DEF TypeOK, MarkEmailVerified
<1>7. ASSUME NEW r \in Requests, DeleteUserSessions(r) PROVE TypeOK'
  <2>1. resetTo' \in [Ids -> 0 .. MaxPasswords]
    BY <1>7, <1>a DEF TypeOK, DeleteUserSessions, Request
  <2>2. sessions' \subseteq Session /\ \A s \in sessions' : s.user \in Accounts
    BY <1>7 DEF TypeOK, DeleteUserSessions, Session
  <2> QED
    BY <1>0, <1>7, <2>1, <2>2 DEF TypeOK, DeleteUserSessions, data, Accounts
<1>8. ASSUME NEW r \in Requests, CreateSession(r) PROVE TypeOK'
  <2>1. req[r].user \in Accounts =>
          [user |-> req[r].user, pass |-> req[r].pass, late |-> req[r].flag, spared |-> FALSE]
            \in Session
    BY <1>a DEF TypeOK, Session, Request, Ids
  <2> DEFINE new == [user |-> req[r].user, pass |-> req[r].pass, late |-> req[r].flag, spared |-> FALSE]
  <2>2. new.user = req[r].user
    OBVIOUS
  <2>3. /\ UNCHANGED <<data, tokens, lastToken, templates, resetTo, overlap>>
        /\ sessions' = IF req[r].user \in Accounts THEN sessions \cup {new} ELSE sessions
    BY <1>8 DEF CreateSession
  <2> HIDE DEF new
  <2>4. sessions' \subseteq Session /\ \A s \in sessions' : s.user \in Accounts
    BY <2>1, <2>2, <2>3 DEF TypeOK, new
  <2> QED
    BY <1>0, <2>3, <2>4 DEF TypeOK, data, Accounts
<1>9. ASSUME NEW r \in Requests, LinkOIDC(r) PROVE TypeOK'
  BY <1>0, <1>9 DEF TypeOK, LinkOIDC, Accounts
<1>10. ASSUME NEW r \in Requests, SetUserAdmin(r) PROVE TypeOK'
  <2>1. users' \in [Accounts -> Row] /\ Accounts' = Accounts
    <3>1. \A i \in Accounts : [users[i] EXCEPT !.admin = req[r].flag] \in Row
      BY <1>a DEF TypeOK, Row, Request
    <3> QED
      BY <1>10, <3>1 DEF TypeOK, SetUserAdmin, Accounts
  <2> QED
    BY <1>0, <1>10, <2>1 DEF TypeOK, SetUserAdmin
<1>11. ASSUME NEW r \in Requests, DeleteUser(r) PROVE TypeOK'
  BY <1>0, <1>11 DEF TypeOK, DeleteUser, Restrict, Accounts
<1>12. ASSUME NEW s \in sessions, handleLogout(s) PROVE TypeOK'
  BY <1>0, <1>12 DEF TypeOK, handleLogout, data, Accounts
<1>13. ASSUME NEW t \in DOMAIN tokens, TokenExpires(t) PROVE TypeOK'
  BY <1>1, <1>13 DEF TokenExpires, Quiet, FewerTokens, Restrict
<1>14. ASSUME TemplateAway \/ TemplateBack \/ TemplateGone PROVE TypeOK'
  <2>1. templates' \in Copies
    BY <1>14, CopyMoves DEF TypeOK
  <2>2. UNCHANGED <<data, sessions, tokens, lastToken, resetTo, overlap>>
    BY <1>14 DEF TemplateAway, TemplateBack, TemplateGone
  <2> QED
    BY <1>0, <2>1, <2>2 DEF TypeOK, data, Accounts
<1> QED
  BY <1>1, <1>2, <1>3, <1>4, <1>5, <1>6, <1>7, <1>8, <1>9, <1>10, <1>11, <1>12, <1>13, <1>14,
     Arrived, ProceededQuietly DEF Next, Proceed

-----------------------------------------------------------------------------
(* Requests.                                                                *)

\* The requests that a step does not touch stay orderly and informed, unless it sets a
\* password or completes a reset.
Calm ==
  /\ lastUser' \in Nat /\ lastUser <= lastUser' /\ resetTo' = resetTo
  /\ \A i \in 0 .. lastUser : i \in Accounts' => i \in Accounts /\ users'[i].pass = users[i].pass

Carried(r) == Orderly(r)' /\ Informed(r)'

LEMMA Others ==
  ASSUME TypeOK, Requested, Calm, NEW q \in Requests, req'[q] = req[q]
  PROVE  Carried(q)
<1>1. req[q].user \in 0 .. lastUser /\ lastUser \in Nat
  BY AccountConstants DEF TypeOK, Request, Requested, Orderly
<1>2. Orderly(q)'
  BY <1>1 DEF Requested, Orderly, Calm
<1>3. Informed(q)'
  BY <1>1 DEF Requested, Informed, Calm
<1> QED
  BY <1>2, <1>3 DEF Carried

LEMMA QuietIsCalm == ASSUME TypeOK, Quiet PROVE Calm
BY AccountConstants DEF TypeOK, Quiet, Calm, data, Accounts

\* What an idle request becomes.
Entered(r) ==
  /\ \A q \in Requests \ {r} : req'[q] = req[q]
  /\ req'[r].step \notin {"issue", "seed"}

LEMMA Arriving ==
  ASSUME TypeOK, Requested, Resets, Links, NEW r \in Requests, Arrive(r)
  PROVE  Carried(r) /\ Entered(r)
<1>0. /\ req \in [Requests -> Request] /\ lastUser \in Nat /\ users \in [Accounts -> Row]
      /\ Accounts \subseteq 1 .. lastUser /\ MaxPasswords \in Nat /\ resetTo \in [Ids -> 0 .. MaxPasswords]
      /\ \A t \in DOMAIN tokens : tokens[t].user \in Accounts
      /\ \A s \in sessions : s.user \in Accounts
      /\ lastUser <= MaxUsers /\ MaxUsers \in Nat
  BY AccountConstants DEF TypeOK
<1>1. UNCHANGED <<users, lastUser, resetTo>> /\ Accounts' = Accounts
  BY Arrived DEF Quiet, data, Accounts
<1>2. ASSUME NEW e \in Emails, handleRegister(r, e)
      PROVE  Carried(r) /\ Entered(r)
  BY <1>0, <1>1, <1>2 DEF handleRegister, Begin, Idle, Carried, Orderly, Informed, Entered
<1>3. ASSUME NEW e \in Emails, NEW verified \in BOOLEAN, handleOIDCCallback(r, e, verified)
      PROVE  Carried(r) /\ Entered(r)
  BY <1>0, <1>1, <1>3 DEF handleOIDCCallback, Begin, Idle, Carried, Orderly, Informed, Entered
<1>4. ASSUME NEW i \in Accounts, handleForgotPassword(r, i)
      PROVE  Carried(r) /\ Entered(r)
  BY <1>0, <1>1, <1>4 DEF handleForgotPassword, Begin, Idle, Carried, Orderly, Informed, Entered
<1>5. ASSUME NEW i \in Accounts, handleResendVerification(r, i)
      PROVE  Carried(r) /\ Entered(r)
  BY <1>0, <1>1, <1>5 DEF handleResendVerification, Begin, Idle, Carried, Orderly, Informed, Entered
<1>6. ASSUME NEW i \in Accounts, handleLogin(r, i)
      PROVE  Carried(r) /\ Entered(r)
  <2>1. resetTo[i] <= users[i].pass
    BY DEF Resets
  <2> QED
    BY <1>0, <1>1, <1>6, <2>1 DEF handleLogin, Begin, Idle, Carried, Orderly, Informed, Entered
<1>7. ASSUME NEW t \in DOMAIN tokens, handleVerifyEmail(r, t)
      PROVE  Carried(r) /\ Entered(r)
  BY <1>0, <1>1, <1>7 DEF handleVerifyEmail, Consume, Begin, Idle, Carried, Orderly, Informed, Entered
<1>8. ASSUME NEW t \in DOMAIN tokens, handleResetPassword(r, t)
      PROVE  Carried(r) /\ Entered(r)
  <2>1. users[tokens[t].user].pass > 0
    BY <1>8 DEF Links, handleResetPassword, Consume
  <2> QED
    BY <1>0, <1>1, <1>8, <2>1 DEF handleResetPassword, Consume, Begin, Idle, Carried, Orderly, Informed, Entered
<1>9. ASSUME NEW s \in sessions, handleChangePassword(r, s)
      PROVE  Carried(r) /\ Entered(r)
  BY <1>0, <1>1, <1>9 DEF handleChangePassword, Begin, Idle, Carried, Orderly, Informed, Entered
<1>10. ASSUME NEW s \in sessions, NEW i \in Accounts, handleAdminDeleteUser(r, s, i)
       PROVE  Carried(r) /\ Entered(r)
  BY <1>0, <1>1, <1>10 DEF handleAdminDeleteUser, Begin, Idle, Carried, Orderly, Informed, Entered, Ids
<1>11. ASSUME NEW s \in sessions, NEW i \in Accounts, NEW admin \in BOOLEAN,
              handleAdminUpdateUser(r, s, i, admin)
       PROVE  Carried(r) /\ Entered(r)
  BY <1>0, <1>1, <1>11 DEF handleAdminUpdateUser, Begin, Idle, Carried, Orderly, Informed, Entered, Ids
<1> QED
  BY <1>2, <1>3, <1>4, <1>5, <1>6, <1>7, <1>8, <1>9, <1>10, <1>11 DEF Arrive

\* What a request becomes by its own step.
LEMMA Proceeding ==
  ASSUME TypeOK, TypeOK', Requested, Resets, NEW r \in Requests,
         \/ CreateUser(r) \/ Templates(r) \/ seedOne(r) \/ ClearOld(r) \/ UserByOIDC(r)
         \/ UserByEmail(r) \/ LinkOIDC(r) \/ CreateSession(r) \/ SetUserAdmin(r) \/ DeleteUser(r)
         \/ Cancelled(r) \/ MarkEmailVerified(r)
  PROVE  Calm /\ Carried(r) /\ \A q \in Requests \ {r} : req'[q] = req[q]
<1>0. /\ req \in [Requests -> Request] /\ lastUser \in Nat /\ users \in [Accounts -> Row]
      /\ Accounts \subseteq 1 .. lastUser /\ MaxPasswords \in Nat
      /\ resetTo \in [Ids -> 0 .. MaxPasswords]
      /\ identities \in [Emails -> Accounts \cup {0}]
      /\ lastUser <= MaxUsers /\ MaxUsers \in Nat /\ req[r] \in Request
      /\ lastUser' \in Nat /\ Accounts' \subseteq 1 .. lastUser'
  BY AccountConstants DEF TypeOK
<1>1. ASSUME End(r) PROVE Carried(r) /\ \A q \in Requests \ {r} : req'[q] = req[q]
  BY <1>0, <1>1 DEF End, Idle, Carried, Orderly, Informed
<1>2. ASSUME CreateUser(r) PROVE Calm /\ Carried(r) /\ \A q \in Requests \ {r} : req'[q] = req[q]
  <2>1. /\ req'[r] = [req[r] EXCEPT !.step = "commit", !.flag = (Accounts = {})]
        /\ \A q \in Requests \ {r} : req'[q] = req[q]
        /\ UNCHANGED <<users, lastUser, resetTo>> /\ req[r].step = "insert"
    BY <1>0, <1>2 DEF CreateUser, data, At
  <2>2. req'[r].step = "commit" /\ req'[r].op = req[r].op /\ req'[r].user = req[r].user
        /\ req'[r].email = req[r].email /\ req'[r].by = req[r].by
    BY <1>0, <2>1 DEF Request
  <2> QED
    BY <1>0, <2>1, <2>2 DEF Calm, Carried, Requested, Orderly, Informed, Accounts
<1>3. ASSUME ClearOld(r) PROVE Calm /\ Carried(r) /\ \A q \in Requests \ {r} : req'[q] = req[q]
  <2>1. /\ req'[r] = [req[r] EXCEPT !.step = "issue", !.flag = TRUE]
        /\ \A q \in Requests \ {r} : req'[q] = req[q]
        /\ UNCHANGED <<users, lastUser, resetTo>> /\ req[r].step = "clear"
    BY <1>0, <1>3 DEF ClearOld, data, At
  <2>2. req'[r].step = "issue" /\ req'[r].op = req[r].op /\ req'[r].user = req[r].user
        /\ req'[r].email = req[r].email /\ req'[r].by = req[r].by
    BY <1>0, <2>1 DEF Request
  <2> QED
    BY <1>0, <2>1, <2>2 DEF Calm, Carried, Requested, Orderly, Informed, Accounts
<1>4. ASSUME CreateSession(r) \/ SetUserAdmin(r) \/ DeleteUser(r) \/ Cancelled(r)
      PROVE Calm /\ Carried(r) /\ \A q \in Requests \ {r} : req'[q] = req[q]
  <2>1. End(r)
    BY <1>4 DEF CreateSession, SetUserAdmin, DeleteUser, Cancelled
  <2>2. CASE CreateSession(r) \/ Cancelled(r)
    BY <1>0, <1>1, <2>1, <2>2 DEF CreateSession, Cancelled, data, Calm, Accounts
  <2>3. CASE SetUserAdmin(r)
    BY <1>0, <1>1, <2>1, <2>3 DEF SetUserAdmin, Calm, Accounts, Row
  <2>4. CASE DeleteUser(r)
    BY <1>0, <1>1, <2>1, <2>4 DEF DeleteUser, Restrict, Calm, Accounts
  <2> QED
    BY <1>4, <2>2, <2>3, <2>4
<1>5. ASSUME NEW step \in {"seed", "link", "clear", "session"}, Goto(r, step),
             UNCHANGED <<users, lastUser, resetTo>>,
             req[r].step \in {"templates", "seed", "link"}, step = "link" => req[r].op = "sso"
      PROVE  Calm /\ Carried(r) /\ \A q \in Requests \ {r} : req'[q] = req[q]
  <2>1. /\ req'[r] = [req[r] EXCEPT !.step = step]
        /\ \A q \in Requests \ {r} : req'[q] = req[q]
    BY <1>0, <1>5 DEF Goto
  <2>2. req'[r].step = step /\ req'[r].op = req[r].op /\ req'[r].user = req[r].user
        /\ req'[r].email = req[r].email /\ req'[r].flag = req[r].flag /\ req'[r].pass = req[r].pass
    BY <1>0, <2>1 DEF Request
  <2>3. Orderly(r)'
    BY <1>0, <1>5, <2>2 DEF Requested, Orderly
  <2>4. Informed(r)'
    BY <1>0, <1>5, <2>2 DEF Requested, Orderly, Informed, Accounts
  <2> QED
    BY <1>0, <1>5, <2>1, <2>3, <2>4 DEF Calm, Carried, Accounts
<1>6. ASSUME AfterSeeding(r), UNCHANGED <<users, lastUser, resetTo>>,
             req[r].step \in {"templates", "seed"}
      PROVE  Calm /\ Carried(r) /\ \A q \in Requests \ {r} : req'[q] = req[q]
  <2>1. CASE End(r)
    BY <1>0, <1>1, <1>6, <2>1 DEF Calm, Accounts
  <2>2. CASE Goto(r, AfterCreate(r, FALSE))
    BY <1>5, <1>6, <2>2, AfterCreateIs
  <2> QED
    BY <1>6, <2>1, <2>2 DEF AfterSeeding
<1>7. ASSUME Templates(r) \/ seedOne(r)
      PROVE  Calm /\ Carried(r) /\ \A q \in Requests \ {r} : req'[q] = req[q]
  BY <1>5, <1>6, <1>7 DEF Templates, seedOne, At, data
<1>8. ASSUME NEW i \in Accounts, NEW step \in {"session", "link"}, Found(r, i, step),
             UNCHANGED <<users, lastUser, resetTo>>, req[r].step \in {"identity", "byEmail"}
      PROVE  Calm /\ Carried(r) /\ \A q \in Requests \ {r} : req'[q] = req[q]
  <2>1. /\ req'[r] = [req[r] EXCEPT !.step = step, !.user = i, !.pass = users[i].pass, !.flag = FALSE]
        /\ \A q \in Requests \ {r} : req'[q] = req[q]
    BY <1>0, <1>8 DEF Found
  <2>2. req'[r].step = step /\ req'[r].op = req[r].op /\ req'[r].user = i
        /\ req'[r].email = req[r].email /\ req'[r].pass = users[i].pass
    BY <1>0, <2>1 DEF Request
  <2>3. req[r].op \in {"register", "sso"}
    BY <1>8 DEF Requested, Orderly
  <2>4. Orderly(r)'
    BY <1>0, <1>8, <2>2, <2>3 DEF Requested, Orderly
  <2>5. Informed(r)'
    BY <1>0, <1>8, <2>2, <2>3 DEF Resets, Informed, Accounts
  <2> QED
    BY <1>0, <1>8, <2>1, <2>4, <2>5 DEF Calm, Carried, Accounts
<1>9. ASSUME NEW step \in {"byEmail", "insert"}, Goto(r, step),
             UNCHANGED <<users, lastUser, resetTo>>, req[r].step \in {"identity", "byEmail"}
      PROVE  Calm /\ Carried(r) /\ \A q \in Requests \ {r} : req'[q] = req[q]
  <2>1. /\ req'[r] = [req[r] EXCEPT !.step = step]
        /\ \A q \in Requests \ {r} : req'[q] = req[q]
    BY <1>0, <1>9 DEF Goto
  <2>2. req'[r].step = step /\ req'[r].op = req[r].op /\ req'[r].user = req[r].user
        /\ req'[r].email = req[r].email
    BY <1>0, <2>1 DEF Request
  <2>3. Orderly(r)'
    BY <1>0, <1>9, <2>2 DEF Requested, Orderly
  <2>4. Informed(r)'
    BY <1>0, <1>9, <2>2 DEF Requested, Orderly, Informed, Accounts
  <2> QED
    BY <1>0, <1>9, <2>1, <2>3, <2>4 DEF Calm, Carried, Accounts
<1>10. ASSUME UserByOIDC(r)
       PROVE  Calm /\ Carried(r) /\ \A q \in Requests \ {r} : req'[q] = req[q]
  <2>1. req[r].email \in Emails
    BY <1>10 DEF UserByOIDC, At, Requested, Orderly
  <2> QED
    BY <1>0, <1>8, <1>9, <1>10, <2>1 DEF UserByOIDC, At, data
<1>11. ASSUME UserByEmail(r)
       PROVE  Calm /\ Carried(r) /\ \A q \in Requests \ {r} : req'[q] = req[q]
  BY <1>8, <1>9, <1>11 DEF UserByEmail, At, data
<1>12. ASSUME LinkOIDC(r)
       PROVE  Calm /\ Carried(r) /\ \A q \in Requests \ {r} : req'[q] = req[q]
  BY <1>0, <1>1, <1>5, <1>12 DEF LinkOIDC, At, Calm, Accounts
<1>13. ASSUME MarkEmailVerified(r)
       PROVE  Calm /\ Carried(r) /\ \A q \in Requests \ {r} : req'[q] = req[q]
  <2>1. Calm
    BY <1>0, <1>13 DEF MarkEmailVerified, Calm, Accounts, Row
  <2>2. CASE req[r].op = "verify"
    BY <1>1, <1>13, <2>1, <2>2 DEF MarkEmailVerified
  <2>3. CASE req[r].op = "reset"
    <3>1. /\ req'[r] = [req[r] EXCEPT !.step = "endSessions"]
          /\ \A q \in Requests \ {r} : req'[q] = req[q] /\ req[r].step = "markVerified"
      BY <1>0, <1>13, <2>3 DEF MarkEmailVerified, Goto, At
    <3>2. req'[r].step = "endSessions" /\ req'[r].op = "reset" /\ req'[r].user = req[r].user
          /\ req'[r].pass = req[r].pass
      BY <1>0, <2>3, <3>1 DEF Request
    <3>3. req[r].user \in 0 .. lastUser
      BY <1>0 DEF Request, Requested, Orderly
    <3>4. req[r].step = "markVerified"
      BY <1>13 DEF MarkEmailVerified, At
    <3>5. Orderly(r)'
      BY <1>0, <2>1, <2>3, <3>2, <3>3 DEF Calm, Orderly
    <3>6. Informed(r)'
      BY <1>0, <2>1, <2>3, <3>2, <3>3, <3>4 DEF Calm, Requested, Informed
    <3> QED
      BY <2>1, <3>1, <3>5, <3>6 DEF Carried
  <2>4. CASE req[r].op \notin {"verify", "reset"}
    <3> DEFINE step == AfterCreate(r, req[r].flag)
    <3>1. /\ req'[r] = [req[r] EXCEPT !.step = step, !.flag = FALSE]
          /\ \A q \in Requests \ {r} : req'[q] = req[q]
      BY <1>0, <1>13, <2>4 DEF MarkEmailVerified
    <3>2. step \in {"templates", "link", "clear", "session"}
      BY <1>0, AfterCreateIs DEF Request
    <3> HIDE DEF step
    <3>3. req'[r].step = step /\ req'[r].op = req[r].op /\ req'[r].user = req[r].user
          /\ req'[r].pass = req[r].pass /\ req'[r].email = req[r].email
      BY <1>0, <3>1 DEF Request
    <3>4. req[r].step = "markVerified" /\ req[r].op = "sso" /\ req[r].user \in 0 .. lastUser
          /\ req[r].pass \in Nat
      BY <1>0, <1>13, <2>4 DEF MarkEmailVerified, At, Request, Requested, Orderly
    <3>5. req[r].user \in Accounts' => /\ req[r].user \in Accounts
                                       /\ resetTo'[req[r].user] <= 0
      BY <1>0, <2>1, <3>4 DEF Calm, Requested, Informed, Resets
    <3>6. Orderly(r)'
      BY <1>0, <2>1, <3>2, <3>3, <3>4 DEF Calm, Requested, Orderly
    <3>7. Informed(r)'
      <4>1. req[r].user \in Accounts => resetTo[req[r].user] \in Nat
        <5>1. Accounts \subseteq Ids
          BY <1>0 DEF Ids
        <5>2. \A i \in Ids : resetTo[i] \in 0 .. MaxPasswords
          BY <1>0
        <5>3. 0 .. MaxPasswords \subseteq Nat
          BY <1>0
        <5> QED
          BY <5>1, <5>2, <5>3
      <4> QED
        BY <1>0, <2>1, <3>2, <3>3, <3>4, <3>5, <4>1 DEF Calm, Informed
    <3> QED
      BY <2>1, <3>1, <3>6, <3>7 DEF Carried
  <2> QED
    BY <2>2, <2>3, <2>4
<1> QED
  BY <1>2, <1>3, <1>4, <1>7, <1>10, <1>11, <1>12, <1>13

\* Every step keeps the requests orderly and informed.
LEMMA RequestsStep ==
  ASSUME TypeOK, TypeOK', Requested, Resets, Links, Next
  PROVE  Requested'
<1>0. /\ req \in [Requests -> Request] /\ lastUser \in Nat /\ users \in [Accounts -> Row]
      /\ Accounts \subseteq 1 .. lastUser /\ MaxPasswords \in Nat \ {0}
      /\ lastUser <= MaxUsers /\ MaxUsers \in Nat
      /\ lastUser' \in Nat /\ Accounts' \subseteq 1 .. lastUser'
      /\ resetTo \in [Ids -> 0 .. MaxPasswords]
  BY AccountConstants DEF TypeOK
<1>1. ASSUME NEW r \in Requests, Carried(r), Calm, \A q \in Requests \ {r} : req'[q] = req[q]
      PROVE  Requested'
  BY <1>1, Others DEF Requested, Carried
<1>2. ASSUME NEW r \in Requests, Arrive(r) PROVE Requested'
  BY <1>1, <1>2, Arriving, Arrived, QuietIsCalm DEF Entered
<1>3. ASSUME NEW r \in Requests, UserCreated(r) PROVE Requested'
  <2>1. CASE \E i \in Accounts : HasAddress(i, req[r].email)
    <3>1. /\ req' = [req EXCEPT ![r] = Idle] /\ UNCHANGED <<users, lastUser, resetTo>>
      BY <1>3, <2>1 DEF UserCreated, End, data
    <3> QED
      BY <1>0, <1>1, <3>1 DEF Calm, Carried, Orderly, Informed, Idle, Accounts
  <2>2. CASE ~ \E i \in Accounts : HasAddress(i, req[r].email)
    <3> DEFINE i    == lastUser + 1
               pass == IF req[r].op = "sso" THEN 0 ELSE 1
               step == IF req[r].op = "sso" THEN "markVerified" ELSE AfterCreate(r, req[r].flag)
               flag == req[r].flag /\ req[r].op = "sso"
               row  == [email |-> req[r].email, pass |-> pass,
                        admin |-> req[r].flag, verified |-> FALSE]
    <3>1. /\ req' = [req EXCEPT ![r].user = i, ![r].pass = pass, ![r].step = step, ![r].flag = flag]
          /\ lastUser < MaxUsers /\ lastUser' = i /\ UNCHANGED resetTo
          /\ users' = [j \in Accounts \cup {i} |-> IF j \in Accounts THEN users[j] ELSE row]
          /\ req[r].step = "commit"
      BY <1>3, <2>2 DEF UserCreated, At
    <3>2. /\ req'[r] = [req[r] EXCEPT !.user = i, !.pass = pass, !.step = step, !.flag = flag]
          /\ \A q \in Requests \ {r} : req'[q] = req[q]
      BY <1>0, <3>1
    <3>3. req[r].op \in {"register", "sso"} /\ req[r].email \in Emails /\ req[r] \in Request
      BY <1>0, <3>1 DEF Requested, Orderly
    <3>4. /\ req[r].op = "sso" => step = "markVerified"
          /\ req[r].op = "register" => step \in {"templates", "clear", "session"}
      BY <1>0, <3>3, AfterCreateIs DEF Request
    <3>5. Calm
      BY <1>0, <3>1 DEF Calm, Accounts
    <3>6. /\ i \in Accounts' /\ i \in Ids /\ users'[i].pass = pass /\ resetTo'[i] = 0 /\ i <= lastUser'
      BY <1>0, <3>1 DEF Accounts, Ids, Resets
    <3>7. pass \in {0, 1} /\ (req[r].op = "sso" => pass = 0)
      OBVIOUS
    <3> HIDE DEF i, pass, step, flag, row
    <3>8. /\ req'[r].step = step /\ req'[r].op = req[r].op /\ req'[r].user = i
          /\ req'[r].email = req[r].email /\ req'[r].pass = pass
      BY <3>2, <3>3 DEF Request
    <3>9. Orderly(r)'
      BY <3>3, <3>4, <3>6, <3>8 DEF Orderly
    <3>10. Informed(r)'
      BY <3>3, <3>4, <3>6, <3>7, <3>8 DEF Informed
    <3> QED
      BY <1>1, <3>2, <3>5, <3>9, <3>10 DEF Carried
  <2> QED
    BY <2>1, <2>2
<1>4. ASSUME NEW r \in Requests,
             \/ CreateUser(r) \/ Templates(r) \/ seedOne(r) \/ ClearOld(r) \/ UserByOIDC(r)
             \/ UserByEmail(r) \/ LinkOIDC(r) \/ CreateSession(r) \/ SetUserAdmin(r) \/ DeleteUser(r)
             \/ Cancelled(r) \/ MarkEmailVerified(r)
      PROVE  Requested'
  BY <1>1, <1>4, Proceeding
<1>5. ASSUME NEW r \in Requests, Issue(r) PROVE Requested'
  <2>1. Calm
    BY <1>0, <1>5 DEF Issue, Calm, data, Accounts
  <2> SUFFICES ASSUME NEW q \in Requests PROVE Carried(q)
    BY DEF Requested, Carried
  <2>2. CASE req'[q] = req[q]
    BY <2>1, <2>2, Others
  <2>3. CASE req'[q] = Idle
    BY <1>0, <2>3 DEF Idle, Carried, Orderly, Informed
  <2>4. CASE /\ req'[q] = [req[q] EXCEPT !.flag = FALSE] /\ req[q].step = "issue"
    <3>1. /\ req'[q].step = "issue" /\ req'[q].op = req[q].op /\ req'[q].user = req[q].user
          /\ req'[q].email = req[q].email /\ req'[q].pass = req[q].pass /\ req[q].user \in 0 .. lastUser
      BY <1>0, <2>4 DEF Request, Requested, Orderly
    <3>2. Orderly(q)'
      BY <1>0, <2>1, <2>4, <3>1 DEF Calm, Requested, Orderly
    <3>3. Informed(q)'
      BY <1>0, <2>1, <2>4, <3>1 DEF Calm, Requested, Informed
    <3> QED
      BY <3>2, <3>3 DEF Carried
  <2> QED
    BY <1>0, <1>5, <2>2, <2>3, <2>4 DEF Issue, End, At
<1>6. ASSUME NEW r \in Requests, SetPassword(r) PROVE Requested'
  <2> DEFINE i    == req[r].user
             pass == IF i \in Accounts THEN users[i].pass + 1 ELSE 0
  <2>1. /\ req[r].step = "setPassword" /\ req[r].op \in {"reset", "change"} /\ req[r] \in Request
        /\ i \in 0 .. lastUser /\ UNCHANGED <<lastUser, resetTo>> /\ Accounts' = Accounts
        /\ i \in Accounts => users[i].pass > 0
    BY <1>0, <1>6 DEF SetPassword, At, Request, Requested, Orderly, Informed, Accounts
  <2>2. /\ \A j \in Accounts \ {i} : users'[j] = users[j]
        /\ i \in Accounts => users[i].pass \in Nat /\ users'[i].pass = users[i].pass + 1
    BY <1>0, <1>6 DEF SetPassword, Row
  <2> SUFFICES ASSUME NEW q \in Requests PROVE Carried(q)
    BY DEF Requested, Carried
  <2>3. CASE req'[q] = req[q]
    <3>1. req[q] \in Request /\ (req[q].user \in Accounts => users[req[q].user].pass \in Nat)
      <4>1. \A j \in Accounts : users[j].pass \in Nat
        BY <1>0 DEF Row
      <4> QED
        BY <1>0, <4>1
    <3>2. Orderly(q)'
      BY <1>0, <2>1, <2>3 DEF Requested, Orderly
    <3>3. Informed(q)'
      BY <1>0, <2>1, <2>2, <2>3, <3>1 DEF Requested, Informed, Request
    <3> QED
      BY <3>2, <3>3 DEF Carried
  <2>4. CASE req'[q] = Idle
    BY <1>0, <2>4 DEF Idle, Carried, Orderly, Informed
  <2>5. CASE /\ q = r /\ req'[q] = [req[q] EXCEPT !.step = "markVerified", !.pass = pass]
             /\ req[r].op = "reset"
    <3>1. i \in Accounts => pass = users'[i].pass /\ pass > 0 /\ pass \in Nat
      BY <2>2
    <3> HIDE DEF pass
    <3>2. /\ req'[q].step = "markVerified" /\ req'[q].op = "reset" /\ req'[q].user = i
          /\ req'[q].pass = pass
      BY <2>1, <2>5 DEF Request
    <3>3. Orderly(q)'
      BY <1>0, <2>1, <3>2 DEF Orderly
    <3>4. Informed(q)'
      BY <2>1, <3>1, <3>2 DEF Informed
    <3> QED
      BY <3>3, <3>4 DEF Carried
  <2> QED
    BY <1>0, <1>6, <2>3, <2>4, <2>5 DEF SetPassword, End
<1>7. ASSUME NEW r \in Requests, DeleteUserSessions(r) PROVE Requested'
  <2> SUFFICES ASSUME NEW q \in Requests PROVE Carried(q)
    BY DEF Requested, Carried
  <2>1. /\ UNCHANGED <<users, lastUser>> /\ Accounts' = Accounts
        /\ resetTo' = [resetTo EXCEPT ![req[r].user] = IF @ < req[r].pass THEN req[r].pass ELSE @]
        /\ req[q] \in Request /\ req[r] \in Request /\ req[q].user \in 0 .. lastUser
        /\ req[q].user \in Accounts => req[q].user \in Ids
    BY <1>0, <1>7 DEF DeleteUserSessions, data, Accounts, Request, Requested, Orderly, Ids
  <2>2. CASE req'[q] = Idle
    BY <1>0, <2>2 DEF Idle, Carried, Orderly, Informed
  <2>3. CASE Straggles(q, r) /\ req'[q] = [req[q] EXCEPT !.flag = TRUE]
    <3>1. /\ req'[q].step = req[q].step /\ req'[q].op = req[q].op /\ req'[q].user = req[q].user
          /\ req'[q].email = req[q].email /\ req'[q].pass = req[q].pass /\ req'[q].flag
          /\ req[q].step \in {"templates", "seed", "link", "session"}
      BY <2>1, <2>3 DEF Request, Straggles
    <3>2. Orderly(q)'
      BY <1>0, <2>1, <3>1 DEF Requested, Orderly
    <3>3. Informed(q)'
      BY <1>0, <2>1, <3>1 DEF Requested, Informed
    <3> QED
      BY <3>2, <3>3 DEF Carried
  <2>4. CASE ~Straggles(q, r) /\ req'[q] = req[q]
    <3>1. Orderly(q)'
      BY <1>0, <2>1, <2>4 DEF Requested, Orderly
    <3>2. req[q].user \in Accounts /\ req[q].step \in {"templates", "seed", "link", "session"}
          /\ ~req[q].flag => resetTo'[req[q].user] <= req[q].pass
      BY <1>0, <2>1, <2>4 DEF Requested, Informed, Straggles, Request
    <3>3. Informed(q)'
      BY <2>1, <2>4, <3>2 DEF Requested, Informed
    <3> QED
      BY <3>1, <3>3 DEF Carried
  <2> QED
    BY <1>0, <1>7, <2>2, <2>3, <2>4 DEF DeleteUserSessions
<1>8. ASSUME NEW r \in Requests, Restart(r) PROVE Requested'
  <2> SUFFICES ASSUME NEW q \in Requests PROVE Carried(q)
    BY DEF Requested, Carried
  <2>1. req'[q].user = 0 /\ req'[q].op \in {"idle", "startup"} /\ req'[q].step \in {"none", "templates"}
    BY <1>8 DEF Restart, Idle
  <2> QED
    BY <1>0, <2>1 DEF Carried, Orderly, Informed
<1>9. ASSUME \/ \E s \in sessions : handleLogout(s)
             \/ \E t \in DOMAIN tokens : TokenExpires(t)
             \/ TemplateAway \/ TemplateBack \/ TemplateGone
      PROVE  Requested'
  <2>1. UNCHANGED <<data, req, resetTo>>
    BY <1>9 DEF handleLogout, TokenExpires, TemplateAway, TemplateBack, TemplateGone
  <2> QED
    BY <1>0, <2>1 DEF data, Requested, Orderly, Informed, Accounts
<1> QED
  BY <1>2, <1>3, <1>4, <1>5, <1>6, <1>7, <1>8, <1>9 DEF Next, Proceed

-----------------------------------------------------------------------------
(* What the invariant is for.                                               *)

LEMMA ResetsStep ==
  ASSUME TypeOK, TypeOK', Requested, Resets, ResetEndsSessions, Next
  PROVE  Resets' /\ ResetEndsSessions'
<1>0. /\ req \in [Requests -> Request] /\ lastUser \in Nat /\ users \in [Accounts -> Row]
      /\ Accounts \subseteq 1 .. lastUser /\ MaxPasswords \in Nat \ {0} /\ Accounts \subseteq Ids
      /\ resetTo \in [Ids -> 0 .. MaxPasswords] /\ lastUser' \in Nat /\ Accounts' \subseteq 1 .. lastUser'
      /\ \A s \in sessions : s.user \in Accounts /\ s.pass \in Nat
  BY AccountConstants DEF TypeOK, Ids, Session
<1>1. ASSUME UNCHANGED resetTo, lastUser <= lastUser', sessions' \subseteq sessions,
             \A i \in Accounts' : \/ i > lastUser /\ users'[i].pass >= 0 /\ i \in Ids
                                  \/ i \in Accounts /\ users'[i].pass >= users[i].pass
      PROVE  Resets' /\ ResetEndsSessions'
  <2>1. \A i \in Ids : resetTo[i] \in Nat
    BY <1>0
  <2>2. \A i \in Accounts : users[i].pass \in Nat
    BY <1>0 DEF Row
  <2>3. users' \in [Accounts' -> Row]
    BY DEF TypeOK
  <2>4. \A i \in Accounts' : users'[i].pass \in Nat
    BY <1>0, <2>3 DEF Row
  <2>5. \A i \in Accounts' : resetTo[i] <= users'[i].pass
    BY <1>0, <1>1, <2>1, <2>2, <2>4 DEF Resets
  <2>6. \A i \in Ids : i > lastUser' => resetTo[i] = 0
    BY <1>0, <1>1 DEF Resets, Ids
  <2> QED
    BY <1>1, <2>5, <2>6 DEF Resets, ResetEndsSessions
<1>2. ASSUME Quiet PROVE Resets' /\ ResetEndsSessions'
  <2>1. \A i \in Accounts : users[i].pass \in Nat
    BY <1>0 DEF Row
  <2> QED
    BY <1>0, <1>1, <1>2, <2>1 DEF Quiet, data, Accounts
<1>3. ASSUME NEW r \in Requests, UserCreated(r) PROVE Resets' /\ ResetEndsSessions'
  <2>1. \A i \in Accounts : users[i].pass \in Nat
    BY <1>0 DEF Row
  <2>2. UNCHANGED <<resetTo, sessions>>
    BY <1>3 DEF UserCreated
  <2>3. CASE UNCHANGED <<users, lastUser>>
    BY <1>0, <1>1, <2>1, <2>2, <2>3 DEF Accounts
  <2>4. CASE /\ lastUser' = lastUser + 1 /\ Accounts' = Accounts \cup {lastUser + 1}
             /\ \A i \in Accounts : users'[i] = users[i]
    <3>1. \A i \in Accounts' : users'[i].pass \in Nat /\ i \in Ids
      BY <1>0, AccountConstants DEF TypeOK, Row, Ids
    <3>2. \A i \in Accounts' : \/ i > lastUser /\ users'[i].pass >= 0 /\ i \in Ids
                               \/ i \in Accounts /\ users'[i].pass >= users[i].pass
      BY <1>0, <2>1, <2>4, <3>1
    <3> QED
      BY <1>0, <1>1, <2>2, <2>4, <3>2
  <2> QED
    BY <1>3, <2>3, <2>4 DEF UserCreated, data, Accounts
<1>4. ASSUME NEW r \in Requests,
             \/ Templates(r) \/ seedOne(r) \/ Issue(r) \/ MarkEmailVerified(r) \/ LinkOIDC(r)
             \/ SetUserAdmin(r) \/ SetPassword(r)
      PROVE  Resets' /\ ResetEndsSessions'
  <2>1. \A i \in Accounts : users[i].pass \in Nat
    BY <1>0 DEF Row
  <2>2. UNCHANGED <<resetTo, sessions, lastUser>> /\ Accounts' = Accounts
    BY <1>0, <1>4 DEF Templates, seedOne, Issue, MarkEmailVerified, LinkOIDC, SetUserAdmin,
                      SetPassword, data, Accounts
  <2>3. \A i \in Accounts : users'[i].pass >= users[i].pass
    BY <1>0, <1>4, <2>1 DEF Templates, seedOne, Issue, MarkEmailVerified, LinkOIDC, SetUserAdmin,
                           SetPassword, data, Row
  <2> QED
    BY <1>0, <1>1, <2>2, <2>3
<1>5. ASSUME NEW r \in Requests, DeleteUserSessions(r) PROVE Resets' /\ ResetEndsSessions'
  <2> DEFINE i == req[r].user
  <2>1. /\ UNCHANGED <<users, lastUser>> /\ Accounts' = Accounts
        /\ resetTo' = [resetTo EXCEPT ![i] = IF @ < req[r].pass THEN req[r].pass ELSE @]
        /\ i \in 0 .. lastUser
        /\ i \in Accounts => req[r].pass <= users[i].pass
    BY <1>0, <1>5 DEF DeleteUserSessions, At, data, Accounts, Request, Requested, Orderly, Informed
  <2>2. \A j \in Accounts : resetTo'[j] <= users[j].pass
    BY <1>0, <2>1 DEF Resets
  <2>3. \A j \in Ids : j > lastUser => resetTo'[j] = 0
    BY <1>0, <2>1 DEF Resets, Ids
  <2>4. Resets'
    BY <2>1, <2>2, <2>3 DEF Resets
  <2>5. \A j \in Ids \ {i} : resetTo'[j] = resetTo[j]
    BY <1>0, <2>1
  <2>6. CASE sessions' = {s \in sessions : s.user # i}
    BY <1>0, <2>4, <2>5, <2>6 DEF ResetEndsSessions
  <2>7. CASE sessions' = {IF s.user = i THEN [s EXCEPT !.spared = TRUE] ELSE s : s \in sessions}
    <3>1. ASSUME NEW s \in sessions', s.user # i PROVE s \in sessions
      BY <2>7, <3>1 DEF TypeOK, Session
    <3>2. ASSUME NEW s \in sessions', s.user = i PROVE s.spared
      BY <2>7, <3>2 DEF TypeOK, Session
    <3>3. \A s \in sessions' : s.user \in Accounts
      BY <2>1 DEF TypeOK
    <3>4. ASSUME NEW s \in sessions', s.pass < resetTo'[s.user] PROVE s.late \/ s.spared
      <4>1. CASE s.user # i
        <5>1. s \in sessions /\ resetTo'[s.user] = resetTo[s.user]
          BY <1>0, <2>1, <2>5, <3>1, <3>3, <4>1
        <5> QED
          BY <3>4, <5>1 DEF ResetEndsSessions
      <4> QED
        BY <3>2, <4>1
    <3>5. ResetEndsSessions'
      BY <3>4 DEF ResetEndsSessions
    <3> QED
      BY <2>4, <3>5
  <2> QED
    BY <1>5, <2>6, <2>7 DEF DeleteUserSessions
<1>6. ASSUME NEW r \in Requests, CreateSession(r) PROVE Resets' /\ ResetEndsSessions'
  <2>1. UNCHANGED <<users, lastUser, resetTo>> /\ Accounts' = Accounts
    BY <1>6 DEF CreateSession, data, Accounts
  <2>2. Resets'
    BY <2>1 DEF Resets
  <2>3. req[r].step = "session" /\ req[r] \in Request
    BY <1>0, <1>6 DEF CreateSession, At
  <2>4. req[r].user \in Accounts /\ ~req[r].flag => resetTo[req[r].user] <= req[r].pass
    BY <2>3 DEF Requested, Informed
  <2>5. \/ sessions' = sessions
        \/ /\ req[r].user \in Accounts
           /\ sessions' = sessions \cup {[user |-> req[r].user, pass |-> req[r].pass,
                                         late |-> req[r].flag, spared |-> FALSE]}
    BY <1>6 DEF CreateSession
  <2>6. \A j \in Ids : resetTo[j] \in Nat
    BY <1>0
  <2>7. req[r].pass \in Nat
    BY <1>0, <2>3 DEF Request
  <2>8. ASSUME NEW s \in sessions', s.pass < resetTo'[s.user] PROVE s.late \/ s.spared
    <3>1. CASE s \in sessions
      BY <2>1, <2>8, <3>1 DEF ResetEndsSessions
    <3>2. CASE s \notin sessions
      <4>1. /\ s = [user |-> req[r].user, pass |-> req[r].pass, late |-> req[r].flag, spared |-> FALSE]
            /\ req[r].user \in Accounts
        BY <2>5, <3>2
      <4>2. s.user = req[r].user /\ s.pass = req[r].pass /\ s.late = req[r].flag
        BY <4>1
      <4>3. resetTo[req[r].user] \in Nat /\ req[r].pass < resetTo[req[r].user]
        BY <1>0, <2>1, <2>6, <2>8, <4>1, <4>2
      <4>4. req[r].flag
        BY <2>4, <2>7, <4>1, <4>3
      <4> QED
        BY <4>2, <4>4, Zenon
    <3> QED
      BY <3>1, <3>2
  <2>9. ResetEndsSessions'
    BY <2>8 DEF ResetEndsSessions
  <2> QED
    BY <2>2, <2>9
<1>7. ASSUME NEW r \in Requests, DeleteUser(r) PROVE Resets' /\ ResetEndsSessions'
  <2>1. \A i \in Accounts : users[i].pass \in Nat
    BY <1>0 DEF Row
  <2>2. /\ UNCHANGED <<resetTo, lastUser>> /\ sessions' \subseteq sessions
        /\ Accounts' \subseteq Accounts /\ \A i \in Accounts' : users'[i] = users[i]
    BY <1>7 DEF DeleteUser, Restrict, Accounts
  <2> QED
    BY <1>0, <1>1, <2>1, <2>2
<1>8. ASSUME NEW s \in sessions, handleLogout(s) PROVE Resets' /\ ResetEndsSessions'
  <2>1. \A i \in Accounts : users[i].pass \in Nat
    BY <1>0 DEF Row
  <2> QED
    BY <1>0, <1>1, <1>8, <2>1 DEF handleLogout, data, Accounts
<1>9. ASSUME NEW t \in DOMAIN tokens, TokenExpires(t) PROVE Resets' /\ ResetEndsSessions'
  BY <1>2, <1>9 DEF TokenExpires, Quiet, FewerTokens, Restrict
<1>10. ASSUME TemplateAway \/ TemplateBack \/ TemplateGone PROVE Resets' /\ ResetEndsSessions'
  <2>1. \A i \in Accounts : users[i].pass \in Nat
    BY <1>0 DEF Row
  <2>2. UNCHANGED <<data, sessions, resetTo>>
    BY <1>10 DEF TemplateAway, TemplateBack, TemplateGone
  <2> QED
    BY <1>0, <1>1, <2>1, <2>2 DEF data, Accounts
<1> QED
  BY <1>2, <1>3, <1>4, <1>5, <1>6, <1>7, <1>8, <1>9, <1>10, Arrived, ProceededQuietly DEF Next, Proceed

LEMMA LinksStep ==
  ASSUME TypeOK, TypeOK', Requested, Resets, Links, OneActiveToken, Next
  PROVE  Links' /\ OneActiveToken'
<1>0. /\ req \in [Requests -> Request] /\ lastUser \in Nat /\ users \in [Accounts -> Row]
      /\ Accounts \subseteq 1 .. lastUser /\ lastToken \in Nat /\ DOMAIN tokens \subseteq 1 .. lastToken
      /\ \A t \in DOMAIN tokens : tokens[t] \in Token /\ tokens[t].user \in Accounts
  BY AccountConstants DEF TypeOK
<1>1. ASSUME FewerTokens, \A q \in Requests : req'[q] = req[q] \/ req'[q].step # "issue",
             \A t \in DOMAIN tokens' : users[tokens[t].user].pass > 0 => users'[tokens[t].user].pass > 0
      PROVE  Links' /\ OneActiveToken'
  <2>1. OneActiveToken'
    BY <1>1 DEF FewerTokens, OneActiveToken
  <2>2. \A t \in DOMAIN tokens' : tokens'[t].kind = "reset" => users'[tokens'[t].user].pass > 0
    BY <1>1 DEF FewerTokens, Links
  <2>3. ASSUME NEW q \in Requests, At(q, "issue")', req'[q].flag PROVE Of(q)' = {}
    <3>1. req'[q] = req[q]
      BY <1>1, <2>3 DEF At
    <3>2. Of(q) = {}
      BY <2>3, <3>1 DEF Links, At
    <3> QED
      BY <1>1, <3>1, <3>2 DEF FewerTokens, Of, Kind
  <2> QED
    BY <2>1, <2>2, <2>3 DEF Links
<1>2. ASSUME UNCHANGED users, FewerTokens, \A q \in Requests : req'[q] = req[q] \/ req'[q].step # "issue"
      PROVE  Links' /\ OneActiveToken'
  BY <1>1, <1>2
<1>3. ASSUME NEW r \in Requests, End(r)
      PROVE  \A q \in Requests : req'[q] = req[q] \/ req'[q].step # "issue"
  BY <1>0, <1>3 DEF End, Idle
<1>4. ASSUME NEW r \in Requests, NEW step \in Steps \ {"issue"}, Goto(r, step)
      PROVE  \A q \in Requests : req'[q] = req[q] \/ req'[q].step # "issue"
  BY <1>0, <1>4, Kinds DEF Goto, Request
<1>5. ASSUME NEW r \in Requests, Arrive(r) PROVE Links' /\ OneActiveToken'
  BY <1>2, <1>5, Arrived, Arriving DEF Quiet, data, Entered
<1>6. ASSUME NEW r \in Requests, CreateUser(r) PROVE Links' /\ OneActiveToken'
  <2>1. req'[r].step = "commit"
    BY <1>0, <1>6 DEF CreateUser, Request
  <2> QED
    BY <1>0, <1>2, <1>6, <2>1 DEF CreateUser, FewerTokens, data
<1>7. ASSUME NEW r \in Requests, UserCreated(r) PROVE Links' /\ OneActiveToken'
  <2>1. CASE \E i \in Accounts : HasAddress(i, req[r].email)
    BY <1>2, <1>3, <1>7, <2>1 DEF UserCreated, data, FewerTokens
  <2>2. CASE ~ \E i \in Accounts : HasAddress(i, req[r].email)
    <3> DEFINE step == IF req[r].op = "sso" THEN "markVerified" ELSE AfterCreate(r, req[r].flag)
               user == lastUser + 1
               pass == IF req[r].op = "sso" THEN 0 ELSE 1
               flag == req[r].flag /\ req[r].op = "sso"
    <3>1. req' = [req EXCEPT ![r].user = user, ![r].pass = pass, ![r].step = step, ![r].flag = flag]
      BY <1>7, <2>2 DEF UserCreated
    <3>2. step # "issue"
      BY <1>0, AfterCreateIs DEF Request
    <3> HIDE DEF step, user, pass, flag
    <3>3. req'[r].step = step /\ \A q \in Requests \ {r} : req'[q] = req[q]
      BY <1>0, <3>1 DEF Request
    <3>4. UNCHANGED tokens /\ \A i \in Accounts : users'[i] = users[i]
      BY <1>0, <1>7, <2>2 DEF UserCreated
    <3> QED
      BY <1>0, <1>1, <3>2, <3>3, <3>4 DEF FewerTokens
  <2> QED
    BY <2>1, <2>2
<1>8. ASSUME NEW r \in Requests, AfterSeeding(r)
      PROVE  \A q \in Requests : req'[q] = req[q] \/ req'[q].step # "issue"
  BY <1>3, <1>4, <1>8, AfterCreateIs DEF AfterSeeding, Steps
<1>9. ASSUME NEW r \in Requests, Templates(r) \/ seedOne(r) PROVE Links' /\ OneActiveToken'
  <2>1. \A q \in Requests : req'[q] = req[q] \/ req'[q].step # "issue"
    BY <1>4, <1>8, <1>9 DEF Templates, seedOne, Steps
  <2> QED
    BY <1>2, <1>9, <2>1 DEF Templates, seedOne, FewerTokens, data
<1>10. ASSUME NEW r \in Requests, ClearOld(r) PROVE Links' /\ OneActiveToken'
  <2>1. FewerTokens /\ UNCHANGED users
    BY <1>10, ProceededQuietly DEF Quiet, data
  <2>2. /\ tokens' = Restrict(tokens, DOMAIN tokens \ Of(r))
        /\ req'[r] = [req[r] EXCEPT !.step = "issue", !.flag = TRUE]
        /\ \A q \in Requests \ {r} : req'[q] = req[q]
    BY <1>0, <1>10 DEF ClearOld
  <2>3. req'[r].user = req[r].user /\ req'[r].op = req[r].op
    BY <1>0, <2>2 DEF Request
  <2>4. OneActiveToken'
    BY <2>1 DEF FewerTokens, OneActiveToken
  <2>5. \A t \in DOMAIN tokens' : tokens'[t].kind = "reset" => users'[tokens'[t].user].pass > 0
    BY <2>1 DEF FewerTokens, Links
  <2>6. Of(r)' = {}
    BY <2>2, <2>3 DEF Of, Kind, Restrict
  <2>7. ASSUME NEW q \in Requests \ {r}, At(q, "issue")', req'[q].flag PROVE Of(q)' = {}
    BY <2>1, <2>2, <2>7 DEF Links, At, Of, Kind, FewerTokens
  <2> QED
    BY <2>4, <2>5, <2>6, <2>7 DEF Links
<1>11. ASSUME NEW r \in Requests, Issue(r) PROVE Links' /\ OneActiveToken'
  <2>1. CASE req[r].user \notin Accounts
    BY <1>2, <1>3, <1>11, <2>1 DEF Issue, FewerTokens, data
  <2>2. CASE req[r].user \in Accounts
    <3> DEFINE n   == lastToken + 1
               row == [user |-> req[r].user, kind |-> Kind(r), alone |-> req[r].flag]
    <3>1. /\ tokens' = [s \in DOMAIN tokens \cup {n} |-> IF s \in DOMAIN tokens THEN tokens[s] ELSE row]
          /\ req' = [q \in Requests |->
                      CASE q = r -> Idle
                        [] At(q, "issue") /\ req[q].user = req[r].user /\ Kind(q) = Kind(r)
                             -> [req[q] EXCEPT !.flag = FALSE]
                        [] OTHER -> req[q]]
          /\ At(r, "issue") /\ UNCHANGED users
      BY <1>11, <2>2 DEF Issue, data
    <3>2. n \notin DOMAIN tokens /\ DOMAIN tokens' = DOMAIN tokens \cup {n} /\ tokens'[n] = row
          /\ \A s \in DOMAIN tokens : tokens'[s] = tokens[s]
      BY <1>0, <3>1
    <3>3. row.user = req[r].user /\ row.kind = Kind(r) /\ row.alone = req[r].flag
      OBVIOUS
    <3>4. row.alone => \A t \in DOMAIN tokens : ~(tokens[t].user = row.user /\ tokens[t].kind = row.kind)
      BY <3>1, <3>3 DEF Links, Of
    <3>5. row.kind = "reset" => users[row.user].pass > 0
      BY <2>2, <3>3 DEF Kind, Requested, Informed
    <3> HIDE DEF row, n
    <3>6. OneActiveToken'
      BY <3>2, <3>4 DEF OneActiveToken
    <3>7. \A t \in DOMAIN tokens' : tokens'[t].kind = "reset" => users'[tokens'[t].user].pass > 0
      BY <3>1, <3>2, <3>5 DEF Links
    <3>8. ASSUME NEW q \in Requests, At(q, "issue")', req'[q].flag PROVE Of(q)' = {}
      <4>1. q # r
        BY <3>1, <3>8 DEF At, Idle
      <4>2. req'[q] = req[q] /\ ~(req[q].user = req[r].user /\ Kind(q) = Kind(r))
        <5>1. CASE At(q, "issue") /\ req[q].user = req[r].user /\ Kind(q) = Kind(r)
          <6>1. req'[q] = [req[q] EXCEPT !.flag = FALSE]
            BY <3>1, <4>1, <5>1
          <6> QED
            BY <1>0, <3>8, <6>1 DEF Request
        <5>2. CASE ~(At(q, "issue") /\ req[q].user = req[r].user /\ Kind(q) = Kind(r))
          BY <3>1, <3>8, <4>1, <5>2 DEF At
        <5> QED
          BY <5>1, <5>2
      <4>3. Of(q) = {}
        BY <3>8, <4>2 DEF Links, At
      <4> QED
        BY <3>2, <3>3, <4>2, <4>3 DEF Of, Kind
    <3> QED
      BY <3>6, <3>7, <3>8 DEF Links
  <2> QED
    BY <2>1, <2>2
<1>12. ASSUME NEW r \in Requests, SetPassword(r) PROVE Links' /\ OneActiveToken'
  <2>1. \A q \in Requests : req'[q] = req[q] \/ req'[q].step # "issue"
    <3>1. ASSUME NEW pass, req' = [req EXCEPT ![r].step = "markVerified", ![r].pass = pass]
          PROVE  \A q \in Requests : req'[q] = req[q] \/ req'[q].step # "issue"
      BY <1>0, <3>1 DEF Request
    <3> QED
      BY <1>3, <1>12, <3>1 DEF SetPassword
  <2>2. \A i \in Accounts : users[i].pass \in Nat
    BY <1>0 DEF Row
  <2>3. \A i \in Accounts : users[i].pass > 0 => users'[i].pass > 0
    BY <1>0, <1>12, <2>2 DEF SetPassword, Row
  <2> QED
    BY <1>0, <1>1, <1>12, <2>1, <2>3 DEF SetPassword, FewerTokens
<1>13. ASSUME NEW r \in Requests, MarkEmailVerified(r) PROVE Links' /\ OneActiveToken'
  <2>1. \A q \in Requests : req'[q] = req[q] \/ req'[q].step # "issue"
    <3>1. ASSUME NEW step \in Steps \ {"issue"}, req' = [req EXCEPT ![r].step = step, ![r].flag = FALSE]
          PROVE  \A q \in Requests : req'[q] = req[q] \/ req'[q].step # "issue"
      BY <1>0, <3>1 DEF Request
    <3>2. AfterCreate(r, req[r].flag) \in Steps \ {"issue"}
      BY <1>0, AfterCreateIs DEF Request, Steps
    <3> QED
      BY <1>3, <1>4, <1>13, <3>1, <3>2 DEF MarkEmailVerified, Steps
  <2>2. \A i \in Accounts : users'[i].pass = users[i].pass
    BY <1>0, <1>13 DEF MarkEmailVerified, Row
  <2> QED
    BY <1>0, <1>1, <1>13, <2>1, <2>2 DEF MarkEmailVerified, FewerTokens
<1>14. ASSUME NEW r \in Requests, DeleteUserSessions(r) PROVE Links' /\ OneActiveToken'
  <2>1. \A q \in Requests : req'[q] = req[q] \/ req'[q].step # "issue"
    <3>1. ASSUME NEW q \in Requests, Straggles(q, r) PROVE [req[q] EXCEPT !.flag = TRUE].step # "issue"
      BY <1>0, <3>1 DEF Straggles, Request
    <3> QED
      BY <1>14, <3>1 DEF DeleteUserSessions, Idle
  <2> QED
    BY <1>2, <1>14, <2>1 DEF DeleteUserSessions, FewerTokens, data
<1>15. ASSUME NEW r \in Requests, CreateSession(r) \/ Cancelled(r) PROVE Links' /\ OneActiveToken'
  BY <1>2, <1>3, <1>15 DEF CreateSession, Cancelled, FewerTokens, data
<1>16. ASSUME NEW r \in Requests, NEW i \in Accounts, NEW step \in Steps \ {"issue"}, Found(r, i, step)
       PROVE  \A q \in Requests : req'[q] = req[q] \/ req'[q].step # "issue"
  BY <1>0, <1>16 DEF Found, Request
<1>17. ASSUME NEW r \in Requests, UserByOIDC(r) \/ UserByEmail(r) PROVE Links' /\ OneActiveToken'
  <2>1. \A q \in Requests : req'[q] = req[q] \/ req'[q].step # "issue"
    <3>1. At(r, "identity") => req[r].email \in Emails
      BY DEF Requested, Orderly, At
    <3> QED
      BY <1>4, <1>16, <1>17, <3>1 DEF UserByOIDC, UserByEmail, Steps, TypeOK
  <2> QED
    BY <1>2, <1>17, <2>1 DEF UserByOIDC, UserByEmail, FewerTokens, data
<1>18. ASSUME NEW r \in Requests, LinkOIDC(r) PROVE Links' /\ OneActiveToken'
  BY <1>2, <1>3, <1>4, <1>18 DEF LinkOIDC, FewerTokens, Steps
<1>19. ASSUME NEW r \in Requests, SetUserAdmin(r) PROVE Links' /\ OneActiveToken'
  <2>1. \A i \in Accounts : users'[i].pass = users[i].pass
    BY <1>0, <1>19 DEF SetUserAdmin, Row
  <2> QED
    BY <1>0, <1>1, <1>3, <1>19, <2>1 DEF SetUserAdmin, FewerTokens
<1>20. ASSUME NEW r \in Requests, DeleteUser(r) PROVE Links' /\ OneActiveToken'
  <2>1. FewerTokens /\ \A t \in DOMAIN tokens' : users'[tokens[t].user] = users[tokens[t].user]
    BY <1>0, <1>20 DEF DeleteUser, Restrict, FewerTokens
  <2> QED
    BY <1>1, <1>3, <1>20, <2>1 DEF DeleteUser
<1>21. ASSUME NEW r \in Requests, Restart(r) PROVE Links' /\ OneActiveToken'
  <2>1. \A q \in Requests : req'[q].step # "issue"
    BY <1>21 DEF Restart, Idle
  <2> QED
    BY <1>2, <1>21, <2>1 DEF Restart, FewerTokens, data
<1>22. ASSUME \/ \E s \in sessions : handleLogout(s)
              \/ \E t \in DOMAIN tokens : TokenExpires(t)
              \/ TemplateAway \/ TemplateBack \/ TemplateGone
       PROVE  Links' /\ OneActiveToken'
  <2>1. FewerTokens /\ UNCHANGED <<data, lastToken, req>>
    BY <1>22 DEF handleLogout, TokenExpires, TemplateAway, TemplateBack, TemplateGone, FewerTokens,
                 Restrict
  <2> QED
    BY <1>2, <2>1 DEF data
<1> QED
  BY <1>5, <1>6, <1>7, <1>9, <1>10, <1>11, <1>12, <1>13, <1>14, <1>15, <1>17, <1>18, <1>19, <1>20,
     <1>21, <1>22 DEF Next, Proceed

\* Seeding begins with Templates only, and its end is seedOne.
LEMMA SeedingStep ==
  ASSUME TypeOK, TypeOK', Requested, Resets, Links, Seeding, Next
  PROVE  Seeding'
<1>0. req \in [Requests -> Request] /\ templates \in Copies /\ overlap \in BOOLEAN /\ req' \in [Requests -> Request]
  BY DEF TypeOK
<1>1. ASSUME UNCHANGED <<templates, overlap>>,
             \A q \in Requests : req'[q].step = "seed" => req[q].step = "seed"
      PROVE  Seeding'
  BY <1>1 DEF Seeding, At
<1>2. ASSUME NEW r \in Requests, End(r)
      PROVE  /\ \A q \in Requests : req'[q].step = "seed" => req[q].step = "seed"
             /\ req'[r].step # "seed" /\ \A q \in Requests \ {r} : req'[q] = req[q]
  BY <1>0, <1>2 DEF End, Idle
<1>3. ASSUME NEW r \in Requests, NEW step \in Steps \ {"seed"}, Goto(r, step)
      PROVE  /\ \A q \in Requests : req'[q].step = "seed" => req[q].step = "seed"
             /\ req'[r].step # "seed" /\ \A q \in Requests \ {r} : req'[q] = req[q]
  BY <1>0, <1>3 DEF Goto, Request
<1>4. ASSUME NEW r \in Requests, Arrive(r) PROVE Seeding'
  BY <1>1, <1>4, Arrived, Arriving DEF Quiet, Entered
<1>5. ASSUME NEW r \in Requests, CreateUser(r) PROVE Seeding'
  <2>1. req'[r].step = "commit"
    BY <1>0, <1>5 DEF CreateUser, Request
  <2> QED
    BY <1>0, <1>1, <1>5, <2>1 DEF CreateUser
<1>6. ASSUME NEW r \in Requests, UserCreated(r) PROVE Seeding'
  <2>1. CASE \E i \in Accounts : HasAddress(i, req[r].email)
    BY <1>1, <1>2, <1>6, <2>1 DEF UserCreated
  <2>2. CASE ~ \E i \in Accounts : HasAddress(i, req[r].email)
    <3> DEFINE step == IF req[r].op = "sso" THEN "markVerified" ELSE AfterCreate(r, req[r].flag)
               user == lastUser + 1
               pass == IF req[r].op = "sso" THEN 0 ELSE 1
               flag == req[r].flag /\ req[r].op = "sso"
    <3>1. req' = [req EXCEPT ![r].user = user, ![r].pass = pass, ![r].step = step, ![r].flag = flag]
      BY <1>6, <2>2 DEF UserCreated
    <3>2. step # "seed"
      BY <1>0, AfterCreateIs DEF Request
    <3> HIDE DEF step, user, pass, flag
    <3>3. req'[r].step = step /\ \A q \in Requests \ {r} : req'[q] = req[q]
      BY <1>0, <3>1 DEF Request
    <3> QED
      BY <1>1, <1>6, <3>2, <3>3 DEF UserCreated
  <2> QED
    BY <2>1, <2>2
<1>7. ASSUME NEW r \in Requests, AfterSeeding(r)
      PROVE  /\ \A q \in Requests : req'[q].step = "seed" => req[q].step = "seed"
             /\ req'[r].step # "seed" /\ \A q \in Requests \ {r} : req'[q] = req[q]
  BY <1>2, <1>3, <1>7, AfterCreateIs DEF AfterSeeding, Steps
<1>8. ASSUME NEW r \in Requests, Templates(r) PROVE Seeding'
  <2>1. CASE templates.kept + templates.back > 0 \/ Admins = {}
    BY <1>1, <1>7, <1>8, <2>1 DEF Templates
  <2>2. CASE ~(templates.kept + templates.back > 0 \/ Admins = {})
    <3>1. /\ templates.kept = 0 /\ templates' = templates /\ \A q \in Requests \ {r} : req'[q] = req[q]
          /\ ~overlap' => ~overlap /\ \A q \in Requests : ~At(q, "seed")
      <4>1. templates.kept = 0
        BY <1>0, <2>2 DEF Copies
      <4>2. templates' = templates /\ \A q \in Requests \ {r} : req'[q] = req[q]
        BY <1>0, <1>8, <2>2 DEF Templates, Goto
      <4>3. overlap' = (overlap \/ \E q \in Requests : At(q, "seed"))
        BY <1>8, <2>2 DEF Templates
      <4> QED
        BY <4>1, <4>2, <4>3, Zenon
    <3> QED
      BY <3>1 DEF Seeding, At
  <2> QED
    BY <2>1, <2>2
<1>9. ASSUME NEW r \in Requests, seedOne(r) PROVE Seeding'
  <2>1. /\ At(r, "seed") /\ templates'.kept \in {templates.kept, templates.kept + 1}
        /\ UNCHANGED overlap
        /\ req'[r].step # "seed" /\ \A q \in Requests \ {r} : req'[q] = req[q]
    BY <1>0, <1>7, <1>9 DEF seedOne, Copies
  <2>2. ~overlap => /\ templates.kept = 0 /\ \A q \in Requests : ~At(q, "seed")'
    BY <2>1 DEF Seeding, At
  <2> QED
    BY <2>1, <2>2 DEF Seeding
<1>10. ASSUME NEW r \in Requests, ClearOld(r) PROVE Seeding'
  <2>1. req'[r].step = "issue" /\ \A q \in Requests \ {r} : req'[q] = req[q]
    BY <1>0, <1>10 DEF ClearOld, Request
  <2> QED
    BY <1>1, <1>10, <2>1 DEF ClearOld
<1>11. ASSUME NEW r \in Requests, Issue(r) PROVE Seeding'
  <2>1. ASSUME NEW q \in Requests PROVE [req[q] EXCEPT !.flag = FALSE].step = req[q].step
    BY <1>0 DEF Request
  <2>2. \A q \in Requests : req'[q].step = "seed" => req[q].step = "seed"
    <3>1. CASE req[r].user \notin Accounts
      BY <1>2, <1>11, <3>1 DEF Issue
    <3>2. CASE req[r].user \in Accounts
      <4>1. ASSUME NEW q \in Requests
            PROVE  req'[q] = Idle \/ req'[q] = [req[q] EXCEPT !.flag = FALSE] \/ req'[q] = req[q]
        BY <1>11, <3>2 DEF Issue
      <4>2. Idle.step # "seed"
        BY DEF Idle
      <4> QED
        BY <2>1, <4>1, <4>2
    <3> QED
      BY <3>1, <3>2
  <2> QED
    BY <1>1, <1>11, <2>2 DEF Issue
<1>12. ASSUME NEW r \in Requests, SetPassword(r) PROVE Seeding'
  <2>1. ASSUME NEW pass, req' = [req EXCEPT ![r].step = "markVerified", ![r].pass = pass]
        PROVE  \A q \in Requests : req'[q].step = "seed" => req[q].step = "seed"
    BY <1>0, <2>1 DEF Request
  <2> QED
    BY <1>1, <1>2, <1>12, <2>1 DEF SetPassword
<1>13. ASSUME NEW r \in Requests, MarkEmailVerified(r) PROVE Seeding'
  <2>1. ASSUME NEW step \in Steps \ {"seed"}, req' = [req EXCEPT ![r].step = step, ![r].flag = FALSE]
        PROVE  \A q \in Requests : req'[q].step = "seed" => req[q].step = "seed"
    BY <1>0, <2>1 DEF Request
  <2>2. AfterCreate(r, req[r].flag) \in Steps \ {"seed"}
    BY <1>0, AfterCreateIs DEF Request, Steps
  <2>3. \A q \in Requests : req'[q].step = "seed" => req[q].step = "seed"
    BY <1>2, <1>3, <1>13, <2>1, <2>2 DEF MarkEmailVerified, Steps
  <2> QED
    BY <1>1, <1>13, <2>3 DEF MarkEmailVerified
<1>14. ASSUME NEW r \in Requests, DeleteUserSessions(r) PROVE Seeding'
  <2>1. ASSUME NEW q \in Requests PROVE [req[q] EXCEPT !.flag = TRUE].step = req[q].step
    BY <1>0 DEF Request
  <2>2. \A q \in Requests : req'[q].step = "seed" => req[q].step = "seed"
    BY <1>14, <2>1 DEF DeleteUserSessions, Idle
  <2> QED
    BY <1>1, <1>14, <2>2 DEF DeleteUserSessions
<1>15. ASSUME NEW r \in Requests, CreateSession(r) \/ Cancelled(r) \/ SetUserAdmin(r) \/ DeleteUser(r)
       PROVE  Seeding'
  BY <1>1, <1>2, <1>15 DEF CreateSession, Cancelled, SetUserAdmin, DeleteUser
<1>16. ASSUME NEW r \in Requests, NEW i, NEW step \in Steps \ {"seed"}, Found(r, i, step)
       PROVE  \A q \in Requests : req'[q].step = "seed" => req[q].step = "seed"
  BY <1>0, <1>16 DEF Found, Request
<1>17. ASSUME NEW r \in Requests, UserByOIDC(r) \/ UserByEmail(r) PROVE Seeding'
  <2>1. \A q \in Requests : req'[q].step = "seed" => req[q].step = "seed"
    BY <1>3, <1>16, <1>17 DEF UserByOIDC, UserByEmail, Steps
  <2> QED
    BY <1>1, <1>17, <2>1 DEF UserByOIDC, UserByEmail
<1>18. ASSUME NEW r \in Requests, LinkOIDC(r) PROVE Seeding'
  BY <1>1, <1>2, <1>3, <1>18 DEF LinkOIDC, Steps
<1>19. ASSUME NEW r \in Requests, Restart(r) PROVE Seeding'
  <2>1. \A q \in Requests : req'[q].step # "seed"
    BY <1>19 DEF Restart, Idle
  <2> QED
    BY <1>1, <1>19, <2>1 DEF Restart
<1>20. ASSUME \/ \E s \in sessions : handleLogout(s)
              \/ \E t \in DOMAIN tokens : TokenExpires(t)
       PROVE  Seeding'
  BY <1>1, <1>20 DEF handleLogout, TokenExpires
<1>21. ASSUME TemplateAway \/ TemplateBack \/ TemplateGone PROVE Seeding'
  <2>1. UNCHANGED <<req, overlap>>
    BY <1>21 DEF TemplateAway, TemplateBack, TemplateGone
  <2>2. templates'.kept \in Nat /\ templates'.kept <= templates.kept
    BY <1>0, <1>21, CopyMoves DEF Copies
  <2>3. templates.kept \in Nat
    BY <1>0 DEF Copies
  <2> QED
    BY <2>1, <2>2, <2>3 DEF Seeding, At
<1> QED
  BY <1>4, <1>5, <1>6, <1>8, <1>9, <1>10, <1>11, <1>12, <1>13, <1>14, <1>15, <1>17, <1>18, <1>19,
     <1>20, <1>21 DEF Next, Proceed

LEMMA AccountsInvInit == Init => AccountsInv
<1> SUFFICES ASSUME Init PROVE AccountsInv
  OBVIOUS
<1>1. /\ Accounts = {} /\ DOMAIN tokens = {} /\ sessions = {} /\ \A r \in Requests : req[r] = Idle
      /\ resetTo = [i \in Ids |-> 0] /\ lastUser = 0
      /\ templates = [kept |-> 0, back |-> 0, away |-> 0]
  BY DEF Init, Accounts
<1>2. TypeOK
  <2>1. /\ lastUser \in 0 .. MaxUsers /\ Accounts \subseteq 1 .. lastUser /\ users \in [Accounts -> Row]
    BY <1>1, AccountConstants DEF Init, Accounts
  <2>2. /\ identities \in [Emails -> Accounts \cup {0}] /\ sessions \subseteq Session
    BY <1>1 DEF Init
  <2>3. req \in [Requests -> Request] /\ menu \in Menus
    BY <1>1, Kinds DEF Init
  <2>4. resetTo \in [Ids -> 0 .. MaxPasswords] /\ templates \in Copies
    BY <1>1, AccountConstants DEF Copies
  <2>5. lastToken \in 0 .. MaxTokens
    BY AccountConstants DEF Init
  <2>6. overlap \in BOOLEAN
    BY DEF Init
  <2> QED
    BY <1>1, <2>1, <2>2, <2>3, <2>4, <2>5, <2>6 DEF TypeOK
<1>3. Requested
  BY <1>1 DEF Requested, Orderly, Informed, Idle
<1> QED
  BY <1>1, <1>2, <1>3 DEF AccountsInv, Resets, ResetEndsSessions, Links, OneActiveToken, Seeding, At, Idle

LEMMA AccountsInvStep == AccountsInv /\ [Next]_vars => AccountsInv'
<1> SUFFICES ASSUME AccountsInv, [Next]_vars PROVE AccountsInv'
  OBVIOUS
<1>1. CASE Next
  BY <1>1, TypeStep, RequestsStep, ResetsStep, LinksStep, SeedingStep DEF AccountsInv
<1>2. CASE UNCHANGED vars
  <2>1. Accounts' = Accounts /\ \A r \in Requests : Of(r)' = Of(r)
    BY <1>2 DEF vars, data, Accounts, Of, Kind
  <2>2. TypeOK' /\ Requested' /\ Resets'
    BY <1>2, <2>1 DEF AccountsInv, vars, data, TypeOK, Requested, Orderly, Informed, Resets
  <2>3. ResetEndsSessions' /\ Links' /\ OneActiveToken' /\ Seeding'
    BY <1>2, <2>1 DEF AccountsInv, vars, data, ResetEndsSessions, Links, OneActiveToken, Seeding, At
  <2> QED
    BY <2>2, <2>3 DEF AccountsInv
<1> QED
  BY <1>1, <1>2

\* Whatever the requests of accounts do and in whatever order their statements take effect,
\* what each knows stays as old as Orderly and Informed allow.
THEOREM AccountsInvariant == Spec => []AccountsInv
BY AccountsInvInit, AccountsInvStep, PTL DEF Spec

\* auth_handlers.go:334: after a completed reset no session is left that was opened with an
\* older password, but those a sign-in under way opens late and those of an account for which
\* the deletion of the sessions failed, an error that :337 ignores.
THEOREM ResetEndsSessionsAlways == Spec => []ResetEndsSessions
<1>1. AccountsInv => ResetEndsSessions
  BY DEF AccountsInv
<1> QED
  BY <1>1, AccountsInvariant, PTL

\* users.go:155: a user has one active link of a kind, unless requests overlapped.
THEOREM OneActiveTokenAlways == Spec => []OneActiveToken
<1>1. AccountsInv => OneActiveToken
  BY DEF AccountsInv
<1> QED
  BY <1>1, AccountsInvariant, PTL

\* seed.go:32: of the copies of a built-in template that were never renamed or put in the
\* trash there is one at most, unless two first accounts seed at the same time.
THEOREM TemplatesOnceAlways == Spec => []TemplatesOnce
<1>1. AccountsInv => TemplatesOnce
  BY DEF AccountsInv, TypeOK, Copies, Seeding, TemplatesOnce
<1> QED
  BY <1>1, AccountsInvariant, PTL

\* The last administrator: a step that writes the office, or removes an account.
LEMMA OfficeWritten ==
  ASSUME TypeOK, Requested, Resets, Links, Next, Admins # {}, Admins' = {}
  PROVE  \E r \in Requests : req'[r] # req[r] /\ req[r].by \in Ids \ Admins
<1>0. /\ req \in [Requests -> Request] /\ users \in [Accounts -> Row]
      /\ Accounts \subseteq 1 .. lastUser /\ lastUser \in Nat
  BY AccountConstants DEF TypeOK
<1>1. ASSUME \A i \in Accounts : i \in Accounts' /\ users'[i].admin = users[i].admin PROVE FALSE
  BY <1>1 DEF Admins
<1>2. ASSUME NEW r \in Requests, SetUserAdmin(r)
      PROVE  req'[r] # req[r] /\ req[r].by \in Ids \ Admins
  <2>1. /\ req'[r] = Idle /\ req[r].op = "role" /\ req[r] \in Request
        /\ req[r].by \in Ids /\ (req[r].user = req[r].by => req[r].flag)
    BY <1>0, <1>2 DEF SetUserAdmin, End, Requested, Orderly
  <2>2. /\ Accounts' = Accounts
        /\ \A i \in Accounts : users'[i] = IF i = req[r].user
                                            THEN [users[i] EXCEPT !.admin = req[r].flag] ELSE users[i]
    BY <1>2 DEF SetUserAdmin, Accounts
  <2>3. \A i \in Accounts : i = req[r].user => users'[i].admin = req[r].flag
    BY <1>0, <2>2 DEF Row
  <2>4. req[r].by \notin Admins
    BY <2>1, <2>2, <2>3 DEF Admins
  <2>5. req'[r] # req[r]
    BY <2>1 DEF Idle
  <2> QED
    BY <2>1, <2>4, <2>5
<1>3. ASSUME NEW r \in Requests, DeleteUser(r)
      PROVE  req'[r] # req[r] /\ req[r].by \in Ids \ Admins
  <2>1. /\ req'[r] = Idle /\ req[r].op = "remove" /\ req[r] \in Request
        /\ req[r].by \in Ids /\ req[r].user # req[r].by
    BY <1>0, <1>3 DEF DeleteUser, End, Requested, Orderly
  <2>2. \A i \in Accounts : i # req[r].user => i \in Accounts' /\ users'[i] = users[i]
    BY <1>3 DEF DeleteUser, Restrict, Accounts
  <2>3. req[r].by \notin Admins
    BY <2>1, <2>2 DEF Admins
  <2>4. req'[r] # req[r]
    BY <2>1 DEF Idle
  <2> QED
    BY <2>1, <2>3, <2>4
<1>4. ASSUME Quiet PROVE FALSE
  BY <1>1, <1>4 DEF Quiet, data, Accounts
<1>5. ASSUME NEW r \in Requests, UserCreated(r) PROVE FALSE
  BY <1>0, <1>1, <1>5 DEF UserCreated, data, Accounts
<1>6. ASSUME NEW r \in Requests, SetPassword(r) PROVE FALSE
  BY <1>0, <1>1, <1>6 DEF SetPassword, Accounts, Row
<1>7. ASSUME NEW r \in Requests, MarkEmailVerified(r) PROVE FALSE
  BY <1>0, <1>1, <1>7 DEF MarkEmailVerified, Accounts, Row
<1>8. ASSUME NEW r \in Requests,
             \/ Templates(r) \/ seedOne(r) \/ Issue(r) \/ DeleteUserSessions(r) \/ CreateSession(r)
             \/ LinkOIDC(r)
      PROVE  FALSE
  BY <1>1, <1>8 DEF Templates, seedOne, Issue, DeleteUserSessions, CreateSession, LinkOIDC, data, Accounts
<1>9. ASSUME \/ \E s \in sessions : handleLogout(s)
             \/ \E t \in DOMAIN tokens : TokenExpires(t)
             \/ TemplateAway \/ TemplateBack \/ TemplateGone
      PROVE  FALSE
  BY <1>1, <1>9 DEF handleLogout, TokenExpires, TemplateAway, TemplateBack, TemplateGone, data, Accounts
<1> QED
  BY <1>2, <1>3, <1>4, <1>5, <1>6, <1>7, <1>8, <1>9, Arrived, ProceededQuietly DEF Next, Proceed

\* tokens_admin_handlers.go:112, :132: the last administrator goes only by a request of one who is no
\* administrator any more.
THEOREM KeepsAdminAlways == Spec => KeepsAdmin
<1>1. AccountsInv /\ [Next]_vars
        => [Admins # {} /\ Admins' = {}
              => \E r \in Requests : req'[r] # req[r] /\ req[r].by \in Ids \ Admins]_vars
  BY OfficeWritten DEF AccountsInv
<1> QED
  BY <1>1, AccountsInvariant, PTL DEF Spec, KeepsAdmin

-----------------------------------------------------------------------------
(* Projects: the invariant.                                                 *)

\* A row that counts is neither a template nor in the trash.
CheckedIsLive ==
  /\ \A p \in DOMAIN projects : projects[p].checked => ~projects[p].template /\ ~projects[p].deleted
  /\ \A f \in DOMAIN files : files[f].checked => files[f].asset /\ files[f].project \in Live

\* The creations that came through the quota and have inserted nothing yet.  With the rows
\* that count they are fewer than the quota and the requests together: a check admits one
\* only below the quota, and whatever is inserted was among them.
Creating(u)  == {r \in Calls : /\ call[r].op \in {"create", "duplicate", "use", "import"}
                               /\ call[r].step \in {"source", "insert"}
                               /\ call[r].user = u /\ call[r].flag}
Uploading(u) == {r \in Calls : /\ call[r].op = "upload" /\ call[r].flag
                               /\ call[r].target \in DOMAIN projects
                               /\ projects[call[r].target].owner = u}
WithinQuota ==
  \A u \in Users :
    /\ Cardinality(Counted(u)) + Cardinality(Creating(u)) < MaxProjectsPerUser + Cardinality(Calls)
    /\ Cardinality(CountedAssets(u)) + Cardinality(Uploading(u)) < MaxAssetsPerUser + Cardinality(Calls)

\* The operation a step belongs to, and the rows it is about.
Filling(r) == call[r].step \in {"main", "entries", "list", "copy", "publish"}
VersionSteps == {"current", "restore", "replace"}
Underway(r) ==
  /\ call[r].target <= lastProject /\ call[r].file <= lastFile
  /\ call[r].step = "source" => call[r].op \in {"duplicate", "use", "publish"}
  /\ call[r].step = "insert" => call[r].op \in {"create", "duplicate", "use", "publish", "import"}
  /\ call[r].step = "main" => call[r].op = "create"
  /\ call[r].step = "entries" => call[r].op = "import"
  /\ call[r].step \in {"list", "copy"} => call[r].op \in {"duplicate", "use", "publish"}
  /\ call[r].step = "publish" => call[r].op = "publish" /\ call[r].list = call[r].done
  /\ call[r].op = "upload" <=> call[r].step = "asset"
  /\ call[r].op = "delete" <=> call[r].step = "delete"
  /\ call[r].op = "version" <=> call[r].step \in VersionSteps
  /\ call[r].op = "version" => call[r].list \in Manifests
  /\ call[r].step \in {"source", "insert"} => call[r].target = 0
  /\ call[r].step \in {"source", "insert", "list"} => call[r].done = {}
  /\ call[r].step \in {"source", "insert"} /\ call[r].op = "publish" => ~call[r].flag
  /\ Filling(r) \/ call[r].op \in {"upload", "delete", "version"} => call[r].target > 0

\* What is being filled has one request that fills it.
OneFills == \A q, r \in Calls : Filling(q) /\ Filling(r) /\ call[q].target = call[r].target => q = r

\* As long as nobody else changes it, a project to be published holds what has been copied.
CopiedSoFar(r) ==
  /\ call[r].op = "publish" /\ Filling(r) /\ ~call[r].flag /\ call[r].target \in DOMAIN projects
  => PathsOf(call[r].target) = {e.path : e \in call[r].done}

\* As long as nothing is renamed and no main path set, the file to be deleted is not main.
NotMain(r) ==
  call[r].op = "delete" /\ call[r].file \in DOMAIN files =>
    /\ files[call[r].file].project = call[r].target
    /\ ~call[r].flag => files[call[r].file].path # projects[call[r].target].main

\* A file that a restoration has listed is still of its project and of its kind, and as long
\* as nothing is renamed still at its path; no other file gets its identifier.
StillListed(r) ==
  call[r].op = "version" /\ call[r].step # "current" =>
    \A c \in call[r].current :
      /\ c.id <= lastFile
      /\ c.id \in DOMAIN files =>
           /\ files[c.id].project = call[r].target /\ files[c.id].asset = c.asset
           /\ ~call[r].flag => files[c.id].path = c.path

ProjectsInv ==
  /\ ProjectsTypeOK /\ CheckedIsLive /\ WithinQuota
  /\ \A r \in Calls : Underway(r) /\ CopiedSoFar(r) /\ NotMain(r) /\ StillListed(r)
  /\ OneFills

-----------------------------------------------------------------------------
(* Types.                                                                   *)

CallOps   == {"idle", "create", "duplicate", "use", "publish", "import", "upload", "delete",
              "version"}
CallSteps == {"none", "source", "insert", "main", "list", "copy", "publish", "entries", "asset",
              "delete", "current", "restore", "replace"}

LEMMA NoCallTyped == NoCall \in Call
<1>1. SomeUser \in Users
  BY ProjectConstants DEF SomeUser
<1> QED
  BY <1>1, ProjectConstants DEF NoCall, Call

LEMMA CallChanged ==
  ASSUME NEW q \in Call
  PROVE  /\ \A op \in CallOps : [q EXCEPT !.op = op] \in Call
         /\ \A step \in CallSteps : [q EXCEPT !.step = step] \in Call
         /\ \A u \in Users : [q EXCEPT !.user = u] \in Call
         /\ \A p \in 0 .. MaxProjects : [q EXCEPT !.source = p] \in Call
         /\ \A p \in 0 .. MaxProjects : [q EXCEPT !.target = p] \in Call
         /\ \A path \in Paths : [q EXCEPT !.main = path] \in Call
         /\ \A f \in 0 .. MaxFiles : [q EXCEPT !.file = f] \in Call
         /\ \A list \in SUBSET Entry : [q EXCEPT !.list = list] \in Call
         /\ \A list \in SUBSET Entry : [q EXCEPT !.done = list] \in Call
         /\ \A list \in SUBSET Entry : [q EXCEPT !.current = list] \in Call
         /\ \A flag \in BOOLEAN : [q EXCEPT !.flag = flag] \in Call
BY DEF Call, CallOps, CallSteps

LEMMA NotedTyped ==
  ASSUME ProjectsTypeOK, NEW p, NEW ops
  PROVE  /\ Noted(p, ops) \in [Calls -> Call]
         /\ \A r \in Calls : [Noted(p, ops) EXCEPT ![r] = NoCall] \in [Calls -> Call]
         /\ \A r \in Calls, next \in Call : [Noted(p, ops) EXCEPT ![r] = next] \in [Calls -> Call]
<1>1. \A r \in Calls : [call[r] EXCEPT !.flag = TRUE] \in Call
  BY CallChanged DEF ProjectsTypeOK
<1>2. Noted(p, ops) \in [Calls -> Call]
  BY <1>1 DEF Noted, ProjectsTypeOK
<1> QED
  BY <1>2, NoCallTyped

\* What an insertion adds, and that it keeps the rest.
ProjectAdded(u, main, checked) ==
  /\ lastProject' = lastProject + 1 /\ lastProject' \in 0 .. MaxProjects
  /\ lastProject' \notin DOMAIN projects
  /\ DOMAIN projects' = DOMAIN projects \cup {lastProject'}
  /\ DOMAIN projects' \subseteq 1 .. lastProject'
  /\ projects' \in [DOMAIN projects' -> Project]
  /\ \A p \in DOMAIN projects : projects'[p] = projects[p]
  /\ projects'[lastProject'] = [owner |-> u, main |-> main, template |-> FALSE,
                                deleted |-> FALSE, checked |-> checked]

FileAdded(p, path, asset, checked) ==
  /\ lastFile' = lastFile + 1 /\ lastFile' \in 0 .. MaxFiles /\ lastFile' \notin DOMAIN files
  /\ DOMAIN files' = DOMAIN files \cup {lastFile'} /\ DOMAIN files' \subseteq 1 .. lastFile'
  /\ files' \in [DOMAIN files' -> File]
  /\ \A f \in DOMAIN files : files'[f] = files[f]
  /\ files'[lastFile'] = [project |-> p, path |-> path, asset |-> asset, checked |-> checked]
  /\ \A f, g \in DOMAIN files' :
       files'[f].project = files'[g].project /\ files'[f].path = files'[g].path => f = g

LEMMA ProjectInserted ==
  ASSUME ProjectsTypeOK, NEW r \in Calls, NEW main \in Paths, NEW checked \in BOOLEAN,
         NewProject(r, main, checked)
  PROVE  ProjectAdded(call[r].user, main, checked)
<1> DEFINE row == [owner |-> call[r].user, main |-> main, template |-> FALSE,
                   deleted |-> FALSE, checked |-> checked]
           n   == lastProject + 1
<1>1. row \in Project
  BY DEF ProjectsTypeOK, Call, Project
<1>2. /\ lastProject' = n /\ n \in 0 .. MaxProjects /\ n \notin DOMAIN projects
      /\ DOMAIN projects \subseteq 1 .. n /\ n \in 1 .. n
  BY ProjectConstants DEF NewProject, ProjectsTypeOK
<1>3. projects' = [i \in DOMAIN projects \cup {n} |-> IF i = n THEN row ELSE projects[i]]
  BY DEF NewProject, WithRow
<1>4. projects \in [DOMAIN projects -> Project]
  BY DEF ProjectsTypeOK
<1> HIDE DEF row, n
<1>5. /\ DOMAIN projects' = DOMAIN projects \cup {n} /\ projects' \in [DOMAIN projects' -> Project]
      /\ \A p \in DOMAIN projects : projects'[p] = projects[p]
      /\ projects'[n] = row
  BY <1>1, <1>2, <1>3, <1>4
<1> QED
  BY <1>2, <1>5 DEF row, n, ProjectAdded

LEMMA FileInserted ==
  ASSUME ProjectsTypeOK, NEW p \in DOMAIN projects, NEW path \in Paths, path \notin PathsOf(p),
         NEW asset \in BOOLEAN, NEW checked \in BOOLEAN, NewFile(p, path, asset, checked)
  PROVE  FileAdded(p, path, asset, checked)
<1> DEFINE row == [project |-> p, path |-> path, asset |-> asset, checked |-> checked]
           n   == lastFile + 1
<1>1. row \in File
  <2>1. p \in Pids
    BY ProjectConstants DEF ProjectsTypeOK, Pids
  <2> QED
    BY <2>1 DEF File
<1>2. /\ lastFile' = n /\ n \in 0 .. MaxFiles /\ n \notin DOMAIN files
      /\ DOMAIN files \subseteq 1 .. n /\ n \in 1 .. n
  BY ProjectConstants DEF NewFile, ProjectsTypeOK
<1>3. files' = [i \in DOMAIN files \cup {n} |-> IF i = n THEN row ELSE files[i]]
  BY DEF NewFile, WithRow
<1>4. /\ files \in [DOMAIN files -> File]
      /\ \A f, g \in DOMAIN files :
           files[f].project = files[g].project /\ files[f].path = files[g].path => f = g
      /\ \A f \in DOMAIN files : files[f].project = p => files[f].path # path
  BY DEF ProjectsTypeOK, PathsOf, FilesOf
<1>5. row.project = p /\ row.path = path
  OBVIOUS
<1> HIDE DEF row, n
<1>6. /\ DOMAIN files' = DOMAIN files \cup {n} /\ files' \in [DOMAIN files' -> File]
      /\ \A f \in DOMAIN files : files'[f] = files[f]
      /\ files'[n] = row
  BY <1>1, <1>2, <1>3, <1>4
<1>7. \A f, g \in DOMAIN files' :
        files'[f].project = files'[g].project /\ files'[f].path = files'[g].path => f = g
  BY <1>2, <1>4, <1>5, <1>6
<1> QED
  BY <1>2, <1>6, <1>7 DEF row, n, FileAdded

\* A restoration lists, ends, goes on, inserts a file, or removes one it has listed.
rows == <<projects, lastProject, files, lastFile>>

Resumes(r, next) ==
  /\ call[r].step \in {"restore", "replace"} /\ next \in Call /\ next.step \in {"restore", "replace"}
  /\ next.op = call[r].op /\ next.user = call[r].user /\ next.target = call[r].target
  /\ next.file = call[r].file /\ next.list = call[r].list /\ next.flag = call[r].flag
  /\ next.current \subseteq call[r].current

Listed(r) ==
  /\ call' = [call EXCEPT ![r].step = "restore", ![r].current = Listing(call[r].target),
                          ![r].flag = FALSE]
  /\ UNCHANGED rows

LEMMA ListingTyped == ASSUME ProjectsTypeOK, NEW p PROVE Listing(p) \in SUBSET Entry
BY ProjectConstants DEF ProjectsTypeOK, Listing, FilesOf, Entry, File

LEMMA RestoringStep ==
  ASSUME ProjectsTypeOK, NEW r \in Calls, Restore(r)
  PROVE  /\ call[r].step \in VersionSteps /\ UNCHANGED <<projects, lastProject>>
         /\ \/ call[r].step = "current" /\ Listed(r)
            \/ UNCHANGED rows /\ Return(r)
            \/ \E next \in Call :
                 /\ Resumes(r, next)
                 /\ \/ call' = [call EXCEPT ![r] = next] /\ UNCHANGED rows
                    \/ /\ call' = [Noted(call[r].target, {"publish"}) EXCEPT ![r] = next]
                       /\ \/ /\ call[r].target \in DOMAIN projects
                             /\ \E path \in Paths, asset \in BOOLEAN :
                                  FileAdded(call[r].target, path, asset, FALSE)
                          \/ \E c \in call[r].current : files' = Restrict(files, DOMAIN files \ {c.id})
                                                       /\ UNCHANGED lastFile
<1>0. /\ call \in [Calls -> Call] /\ call[r] \in Call
      /\ \A e \in call[r].list : e.path \in Paths /\ e.asset \in BOOLEAN /\ e \in Entry
      /\ \A c \in call[r].current : c.path \in Paths /\ c \in Entry
      /\ call[r].done \in SUBSET Entry /\ call[r].current \in SUBSET Entry
  BY DEF ProjectsTypeOK, Call, Entry
<1>1. CASE ListCurrent(r)
  BY <1>1 DEF ListCurrent, Doing, Listed, rows, VersionSteps
<1>2. CASE Restored(r)
  BY <1>2 DEF Restored, Doing, rows, VersionSteps
<1>3. ASSUME NEW e \in call[r].list, call[r].step \in {"restore", "replace"}, PutBack(r, e)
      PROVE  /\ UNCHANGED <<projects, lastProject>>
             /\ \/ UNCHANGED rows /\ Return(r)
                \/ \E next \in Call :
                     /\ Resumes(r, next)
                     /\ call' = [Noted(call[r].target, {"publish"}) EXCEPT ![r] = next]
                     /\ call[r].target \in DOMAIN projects
                     /\ \E path \in Paths, asset \in BOOLEAN :
                          FileAdded(call[r].target, path, asset, FALSE)
  <2>1. CASE CanInsert(call[r].target, e.path)
    <3> DEFINE done == call[r].done \cup {e}
               next == [call[r] EXCEPT !.step = "restore", !.done = done]
    <3>1. /\ NewFile(call[r].target, e.path, e.asset, FALSE) /\ UNCHANGED <<projects, lastProject>>
          /\ call' = [Noted(call[r].target, {"publish"}) EXCEPT ![r] = next]
      BY <1>3, <2>1 DEF PutBack
    <3>2. done \in SUBSET Entry
      BY <1>0
    <3> HIDE DEF done
    <3>3. next \in Call
      BY <1>0, <3>2, CallChanged DEF CallSteps
    <3>4. Resumes(r, next)
      BY <1>0, <1>3, <3>3 DEF Resumes, Call
    <3> HIDE DEF next
    <3>5. FileAdded(call[r].target, e.path, e.asset, FALSE) /\ call[r].target \in DOMAIN projects
      BY <1>0, <2>1, <3>1, FileInserted DEF CanInsert
    <3> QED
      BY <1>0, <3>1, <3>3, <3>4, <3>5
  <2>2. CASE ~CanInsert(call[r].target, e.path)
    BY <1>3, <2>2 DEF PutBack, rows
  <2> QED
    BY <2>1, <2>2
<1>4. CASE RestoreMissing(r) \/ Replace(r)
  BY <1>3, <1>4 DEF RestoreMissing, Replace, Doing, VersionSteps
<1>5. CASE RestoreContent(r)
  <2>1. PICK e \in call[r].list : /\ call' = [call EXCEPT ![r].done = @ \cup {e}] /\ UNCHANGED rows
                                  /\ call[r].step = "restore"
    BY <1>5 DEF RestoreContent, Doing, rows
  <2> DEFINE done == call[r].done \cup {e}
             next == [call[r] EXCEPT !.done = done]
  <2>2. call' = [call EXCEPT ![r] = next]
    BY <1>0, <2>1
  <2>3. done \in SUBSET Entry
    BY <1>0
  <2> HIDE DEF done
  <2>4. next \in Call
    BY <1>0, <2>3, CallChanged
  <2>5. Resumes(r, next)
    BY <1>0, <2>1, <2>4 DEF Resumes, Call
  <2> HIDE DEF next
  <2> QED
    BY <2>1, <2>2, <2>4, <2>5 DEF rows, VersionSteps
<1>6. CASE RestoreReplaced(r)
  <2>1. PICK e \in call[r].list, c \in call[r].current :
          /\ call[r].step = "restore"
          /\ Removes(r, c.id, [call[r] EXCEPT !.step = "replace", !.main = e.path])
    BY <1>6 DEF RestoreReplaced, Doing
  <2> DEFINE next == [call[r] EXCEPT !.step = "replace", !.main = e.path]
  <2>2. next \in Call
    BY <1>0, CallChanged DEF CallSteps
  <2>3. Resumes(r, next)
    BY <1>0, <2>1, <2>2 DEF Resumes, Call
  <2>4. Removes(r, c.id, next)
    BY <2>1
  <2> HIDE DEF next
  <2> QED
    BY <2>1, <2>2, <2>3, <2>4 DEF Removes, VersionSteps
<1>7. CASE RestoreLeft(r)
  <2>1. PICK c \in call[r].current :
          call[r].step = "restore" /\ Removes(r, c.id, [call[r] EXCEPT !.current = @ \ {c}])
    BY <1>7 DEF RestoreLeft, Doing
  <2> DEFINE left == call[r].current \ {c}
             next == [call[r] EXCEPT !.current = left]
  <2>2. left \in SUBSET Entry /\ left \subseteq call[r].current
    BY <1>0
  <2>3. Removes(r, c.id, next)
    BY <2>1
  <2> HIDE DEF left
  <2>4. next \in Call
    BY <1>0, <2>2, CallChanged
  <2>5. Resumes(r, next)
    BY <1>0, <2>1, <2>2, <2>4 DEF Resumes, Call
  <2> HIDE DEF next
  <2> QED
    BY <2>1, <2>3, <2>4, <2>5 DEF Removes, VersionSteps
<1> QED
  BY <1>1, <1>2, <1>4, <1>5, <1>6, <1>7 DEF Restore

LEMMA CallsTyped ==
  ASSUME ProjectsTypeOK, ProjectsNext
  PROVE  call' \in [Calls -> Call]
<1>0. /\ call \in [Calls -> Call] /\ projects \in [DOMAIN projects -> Project]
      /\ files \in [DOMAIN files -> File] /\ DOMAIN projects \subseteq 0 .. MaxProjects
      /\ DOMAIN files \subseteq 0 .. MaxFiles
      /\ lastProject \in 0 .. MaxProjects /\ projectMenu.projects \in 0 .. MaxProjects
      /\ MaxProjects \in Nat /\ MaxFiles \in Nat /\ MainTyp \in Paths
      /\ \A list \in Zips \cup Manifests : list \in SUBSET Entry
  BY ProjectConstants DEF ProjectsTypeOK
<1>1. ASSUME NEW r \in Calls, NEW asked \in Call, Admit(r, asked) PROVE call' \in [Calls -> Call]
  BY <1>0, <1>1 DEF Admit
<1>2. ASSUME NEW r \in Calls, NEW u \in Users, handleCreateProject(r, u)
      PROVE  call' \in [Calls -> Call]
  <2>1. [NoCall EXCEPT !.op = "create", !.step = "insert", !.user = u, !.flag = u \notin Exempt] \in Call
    BY NoCallTyped, CallChanged DEF CallOps, CallSteps
  <2> QED
    BY <1>1, <1>2, <2>1 DEF handleCreateProject
<1>3. ASSUME NEW r \in Calls, NEW u \in Users, NEW zip \in Zips, handleImportZip(r, u, zip)
      PROVE  call' \in [Calls -> Call]
  <2>1. [NoCall EXCEPT !.op = "import", !.step = "insert", !.user = u, !.list = zip,
                       !.flag = u \notin Exempt] \in Call
    BY <1>0, NoCallTyped, CallChanged DEF CallOps, CallSteps
  <2> QED
    BY <1>1, <1>3, <2>1 DEF handleImportZip
<1>4. ASSUME NEW r \in Calls, NEW u \in Users, NEW p \in Live,
             handleDuplicateProject(r, u, p) \/ handleUseTemplate(r, u, p)
      PROVE  call' \in [Calls -> Call]
  <2>1. \A op \in {"duplicate", "use"} :
          [NoCall EXCEPT !.op = op, !.step = "source", !.user = u, !.source = p,
                         !.flag = u \notin Exempt] \in Call
    BY <1>0, NoCallTyped, CallChanged DEF CallOps, CallSteps, Live
  <2> QED
    BY <1>1, <1>4, <2>1 DEF handleDuplicateProject, handleUseTemplate
<1>5. ASSUME NEW r \in Calls, NEW u \in Users, NEW p \in Live, NEW path \in Paths,
             handleUploadAsset(r, u, p, path)
      PROVE  call' \in [Calls -> Call]
  <2>1. [NoCall EXCEPT !.op = "upload", !.step = "asset", !.user = u,
                       !.target = p, !.main = path, !.flag = u \notin Exempt] \in Call
    BY <1>0, NoCallTyped, CallChanged DEF CallOps, CallSteps, Live
  <2> QED
    BY <1>1, <1>5, <2>1 DEF handleUploadAsset
<1>6. ASSUME NEW r \in Calls, NEW p \in Live, handlePublishTemplate(r, p)
      PROVE  call' \in [Calls -> Call]
  <2>1. projects[p].owner \in Users /\ p \in 0 .. MaxProjects
    BY <1>0 DEF Project, Live
  <2>2. [NoCall EXCEPT !.op = "publish", !.step = "source", !.user = projects[p].owner, !.source = p] \in Call
    BY <2>1, NoCallTyped, CallChanged DEF CallOps, CallSteps
  <2> QED
    BY <1>1, <1>6, <2>2 DEF handlePublishTemplate
<1>7. ASSUME NEW r \in Calls, NEW f \in DOMAIN files, files[f].project \in Live, handleDeleteFile(r, f)
      PROVE  call' \in [Calls -> Call]
  <2>1. files[f].project \in 0 .. MaxProjects /\ f \in 0 .. MaxFiles
    BY <1>0, <1>7 DEF Live
  <2>2. [NoCall EXCEPT !.op = "delete", !.step = "delete", !.target = files[f].project, !.file = f] \in Call
    BY <2>1, NoCallTyped, CallChanged DEF CallOps, CallSteps
  <2> QED
    BY <1>1, <1>7, <2>2 DEF handleDeleteFile
<1>a. ASSUME NEW r \in Calls, NEW p \in Live, NEW manifest \in Manifests,
             handleRestoreVersion(r, p, manifest)
      PROVE  call' \in [Calls -> Call]
  <2>1. [NoCall EXCEPT !.op = "version", !.step = "current", !.target = p, !.list = manifest] \in Call
    BY <1>0, NoCallTyped, CallChanged DEF CallOps, CallSteps, Live
  <2> QED
    BY <1>1, <1>a, <2>1 DEF handleRestoreVersion
<1>8. ASSUME NEW r \in Calls, Asked(r) PROVE call' \in [Calls -> Call]
  BY <1>2, <1>3, <1>4, <1>5, <1>6, <1>7, <1>8, <1>a DEF Asked
<1>9. ASSUME NEW r \in Calls, Return(r) PROVE call' \in [Calls -> Call]
  BY <1>0, <1>9, NoCallTyped DEF Return
<1>10. ASSUME NEW r \in Calls, CreateProject(r) PROVE call' \in [Calls -> Call]
  <2> DEFINE step == IF call[r].op = "import" THEN "entries" ELSE "main"
             p    == lastProject + 1
             q    == [call[r] EXCEPT !.target = p, !.step = step]
  <2>1. step \in CallSteps /\ p \in 0 .. MaxProjects
    BY <1>0, <1>10 DEF CreateProject, NewProject, CallSteps
  <2>2. call' = [call EXCEPT ![r].target = p, ![r].step = step]
    BY <1>10 DEF CreateProject, NewProject
  <2> HIDE DEF step, p
  <2>3. q \in Call
    BY <1>0, <2>1, CallChanged
  <2> QED
    BY <1>0, <2>2, <2>3
<1>11. ASSUME NEW r \in Calls, copyProject(r) PROVE call' \in [Calls -> Call]
  <2> DEFINE main == projects[call[r].source].main
  <2>1. CASE ~Return(r)
    <3>1. call[r].source \in Live /\ call' = [call EXCEPT ![r].step = "insert", ![r].main = main]
      BY <1>11, <2>1 DEF copyProject
    <3>2. main \in Paths
      BY <1>0, <3>1 DEF Project, Live
    <3> HIDE DEF main
    <3>3. [call[r] EXCEPT !.step = "insert", !.main = main] \in Call
      BY <1>0, <3>2, CallChanged DEF CallSteps
    <3> QED
      BY <1>0, <3>1, <3>3
  <2> QED
    BY <1>9, <2>1
<1>12. ASSUME NEW r \in Calls, CopyRow(r) PROVE call' \in [Calls -> Call]
  <2>1. CASE ~Return(r)
    <3> DEFINE p == lastProject + 1
    <3>1. p \in 0 .. MaxProjects /\ call' = [call EXCEPT ![r].step = "list", ![r].target = p]
      BY <1>0, <1>12, <2>1 DEF CopyRow, NewProject
    <3> HIDE DEF p
    <3>2. [call[r] EXCEPT !.step = "list", !.target = p] \in Call
      BY <1>0, <3>1, CallChanged DEF CallSteps
    <3> QED
      BY <1>0, <3>1, <3>2
  <2> QED
    BY <1>9, <2>1
<1>13. ASSUME NEW r \in Calls, ListFiles(r) PROVE call' \in [Calls -> Call]
  <2> DEFINE list == Listing(call[r].source)
  <2>1. list \in SUBSET Entry
    BY ListingTyped
  <2>2. call' = [call EXCEPT ![r].step = "copy", ![r].list = list]
    BY <1>13 DEF ListFiles
  <2> HIDE DEF list
  <2>3. [call[r] EXCEPT !.step = "copy", !.list = list] \in Call
    BY <1>0, <2>1, CallChanged DEF CallSteps
  <2> QED
    BY <1>0, <2>2, <2>3
<1>14. ASSUME NEW r \in Calls, CopyFile(r) \/ ImportEntry(r) PROVE call' \in [Calls -> Call]
  <2>1. call[r].list \in SUBSET Entry /\ call[r].done \in SUBSET Entry
    BY <1>0 DEF Call
  <2>2. \A e \in call[r].list : /\ [call[r] EXCEPT !.done = @ \cup {e}] \in Call
                                /\ [call[r] EXCEPT !.list = @ \ {e}] \in Call
    <3> TAKE e \in call[r].list
    <3>1. call[r].done \cup {e} \in SUBSET Entry /\ call[r].list \ {e} \in SUBSET Entry
      BY <2>1
    <3> QED
      BY <1>0, <3>1, CallChanged
  <2> QED
    BY <1>0, <1>9, <1>14, <2>2 DEF CopyFile, ImportEntry
<1>15. ASSUME NEW r \in Calls, Copied(r) PROVE call' \in [Calls -> Call]
  <2>1. [call[r] EXCEPT !.step = "publish"] \in Call
    BY <1>0, CallChanged DEF CallSteps
  <2> QED
    BY <1>0, <1>9, <1>15, <2>1 DEF Copied
<1>16. ASSUME NEW r \in Calls, CreateTextFile(r) \/ SetProjectTemplate(r) \/ Abandoned(r)
       PROVE  call' \in [Calls -> Call]
  BY <1>9, <1>16 DEF CreateTextFile, SetProjectTemplate, Abandoned
<1>17. ASSUME NEW p, NEW ops, NEW r \in Calls,
              call' = Noted(p, ops) \/ call' = [Noted(p, ops) EXCEPT ![r] = NoCall]
       PROVE  call' \in [Calls -> Call]
  <2>1. CASE call' = Noted(p, ops)
    BY <2>1, NotedTyped
  <2>2. CASE call' = [Noted(p, ops) EXCEPT ![r] = NoCall]
    BY <2>2, NotedTyped
  <2> QED
    BY <1>17, <2>1, <2>2
<1>18. ASSUME NEW r \in Calls, Imported(r) PROVE call' \in [Calls -> Call]
  <2>1. Return(r) \/ call' = [Noted(call[r].target, {"delete"}) EXCEPT ![r] = NoCall]
    BY <1>18 DEF Imported
  <2> QED
    BY <1>9, <1>17, <2>1
<1>19. ASSUME NEW r \in Calls, CreateAssetFile(r) \/ DeleteFile(r) PROVE call' \in [Calls -> Call]
  <2>1. call' = [Noted(call[r].target, {"publish"}) EXCEPT ![r] = NoCall]
    BY <1>19 DEF CreateAssetFile, DeleteFile
  <2> QED
    BY <1>17, <2>1
<1>20. ASSUME NEW p, NEW path, handleCreateFile(p, path) \/ handleUpdateProject(p, path)
       PROVE  call' \in [Calls -> Call]
  <2>1. call' = Noted(p, {"publish"}) \/ call' = Noted(p, {"delete"})
    BY <1>20 DEF handleCreateFile, handleUpdateProject
  <2> QED
    BY <2>1, NotedTyped
<1>21. ASSUME NEW f, NEW path, handleRenameFile(f, path) PROVE call' \in [Calls -> Call]
  BY <1>21, NotedTyped DEF handleRenameFile
<1>22. ASSUME NEW p, handleDeleteProject(p) \/ handleRestoreProject(p) \/ handlePermanentDeleteProject(p)
       PROVE  call' \in [Calls -> Call]
  BY <1>0, <1>22 DEF handleDeleteProject, handleRestoreProject, handlePermanentDeleteProject
<1>23. ASSUME NEW r \in Calls, Restore(r) PROVE call' \in [Calls -> Call]
  <2>1. ASSUME Listed(r) PROVE call' \in [Calls -> Call]
    <3> DEFINE current == Listing(call[r].target)
    <3>1. current \in SUBSET Entry
      BY ListingTyped
    <3>2. call' = [call EXCEPT ![r].step = "restore", ![r].current = current, ![r].flag = FALSE]
      BY <2>1 DEF Listed
    <3> HIDE DEF current
    <3>3. [call[r] EXCEPT !.step = "restore", !.current = current, !.flag = FALSE] \in Call
      BY <1>0, <3>1, CallChanged DEF CallSteps
    <3> QED
      BY <1>0, <3>2, <3>3
  <2>2. \/ Listed(r) \/ Return(r)
        \/ \E next \in Call : \/ call' = [call EXCEPT ![r] = next]
                              \/ call' = [Noted(call[r].target, {"publish"}) EXCEPT ![r] = next]
    BY <1>23, RestoringStep
  <2> QED
    BY <1>0, <1>9, <2>1, <2>2, NotedTyped
<1> QED
  BY <1>8, <1>10, <1>11, <1>12, <1>13, <1>14, <1>15, <1>16, <1>18, <1>19, <1>20, <1>21, <1>22, <1>23
     DEF ProjectsNext, Continued

LEMMA ProjectsTypeStep ==
  ASSUME ProjectsTypeOK, ProjectsNext
  PROVE  ProjectsTypeOK'
<1>0. call' \in [Calls -> Call] /\ projectMenu' \in ProjectMenus
  BY CallsTyped DEF ProjectsNext, ProjectsTypeOK
<1>a. /\ lastProject \in 0 .. MaxProjects /\ DOMAIN projects \subseteq 1 .. lastProject
      /\ projects \in [DOMAIN projects -> Project]
      /\ lastFile \in 0 .. MaxFiles /\ DOMAIN files \subseteq 1 .. lastFile
      /\ files \in [DOMAIN files -> File]
      /\ \A f \in DOMAIN files : files[f].project \in DOMAIN projects
      /\ \A f, g \in DOMAIN files :
           files[f].project = files[g].project /\ files[f].path = files[g].path => f = g
      /\ call \in [Calls -> Call] /\ MainTyp \in Paths
  BY ProjectConstants DEF ProjectsTypeOK
<1>1. ASSUME UNCHANGED <<projects, lastProject, files, lastFile>> PROVE ProjectsTypeOK'
  BY <1>0, <1>a, <1>1 DEF ProjectsTypeOK
<1>2. ASSUME NEW r \in Calls, NEW main \in Paths, NEW checked \in BOOLEAN, NewProject(r, main, checked),
             UNCHANGED <<files, lastFile>>
      PROVE  ProjectsTypeOK'
  BY <1>0, <1>a, <1>2, ProjectInserted DEF ProjectsTypeOK, ProjectAdded
<1>3. ASSUME NEW p \in DOMAIN projects, NEW path \in Paths, path \notin PathsOf(p),
             NEW asset \in BOOLEAN, NEW checked \in BOOLEAN, NewFile(p, path, asset, checked),
             UNCHANGED <<projects, lastProject>>
      PROVE  ProjectsTypeOK'
  <2>1. FileAdded(p, path, asset, checked)
    BY <1>3, FileInserted
  <2>2. \A f \in DOMAIN files' : files'[f].project \in DOMAIN projects'
    BY <1>3, <1>a, <2>1 DEF FileAdded
  <2> QED
    BY <1>0, <1>3, <1>a, <2>1, <2>2 DEF ProjectsTypeOK, FileAdded
<1>4. ASSUME DOMAIN projects' = DOMAIN projects, projects' \in [DOMAIN projects -> Project],
             UNCHANGED <<lastProject, files, lastFile>>
      PROVE  ProjectsTypeOK'
  BY <1>0, <1>a, <1>4 DEF ProjectsTypeOK
<1>5. ASSUME NEW r \in Calls, Asked(r) \/ copyProject(r) \/ ListFiles(r) \/ Copied(r) \/ Abandoned(r)
      PROVE  ProjectsTypeOK'
  <2>1. UNCHANGED <<projects, lastProject, files, lastFile>>
    BY <1>5 DEF Asked, copyProject, ListFiles, Copied, Abandoned, handleCreateProject, handleImportZip,
       handleDuplicateProject, handleUseTemplate, handleUploadAsset, handlePublishTemplate, handleDeleteFile,
       handleRestoreVersion
  <2> QED
    BY <1>1, <2>1
<1>6. ASSUME NEW r \in Calls, CreateProject(r) \/ CopyRow(r) PROVE ProjectsTypeOK'
  <2>1. call[r].flag \in BOOLEAN /\ call[r].main \in Paths
    BY <1>a DEF Call
  <2> QED
    BY <1>2, <1>6, <1>a, <2>1 DEF CreateProject, CopyRow
<1>7. ASSUME NEW r \in Calls, CreateTextFile(r) \/ CreateAssetFile(r) PROVE ProjectsTypeOK'
  <2>1. call[r].main \in Paths /\ (call[r].flag /\ call[r].target \in Live) \in BOOLEAN
    BY <1>a DEF Call
  <2> QED
    BY <1>1, <1>3, <1>7, <1>a, <2>1 DEF CreateTextFile, CreateAssetFile, CanInsert
<1>8. ASSUME NEW r \in Calls, CopyFile(r) \/ ImportEntry(r) PROVE ProjectsTypeOK'
  <2>1. \A e \in call[r].list : e.path \in Paths /\ e.asset \in BOOLEAN
    BY <1>a DEF Call, Entry
  <2> QED
    BY <1>1, <1>3, <1>8, <2>1 DEF CopyFile, ImportEntry, CanInsert
<1>9. ASSUME NEW r \in Calls, SetProjectTemplate(r) PROVE ProjectsTypeOK'
  <2>1. DOMAIN projects' = DOMAIN projects /\ projects' \in [DOMAIN projects -> Project]
    BY <1>9, <1>a DEF SetProjectTemplate, Project
  <2> QED
    BY <1>4, <1>9, <2>1 DEF SetProjectTemplate
<1>10. ASSUME NEW p \in DOMAIN projects, SoftDelete(p), UNCHANGED <<lastProject, lastFile>>
       PROVE  ProjectsTypeOK'
  <2>1. DOMAIN projects' = DOMAIN projects /\ projects' \in [DOMAIN projects -> Project]
    BY <1>10, <1>a DEF SoftDelete, Project
  <2>2. ASSUME NEW f \in DOMAIN files
        PROVE  /\ files'[f] \in File /\ files'[f].project = files[f].project
               /\ files'[f].path = files[f].path
    <3> DEFINE checked == files[f].checked /\ files[f].project # p
    <3>1. files'[f] = [files[f] EXCEPT !.checked = checked]
      BY <1>10 DEF SoftDelete
    <3>2. checked \in BOOLEAN /\ files[f] \in File
      BY <1>a DEF File
    <3> HIDE DEF checked
    <3> QED
      BY <3>1, <3>2 DEF File
  <2>3. DOMAIN files' = DOMAIN files /\ files' \in [DOMAIN files -> File]
    BY <1>10, <2>2 DEF SoftDelete
  <2> QED
    BY <1>0, <1>10, <1>a, <2>1, <2>2, <2>3 DEF ProjectsTypeOK
<1>11. ASSUME NEW p \in DOMAIN projects, NEW path \in Paths,
              projects' = [projects EXCEPT ![p].main = path], UNCHANGED <<lastProject, files, lastFile>>
       PROVE  ProjectsTypeOK'
  <2>1. DOMAIN projects' = DOMAIN projects /\ projects' \in [DOMAIN projects -> Project]
    BY <1>11, <1>a DEF Project
  <2> QED
    BY <1>4, <1>11, <2>1
<1>12. ASSUME NEW r \in Calls, Imported(r) PROVE ProjectsTypeOK'
  <2>1. call[r].done \in SUBSET Entry
    BY <1>a DEF Call
  <2>2. {e.path : e \in {d \in call[r].done : ~d.asset}} \subseteq Paths
    BY <2>1 DEF Entry
  <2> QED
    BY <1>1, <1>10, <1>11, <1>12, <2>2 DEF Imported
<1>13. ASSUME NEW F \in SUBSET DOMAIN files, files' = Restrict(files, DOMAIN files \ F),
              UNCHANGED <<projects, lastProject, lastFile>>
       PROVE  ProjectsTypeOK'
  BY <1>0, <1>13, <1>a DEF Restrict, ProjectsTypeOK
<1>14. ASSUME NEW r \in Calls, DeleteFile(r) PROVE ProjectsTypeOK'
  <2>1. files' = Restrict(files, DOMAIN files \ (DOMAIN files \cap {call[r].file}))
    BY <1>14 DEF DeleteFile, Restrict
  <2> QED
    BY <1>13, <1>14, <2>1 DEF DeleteFile
<1>b. ASSUME NEW r \in Calls, Restore(r) PROVE ProjectsTypeOK'
  <2>1. ASSUME NEW path \in Paths, NEW asset \in BOOLEAN, call[r].target \in DOMAIN projects,
               FileAdded(call[r].target, path, asset, FALSE), UNCHANGED <<projects, lastProject>>
        PROVE  ProjectsTypeOK'
    <3>1. \A f \in DOMAIN files' : files'[f].project \in DOMAIN projects'
      BY <1>a, <2>1 DEF FileAdded
    <3> QED
      BY <1>0, <1>a, <2>1, <3>1 DEF ProjectsTypeOK, FileAdded
  <2>2. ASSUME NEW id, files' = Restrict(files, DOMAIN files \ {id}),
               UNCHANGED <<projects, lastProject, lastFile>>
        PROVE  ProjectsTypeOK'
    <3>1. files' = Restrict(files, DOMAIN files \ (DOMAIN files \cap {id}))
      BY <2>2 DEF Restrict
    <3> QED
      BY <1>13, <2>2, <3>1
  <2> QED
    BY <1>1, <1>b, <2>1, <2>2, RestoringStep DEF Listed, rows
<1>15. ASSUME NEW p \in Live, handleDeleteProject(p) PROVE ProjectsTypeOK'
  BY <1>10, <1>15 DEF handleDeleteProject, Live
<1>16. ASSUME NEW p \in Live, NEW path \in Paths, handleCreateFile(p, path) PROVE ProjectsTypeOK'
  BY <1>3, <1>16 DEF handleCreateFile, CanInsert
<1>17. ASSUME NEW p \in Live, NEW path \in Paths, handleUpdateProject(p, path) PROVE ProjectsTypeOK'
  BY <1>11, <1>17 DEF handleUpdateProject, Live
<1>18. ASSUME NEW f \in DOMAIN files, NEW path \in Paths, handleRenameFile(f, path) PROVE ProjectsTypeOK'
  <2>1. /\ DOMAIN files' = DOMAIN files /\ \A g \in DOMAIN files \ {f} : files'[g] = files[g]
        /\ files'[f] = [files[f] EXCEPT !.path = path] /\ files[f] \in File
        /\ path \notin PathsOf(files[f].project)
        /\ UNCHANGED <<projects, lastProject, lastFile>>
    BY <1>18, <1>a DEF handleRenameFile, CanInsert
  <2>2. files'[f] \in File /\ files'[f].path = path /\ files'[f].project = files[f].project
    BY <2>1 DEF File
  <2>3. files' \in [DOMAIN files -> File]
    BY <1>18, <1>a, <2>1, <2>2 DEF handleRenameFile
  <2>4. \A g \in DOMAIN files : files[g].project = files[f].project => files[g].path # path
    BY <2>1 DEF PathsOf, FilesOf
  <2>5. \A g \in DOMAIN files' : files'[g].project \in DOMAIN projects'
    BY <1>a, <2>1, <2>2
  <2>6. \A g, h \in DOMAIN files' :
          files'[g].project = files'[h].project /\ files'[g].path = files'[h].path => g = h
    <3>1. \A g \in DOMAIN files \ {f} : ~(/\ files'[g].project = files'[f].project
                                          /\ files'[g].path = files'[f].path)
      BY <2>1, <2>2, <2>4
    <3>2. \A g, h \in DOMAIN files \ {f} :
            files'[g].project = files'[h].project /\ files'[g].path = files'[h].path => g = h
      BY <1>a, <2>1
    <3> QED
      BY <2>1, <3>1, <3>2
  <2> QED
    BY <1>0, <1>a, <2>1, <2>3, <2>5, <2>6 DEF ProjectsTypeOK
<1>19. ASSUME NEW p \in DOMAIN projects, handleRestoreProject(p) PROVE ProjectsTypeOK'
  <2>1. DOMAIN projects' = DOMAIN projects /\ projects' \in [DOMAIN projects -> Project]
    BY <1>19, <1>a DEF handleRestoreProject, Project
  <2> QED
    BY <1>4, <1>19, <2>1 DEF handleRestoreProject
<1>20. ASSUME NEW p \in DOMAIN projects, handlePermanentDeleteProject(p) PROVE ProjectsTypeOK'
  BY <1>0, <1>20, <1>a DEF handlePermanentDeleteProject, Restrict, FilesOf, ProjectsTypeOK
<1> QED
  BY <1>5, <1>6, <1>7, <1>8, <1>9, <1>12, <1>14, <1>15, <1>16, <1>17, <1>18, <1>19, <1>20,
     <1>b DEF ProjectsNext, Continued

-----------------------------------------------------------------------------
(* The kinds of steps, by what they do to the rows.                         *)

\* Nothing is written.
LEMMA NothingWritten ==
  ASSUME NEW r \in Calls, Asked(r) \/ copyProject(r) \/ ListFiles(r) \/ Copied(r) \/ Abandoned(r)
  PROVE  UNCHANGED rows
BY DEF Asked, copyProject, ListFiles, Copied, Abandoned, handleCreateProject, handleImportZip,
   handleDuplicateProject, handleUseTemplate, handleUploadAsset, handlePublishTemplate, handleDeleteFile,
   handleRestoreVersion, rows

\* A project is inserted.
LEMMA ProjectStep ==
  ASSUME ProjectsTypeOK, NEW r \in Calls, CreateProject(r) \/ CopyRow(r)
  PROVE  /\ \E main \in Paths : ProjectAdded(call[r].user, main, call[r].flag)
         /\ UNCHANGED <<files, lastFile>>
<1>1. call[r].flag \in BOOLEAN /\ call[r].main \in Paths /\ MainTyp \in Paths
  BY ProjectConstants DEF ProjectsTypeOK, Call
<1> QED
  BY <1>1, ProjectInserted DEF CreateProject, CopyRow

\* A file is inserted by a request that fills a project, or nothing is.
LEMMA FillingStep ==
  ASSUME ProjectsTypeOK, NEW r \in Calls, CreateTextFile(r) \/ CopyFile(r) \/ ImportEntry(r)
  PROVE  \/ UNCHANGED rows
         \/ /\ call[r].target \in DOMAIN projects /\ UNCHANGED <<projects, lastProject>>
            /\ \E path \in Paths, asset \in BOOLEAN : FileAdded(call[r].target, path, asset, FALSE)
<1>1. MainTyp \in Paths /\ \A e \in call[r].list : e.path \in Paths /\ e.asset \in BOOLEAN
  BY ProjectConstants DEF ProjectsTypeOK, Call, Entry
<1> QED
  BY <1>1, FileInserted DEF CreateTextFile, CopyFile, ImportEntry, CanInsert, rows

\* What a project in the trash loses.
LEMMA Trashed ==
  ASSUME ProjectsTypeOK, NEW p \in DOMAIN projects, SoftDelete(p)
  PROVE  /\ DOMAIN projects' = DOMAIN projects /\ Live' = Live \ {p}
         /\ \A q \in DOMAIN projects \ {p} : projects'[q] = projects[q]
         /\ projects'[p].owner = projects[p].owner /\ projects'[p].main = projects[p].main
         /\ projects'[p].template = projects[p].template /\ projects'[p].deleted
         /\ ~projects'[p].checked
         /\ DOMAIN files' = DOMAIN files
         /\ \A f \in DOMAIN files :
              /\ files'[f].project = files[f].project /\ files'[f].path = files[f].path
              /\ files'[f].asset = files[f].asset
              /\ files'[f].checked <=> files[f].checked /\ files[f].project # p
<1>1. DOMAIN projects' = DOMAIN projects /\ \A q \in DOMAIN projects \ {p} : projects'[q] = projects[q]
  BY DEF SoftDelete, ProjectsTypeOK
<1>2. /\ projects'[p].owner = projects[p].owner /\ projects'[p].main = projects[p].main
      /\ projects'[p].template = projects[p].template /\ projects'[p].deleted
      /\ ~projects'[p].checked
  BY DEF SoftDelete, ProjectsTypeOK, Project
<1>3. Live' = Live \ {p}
  BY <1>1, <1>2 DEF Live
<1>4. ASSUME NEW f \in DOMAIN files
      PROVE  /\ files'[f].project = files[f].project /\ files'[f].path = files[f].path
             /\ files'[f].asset = files[f].asset
             /\ files'[f].checked <=> files[f].checked /\ files[f].project # p
  <2> DEFINE checked == files[f].checked /\ files[f].project # p
  <2>1. files'[f] = [files[f] EXCEPT !.checked = checked] /\ files[f] \in File
    BY DEF SoftDelete, ProjectsTypeOK
  <2> HIDE DEF checked
  <2>2. /\ files'[f].project = files[f].project /\ files'[f].path = files[f].path
        /\ files'[f].asset = files[f].asset /\ files'[f].checked = checked
    BY <2>1 DEF File
  <2> QED
    BY <2>2, Zenon DEF checked
<1>5. DOMAIN files' = DOMAIN files
  BY DEF SoftDelete
<1> QED
  BY <1>1, <1>2, <1>3, <1>4, <1>5

\* An import ends: the project goes to the trash, gets another main file, or stays.
LEMMA ImportedStep ==
  ASSUME ProjectsTypeOK, NEW r \in Calls, Imported(r)
  PROVE  /\ UNCHANGED <<lastProject, lastFile>>
         /\ \/ UNCHANGED rows /\ Return(r)
            \/ call[r].target \in DOMAIN projects /\ SoftDelete(call[r].target) /\ Return(r)
            \/ /\ call[r].target \in DOMAIN projects /\ UNCHANGED files
               /\ \E path \in Paths : projects' = [projects EXCEPT ![call[r].target].main = path]
               /\ call' = [Noted(call[r].target, {"delete"}) EXCEPT ![r] = NoCall]
<1>1. {e.path : e \in {d \in call[r].done : ~d.asset}} \subseteq Paths
  BY DEF ProjectsTypeOK, Call, Entry
<1> QED
  BY <1>1 DEF Imported, rows

\* Another main file.
LEMMA MainSet ==
  ASSUME ProjectsTypeOK, NEW p \in DOMAIN projects, NEW path \in Paths,
         projects' = [projects EXCEPT ![p].main = path]
  PROVE  /\ DOMAIN projects' = DOMAIN projects /\ Live' = Live
         /\ \A q \in DOMAIN projects :
              /\ projects'[q].owner = projects[q].owner /\ projects'[q].template = projects[q].template
              /\ projects'[q].deleted = projects[q].deleted /\ projects'[q].checked = projects[q].checked
              /\ q # p => projects'[q] = projects[q]
<1>1. DOMAIN projects' = DOMAIN projects
      /\ \A q \in DOMAIN projects :
              /\ projects'[q].owner = projects[q].owner /\ projects'[q].template = projects[q].template
              /\ projects'[q].deleted = projects[q].deleted /\ projects'[q].checked = projects[q].checked
              /\ q # p => projects'[q] = projects[q]
  BY DEF ProjectsTypeOK, Project
<1> QED
  BY <1>1 DEF Live

LEMMA CheckedStep ==
  ASSUME ProjectsTypeOK, CheckedIsLive, ProjectsNext
  PROVE  CheckedIsLive'
<1>a. /\ projects \in [DOMAIN projects -> Project] /\ files \in [DOMAIN files -> File]
      /\ \A f \in DOMAIN files : files[f].project \in DOMAIN projects
  BY DEF ProjectsTypeOK
<1>1. ASSUME UNCHANGED rows PROVE CheckedIsLive'
  BY <1>1 DEF CheckedIsLive, rows, Live
<1>2. ASSUME NEW r \in Calls, CreateProject(r) \/ CopyRow(r) PROVE CheckedIsLive'
  <2>1. PICK main \in Paths : ProjectAdded(call[r].user, main, call[r].flag)
    BY <1>2, ProjectStep
  <2>2. UNCHANGED files
    BY <1>2, ProjectStep
  <2>3. Live \subseteq Live'
    BY <1>a, <2>1 DEF ProjectAdded, Live
  <2> QED
    BY <2>1, <2>2, <2>3 DEF ProjectAdded, CheckedIsLive
<1>3. ASSUME NEW p, NEW path, NEW asset, FileAdded(p, path, asset, FALSE), UNCHANGED projects
      PROVE  CheckedIsLive'
  BY <1>3 DEF FileAdded, CheckedIsLive, Live
<1>4. ASSUME NEW r \in Calls, CreateTextFile(r) \/ CopyFile(r) \/ ImportEntry(r)
      PROVE  CheckedIsLive'
  BY <1>1, <1>3, <1>4, FillingStep
<1>5. ASSUME NEW r \in Calls, SetProjectTemplate(r) PROVE CheckedIsLive'
  <2>1. /\ DOMAIN projects' = DOMAIN projects /\ UNCHANGED files
        /\ \A p \in DOMAIN projects : \/ projects'[p] = projects[p]
                                      \/ ~projects'[p].checked /\ projects'[p].deleted = projects[p].deleted
    BY <1>5, <1>a DEF SetProjectTemplate, Project
  <2>2. Live' = Live
    BY <2>1 DEF Live
  <2> QED
    BY <2>1, <2>2 DEF CheckedIsLive
<1>6. ASSUME NEW p \in DOMAIN projects, SoftDelete(p) PROVE CheckedIsLive'
  BY <1>6, Trashed DEF CheckedIsLive
<1>7. ASSUME NEW p \in DOMAIN projects, NEW path \in Paths, UNCHANGED files,
             projects' = [projects EXCEPT ![p].main = path]
      PROVE  CheckedIsLive'
  BY <1>7, MainSet DEF CheckedIsLive
<1>8. ASSUME NEW r \in Calls, Imported(r) PROVE CheckedIsLive'
  BY <1>1, <1>6, <1>7, <1>8, ImportedStep
<1>9. ASSUME NEW r \in Calls, CreateAssetFile(r) PROVE CheckedIsLive'
  <2> DEFINE p       == call[r].target
             checked == call[r].flag /\ p \in Live
  <2>1. /\ p \in DOMAIN projects /\ call[r].main \in Paths /\ call[r].main \notin PathsOf(p)
        /\ checked \in BOOLEAN /\ NewFile(p, call[r].main, TRUE, checked) /\ UNCHANGED projects
    BY <1>9 DEF CreateAssetFile, CanInsert, ProjectsTypeOK, Call
  <2>2. checked => p \in Live
    OBVIOUS
  <2> HIDE DEF checked
  <2>3. FileAdded(p, call[r].main, TRUE, checked)
    BY <2>1, FileInserted
  <2> QED
    BY <2>1, <2>2, <2>3 DEF FileAdded, CheckedIsLive, Live
<1>10. ASSUME NEW r \in Calls, DeleteFile(r) PROVE CheckedIsLive'
  BY <1>10 DEF DeleteFile, Restrict, CheckedIsLive, Live
<1>11. ASSUME NEW p \in Live, NEW path \in Paths, handleCreateFile(p, path) PROVE CheckedIsLive'
  BY <1>3, <1>11, FileInserted DEF handleCreateFile, CanInsert
<1>12. ASSUME NEW f \in DOMAIN files, NEW path \in Paths, handleRenameFile(f, path) PROVE CheckedIsLive'
  <2>1. /\ DOMAIN files' = DOMAIN files /\ UNCHANGED projects
        /\ \A g \in DOMAIN files : /\ files'[g].project = files[g].project
                                   /\ files'[g].asset = files[g].asset
                                   /\ files'[g].checked = files[g].checked
    BY <1>12, <1>a DEF handleRenameFile, File
  <2> QED
    BY <2>1 DEF CheckedIsLive, Live
<1>13. ASSUME NEW p \in DOMAIN projects, handleRestoreProject(p) PROVE CheckedIsLive'
  <2>1. /\ DOMAIN projects' = DOMAIN projects /\ UNCHANGED files /\ projects[p].deleted
        /\ \A q \in DOMAIN projects \ {p} : projects'[q] = projects[q]
        /\ projects'[p].checked = projects[p].checked
    BY <1>13, <1>a DEF handleRestoreProject, Project
  <2>2. Live \subseteq Live' /\ ~projects[p].checked
    BY <2>1 DEF Live, CheckedIsLive
  <2> QED
    BY <2>1, <2>2 DEF CheckedIsLive
<1>14. ASSUME NEW p \in DOMAIN projects, handlePermanentDeleteProject(p) PROVE CheckedIsLive'
  BY <1>14, <1>a DEF handlePermanentDeleteProject, Restrict, FilesOf, CheckedIsLive, Live
<1>15. ASSUME NEW id, files' = Restrict(files, DOMAIN files \ {id}), UNCHANGED projects
       PROVE  CheckedIsLive'
  BY <1>15 DEF Restrict, CheckedIsLive, Live
<1>16. ASSUME NEW r \in Calls, Restore(r) PROVE CheckedIsLive'
  BY <1>1, <1>3, <1>15, <1>16, RestoringStep DEF Listed
<1> QED
  BY <1>1, <1>2, <1>4, <1>5, <1>6, <1>7, <1>8, <1>9, <1>10, <1>11, <1>12, <1>13, <1>14, <1>16,
     NothingWritten DEF ProjectsNext, Continued, handleDeleteProject, handleUpdateProject, Live

-----------------------------------------------------------------------------
(* Requests.                                                                *)

\* A request that is not the one that takes the step keeps all but, sometimes, its flag.
Same(q) ==
  /\ call'[q].op = call[q].op /\ call'[q].step = call[q].step /\ call'[q].user = call[q].user
  /\ call'[q].target = call[q].target /\ call'[q].file = call[q].file
  /\ call'[q].list = call[q].list /\ call'[q].done = call[q].done
  /\ call'[q].current = call[q].current
  /\ call[q].flag => call'[q].flag
  /\ \/ call'[q].flag = call[q].flag
     \/ call[q].op \in {"publish", "delete", "version"} /\ call[q].target > 0

LEMMA NotedIsSame ==
  ASSUME ProjectsTypeOK, NEW p \in Nat \ {0}, NEW ops \in SUBSET {"publish", "delete", "version"},
         NEW q \in Calls, call'[q] = Noted(p, ops)[q]
  PROVE  Same(q) /\ (call[q].op \in ops /\ call[q].target = p => call'[q].flag)
<1>1. call[q] \in Call
  BY DEF ProjectsTypeOK
<1>2. CASE call[q].op \in ops /\ call[q].target = p
  <2>1. call'[q] = [call[q] EXCEPT !.flag = TRUE]
    BY <1>2 DEF Noted
  <2>2. /\ call'[q].op = call[q].op /\ call'[q].step = call[q].step /\ call'[q].user = call[q].user
        /\ call'[q].target = call[q].target /\ call'[q].file = call[q].file
        /\ call'[q].list = call[q].list /\ call'[q].done = call[q].done
        /\ call'[q].current = call[q].current
        /\ call'[q].flag
    BY <1>1, <2>1 DEF Call
  <2>3. p > 0
    OBVIOUS
  <2>4. call[q].op \in {"publish", "delete", "version"} /\ call[q].target > 0
    BY <1>2, <2>3
  <2> QED
    BY <2>2, <2>4 DEF Same
<1>3. CASE ~(call[q].op \in ops /\ call[q].target = p)
  BY <1>3 DEF Noted, Same
<1> QED
  BY <1>2, <1>3

\* Whom a step is about, and what becomes of the other requests.
LEMMA OthersSame ==
  ASSUME ProjectsTypeOK, NEW r \in Calls, Asked(r) \/ Continued(r) \/ Abandoned(r),
         \A q \in Calls : Underway(q)
  PROVE  \A q \in Calls \ {r} : Same(q)
<1>0. call \in [Calls -> Call]
  BY DEF ProjectsTypeOK
<1>1. ASSUME \A q \in Calls \ {r} : call'[q] = call[q] PROVE \A q \in Calls \ {r} : Same(q)
  BY <1>1 DEF Same
<1>2. ASSUME Return(r) PROVE \A q \in Calls \ {r} : Same(q)
  BY <1>0, <1>1, <1>2 DEF Return
<1>3. ASSUME NEW p \in Nat \ {0}, NEW ops \in SUBSET {"publish", "delete", "version"}, NEW next,
             call' = [Noted(p, ops) EXCEPT ![r] = next]
      PROVE  \A q \in Calls \ {r} : Same(q)
  <2>1. \A q \in Calls \ {r} : call'[q] = Noted(p, ops)[q]
    BY <1>3 DEF Noted
  <2> QED
    BY <2>1, NotedIsSame
<1>4. CASE Asked(r)
  <2>1. PICK asked : Admit(r, asked)
    BY <1>4 DEF Asked, handleCreateProject, handleImportZip, handleDuplicateProject, handleUseTemplate,
       handleUploadAsset, handlePublishTemplate, handleDeleteFile,
       handleRestoreVersion
  <2> QED
    BY <1>0, <1>1, <2>1 DEF Admit
<1>5. CASE CreateProject(r)
  BY <1>0, <1>1, <1>5 DEF CreateProject
<1>6. CASE copyProject(r) \/ CopyRow(r) \/ ListFiles(r) \/ CopyFile(r) \/ Copied(r) \/ ImportEntry(r)
  BY <1>0, <1>1, <1>2, <1>6 DEF copyProject, CopyRow, ListFiles, CopyFile, Copied, ImportEntry
<1>7. CASE CreateTextFile(r) \/ SetProjectTemplate(r) \/ Abandoned(r)
  BY <1>2, <1>7 DEF CreateTextFile, SetProjectTemplate, Abandoned
<1>8. Doing(r, "asset") \/ Doing(r, "delete") \/ Doing(r, "entries") => call[r].target \in Nat \ {0}
  BY <1>0, ProjectConstants DEF Doing, Underway, Filling, Call
<1>9. CASE Imported(r)
  <2>1. Doing(r, "entries")
    BY <1>9 DEF Imported
  <2> QED
    BY <1>2, <1>3, <1>8, <1>9, <2>1, ImportedStep
<1>10. CASE CreateAssetFile(r) \/ DeleteFile(r)
  <2>1. /\ call' = [Noted(call[r].target, {"publish"}) EXCEPT ![r] = NoCall]
        /\ Doing(r, "asset") \/ Doing(r, "delete")
    BY <1>10 DEF CreateAssetFile, DeleteFile
  <2>2. call[r].target \in Nat \ {0}
    BY <1>8, <2>1
  <2> QED
    BY <1>3, <2>1, <2>2
<1>11. CASE Restore(r)
  <2>1. call[r].target \in Nat \ {0}
    <3>1. call[r].step \in VersionSteps /\ Underway(r) /\ call[r] \in Call
      BY <1>0, <1>11, RestoringStep
    <3>2. call[r].op = "version" /\ call[r].target > 0
      BY <3>1 DEF Underway
    <3> QED
      BY <3>1, <3>2, ProjectConstants DEF Call
  <2>2. Listed(r) => \A q \in Calls \ {r} : call'[q] = call[q]
    BY <1>0 DEF Listed
  <2>3. \A next : call' = [call EXCEPT ![r] = next] => \A q \in Calls \ {r} : call'[q] = call[q]
    BY <1>0
  <2> QED
    BY <1>1, <1>2, <1>3, <1>11, <2>1, <2>2, <2>3, RestoringStep
<1> QED
  BY <1>4, <1>5, <1>6, <1>7, <1>9, <1>10, <1>11 DEF Continued

\* The steps that are no request's.
AtOnce ==
  \/ \E p \in Live : \/ handleDeleteProject(p)
                     \/ \E path \in Paths : handleCreateFile(p, path) \/ handleUpdateProject(p, path)
  \/ \E f \in DOMAIN files, path \in Paths :
       files[f].project \in Live /\ handleRenameFile(f, path)
  \/ \E p \in DOMAIN projects : handleRestoreProject(p) \/ handlePermanentDeleteProject(p)

LEMMA AllSame ==
  ASSUME ProjectsTypeOK, AtOnce
  PROVE  \A q \in Calls : Same(q)
<1>1. ASSUME NEW p \in Nat \ {0}, NEW ops \in SUBSET {"publish", "delete", "version"}, call' = Noted(p, ops)
      PROVE  \A q \in Calls : Same(q)
  BY <1>1, NotedIsSame
<1>2. ASSUME UNCHANGED call PROVE \A q \in Calls : Same(q)
  BY <1>2 DEF Same
<1>3. DOMAIN projects \subseteq Nat \ {0} /\ Live \subseteq Nat \ {0}
  BY ProjectConstants DEF ProjectsTypeOK, Live
<1> QED
  BY <1>1, <1>2, <1>3 DEF AtOnce, handleDeleteProject, handleCreateFile, handleUpdateProject,
     handleRenameFile, handleRestoreProject, handlePermanentDeleteProject

\* No identifier is taken back.
LEMMA Growing ==
  ASSUME ProjectsTypeOK, ProjectsNext
  PROVE  /\ lastProject \in Nat /\ lastProject' \in Nat /\ lastProject <= lastProject'
         /\ lastFile \in Nat /\ lastFile' \in Nat /\ lastFile <= lastFile'
<1>1. /\ lastProject \in Nat /\ lastProject' \in Nat /\ lastFile \in Nat /\ lastFile' \in Nat
  BY ProjectsTypeStep, ProjectConstants DEF ProjectsTypeOK
<1>2. ASSUME NEW r \in Calls, CreateProject(r) \/ CopyRow(r)
      PROVE  lastProject' = lastProject + 1 /\ lastFile' = lastFile
  BY <1>2 DEF CreateProject, CopyRow, NewProject
<1>3. ASSUME NEW r \in Calls, CreateTextFile(r) \/ CopyFile(r) \/ ImportEntry(r) \/ CreateAssetFile(r)
      PROVE  lastProject' = lastProject /\ lastFile' \in {lastFile, lastFile + 1}
  BY <1>3 DEF CreateTextFile, CopyFile, ImportEntry, CreateAssetFile, NewFile
<1>4. ASSUME NEW r \in Calls, SetProjectTemplate(r) \/ Imported(r) \/ DeleteFile(r)
      PROVE  lastProject' = lastProject /\ lastFile' = lastFile
  BY <1>4 DEF SetProjectTemplate, Imported, DeleteFile
<1>5. ASSUME AtOnce PROVE lastProject' = lastProject /\ lastFile' \in {lastFile, lastFile + 1}
  BY <1>5 DEF AtOnce, handleDeleteProject, handleCreateFile, handleUpdateProject,
     handleRenameFile, handleRestoreProject, handlePermanentDeleteProject, NewFile
<1>6. ASSUME UNCHANGED rows PROVE lastProject' = lastProject /\ lastFile' = lastFile
  BY <1>6 DEF rows
<1>7. ASSUME NEW r \in Calls, Restore(r)
      PROVE  lastProject' = lastProject /\ lastFile' \in {lastFile, lastFile + 1}
  BY <1>6, <1>7, RestoringStep DEF Listed, FileAdded
<1> QED
  BY <1>1, <1>2, <1>3, <1>4, <1>5, <1>6, <1>7, NothingWritten DEF ProjectsNext, Continued, AtOnce

LEMMA OthersUnderway ==
  ASSUME ProjectsTypeOK, ProjectsNext, NEW q \in Calls, Underway(q), Same(q)
  PROVE  Underway(q)' /\ (Filling(q)' => Filling(q) /\ call'[q].target = call[q].target)
<1>1. call[q] \in Call /\ call[q].target \in Nat /\ call[q].file \in Nat
  BY ProjectConstants DEF ProjectsTypeOK, Call
<1> QED
  BY <1>1, Growing DEF Underway, Same, Filling

\* What a request becomes by its own step; only what it inserts gives it another target.
LEMMA OwnUnderway ==
  ASSUME ProjectsTypeOK, NEW r \in Calls, Asked(r) \/ Continued(r) \/ Abandoned(r), ProjectsNext,
         \A q \in Calls : Underway(q)
  PROVE  /\ Underway(r)'
         /\ Filling(r)' => \/ Filling(r) /\ call'[r].target = call[r].target
                           \/ lastProject' = lastProject + 1 /\ call'[r].target = lastProject'
<1>0. /\ call \in [Calls -> Call] /\ call[r] \in Call /\ Underway(r)
      /\ call[r].target \in Nat /\ call[r].file \in Nat
  BY ProjectConstants DEF ProjectsTypeOK, Call
<1>1. ASSUME call'[r] = NoCall PROVE Underway(r)' /\ ~Filling(r)'
  BY <1>1, Growing DEF NoCall, Underway, Filling, VersionSteps
<1>2. CASE Return(r) \/ \E p, ops : call' = [Noted(p, ops) EXCEPT ![r] = NoCall]
  <2>1. call'[r] = NoCall
    BY <1>0, <1>2, NotedTyped DEF Return
  <2> QED
    BY <1>1, <2>1
<1>3. ASSUME NEW asked \in Call, Admit(r, asked), asked.done = {}, asked.target <= lastProject,
             asked.file <= lastFile,
             \/ /\ asked.op \in {"create", "import"} /\ asked.step = "insert" /\ asked.target = 0
             \/ /\ asked.op \in {"duplicate", "use"} /\ asked.step = "source" /\ asked.target = 0
             \/ /\ asked.op = "publish" /\ asked.step = "source" /\ asked.target = 0 /\ ~asked.flag
             \/ asked.op = "upload" /\ asked.step = "asset" /\ asked.target > 0
             \/ asked.op = "delete" /\ asked.step = "delete" /\ asked.target > 0
             \/ /\ asked.op = "version" /\ asked.step = "current" /\ asked.target > 0
                /\ asked.list \in Manifests
      PROVE  Underway(r)' /\ ~Filling(r)'
  <2>1. call'[r] = asked /\ asked.target \in Nat /\ asked.file \in Nat
    BY <1>0, <1>3, ProjectConstants DEF Admit, Call
  <2> HIDE <1>3
  <2>2. ~Filling(r)'
    BY <1>3, <2>1 DEF Filling
  <2> QED
    BY <1>3, <2>1, <2>2, Growing DEF Underway, Filling, VersionSteps
<1>4. CASE Asked(r)
  <2>0. /\ DOMAIN projects \subseteq 1 .. lastProject /\ DOMAIN files \subseteq 1 .. lastFile
        /\ lastProject \in 0 .. MaxProjects /\ lastFile \in 0 .. MaxFiles
        /\ MaxProjects \in Nat /\ MaxFiles \in Nat
        /\ \A p \in Live : p \in 1 .. lastProject /\ p \in 0 .. MaxProjects /\ projects[p].owner \in Users
        /\ lastProject \in Nat /\ lastFile \in Nat
    BY ProjectConstants DEF ProjectsTypeOK, Live, Project
  <2>1. ASSUME NEW u \in Users, handleCreateProject(r, u) PROVE Underway(r)' /\ ~Filling(r)'
    <3> DEFINE asked == [NoCall EXCEPT !.op = "create", !.step = "insert",
                                       !.user = u, !.flag = u \notin Exempt]
    <3>1. asked \in Call
      BY NoCallTyped, CallChanged DEF CallOps, CallSteps
    <3>2. /\ asked.done = {} /\ asked.target = 0 /\ asked.file = 0
          /\ asked.op = "create" /\ asked.step = "insert"
      BY DEF NoCall
    <3>3. Admit(r, asked)
      BY <2>1 DEF handleCreateProject
    <3> HIDE DEF asked
    <3> QED
      BY <1>3, <2>0, <3>1, <3>2, <3>3
  <2>2. ASSUME NEW u \in Users, NEW zip \in Zips, handleImportZip(r, u, zip)
        PROVE  Underway(r)' /\ ~Filling(r)'
    <3> DEFINE asked == [NoCall EXCEPT !.op = "import", !.step = "insert",
                                       !.user = u, !.list = zip, !.flag = u \notin Exempt]
    <3>0. zip \in SUBSET Entry
      BY ProjectConstants
    <3>1. asked \in Call
      BY <3>0, NoCallTyped, CallChanged DEF CallOps, CallSteps
    <3>2. /\ asked.done = {} /\ asked.target = 0 /\ asked.file = 0
          /\ asked.op = "import" /\ asked.step = "insert"
      BY DEF NoCall
    <3>3. Admit(r, asked)
      BY <2>2 DEF handleImportZip
    <3> HIDE DEF asked
    <3> QED
      BY <1>3, <2>0, <3>1, <3>2, <3>3
  <2>3. ASSUME NEW u \in Users, NEW p \in Live, NEW op \in {"duplicate", "use"},
               Admit(r, [NoCall EXCEPT !.op = op, !.step = "source",
                                       !.user = u, !.source = p, !.flag = u \notin Exempt])
        PROVE  Underway(r)' /\ ~Filling(r)'
    <3> DEFINE asked == [NoCall EXCEPT !.op = op, !.step = "source",
                                       !.user = u, !.source = p, !.flag = u \notin Exempt]
    <3>1. asked \in Call
      BY <2>0, NoCallTyped, CallChanged DEF CallOps, CallSteps
    <3>2. /\ asked.done = {} /\ asked.target = 0 /\ asked.file = 0
          /\ asked.op = op /\ asked.step = "source"
      BY DEF NoCall
    <3>3. Admit(r, asked)
      BY <2>3
    <3> HIDE DEF asked
    <3> QED
      BY <1>3, <2>0, <3>1, <3>2, <3>3
  <2>4. ASSUME NEW u \in Users, NEW p \in Live, NEW path \in Paths, handleUploadAsset(r, u, p, path)
        PROVE  Underway(r)' /\ ~Filling(r)'
    <3> DEFINE asked == [NoCall EXCEPT !.op = "upload", !.step = "asset", !.user = u,
                                       !.target = p, !.main = path, !.flag = u \notin Exempt]
    <3>1. asked \in Call
      BY <2>0, NoCallTyped, CallChanged DEF CallOps, CallSteps
    <3>2. /\ asked.done = {} /\ asked.target = p /\ asked.file = 0
          /\ asked.op = "upload" /\ asked.step = "asset"
      BY DEF NoCall
    <3>3. Admit(r, asked)
      BY <2>4 DEF handleUploadAsset
    <3> HIDE DEF asked
    <3>4. p > 0 /\ p <= lastProject /\ 0 <= lastFile
      BY <2>0
    <3> QED
      BY <1>3, <3>1, <3>2, <3>3, <3>4
  <2>5. ASSUME NEW p \in Live, handlePublishTemplate(r, p) PROVE Underway(r)' /\ ~Filling(r)'
    <3> DEFINE u     == projects[p].owner
               asked == [NoCall EXCEPT !.op = "publish", !.step = "source", !.user = u, !.source = p]
    <3>0. u \in Users
      BY <2>0
    <3>3. Admit(r, asked)
      BY <2>5 DEF handlePublishTemplate
    <3> HIDE DEF u
    <3>1. asked \in Call
      BY <2>0, <3>0, NoCallTyped, CallChanged DEF CallOps, CallSteps
    <3>2. /\ asked.done = {} /\ asked.target = 0 /\ asked.file = 0
          /\ asked.op = "publish" /\ asked.step = "source" /\ ~asked.flag
      BY DEF NoCall
    <3> HIDE DEF asked
    <3> QED
      BY <1>3, <2>0, <3>1, <3>2, <3>3
  <2>6. ASSUME NEW f \in DOMAIN files, files[f].project \in Live, handleDeleteFile(r, f)
        PROVE  Underway(r)' /\ ~Filling(r)'
    <3> DEFINE p     == files[f].project
               asked == [NoCall EXCEPT !.op = "delete", !.step = "delete", !.target = p, !.file = f]
    <3>0. /\ p \in 0 .. MaxProjects /\ p > 0 /\ p <= lastProject
          /\ f \in 0 .. MaxFiles /\ f <= lastFile
      BY <2>0, <2>6
    <3>3. Admit(r, asked)
      BY <2>6 DEF handleDeleteFile
    <3> HIDE DEF p
    <3>1. asked \in Call
      BY <3>0, NoCallTyped, CallChanged DEF CallOps, CallSteps
    <3>2. /\ asked.done = {} /\ asked.target = p /\ asked.file = f
          /\ asked.op = "delete" /\ asked.step = "delete"
      BY DEF NoCall
    <3> HIDE DEF asked
    <3> QED
      BY <1>3, <3>0, <3>1, <3>2, <3>3
  <2>8. ASSUME NEW p \in Live, NEW manifest \in Manifests, handleRestoreVersion(r, p, manifest)
        PROVE  Underway(r)' /\ ~Filling(r)'
    <3> DEFINE asked == [NoCall EXCEPT !.op = "version", !.step = "current", !.target = p,
                                       !.list = manifest]
    <3>0. manifest \in SUBSET Entry
      BY ProjectConstants
    <3>1. asked \in Call
      BY <2>0, <3>0, NoCallTyped, CallChanged DEF CallOps, CallSteps
    <3>2. /\ asked.done = {} /\ asked.target = p /\ asked.file = 0
          /\ asked.op = "version" /\ asked.step = "current" /\ asked.list = manifest
      BY DEF NoCall
    <3>3. Admit(r, asked)
      BY <2>8 DEF handleRestoreVersion
    <3> HIDE DEF asked
    <3>4. p > 0 /\ p <= lastProject /\ 0 <= lastFile
      BY <2>0
    <3> QED
      BY <1>3, <3>1, <3>2, <3>3, <3>4
  <2>7. Underway(r)' /\ ~Filling(r)'
    BY <1>4, <2>1, <2>2, <2>3, <2>4, <2>5, <2>6, <2>8 DEF Asked, handleDuplicateProject, handleUseTemplate
  <2> QED
    BY <2>7
<1>5. CASE CreateProject(r)
  <2> DEFINE step == IF call[r].op = "import" THEN "entries" ELSE "main"
             p    == lastProject + 1
  <2>1. /\ call'[r] = [call[r] EXCEPT !.target = p, !.step = step]
        /\ lastProject' = p /\ call[r].op \in {"create", "import"} /\ UNCHANGED lastFile
        /\ call[r].step = "insert"
    BY <1>0, <1>5 DEF CreateProject, NewProject, Doing
  <2>2. /\ call'[r].target = p /\ call'[r].step = step /\ call'[r].op = call[r].op
        /\ call'[r].file = call[r].file
    BY <1>0, <2>1 DEF Call
  <2>3. p > 0 /\ p = lastProject + 1
    BY Growing
  <2> HIDE DEF p
  <2> QED
    BY <1>0, <2>1, <2>2, <2>3, Growing DEF Underway, Filling, VersionSteps
<1>6. CASE copyProject(r)
  <2>1. ASSUME NEW main, call' = [call EXCEPT ![r].step = "insert", ![r].main = main]
        PROVE  Underway(r)' /\ ~Filling(r)'
    <3>1. call'[r] = [call[r] EXCEPT !.step = "insert", !.main = main]
      BY <1>0, <2>1
    <3>2. /\ call'[r].target = call[r].target /\ call'[r].step = "insert" /\ call'[r].op = call[r].op
          /\ call'[r].file = call[r].file /\ call'[r].done = call[r].done /\ call'[r].flag = call[r].flag
      BY <1>0, <3>1 DEF Call
    <3>3. call[r].step = "source"
      BY <1>6 DEF copyProject, Doing
    <3> QED
      BY <1>0, <3>2, <3>3, Growing DEF Underway, Filling, VersionSteps
  <2> QED
    BY <1>2, <1>6, <2>1 DEF copyProject
<1>7. CASE CopyRow(r)
  <2> DEFINE p == lastProject + 1
  <2>1. CASE ~Return(r)
    <3>1. /\ call' = [call EXCEPT ![r].step = "list", ![r].target = p]
          /\ lastProject' = p /\ call[r].op \notin {"create", "import"} /\ UNCHANGED lastFile
          /\ call[r].step = "insert"
      BY <1>7, <2>1 DEF CopyRow, NewProject, Doing
    <3>0. p > 0 /\ p = lastProject + 1
      BY Growing
    <3> HIDE DEF p
    <3>2. call'[r] = [call[r] EXCEPT !.step = "list", !.target = p]
      BY <1>0, <3>1
    <3>3. /\ call'[r].target = p /\ call'[r].step = "list" /\ call'[r].op = call[r].op
          /\ call'[r].file = call[r].file /\ call'[r].done = call[r].done
      BY <1>0, <3>2 DEF Call
    <3> QED
      BY <1>0, <3>0, <3>1, <3>3, Growing DEF Underway, Filling, VersionSteps
  <2> QED
    BY <1>2, <2>1
<1>8. CASE ListFiles(r)
  <2>1. PICK list : call' = [call EXCEPT ![r].step = "copy", ![r].list = list]
    BY <1>8 DEF ListFiles
  <2>2. call'[r] = [call[r] EXCEPT !.step = "copy", !.list = list]
    BY <1>0, <2>1
  <2>3. /\ call'[r].target = call[r].target /\ call'[r].step = "copy" /\ call'[r].op = call[r].op
        /\ call'[r].file = call[r].file
    BY <1>0, <2>2 DEF Call
  <2>4. call[r].step = "list"
    BY <1>8 DEF ListFiles, Doing
  <2> QED
    BY <1>0, <2>3, <2>4, Growing DEF Underway, Filling, VersionSteps
<1>9. CASE CopyFile(r) \/ ImportEntry(r)
  <2>1. ASSUME call'[r].step = call[r].step, call'[r].target = call[r].target, call'[r].op = call[r].op,
               call'[r].file = call[r].file, call[r].step \in {"copy", "entries"}
        PROVE  Underway(r)' /\ (Filling(r)' => Filling(r) /\ call'[r].target = call[r].target)
    BY <1>0, <2>1, Growing DEF Underway, Filling, VersionSteps
  <2>2. ASSUME NEW e, \/ call' = [call EXCEPT ![r].done = @ \cup {e}]
                      \/ call' = [call EXCEPT ![r].list = @ \ {e}]
        PROVE  /\ call'[r].step = call[r].step /\ call'[r].target = call[r].target
               /\ call'[r].op = call[r].op /\ call'[r].file = call[r].file
    BY <1>0, <2>2 DEF Call
  <2>3. call[r].step \in {"copy", "entries"}
    BY <1>9 DEF CopyFile, ImportEntry, Doing
  <2>4. \/ Return(r)
        \/ \E e : \/ call' = [call EXCEPT ![r].done = @ \cup {e}]
                  \/ call' = [call EXCEPT ![r].list = @ \ {e}]
    BY <1>9 DEF CopyFile, ImportEntry
  <2> QED
    BY <1>2, <2>1, <2>2, <2>3, <2>4
<1>10. CASE Copied(r)
  <2>1. CASE ~Return(r)
    <3>1. /\ call'[r] = [call[r] EXCEPT !.step = "publish"]
          /\ call[r].op = "publish" /\ call[r].step = "copy" /\ call[r].list = call[r].done
      BY <1>0, <1>10, <2>1 DEF Copied, Doing
    <3>2. /\ call'[r].target = call[r].target /\ call'[r].step = "publish" /\ call'[r].op = call[r].op
          /\ call'[r].file = call[r].file /\ call'[r].list = call[r].list /\ call'[r].done = call[r].done
      BY <1>0, <3>1 DEF Call
    <3> QED
      BY <1>0, <3>1, <3>2, Growing DEF Underway, Filling, VersionSteps
  <2> QED
    BY <1>2, <2>1
<1>11. CASE CreateTextFile(r) \/ SetProjectTemplate(r) \/ Abandoned(r)
  BY <1>2, <1>11 DEF CreateTextFile, SetProjectTemplate, Abandoned
<1>12. CASE Imported(r) \/ CreateAssetFile(r) \/ DeleteFile(r)
  BY <1>2, <1>12 DEF Imported, CreateAssetFile, DeleteFile
<1>13. CASE Restore(r)
  <2>0. call[r].step \in VersionSteps
    BY <1>13, RestoringStep
  <2>1. CASE Listed(r)
    <3>1. PICK current : call' = [call EXCEPT ![r].step = "restore", ![r].current = current,
                                             ![r].flag = FALSE]
      BY <2>1 DEF Listed
    <3>2. call'[r] = [call[r] EXCEPT !.step = "restore", !.current = current, !.flag = FALSE]
      BY <1>0, <3>1
    <3>3. /\ call'[r].step = "restore" /\ call'[r].op = call[r].op /\ call'[r].target = call[r].target
          /\ call'[r].file = call[r].file /\ call'[r].list = call[r].list
      BY <1>0, <3>2 DEF Call
    <3> QED
      BY <1>0, <2>0, <3>3, Growing DEF Underway, Filling, VersionSteps
  <2>2. ASSUME NEW next \in Call, Resumes(r, next), call'[r] = next
        PROVE  Underway(r)' /\ ~Filling(r)'
    BY <1>0, <2>0, <2>2, Growing DEF Resumes, Underway, Filling, VersionSteps
  <2>3. \A next \in Call : \/ call' = [call EXCEPT ![r] = next]
                           \/ call' = [Noted(call[r].target, {"publish"}) EXCEPT ![r] = next]
                           => call'[r] = next
    BY <1>0 DEF Noted
  <2> QED
    BY <1>2, <1>13, <2>1, <2>2, <2>3, RestoringStep
<1> QED
  BY <1>4, <1>5, <1>6, <1>7, <1>8, <1>9, <1>10, <1>11, <1>12, <1>13 DEF Continued

LEMMA UnderwayStep ==
  ASSUME ProjectsTypeOK, ProjectsNext, \A q \in Calls : Underway(q), OneFills
  PROVE  (\A q \in Calls : Underway(q)') /\ OneFills'
<1>1. ASSUME NEW r \in Calls, Asked(r) \/ Continued(r) \/ Abandoned(r)
      PROVE  (\A q \in Calls : Underway(q)') /\ OneFills'
  <2>1. \A q \in Calls \ {r} : Underway(q)' /\ (Filling(q)' => Filling(q) /\ call'[q].target = call[q].target)
    BY <1>1, OthersSame, OthersUnderway
  <2>2. /\ Underway(r)'
        /\ Filling(r)' => \/ Filling(r) /\ call'[r].target = call[r].target
                          \/ lastProject' = lastProject + 1 /\ call'[r].target = lastProject'
    BY <1>1, OwnUnderway
  <2>3. \A q \in Calls : call[q].target <= lastProject /\ call[q].target \in Nat
    BY ProjectConstants DEF Underway, ProjectsTypeOK, Call
  <2>4. \A q \in Calls \ {r} : Filling(q)' /\ Filling(r)' => call'[q].target # call'[r].target
    BY <2>1, <2>2, <2>3, Growing DEF OneFills
  <2>5. \A p, q \in Calls \ {r} : Filling(p)' /\ Filling(q)' /\ call'[p].target = call'[q].target => p = q
    BY <2>1 DEF OneFills
  <2> QED
    BY <2>1, <2>2, <2>4, <2>5 DEF OneFills
<1>2. CASE AtOnce
  <2>1. \A q \in Calls : Underway(q)' /\ (Filling(q)' => Filling(q) /\ call'[q].target = call[q].target)
    BY <1>2, AllSame, OthersUnderway
  <2> QED
    BY <2>1 DEF OneFills
<1> QED
  BY <1>1, <1>2 DEF ProjectsNext, AtOnce

-----------------------------------------------------------------------------
(* The rows a request has read.                                             *)

\* The requests that have read project p for op learn of the change, or end.
Marked(p, op) ==
  \A q \in Calls : call[q].op = op /\ call[q].target = p => call'[q] = NoCall \/ call'[q].flag

LEMMA NotedIsMarked ==
  ASSUME ProjectsTypeOK, NEW p, NEW ops, NEW op \in ops,
         \/ call' = Noted(p, ops)
         \/ \E r \in Calls : call' = [Noted(p, ops) EXCEPT ![r] = NoCall]
         \/ \E r \in Calls : \E next : call[r].op # op /\ call' = [Noted(p, ops) EXCEPT ![r] = next]
  PROVE  Marked(p, op)
<1>1. \A q \in Calls : call[q].op = op => call'[q] = NoCall \/ call'[q] = Noted(p, ops)[q]
  BY DEF Noted
<1>2. ASSUME NEW q \in Calls, call[q].op \in ops, call[q].target = p PROVE Noted(p, ops)[q].flag
  <2>1. Noted(p, ops)[q] = [call[q] EXCEPT !.flag = TRUE] /\ call[q] \in Call
    BY <1>2 DEF Noted, ProjectsTypeOK
  <2> QED
    BY <2>1 DEF Call
<1> QED
  BY <1>1, <1>2 DEF Marked

\* A row keeps its owner or its project; who has looked at its path, or at the main path,
\* to delete a file or to restore a version learns of a change.
RowsKept ==
  /\ DOMAIN projects' \subseteq DOMAIN projects \cup {lastProject + 1}
  /\ DOMAIN files' \subseteq DOMAIN files \cup {lastFile + 1}
  /\ \A p \in DOMAIN projects \cap DOMAIN projects' :
       /\ projects'[p].owner = projects[p].owner
       /\ projects'[p].main = projects[p].main \/ Marked(p, "delete")
  /\ \A f \in DOMAIN files \cap DOMAIN files' :
       /\ files'[f].project = files[f].project /\ files'[f].asset = files[f].asset
       /\ \/ files'[f].path = files[f].path
          \/ Marked(files[f].project, "delete") /\ Marked(files[f].project, "version")

LEMMA RowsStep ==
  ASSUME ProjectsTypeOK, ProjectsNext
  PROVE  RowsKept
<1>a. /\ projects \in [DOMAIN projects -> Project] /\ files \in [DOMAIN files -> File]
      /\ \A f \in DOMAIN files : files[f].project \in DOMAIN projects
  BY DEF ProjectsTypeOK
<1>1. ASSUME UNCHANGED rows PROVE RowsKept
  BY <1>1 DEF RowsKept, rows
<1>2. ASSUME NEW r \in Calls, CreateProject(r) \/ CopyRow(r) PROVE RowsKept
  BY <1>2, ProjectStep DEF RowsKept, ProjectAdded
<1>3. ASSUME NEW p, NEW path, NEW asset, NEW checked, FileAdded(p, path, asset, checked), UNCHANGED projects
      PROVE  RowsKept
  BY <1>3 DEF FileAdded, RowsKept
<1>4. ASSUME NEW r \in Calls, CreateTextFile(r) \/ CopyFile(r) \/ ImportEntry(r)
      PROVE  RowsKept
  BY <1>1, <1>3, <1>4, FillingStep
<1>5. ASSUME NEW r \in Calls, SetProjectTemplate(r) PROVE RowsKept
  <2>1. /\ DOMAIN projects' = DOMAIN projects /\ UNCHANGED files
        /\ \A p \in DOMAIN projects : projects'[p].owner = projects[p].owner /\ projects'[p].main = projects[p].main
    BY <1>5, <1>a DEF SetProjectTemplate, Project
  <2> QED
    BY <2>1 DEF RowsKept
<1>6. ASSUME NEW p \in DOMAIN projects, SoftDelete(p) PROVE RowsKept
  BY <1>6, Trashed DEF RowsKept
<1>7. ASSUME NEW p \in DOMAIN projects, NEW path \in Paths, UNCHANGED files,
             projects' = [projects EXCEPT ![p].main = path], Marked(p, "delete")
      PROVE  RowsKept
  BY <1>7, MainSet DEF RowsKept
<1>8. ASSUME NEW r \in Calls, Imported(r) PROVE RowsKept
  <2>1. call' = [Noted(call[r].target, {"delete"}) EXCEPT ![r] = NoCall] => Marked(call[r].target, "delete")
    BY NotedIsMarked
  <2> QED
    BY <1>1, <1>6, <1>7, <1>8, <2>1, ImportedStep
<1>9. ASSUME NEW r \in Calls, CreateAssetFile(r) PROVE RowsKept
  <2> DEFINE p       == call[r].target
             checked == call[r].flag /\ p \in Live
  <2>1. /\ p \in DOMAIN projects /\ call[r].main \in Paths /\ call[r].main \notin PathsOf(p)
        /\ checked \in BOOLEAN /\ NewFile(p, call[r].main, TRUE, checked) /\ UNCHANGED projects
    BY <1>9 DEF CreateAssetFile, CanInsert, ProjectsTypeOK, Call
  <2> HIDE DEF checked
  <2>3. FileAdded(p, call[r].main, TRUE, checked)
    BY <2>1, FileInserted
  <2> QED
    BY <1>3, <2>1, <2>3
<1>10. ASSUME NEW r \in Calls, DeleteFile(r) PROVE RowsKept
  BY <1>10 DEF DeleteFile, Restrict, RowsKept
<1>11. ASSUME NEW p \in Live, NEW path \in Paths, handleCreateFile(p, path) PROVE RowsKept
  BY <1>3, <1>11, FileInserted DEF handleCreateFile, CanInsert
<1>12. ASSUME NEW p \in Live, NEW path \in Paths, handleUpdateProject(p, path) PROVE RowsKept
  <2>1. Marked(p, "delete")
    BY <1>12, NotedIsMarked DEF handleUpdateProject
  <2> QED
    BY <1>7, <1>12, <2>1 DEF handleUpdateProject, Live
<1>13. ASSUME NEW f \in DOMAIN files, NEW path \in Paths, handleRenameFile(f, path) PROVE RowsKept
  <2>1. Marked(files[f].project, "delete") /\ Marked(files[f].project, "version")
    BY <1>13, NotedIsMarked DEF handleRenameFile
  <2>2. /\ DOMAIN files' = DOMAIN files /\ UNCHANGED projects
        /\ \A g \in DOMAIN files : /\ files'[g].project = files[g].project
                                   /\ files'[g].asset = files[g].asset
                                   /\ g # f => files'[g].path = files[g].path
    BY <1>13, <1>a DEF handleRenameFile, File
  <2> QED
    BY <2>1, <2>2 DEF RowsKept
<1>14. ASSUME NEW p \in DOMAIN projects, handleRestoreProject(p) PROVE RowsKept
  <2>1. /\ DOMAIN projects' = DOMAIN projects /\ UNCHANGED files
        /\ \A q \in DOMAIN projects : projects'[q].owner = projects[q].owner /\ projects'[q].main = projects[q].main
    BY <1>14, <1>a DEF handleRestoreProject, Project
  <2> QED
    BY <2>1 DEF RowsKept
<1>15. ASSUME NEW p \in DOMAIN projects, handlePermanentDeleteProject(p) PROVE RowsKept
  BY <1>15, <1>a DEF handlePermanentDeleteProject, Restrict, RowsKept
<1>16. ASSUME NEW id, files' = Restrict(files, DOMAIN files \ {id}), UNCHANGED projects PROVE RowsKept
  BY <1>16 DEF Restrict, RowsKept
<1>17. ASSUME NEW r \in Calls, Restore(r) PROVE RowsKept
  BY <1>1, <1>3, <1>16, <1>17, RestoringStep DEF Listed
<1> QED
  BY <1>1, <1>2, <1>4, <1>5, <1>6, <1>8, <1>9, <1>10, <1>11, <1>12, <1>13, <1>14, <1>15, <1>17,
     NothingWritten DEF ProjectsNext, Continued, handleDeleteProject, Live

LEMMA RestoresVersions ==
  ASSUME ProjectsTypeOK, NEW r \in Calls, Restore(r), Underway(r)
  PROVE  call[r].op = "version" /\ call[r].step \in VersionSteps
BY RestoringStep DEF Underway

\* What a restoration becomes by its own step.
LEMMA RestoringOwn ==
  ASSUME ProjectsTypeOK, NEW r \in Calls, Restore(r)
  PROVE  \/ call'[r] = NoCall
         \/ /\ UNCHANGED rows /\ call'[r].current = Listing(call[r].target)
            /\ call'[r].op = call[r].op /\ call'[r].target = call[r].target
         \/ Resumes(r, call'[r])
<1>0. call \in [Calls -> Call] /\ call[r] \in Call
  BY DEF ProjectsTypeOK
<1>1. ASSUME Listed(r)
      PROVE  /\ UNCHANGED rows /\ call'[r].current = Listing(call[r].target)
             /\ call'[r].op = call[r].op /\ call'[r].target = call[r].target
  <2> DEFINE current == Listing(call[r].target)
  <2>1. call' = [call EXCEPT ![r].step = "restore", ![r].current = current, ![r].flag = FALSE]
        /\ UNCHANGED rows
    BY <1>1 DEF Listed
  <2> HIDE DEF current
  <2>2. call'[r] = [call[r] EXCEPT !.step = "restore", !.current = current, !.flag = FALSE]
    BY <1>0, <2>1
  <2>3. call'[r].current = current /\ call'[r].op = call[r].op /\ call'[r].target = call[r].target
    BY <1>0, <2>2 DEF Call
  <2> QED
    BY <2>1, <2>3 DEF current
<1>2. ASSUME NEW next, Resumes(r, next), \/ call' = [call EXCEPT ![r] = next]
                                         \/ call' = [Noted(call[r].target, {"publish"}) EXCEPT ![r] = next]
      PROVE  Resumes(r, call'[r])
  <2>1. call'[r] = next
    BY <1>0, <1>2 DEF Noted
  <2> QED
    BY <1>2, <2>1
<1>3. Return(r) => call'[r] = NoCall
  BY <1>0 DEF Return
<1> QED
  BY <1>1, <1>2, <1>3, RestoringStep

\* A request that goes on stays what it is.
LEMMA GoesOn ==
  ASSUME ProjectsTypeOK, NEW r \in Calls, Continued(r) \/ Abandoned(r)
  PROVE  \/ call'[r] = NoCall
         \/ /\ call'[r].op = call[r].op /\ call'[r].user = call[r].user /\ call'[r].flag = call[r].flag
            /\ call[r].step \in {"source", "insert", "list", "copy", "entries"}
         \/ call'[r].op = call[r].op /\ call[r].step \in VersionSteps /\ Restore(r)
<1>0. call \in [Calls -> Call] /\ call[r] \in Call
  BY DEF ProjectsTypeOK
<1>1. CASE Return(r) \/ \E p, ops : call' = [Noted(p, ops) EXCEPT ![r] = NoCall]
  BY <1>0, <1>1, NotedTyped DEF Return
<1>2. ASSUME NEW q, \/ \E step, p : q = [call[r] EXCEPT !.target = p, !.step = step]
                    \/ \E step, p : q = [call[r] EXCEPT !.step = step, !.target = p]
                    \/ \E step, main : q = [call[r] EXCEPT !.step = step, !.main = main]
                    \/ \E step, list : q = [call[r] EXCEPT !.step = step, !.list = list]
                    \/ \E step : q = [call[r] EXCEPT !.step = step]
                    \/ \E list : q = [call[r] EXCEPT !.list = list]
                    \/ \E done : q = [call[r] EXCEPT !.done = done]
      PROVE  q.op = call[r].op /\ q.user = call[r].user /\ q.flag = call[r].flag
  BY <1>0, <1>2 DEF Call
<1>3. CASE CreateProject(r)
  <2> DEFINE step == IF call[r].op = "import" THEN "entries" ELSE "main"
  <2>1. call'[r] = [call[r] EXCEPT !.target = lastProject', !.step = step] /\ call[r].step = "insert"
    BY <1>0, <1>3 DEF CreateProject, Doing
  <2> HIDE DEF step
  <2> QED
    BY <1>2, <2>1
<1>4. CASE copyProject(r) \/ CopyRow(r) \/ ListFiles(r) \/ Copied(r)
  <2>1. call[r].step \in {"source", "insert", "list", "copy"}
    BY <1>4 DEF copyProject, CopyRow, ListFiles, Copied, Doing
  <2>2. ASSUME Return(r) PROVE call'[r] = NoCall
    BY <1>0, <2>2 DEF Return
  <2> DEFINE Kept == call'[r].op = call[r].op /\ call'[r].user = call[r].user /\ call'[r].flag = call[r].flag
  <2>3. ASSUME NEW main, call' = [call EXCEPT ![r].step = "insert", ![r].main = main] PROVE Kept
    <3>1. call'[r] = [call[r] EXCEPT !.step = "insert", !.main = main]
      BY <1>0, <2>3
    <3> QED
      BY <1>2, <3>1
  <2>4. ASSUME NEW p, call' = [call EXCEPT ![r].step = "list", ![r].target = p] PROVE Kept
    <3>1. call'[r] = [call[r] EXCEPT !.step = "list", !.target = p]
      BY <1>0, <2>4
    <3> QED
      BY <1>2, <3>1
  <2>5. ASSUME NEW list, call' = [call EXCEPT ![r].step = "copy", ![r].list = list] PROVE Kept
    <3>1. call'[r] = [call[r] EXCEPT !.step = "copy", !.list = list]
      BY <1>0, <2>5
    <3> QED
      BY <1>0, <3>1 DEF Call
  <2>6. ASSUME call' = [call EXCEPT ![r].step = "publish"] PROVE Kept
    <3>1. call'[r] = [call[r] EXCEPT !.step = "publish"]
      BY <1>0, <2>6
    <3> QED
      BY <1>2, <3>1
  <2>7. \/ Return(r)
        \/ \E main : call' = [call EXCEPT ![r].step = "insert", ![r].main = main]
        \/ \E p : call' = [call EXCEPT ![r].step = "list", ![r].target = p]
        \/ \E list : call' = [call EXCEPT ![r].step = "copy", ![r].list = list]
        \/ call' = [call EXCEPT ![r].step = "publish"]
    BY <1>4 DEF copyProject, CopyRow, ListFiles, Copied
  <2> HIDE DEF Kept
  <2>8. call'[r] = NoCall \/ Kept
    BY <2>2, <2>3, <2>4, <2>5, <2>6, <2>7
  <2> QED
    BY <2>1, <2>8 DEF Kept
<1>5. CASE CopyFile(r) \/ ImportEntry(r)
  <2>1. call[r].step \in {"copy", "entries"}
    BY <1>5 DEF CopyFile, ImportEntry, Doing
  <2>2. \/ call'[r] = NoCall
        \/ \E list : call'[r] = [call[r] EXCEPT !.list = list]
        \/ \E done : call'[r] = [call[r] EXCEPT !.done = done]
    BY <1>0, <1>5 DEF CopyFile, ImportEntry, Return
  <2> QED
    BY <1>2, <2>1, <2>2
<1>6. CASE CreateTextFile(r) \/ SetProjectTemplate(r) \/ Imported(r) \/ CreateAssetFile(r) \/ DeleteFile(r)
           \/ Abandoned(r)
  BY <1>1, <1>6 DEF CreateTextFile, SetProjectTemplate, Imported, CreateAssetFile, DeleteFile, Abandoned
<1>7. CASE Restore(r)
  <2>1. ASSUME Listed(r) PROVE call'[r].op = call[r].op
    <3>1. PICK current : call' = [call EXCEPT ![r].step = "restore", ![r].current = current,
                                             ![r].flag = FALSE]
      BY <2>1 DEF Listed
    <3>2. call'[r] = [call[r] EXCEPT !.step = "restore", !.current = current, !.flag = FALSE]
      BY <1>0, <3>1
    <3> QED
      BY <1>0, <3>2 DEF Call
  <2>2. ASSUME NEW next, Resumes(r, next), \/ call' = [call EXCEPT ![r] = next]
                                           \/ call' = [Noted(call[r].target, {"publish"}) EXCEPT ![r] = next]
        PROVE  call'[r].op = call[r].op
    BY <1>0, <2>2 DEF Resumes, Noted
  <2> QED
    BY <1>1, <1>7, <2>1, <2>2, RestoringStep
<1> QED
  BY <1>3, <1>4, <1>5, <1>6, <1>7 DEF Continued

\* What is asked, by the operation.
LEMMA AskedOps ==
  ASSUME ProjectsTypeOK, NEW r \in Calls, Asked(r)
  PROVE  /\ call[r] = NoCall /\ UNCHANGED rows
         /\ call'[r].op = "delete" =>
              \E f \in DOMAIN files : /\ files[f].path # projects[files[f].project].main
                                      /\ call'[r].file = f /\ call'[r].target = files[f].project
         /\ call'[r].op = "version" => call'[r].step = "current"
         /\ call'[r].op = "upload" =>
              \E u \in Users, p \in Live : /\ checkAssetQuota(u, projects[p].owner)
                                           /\ call'[r].target = p /\ (call'[r].flag <=> u \notin Exempt)
         /\ call'[r].op \in {"create", "duplicate", "use", "import"} =>
              \E u \in Users : /\ checkProjectQuota(u)
                               /\ call'[r].user = u /\ (call'[r].flag <=> u \notin Exempt)
<1>0. call \in [Calls -> Call]
  BY DEF ProjectsTypeOK
<1>1. UNCHANGED rows
  BY NothingWritten
<1>2. ASSUME NEW asked, Admit(r, asked) PROVE call'[r] = asked /\ call[r] = NoCall
  BY <1>0, <1>2 DEF Admit
<1>3. CASE \E u \in Users : \/ handleCreateProject(r, u)
                            \/ \E zip \in Zips : handleImportZip(r, u, zip)
                            \/ \E p \in Live : handleDuplicateProject(r, u, p) \/ handleUseTemplate(r, u, p)
  <2>1. PICK u \in Users : \/ handleCreateProject(r, u)
                           \/ \E zip \in Zips : handleImportZip(r, u, zip)
                           \/ \E p \in Live : handleDuplicateProject(r, u, p) \/ handleUseTemplate(r, u, p)
    BY <1>3
  <2> DEFINE flag == u \notin Exempt
  <2>2. /\ checkProjectQuota(u) /\ call[r] = NoCall
        /\ \/ call'[r] = [NoCall EXCEPT !.op = "create", !.step = "insert", !.user = u, !.flag = flag]
           \/ \E zip : call'[r] = [NoCall EXCEPT !.op = "import", !.step = "insert",
                                                 !.user = u, !.list = zip, !.flag = flag]
           \/ \E p : call'[r] = [NoCall EXCEPT !.op = "duplicate", !.step = "source",
                                               !.user = u, !.source = p, !.flag = flag]
           \/ \E p : call'[r] = [NoCall EXCEPT !.op = "use", !.step = "source",
                                               !.user = u, !.source = p, !.flag = flag]
    BY <1>2, <2>1 DEF handleCreateProject, handleImportZip, handleDuplicateProject, handleUseTemplate
  <2> HIDE DEF flag
  <2>3. /\ call'[r].op \in {"create", "duplicate", "use", "import"}
        /\ call'[r].user = u /\ call'[r].flag = flag
    BY <2>2 DEF NoCall
  <2> QED
    BY <1>1, <2>2, <2>3 DEF flag
<1>4. CASE \E u \in Users, p \in Live, path \in Paths : handleUploadAsset(r, u, p, path)
  <2>1. PICK u \in Users, p \in Live, path \in Paths : handleUploadAsset(r, u, p, path)
    BY <1>4
  <2> DEFINE flag == u \notin Exempt
  <2>2. /\ checkAssetQuota(u, projects[p].owner) /\ call[r] = NoCall
        /\ call'[r] = [NoCall EXCEPT !.op = "upload", !.step = "asset", !.user = u,
                             !.target = p, !.main = path, !.flag = flag]
    BY <1>2, <2>1 DEF handleUploadAsset
  <2> HIDE DEF flag
  <2>3. call'[r].op = "upload" /\ call'[r].target = p /\ call'[r].flag = flag
    BY <2>2 DEF NoCall
  <2> QED
    BY <1>1, <2>2, <2>3 DEF flag
<1>5. CASE \E p \in Live : handlePublishTemplate(r, p)
  <2>1. PICK p \in Live : handlePublishTemplate(r, p)
    BY <1>5
  <2> DEFINE u == projects[p].owner
  <2>2. /\ call[r] = NoCall
        /\ call'[r] = [NoCall EXCEPT !.op = "publish", !.step = "source", !.user = u, !.source = p]
    BY <1>2, <2>1 DEF handlePublishTemplate
  <2> HIDE DEF u
  <2>3. call'[r].op = "publish"
    BY <2>2 DEF NoCall
  <2> QED
    BY <1>1, <2>2, <2>3
<1>6. CASE \E f \in DOMAIN files : handleDeleteFile(r, f)
  <2>1. PICK f \in DOMAIN files : handleDeleteFile(r, f)
    BY <1>6
  <2> DEFINE p == files[f].project
  <2>2. /\ call[r] = NoCall /\ files[f].path # projects[p].main
        /\ call'[r] = [NoCall EXCEPT !.op = "delete", !.step = "delete", !.target = p, !.file = f]
    BY <1>2, <2>1 DEF handleDeleteFile
  <2> HIDE DEF p
  <2>3. call'[r].op = "delete" /\ call'[r].target = p /\ call'[r].file = f
    BY <2>2 DEF NoCall
  <2> QED
    BY <1>1, <2>2, <2>3 DEF p
<1>7. CASE \E p \in Live, manifest \in Manifests : handleRestoreVersion(r, p, manifest)
  <2>1. PICK p \in Live, manifest \in Manifests : handleRestoreVersion(r, p, manifest)
    BY <1>7
  <2>2. /\ call[r] = NoCall
        /\ call'[r] = [NoCall EXCEPT !.op = "version", !.step = "current", !.target = p, !.list = manifest]
    BY <1>2, <2>1 DEF handleRestoreVersion
  <2>3. call'[r].op = "version" /\ call'[r].step = "current"
    BY <2>2 DEF NoCall
  <2> QED
    BY <1>1, <2>2, <2>3
<1> QED
  BY <1>3, <1>4, <1>5, <1>6, <1>7 DEF Asked

LEMMA NotMainStep ==
  ASSUME ProjectsTypeOK, ProjectsNext, \A q \in Calls : Underway(q) /\ NotMain(q)
  PROVE  \A q \in Calls : NotMain(q)'
<1>0. /\ RowsKept /\ ProjectsTypeOK'
      /\ call \in [Calls -> Call] /\ call' \in [Calls -> Call]
      /\ \A f \in DOMAIN files' : files'[f].project \in DOMAIN projects'
      /\ \A f \in DOMAIN files : files[f].project \in DOMAIN projects
      /\ \A q \in Calls : call[q].file \in Nat /\ call[q].file <= lastFile
      /\ lastFile \in Nat
  <2>1. RowsKept /\ ProjectsTypeOK'
    BY RowsStep, ProjectsTypeStep
  <2> QED
    BY <2>1, ProjectConstants DEF ProjectsTypeOK, Underway, Call
<1>1. ASSUME NEW q \in Calls, Same(q) PROVE NotMain(q)'
  <2> SUFFICES ASSUME call'[q].op = "delete", call'[q].file \in DOMAIN files'
               PROVE  /\ files'[call'[q].file].project = call'[q].target
                      /\ ~call'[q].flag => files'[call'[q].file].path # projects'[call'[q].target].main
    BY DEF NotMain
  <2> DEFINE f == call[q].file
             p == call[q].target
  <2>1. /\ call'[q].file = f /\ call'[q].target = p /\ call[q].op = "delete"
        /\ call[q].flag => call'[q].flag
    BY <1>1 DEF Same
  <2>2. f \in DOMAIN files
    BY <1>0, <2>1 DEF RowsKept
  <2>3. files[f].project = p /\ (~call[q].flag => files[f].path # projects[p].main)
    BY <2>1, <2>2 DEF NotMain
  <2>4. files'[f].project = p /\ p \in DOMAIN projects /\ p \in DOMAIN projects'
    BY <1>0, <2>1, <2>2, <2>3 DEF RowsKept
  <2>5. CASE Marked(p, "delete")
    <3>1. call'[q] # NoCall
      BY DEF NoCall
    <3> QED
      BY <2>1, <2>4, <2>5, <3>1 DEF Marked
  <2>6. CASE ~Marked(p, "delete")
    BY <1>0, <2>1, <2>2, <2>3, <2>4, <2>6 DEF RowsKept
  <2> QED
    BY <2>5, <2>6
<1>2. ASSUME NEW r \in Calls, Asked(r) \/ Continued(r) \/ Abandoned(r) PROVE \A q \in Calls : NotMain(q)'
  <2>1. \A q \in Calls \ {r} : NotMain(q)'
    BY <1>1, <1>2, OthersSame
  <2>2. CASE call'[r].op # "delete"
    BY <2>1, <2>2 DEF NotMain
  <2>3. CASE Asked(r) /\ call'[r].op = "delete"
    BY <1>2, <2>1, <2>3, AskedOps DEF NotMain, rows
  <2>4. CASE (Continued(r) \/ Abandoned(r)) /\ call'[r].op = "delete"
    <3>1. call'[r] = NoCall \/ (call'[r].op = call[r].op /\ call[r].step # "delete")
      BY <2>4, GoesOn DEF VersionSteps
    <3> QED
      BY <2>1, <2>4, <3>1 DEF NoCall, Underway, NotMain, VersionSteps
  <2> QED
    BY <1>2, <2>1, <2>2, <2>3, <2>4
<1>3. CASE AtOnce
  BY <1>1, <1>3, AllSame
<1> QED
  BY <1>2, <1>3 DEF ProjectsNext, AtOnce

LEMMA StillListedStep ==
  ASSUME ProjectsTypeOK, ProjectsNext, \A q \in Calls : Underway(q) /\ StillListed(q)
  PROVE  \A q \in Calls : StillListed(q)'
<1>0. /\ RowsKept /\ lastFile \in Nat /\ lastFile' \in Nat /\ lastFile <= lastFile'
      /\ call \in [Calls -> Call] /\ DOMAIN files \subseteq 1 .. lastFile
      /\ \A q \in Calls : call[q] \in Call /\ \A c \in call[q].current : c.id \in Nat
  <2>1. \A q \in Calls : call[q] \in Call /\ \A c \in call[q].current : c.id \in Nat
    BY ProjectConstants DEF ProjectsTypeOK, Call, Entry
  <2> QED
    BY <2>1, RowsStep, Growing DEF ProjectsTypeOK
\* The list grows no longer, and a change of a path is noted.
<1>1. ASSUME NEW q \in Calls, call[q].op = "version", call[q].step # "current",
             call'[q].op = call[q].op, call'[q].target = call[q].target,
             call'[q].current \subseteq call[q].current, call[q].flag => call'[q].flag
      PROVE  StillListed(q)'
  <2> SUFFICES ASSUME NEW c \in call'[q].current
               PROVE  /\ c.id <= lastFile'
                      /\ c.id \in DOMAIN files' =>
                           /\ files'[c.id].project = call'[q].target /\ files'[c.id].asset = c.asset
                           /\ ~call'[q].flag => files'[c.id].path = c.path
    BY DEF StillListed
  <2>1. c \in call[q].current /\ c.id \in Nat /\ c.id <= lastFile
    BY <1>0, <1>1 DEF StillListed
  <2>2. c.id <= lastFile'
    BY <1>0, <2>1
  <2>3. ASSUME c.id \in DOMAIN files'
        PROVE  /\ files'[c.id].project = call'[q].target /\ files'[c.id].asset = c.asset
               /\ ~call'[q].flag => files'[c.id].path = c.path
    <3>1. c.id \in DOMAIN files
      BY <1>0, <2>1, <2>3 DEF RowsKept
    <3>2. /\ files[c.id].project = call[q].target /\ files[c.id].asset = c.asset
          /\ ~call[q].flag => files[c.id].path = c.path
      BY <1>1, <2>1, <3>1 DEF StillListed
    <3>3. /\ files'[c.id].project = files[c.id].project /\ files'[c.id].asset = files[c.id].asset
          /\ files'[c.id].path = files[c.id].path \/ Marked(call[q].target, "version")
      BY <1>0, <2>3, <3>1, <3>2 DEF RowsKept
    <3>4. ~call'[q].flag => ~Marked(call[q].target, "version")
      BY <1>1 DEF Marked, NoCall
    <3> QED
      BY <1>1, <3>2, <3>3, <3>4
  <2> QED
    BY <2>2, <2>3
<1>2. ASSUME NEW q \in Calls, Same(q) PROVE StillListed(q)'
  <2>1. CASE call'[q].op = "version" /\ call'[q].step # "current"
    BY <1>1, <1>2, <2>1 DEF Same
  <2> QED
    BY <2>1 DEF StillListed
<1>3. ASSUME NEW r \in Calls, Restore(r) PROVE StillListed(r)'
  <2>1. call[r].op = "version"
    BY <1>3, RestoresVersions
  <2>2. CASE call'[r] = NoCall
    BY <2>2 DEF StillListed, NoCall
  <2>3. CASE /\ UNCHANGED rows /\ call'[r].current = Listing(call[r].target)
             /\ call'[r].target = call[r].target
    <3> SUFFICES ASSUME NEW c \in call'[r].current
                 PROVE  /\ c.id <= lastFile'
                        /\ c.id \in DOMAIN files' =>
                             /\ files'[c.id].project = call'[r].target /\ files'[c.id].asset = c.asset
                             /\ files'[c.id].path = c.path
      BY DEF StillListed
    <3>1. PICK f \in DOMAIN files : /\ files[f].project = call[r].target
                                    /\ c = [id |-> f, path |-> files[f].path, asset |-> files[f].asset]
      BY <2>3 DEF Listing, FilesOf
    <3>2. c.id = f /\ c.path = files[f].path /\ c.asset = files[f].asset
      BY <3>1
    <3>3. UNCHANGED files /\ UNCHANGED lastFile /\ f \in 1 .. lastFile
      BY <1>0, <2>3, <3>1 DEF rows
    <3> QED
      BY <1>0, <2>3, <3>1, <3>2, <3>3
  <2>4. CASE Resumes(r, call'[r])
    BY <1>1, <2>1, <2>4 DEF Resumes
  <2> QED
    BY <1>3, <2>2, <2>3, <2>4, RestoringOwn
<1>4. ASSUME NEW r \in Calls, Asked(r) \/ Continued(r) \/ Abandoned(r)
      PROVE  \A q \in Calls : StillListed(q)'
  <2>1. \A q \in Calls \ {r} : StillListed(q)'
    BY <1>2, <1>4, OthersSame
  <2>2. CASE call'[r].op # "version"
    BY <2>1, <2>2 DEF StillListed
  <2>3. CASE Asked(r) /\ call'[r].op = "version"
    BY <2>1, <2>3, AskedOps DEF StillListed
  <2>4. CASE (Continued(r) \/ Abandoned(r)) /\ call'[r].op = "version"
    <3>1. \/ call'[r] = NoCall
          \/ call'[r].op = call[r].op /\ call[r].step \notin VersionSteps
          \/ Restore(r)
      BY <2>4, GoesOn DEF VersionSteps
    <3>2. ~(call'[r].op = call[r].op /\ call[r].step \notin VersionSteps)
      BY <2>4 DEF Underway
    <3> QED
      BY <1>3, <2>1, <2>4, <3>1, <3>2 DEF NoCall
  <2> QED
    BY <1>4, <2>2, <2>3, <2>4
<1>5. CASE AtOnce
  BY <1>2, <1>5, AllSame
<1> QED
  BY <1>4, <1>5 DEF ProjectsNext, AtOnce

-----------------------------------------------------------------------------
(* The files of one project.                                                *)

\* The paths of a project change by a request that fills it, or whoever publishes it learns of it.
LEMMA PathsKept ==
  ASSUME ProjectsTypeOK, ProjectsNext, \A q \in Calls : Underway(q) /\ NotMain(q) /\ StillListed(q),
         NEW p, p \in DOMAIN projects, p \in DOMAIN projects'
  PROVE  \/ PathsOf(p)' = PathsOf(p)
         \/ Marked(p, "publish")
         \/ \E r \in Calls : /\ call[r].target = p
                             /\ CreateTextFile(r) \/ CopyFile(r) \/ ImportEntry(r)
<1>a. /\ projects \in [DOMAIN projects -> Project] /\ files \in [DOMAIN files -> File]
      /\ \A f \in DOMAIN files : files[f].project \in DOMAIN projects
      /\ call \in [Calls -> Call]
  BY DEF ProjectsTypeOK
<1>0. ASSUME FilesOf(p)' = FilesOf(p), \A f \in FilesOf(p) : files'[f].path = files[f].path
      PROVE  PathsOf(p)' = PathsOf(p)
  BY <1>0 DEF PathsOf
<1>1. ASSUME UNCHANGED files PROVE PathsOf(p)' = PathsOf(p)
  BY <1>1 DEF PathsOf, FilesOf
<1>3. ASSUME NEW other, NEW path, NEW asset, NEW checked, FileAdded(other, path, asset, checked), other # p
      PROVE  PathsOf(p)' = PathsOf(p)
  <2>1. FilesOf(p)' = FilesOf(p)
    BY <1>3 DEF FileAdded, FilesOf
  <2> QED
    BY <1>0, <1>3, <2>1 DEF FileAdded, FilesOf
<1>4. ASSUME NEW r \in Calls, CreateTextFile(r) \/ CopyFile(r) \/ ImportEntry(r), call[r].target # p
      PROVE  PathsOf(p)' = PathsOf(p)
  BY <1>1, <1>3, <1>4, FillingStep DEF rows
<1>6. ASSUME NEW other \in DOMAIN projects, SoftDelete(other) PROVE PathsOf(p)' = PathsOf(p)
  <2>1. FilesOf(p)' = FilesOf(p)
    BY <1>6, Trashed DEF FilesOf
  <2> QED
    BY <1>0, <1>6, <2>1, Trashed DEF FilesOf
<1>8. ASSUME NEW r \in Calls, Imported(r) PROVE PathsOf(p)' = PathsOf(p)
  BY <1>1, <1>6, <1>8, ImportedStep DEF rows
<1>9. ASSUME NEW r \in Calls, CreateAssetFile(r) PROVE PathsOf(p)' = PathsOf(p) \/ Marked(p, "publish")
  <2> DEFINE other   == call[r].target
             checked == call[r].flag /\ other \in Live
  <2>1. /\ other \in DOMAIN projects /\ call[r].main \in Paths /\ call[r].main \notin PathsOf(other)
        /\ checked \in BOOLEAN /\ NewFile(other, call[r].main, TRUE, checked)
        /\ call' = [Noted(other, {"publish"}) EXCEPT ![r] = NoCall]
    BY <1>9 DEF CreateAssetFile, CanInsert, ProjectsTypeOK, Call
  <2> HIDE DEF checked
  <2>2. FileAdded(other, call[r].main, TRUE, checked)
    BY <2>1, FileInserted
  <2>3. Marked(other, "publish")
    BY <2>1, NotedIsMarked
  <2> QED
    BY <1>3, <2>2, <2>3
<1>10. ASSUME NEW r \in Calls, DeleteFile(r)
       PROVE  PathsOf(p)' = PathsOf(p) \/ Marked(p, "publish")
  <2> DEFINE other == call[r].target
  <2>1. Marked(other, "publish")
    BY <1>10, NotedIsMarked DEF DeleteFile
  <2>2. call[r].file \in DOMAIN files => files[call[r].file].project = other
    BY <1>10 DEF DeleteFile, Doing, Underway, NotMain
  <2>3. CASE other # p
    <3>1. /\ DOMAIN files' = DOMAIN files \ {call[r].file}
          /\ \A f \in DOMAIN files' : files'[f] = files[f]
      BY <1>10 DEF DeleteFile, Restrict
    <3>2. FilesOf(p)' = FilesOf(p)
      BY <2>2, <2>3, <3>1 DEF FilesOf
    <3> QED
      BY <1>0, <3>1, <3>2 DEF FilesOf
  <2> QED
    BY <2>1, <2>3
<1>11. ASSUME NEW other \in Live, NEW path \in Paths, handleCreateFile(other, path)
       PROVE  PathsOf(p)' = PathsOf(p) \/ Marked(p, "publish")
  <2>1. Marked(other, "publish")
    BY <1>11, NotedIsMarked DEF handleCreateFile
  <2>2. FileAdded(other, path, FALSE, FALSE)
    BY <1>11, FileInserted DEF handleCreateFile, CanInsert
  <2> QED
    BY <1>3, <2>1, <2>2
<1>12. ASSUME NEW f \in DOMAIN files, NEW path \in Paths, handleRenameFile(f, path)
       PROVE  PathsOf(p)' = PathsOf(p) \/ Marked(p, "publish")
  <2>1. Marked(files[f].project, "publish")
    BY <1>12, NotedIsMarked DEF handleRenameFile
  <2>2. /\ DOMAIN files' = DOMAIN files
        /\ \A g \in DOMAIN files : /\ files'[g].project = files[g].project
                                   /\ g # f => files'[g].path = files[g].path
    BY <1>12, <1>a DEF handleRenameFile, File
  <2>3. FilesOf(p)' = FilesOf(p)
    BY <2>2 DEF FilesOf
  <2> QED
    BY <1>0, <2>1, <2>2, <2>3 DEF FilesOf
<1>13. ASSUME NEW other \in DOMAIN projects, handlePermanentDeleteProject(other)
       PROVE  PathsOf(p)' = PathsOf(p)
  <2>1. /\ DOMAIN projects' = DOMAIN projects \ {other}
        /\ DOMAIN files' = DOMAIN files \ FilesOf(other)
        /\ \A f \in DOMAIN files' : files'[f] = files[f]
    BY <1>13 DEF handlePermanentDeleteProject, Restrict
  <2>2. FilesOf(p)' = FilesOf(p)
    BY <2>1 DEF FilesOf
  <2> QED
    BY <1>0, <2>1, <2>2 DEF FilesOf
<1>14. ASSUME NEW r \in Calls, Restore(r)
       PROVE  PathsOf(p)' = PathsOf(p) \/ Marked(p, "publish")
  <2> DEFINE other == call[r].target
  <2>1. call[r].op # "publish" /\ call[r].op = "version"
    BY <1>14, RestoresVersions
  <2>2. ASSUME NEW next, call' = [Noted(other, {"publish"}) EXCEPT ![r] = next] PROVE Marked(other, "publish")
    BY <2>1, <2>2, NotedIsMarked
  <2>3. ASSUME NEW c \in call[r].current, files' = Restrict(files, DOMAIN files \ {c.id}),
               call[r].step # "current", other # p
        PROVE  PathsOf(p)' = PathsOf(p)
    <3>1. /\ DOMAIN files' = DOMAIN files \ {c.id}
          /\ \A f \in DOMAIN files' : files'[f] = files[f]
      BY <2>3 DEF Restrict
    <3>2. c.id \in DOMAIN files => files[c.id].project = other
      BY <2>1, <2>3 DEF StillListed
    <3>3. FilesOf(p)' = FilesOf(p)
      BY <2>3, <3>1, <3>2 DEF FilesOf
    <3> QED
      BY <1>0, <3>1, <3>3 DEF FilesOf
  <2> QED
    BY <1>1, <1>3, <1>14, <2>2, <2>3, RestoringStep DEF Listed, rows, Resumes
<1> QED
  BY <1>1, <1>4, <1>6, <1>8, <1>9, <1>10, <1>11, <1>12, <1>13, <1>14, NothingWritten, ProjectStep
     DEF ProjectsNext, Continued, handleDeleteProject, handleUpdateProject, handleRestoreProject,
         SetProjectTemplate, rows, Live

LEMMA CopiedSoFarStep ==
  ASSUME ProjectsTypeOK, ProjectsNext, OneFills,
         \A q \in Calls : Underway(q) /\ NotMain(q) /\ StillListed(q) /\ CopiedSoFar(q)
  PROVE  \A q \in Calls : CopiedSoFar(q)'
<1>0. /\ RowsKept /\ ProjectsTypeOK'
      /\ call \in [Calls -> Call] /\ call' \in [Calls -> Call]
      /\ DOMAIN projects \subseteq 1 .. lastProject /\ lastProject \in Nat
      /\ \A f \in DOMAIN files : files[f].project \in DOMAIN projects
      /\ \A q \in Calls : call[q] \in Call /\ call[q].target \in Nat /\ call[q].target <= lastProject
  <2>1. RowsKept /\ ProjectsTypeOK'
    BY RowsStep, ProjectsTypeStep
  <2> QED
    BY <2>1, ProjectConstants DEF ProjectsTypeOK, Underway, Call
\* The project is there before the step, and whoever else changes its files is noted.
<1>1. ASSUME NEW q \in Calls, call'[q].op = "publish", ~call'[q].flag,
             call[q].op = "publish", Filling(q), ~call[q].flag,
             NEW p \in DOMAIN projects', call[q].target = p, ~CopyFile(q)
      PROVE  PathsOf(p)' = {e.path : e \in call[q].done}
  <2>1. p \in DOMAIN projects
    BY <1>0, <1>1 DEF RowsKept
  <2>2. PathsOf(p) = {e.path : e \in call[q].done}
    BY <1>1, <2>1 DEF CopiedSoFar
  <2>3. ~Marked(p, "publish")
    BY <1>1 DEF Marked, NoCall
  <2>4. ASSUME NEW r \in Calls, call[r].target = p, CreateTextFile(r) \/ CopyFile(r) \/ ImportEntry(r)
        PROVE  FALSE
    <3>1. Filling(r) /\ call[r].step \in {"main", "copy", "entries"}
      BY <2>4 DEF CreateTextFile, CopyFile, ImportEntry, Doing, Filling
    <3>2. r = q
      BY <1>1, <2>4, <3>1 DEF OneFills
    <3> QED
      BY <1>1, <2>4, <3>1, <3>2 DEF Underway, CreateTextFile, ImportEntry, Doing
  <2>5. PathsOf(p)' = PathsOf(p)
    BY <2>1, <2>3, <2>4, PathsKept
  <2> QED
    BY <2>2, <2>5
<1>2. ASSUME NEW q \in Calls, Same(q) PROVE CopiedSoFar(q)'
  <2> SUFFICES ASSUME call'[q].op = "publish", Filling(q)', ~call'[q].flag,
                      NEW p \in DOMAIN projects', p = call'[q].target
               PROVE  PathsOf(p)' = {e.path : e \in call'[q].done}
    BY DEF CopiedSoFar, PathsOf, FilesOf
  <2>1. /\ call[q].op = "publish" /\ ~call[q].flag /\ call[q].target = call'[q].target
        /\ call'[q].done = call[q].done /\ Filling(q)
    BY <1>2 DEF Same, Filling
  <2>2. ~CopyFile(q)
    <3> SUFFICES ASSUME CopyFile(q) PROVE FALSE
      OBVIOUS
    <3>1. PICK e \in call[q].list \ call[q].done :
            call' = [call EXCEPT ![q].done = @ \cup {e}] \/ Return(q)
      BY DEF CopyFile
    <3>2. ~Return(q)
      BY <1>0 DEF Return, NoCall
    <3>3. call'[q].done = call[q].done \cup {e}
      BY <1>0, <3>1, <3>2 DEF Call
    <3> QED
      BY <2>1, <3>1, <3>3
  <2>3. PathsOf(p)' = {e.path : e \in call[q].done}
    BY <1>1, <2>1, <2>2
  <2> QED
    BY <2>1, <2>3
<1>3. ASSUME NEW r \in Calls, Asked(r) \/ Continued(r) \/ Abandoned(r) PROVE CopiedSoFar(r)'
  <2> SUFFICES ASSUME call'[r].op = "publish", Filling(r)', ~call'[r].flag,
                      NEW p \in DOMAIN projects', p = call'[r].target
               PROVE  PathsOf(p)' = {e.path : e \in call'[r].done}
    BY DEF CopiedSoFar, PathsOf, FilesOf
  <2>0. call'[r] # NoCall
    BY DEF NoCall
  <2>1. ~Asked(r)
    <3> SUFFICES ASSUME Asked(r) PROVE FALSE
      OBVIOUS
    <3>1. call[r] = NoCall /\ lastProject' = lastProject
      BY AskedOps DEF rows
    <3>2. ~Filling(r)
      BY <3>1 DEF Filling, NoCall
    <3> QED
      BY <1>0, <1>3, <3>1, <3>2, OwnUnderway
  <2>2. /\ call[r].op = "publish" /\ ~call[r].flag
        /\ call[r].step \in {"source", "insert", "list", "copy"}
    BY <1>3, <2>0, <2>1, GoesOn DEF Underway, VersionSteps
  <2>3. ~Return(r) /\ \A other, ops : call' # [Noted(other, ops) EXCEPT ![r] = NoCall]
    BY <1>0, <2>0, NotedTyped DEF Return
  <2>4. CopyRow(r) \/ ListFiles(r) \/ CopyFile(r) \/ Copied(r)
    <3>1. ASSUME copyProject(r) PROVE FALSE
      <4>1. PICK main : call' = [call EXCEPT ![r].step = "insert", ![r].main = main]
        BY <2>3, <3>1 DEF copyProject
      <4>2. call'[r] = [call[r] EXCEPT !.step = "insert", !.main = main]
        BY <1>0, <4>1
      <4>3. call'[r].step = "insert"
        BY <1>0, <4>2 DEF Call
      <4> QED
        BY <4>3 DEF Filling
    <3>2. ~Abandoned(r) /\ ~CreateTextFile(r) /\ ~SetProjectTemplate(r) /\ ~Imported(r)
          /\ ~CreateAssetFile(r) /\ ~DeleteFile(r)
      BY <2>3 DEF Abandoned, CreateTextFile, SetProjectTemplate, Imported, CreateAssetFile, DeleteFile
    <3>3. ~CreateProject(r) /\ ~ImportEntry(r)
      BY <2>2 DEF CreateProject, ImportEntry, Doing
    <3>4. ~Restore(r)
      BY <2>2, RestoringStep DEF VersionSteps
    <3> QED
      BY <1>3, <2>1, <3>1, <3>2, <3>3, <3>4 DEF Continued
  <2>5. CASE CopyRow(r)
    <3> DEFINE n == lastProject + 1
    <3>1. call' = [call EXCEPT ![r].step = "list", ![r].target = n] /\ UNCHANGED files
          /\ call[r].step = "insert"
      BY <2>3, <2>5 DEF CopyRow, NewProject, Doing
    <3>2. n \notin DOMAIN projects
      BY <1>0
    <3> HIDE DEF n
    <3>3. call'[r] = [call[r] EXCEPT !.step = "list", !.target = n]
      BY <1>0, <3>1
    <3>4. p = n /\ call'[r].done = {}
      BY <1>0, <3>1, <3>3 DEF Call, Underway
    <3>5. PathsOf(p)' = {}
      BY <1>0, <3>1, <3>2, <3>4 DEF PathsOf, FilesOf
    <3> QED
      BY <3>4, <3>5
  <2>6. CASE ListFiles(r) \/ Copied(r)
    <3>1. /\ UNCHANGED rows
          /\ \/ \E list : call' = [call EXCEPT ![r].step = "copy", ![r].list = list]
             \/ call' = [call EXCEPT ![r].step = "publish"]
      BY <2>3, <2>6 DEF ListFiles, Copied, rows
    <3>2. call'[r].done = call[r].done /\ call'[r].target = call[r].target
      <4>1. ASSUME NEW list, call' = [call EXCEPT ![r].step = "copy", ![r].list = list]
            PROVE  call'[r].done = call[r].done /\ call'[r].target = call[r].target
        <5>1. call'[r] = [call[r] EXCEPT !.step = "copy", !.list = list]
          BY <1>0, <4>1
        <5> QED
          BY <1>0, <5>1 DEF Call
      <4>2. ASSUME call' = [call EXCEPT ![r].step = "publish"]
            PROVE  call'[r].done = call[r].done /\ call'[r].target = call[r].target
        BY <1>0, <4>2 DEF Call
      <4> QED
        BY <3>1, <4>1, <4>2
    <3>3. Filling(r)
      BY <2>6 DEF ListFiles, Copied, Doing, Filling
    <3>4. call[r].target = p /\ p \in DOMAIN projects
      BY <3>1, <3>2 DEF rows
    <3>5. PathsOf(p) = {e.path : e \in call[r].done}
      BY <2>2, <3>3, <3>4 DEF CopiedSoFar
    <3> QED
      BY <3>1, <3>2, <3>5 DEF rows, PathsOf, FilesOf
  <2>7. CASE CopyFile(r)
    <3>0. call[r].target = p
      <4>1. \A e : call' = [call EXCEPT ![r].done = @ \cup {e}] => call'[r].target = call[r].target
        BY <1>0 DEF Call
      <4> QED
        BY <2>3, <2>7, <4>1 DEF CopyFile
    <3>1. PICK e \in call[r].list \ call[r].done :
            /\ CanInsert(p, e.path) /\ NewFile(p, e.path, e.asset, FALSE)
            /\ call' = [call EXCEPT ![r].done = @ \cup {e}]
      BY <2>3, <2>7, <3>0 DEF CopyFile
    <3>2. e.path \in Paths /\ e.asset \in BOOLEAN /\ p \in DOMAIN projects /\ e.path \notin PathsOf(p)
      BY <1>0, <3>1 DEF Call, Entry, CanInsert
    <3>3. FileAdded(p, e.path, e.asset, FALSE)
      BY <3>1, <3>2, FileInserted
    <3>4. PathsOf(p)' = PathsOf(p) \cup {e.path}
      BY <3>3 DEF FileAdded, PathsOf, FilesOf
    <3>5. call'[r].done = call[r].done \cup {e}
      BY <1>0, <3>1 DEF Call
    <3>6. Filling(r)
      BY <2>7 DEF CopyFile, Doing, Filling
    <3>7. PathsOf(p) = {d.path : d \in call[r].done}
      BY <2>2, <3>0, <3>2, <3>6 DEF CopiedSoFar
    <3> QED
      BY <3>4, <3>5, <3>7
  <2> QED
    BY <2>4, <2>5, <2>6, <2>7
<1>4. ASSUME NEW r \in Calls, Asked(r) \/ Continued(r) \/ Abandoned(r) PROVE \A q \in Calls : CopiedSoFar(q)'
  BY <1>2, <1>3, <1>4, OthersSame
<1>5. CASE AtOnce
  BY <1>2, <1>5, AllSame
<1> QED
  BY <1>4, <1>5 DEF ProjectsNext, AtOnce

-----------------------------------------------------------------------------
(* Quotas.                                                                  *)

\* Two finite sets, of rows and of requests, as a step changes them: neither grows; an element
\* of the second becomes one of the first; or the first was below its limit by itself.
LEMMA NeitherGrows ==
  ASSUME NEW C, NEW K, NEW C1 \in SUBSET C, NEW K1 \in SUBSET K, IsFiniteSet(C), IsFiniteSet(K),
         NEW n \in Nat, Cardinality(C) + Cardinality(K) < n
  PROVE  Cardinality(C1) + Cardinality(K1) < n
<1>1. /\ Cardinality(C) \in Nat /\ Cardinality(C1) \in Nat /\ Cardinality(C1) <= Cardinality(C)
      /\ Cardinality(K) \in Nat /\ Cardinality(K1) \in Nat /\ Cardinality(K1) <= Cardinality(K)
  BY FS_Subset, FS_CardinalityType
<1> QED
  BY <1>1

LEMMA OneMoves ==
  ASSUME NEW C, NEW K, NEW x, NEW r \in K, NEW C1 \in SUBSET (C \cup {x}), NEW K1 \in SUBSET (K \ {r}),
         IsFiniteSet(C), IsFiniteSet(K), NEW n \in Nat, Cardinality(C) + Cardinality(K) < n
  PROVE  Cardinality(C1) + Cardinality(K1) < n
<1>1. /\ Cardinality(C) \in Nat /\ Cardinality(K) \in Nat
      /\ IsFiniteSet(C \cup {x}) /\ Cardinality(C \cup {x}) <= Cardinality(C) + 1
  <2>1. /\ IsFiniteSet(C \cup {x})
        /\ Cardinality(C \cup {x}) = IF x \in C THEN Cardinality(C) ELSE Cardinality(C) + 1
    BY FS_AddElement
  <2>2. Cardinality(C) \in Nat /\ Cardinality(K) \in Nat
    BY FS_CardinalityType
  <2> QED
    BY <2>1, <2>2
<1>2. IsFiniteSet(K \ {r}) /\ Cardinality(K \ {r}) = Cardinality(K) - 1
  BY FS_RemoveElement
<1>3. /\ Cardinality(C1) \in Nat /\ Cardinality(C1) <= Cardinality(C \cup {x})
      /\ Cardinality(K1) \in Nat /\ Cardinality(K1) <= Cardinality(K \ {r})
      /\ Cardinality(C \cup {x}) \in Nat
  BY <1>1, <1>2, FS_Subset, FS_CardinalityType
<1> QED
  BY <1>1, <1>2, <1>3

LEMMA OneEnters ==
  ASSUME NEW C, NEW K, NEW C1 \in SUBSET C, NEW K1 \in SUBSET K, IsFiniteSet(C), IsFiniteSet(K),
         NEW limit \in Nat, Cardinality(C) < limit
  PROVE  Cardinality(C1) + Cardinality(K1) < limit + Cardinality(K)
<1>1. /\ Cardinality(C) \in Nat /\ Cardinality(C1) \in Nat /\ Cardinality(C1) <= Cardinality(C)
      /\ Cardinality(K) \in Nat /\ Cardinality(K1) \in Nat /\ Cardinality(K1) <= Cardinality(K)
  BY FS_Subset, FS_CardinalityType
<1> QED
  BY <1>1

LEMMA CountsFinite ==
  ASSUME ProjectsTypeOK, NEW u
  PROVE  /\ IsFiniteSet(Owned(u)) /\ IsFiniteSet(AssetsOwnedBy(u))
         /\ IsFiniteSet(Counted(u)) /\ IsFiniteSet(CountedAssets(u))
         /\ IsFiniteSet(Creating(u)) /\ IsFiniteSet(Uploading(u))
<1>1. IsFiniteSet(1 .. lastProject) /\ IsFiniteSet(1 .. lastFile) /\ IsFiniteSet(Calls)
  BY FS_Interval, ProjectConstants DEF ProjectsTypeOK
<1>2. /\ Owned(u) \subseteq 1 .. lastProject /\ Counted(u) \subseteq 1 .. lastProject
      /\ AssetsOwnedBy(u) \subseteq 1 .. lastFile /\ CountedAssets(u) \subseteq 1 .. lastFile
  BY DEF ProjectsTypeOK, Owned, Counted, AssetsOwnedBy, CountedAssets, Live
<1>3. Creating(u) \subseteq Calls /\ Uploading(u) \subseteq Calls
  BY DEF Creating, Uploading
<1> QED
  BY <1>1, <1>2, <1>3, FS_Subset

\* Only what meets the quota begins to count.
CountsKept ==
  /\ \A p \in DOMAIN projects' : projects'[p].checked => p \in DOMAIN projects /\ projects[p].checked
  /\ \A f \in DOMAIN files' : files'[f].checked => f \in DOMAIN files /\ files[f].checked

LEMMA CountsStep ==
  ASSUME ProjectsTypeOK, ProjectsNext
  PROVE  CountsKept \/ \E r \in Calls : CreateProject(r) \/ CopyRow(r) \/ CreateAssetFile(r)
<1>a. /\ projects \in [DOMAIN projects -> Project] /\ files \in [DOMAIN files -> File]
  BY DEF ProjectsTypeOK
<1>1. ASSUME UNCHANGED rows PROVE CountsKept
  BY <1>1 DEF CountsKept, rows
<1>3. ASSUME NEW p, NEW path, NEW asset, FileAdded(p, path, asset, FALSE), UNCHANGED projects
      PROVE  CountsKept
  BY <1>3 DEF FileAdded, CountsKept
<1>4. ASSUME NEW r \in Calls, CreateTextFile(r) \/ CopyFile(r) \/ ImportEntry(r)
      PROVE  CountsKept
  BY <1>1, <1>3, <1>4, FillingStep
<1>5. ASSUME NEW r \in Calls, SetProjectTemplate(r) PROVE CountsKept
  <2>1. /\ DOMAIN projects' = DOMAIN projects /\ UNCHANGED files
        /\ \A p \in DOMAIN projects : projects'[p] = projects[p] \/ ~projects'[p].checked
    BY <1>5, <1>a DEF SetProjectTemplate, Project
  <2> QED
    BY <2>1 DEF CountsKept
<1>6. ASSUME NEW p \in DOMAIN projects, SoftDelete(p) PROVE CountsKept
  BY <1>6, Trashed DEF CountsKept
<1>7. ASSUME NEW p \in DOMAIN projects, NEW path \in Paths, UNCHANGED files,
             projects' = [projects EXCEPT ![p].main = path]
      PROVE  CountsKept
  BY <1>7, MainSet DEF CountsKept
<1>8. ASSUME NEW r \in Calls, Imported(r) PROVE CountsKept
  BY <1>1, <1>6, <1>7, <1>8, ImportedStep
<1>10. ASSUME NEW r \in Calls, DeleteFile(r) PROVE CountsKept
  BY <1>10 DEF DeleteFile, Restrict, CountsKept
<1>11. ASSUME NEW p \in Live, NEW path \in Paths, handleCreateFile(p, path) PROVE CountsKept
  BY <1>3, <1>11, FileInserted DEF handleCreateFile, CanInsert
<1>12. ASSUME NEW f \in DOMAIN files, NEW path \in Paths, handleRenameFile(f, path) PROVE CountsKept
  <2>1. /\ DOMAIN files' = DOMAIN files /\ UNCHANGED projects
        /\ \A g \in DOMAIN files : files'[g].checked = files[g].checked
    BY <1>12, <1>a DEF handleRenameFile, File
  <2> QED
    BY <2>1 DEF CountsKept
<1>13. ASSUME NEW p \in DOMAIN projects, handleRestoreProject(p) PROVE CountsKept
  <2>1. /\ DOMAIN projects' = DOMAIN projects /\ UNCHANGED files
        /\ \A q \in DOMAIN projects : projects'[q].checked = projects[q].checked
    BY <1>13, <1>a DEF handleRestoreProject, Project
  <2> QED
    BY <2>1 DEF CountsKept
<1>14. ASSUME NEW p \in DOMAIN projects, handlePermanentDeleteProject(p) PROVE CountsKept
  BY <1>14 DEF handlePermanentDeleteProject, Restrict, CountsKept
<1>15. ASSUME NEW id, files' = Restrict(files, DOMAIN files \ {id}), UNCHANGED projects PROVE CountsKept
  BY <1>15 DEF Restrict, CountsKept
<1>16. ASSUME NEW r \in Calls, Restore(r) PROVE CountsKept
  BY <1>1, <1>3, <1>15, <1>16, RestoringStep DEF Listed
<1> QED
  BY <1>1, <1>4, <1>5, <1>6, <1>7, <1>8, <1>10, <1>11, <1>12, <1>13, <1>14, <1>16, NothingWritten
     DEF ProjectsNext, Continued, handleDeleteProject, handleUpdateProject, Live

\* With CheckedIsLive the rows that count are those that are checked.
LEMMA CountedAre ==
  ASSUME ProjectsTypeOK, CheckedIsLive, NEW u
  PROVE  /\ Counted(u) = {p \in DOMAIN projects : projects[p].checked /\ projects[p].owner = u}
         /\ CountedAssets(u) = {f \in DOMAIN files : /\ files[f].checked
                                                     /\ projects[files[f].project].owner = u}
BY DEF ProjectsTypeOK, CheckedIsLive, Counted, CountedAssets, Owned, AssetsOwnedBy, Live

LEMMA CountsShrink ==
  ASSUME ProjectsTypeOK, CheckedIsLive, ProjectsNext, NEW u
  PROVE  /\ Counted(u)' = {p \in DOMAIN projects' : projects'[p].checked /\ projects'[p].owner = u}
         /\ CountedAssets(u)' = {f \in DOMAIN files' : /\ files'[f].checked
                                                       /\ projects'[files'[f].project].owner = u}
         /\ CountsKept => Counted(u)' \subseteq Counted(u) /\ CountedAssets(u)' \subseteq CountedAssets(u)
<1>1. ProjectsTypeOK' /\ CheckedIsLive' /\ RowsKept
  BY ProjectsTypeStep, CheckedStep, RowsStep
<1>2. /\ Counted(u)' = {p \in DOMAIN projects' : projects'[p].checked /\ projects'[p].owner = u}
      /\ CountedAssets(u)' = {f \in DOMAIN files' : /\ files'[f].checked
                                                    /\ projects'[files'[f].project].owner = u}
  BY <1>1 DEF ProjectsTypeOK, CheckedIsLive, Counted, CountedAssets, Owned, AssetsOwnedBy, Live
<1>3. /\ Counted(u) = {p \in DOMAIN projects : projects[p].checked /\ projects[p].owner = u}
      /\ CountedAssets(u) = {f \in DOMAIN files : /\ files[f].checked
                                                  /\ projects[files[f].project].owner = u}
  BY CountedAre
<1>4. ASSUME CountsKept PROVE Counted(u)' \subseteq Counted(u)
  BY <1>1, <1>2, <1>3, <1>4 DEF CountsKept, RowsKept
<1>5. ASSUME CountsKept PROVE CountedAssets(u)' \subseteq CountedAssets(u)
  <2>1. \A f \in DOMAIN files \cap DOMAIN files' :
          /\ files'[f].project = files[f].project
          /\ files[f].project \in DOMAIN projects /\ files'[f].project \in DOMAIN projects'
    BY <1>1 DEF RowsKept, ProjectsTypeOK
  <2> QED
    BY <1>1, <1>2, <1>3, <1>5, <2>1 DEF CountsKept, RowsKept
<1> QED
  BY <1>2, <1>4, <1>5

\* Who waits to insert is among those who did before, or has just been admitted.
LEMMA OthersWait ==
  ASSUME ProjectsTypeOK, ProjectsNext, NEW q \in Calls, Same(q), Underway(q), NEW u
  PROVE  /\ q \in Creating(u)' => q \in Creating(u)
         /\ q \in Uploading(u)' => q \in Uploading(u)
<1>1. q \in Creating(u)' => q \in Creating(u)
  BY DEF Same, Creating
<1>2. ASSUME q \in Uploading(u)' PROVE q \in Uploading(u)
  <2> DEFINE p == call[q].target
  <2>0. p \in Nat /\ p <= lastProject /\ lastProject \in Nat
    BY ProjectConstants DEF ProjectsTypeOK, Underway, Call
  <2>1. /\ call'[q].op = "upload" /\ call'[q].flag /\ call'[q].target \in DOMAIN projects'
        /\ projects'[call'[q].target].owner = u
    BY <1>2 DEF Uploading
  <2>2. call'[q].target = p /\ call[q].op = "upload" /\ call[q].flag
    BY <2>1 DEF Same
  <2>3. p \in DOMAIN projects /\ projects[p].owner = u
    BY <2>0, <2>1, <2>2, RowsStep DEF RowsKept
  <2> QED
    BY <2>2, <2>3 DEF Uploading
<1> QED
  BY <1>1, <1>2

LEMMA OwnWaits ==
  ASSUME ProjectsTypeOK, NEW r \in Calls, Continued(r) \/ Abandoned(r), Underway(r), NEW u
  PROVE  /\ r \in Creating(u)' => r \in Creating(u) /\ ~CreateProject(r) /\ ~CopyRow(r)
         /\ r \notin Uploading(u)'
<1>0. call \in [Calls -> Call] /\ call[r] \in Call
  BY DEF ProjectsTypeOK
<1>1. r \notin Uploading(u)'
  BY GoesOn DEF Uploading, Underway, NoCall, VersionSteps
<1>2. ASSUME r \in Creating(u)' PROVE r \in Creating(u) /\ ~CreateProject(r) /\ ~CopyRow(r)
  <2>1. /\ call'[r].op \in {"create", "duplicate", "use", "import"}
        /\ call'[r].step \in {"source", "insert"} /\ call'[r].user = u /\ call'[r].flag
    BY <1>2 DEF Creating
  <2>2. call'[r] # NoCall
    BY <2>1 DEF NoCall
  <2>3. call[r].op = call'[r].op /\ call[r].user = u /\ call[r].flag
    BY <2>1, <2>2, GoesOn DEF Underway
  <2>4. ~CreateProject(r)
    <3>1. ASSUME CreateProject(r) PROVE FALSE
      <4> DEFINE step == IF call[r].op = "import" THEN "entries" ELSE "main"
      <4>1. call'[r] = [call[r] EXCEPT !.target = lastProject', !.step = step]
        BY <1>0, <3>1 DEF CreateProject
      <4>2. call'[r].step = step
        BY <1>0, <4>1 DEF Call
      <4> QED
        BY <2>1, <4>2
    <3> QED
      BY <3>1
  <2>5. ~Return(r) /\ \A p, ops : call' # [Noted(p, ops) EXCEPT ![r] = NoCall]
    BY <1>0, <2>2, NotedTyped DEF Return
  <2>6. ASSUME NEW step, NEW p, NEW list, step \notin {"source", "insert"},
               \/ call' = [call EXCEPT ![r].step = step, ![r].target = p]
               \/ call' = [call EXCEPT ![r].step = step, ![r].list = list]
               \/ call' = [call EXCEPT ![r].step = step]
        PROVE  FALSE
    <3>1. \/ call'[r] = [call[r] EXCEPT !.step = step, !.target = p]
          \/ call'[r] = [call[r] EXCEPT !.step = step, !.list = list]
          \/ call'[r] = [call[r] EXCEPT !.step = step]
      BY <1>0, <2>6
    <3>2. call'[r].step = step
      BY <1>0, <3>1 DEF Call
    <3> QED
      BY <2>1, <2>6, <3>2
  <2>7. ~CopyRow(r) /\ ~ListFiles(r) /\ ~Copied(r)
    BY <2>5, <2>6 DEF CopyRow, ListFiles, Copied
  <2>8. ~CopyFile(r) /\ ~ImportEntry(r)
    <3>1. ASSUME NEW e, \/ call' = [call EXCEPT ![r].done = @ \cup {e}]
                        \/ call' = [call EXCEPT ![r].list = @ \ {e}]
          PROVE  call'[r].step = call[r].step
      BY <1>0, <3>1 DEF Call
    <3>2. Doing(r, "copy") \/ Doing(r, "entries") => call'[r].step # call[r].step
      BY <2>1 DEF Doing
    <3> QED
      BY <2>5, <3>1, <3>2 DEF CopyFile, ImportEntry
  <2>a. ~Restore(r)
    BY <2>1, <2>3, RestoresVersions
  <2>9. copyProject(r)
    BY <2>4, <2>5, <2>7, <2>8, <2>a DEF Continued, Abandoned, CreateTextFile, SetProjectTemplate, Imported,
       CreateAssetFile, DeleteFile
  <2>10. call[r].step = "source"
    BY <2>9 DEF copyProject, Doing
  <2> QED
    BY <2>1, <2>3, <2>4, <2>7, <2>10 DEF Creating
<1> QED
  BY <1>1, <1>2

LEMMA WithinQuotaStep ==
  ASSUME ProjectsTypeOK, CheckedIsLive, ProjectsNext, WithinQuota, \A q \in Calls : Underway(q)
  PROVE  WithinQuota'
<1> SUFFICES ASSUME NEW u \in Users
             PROVE  /\ Cardinality(Counted(u)') + Cardinality(Creating(u)')
                         < MaxProjectsPerUser + Cardinality(Calls)
                    /\ Cardinality(CountedAssets(u)') + Cardinality(Uploading(u)')
                         < MaxAssetsPerUser + Cardinality(Calls)
  BY DEF WithinQuota
<1>0. /\ IsFiniteSet(Counted(u)) /\ IsFiniteSet(CountedAssets(u))
      /\ IsFiniteSet(Creating(u)) /\ IsFiniteSet(Uploading(u)) /\ IsFiniteSet(Calls)
      /\ MaxProjectsPerUser + Cardinality(Calls) \in Nat /\ MaxAssetsPerUser + Cardinality(Calls) \in Nat
      /\ MaxProjectsPerUser \in Nat /\ MaxAssetsPerUser \in Nat
      /\ Cardinality(Counted(u)) + Cardinality(Creating(u)) < MaxProjectsPerUser + Cardinality(Calls)
      /\ Cardinality(CountedAssets(u)) + Cardinality(Uploading(u)) < MaxAssetsPerUser + Cardinality(Calls)
  <2>1. Cardinality(Calls) \in Nat /\ IsFiniteSet(Calls)
    BY FS_CardinalityType, ProjectConstants
  <2> QED
    BY <2>1, CountsFinite, ProjectConstants DEF WithinQuota
\* Nothing begins to count, and nobody is admitted.
<1>1. ASSUME Counted(u)' \subseteq Counted(u), Creating(u)' \subseteq Creating(u)
      PROVE  Cardinality(Counted(u)') + Cardinality(Creating(u)') < MaxProjectsPerUser + Cardinality(Calls)
  BY <1>0, <1>1, NeitherGrows
<1>2. ASSUME CountedAssets(u)' \subseteq CountedAssets(u), Uploading(u)' \subseteq Uploading(u)
      PROVE  Cardinality(CountedAssets(u)') + Cardinality(Uploading(u)') < MaxAssetsPerUser + Cardinality(Calls)
  BY <1>0, <1>2, NeitherGrows
<1>3. /\ RowsKept
      /\ CountsKept => Counted(u)' \subseteq Counted(u) /\ CountedAssets(u)' \subseteq CountedAssets(u)
      /\ Counted(u)' = {p \in DOMAIN projects' : projects'[p].checked /\ projects'[p].owner = u}
      /\ CountedAssets(u)' = {f \in DOMAIN files' : /\ files'[f].checked
                                                    /\ projects'[files'[f].project].owner = u}
      /\ Counted(u) = {p \in DOMAIN projects : projects[p].checked /\ projects[p].owner = u}
      /\ CountedAssets(u) = {f \in DOMAIN files : /\ files[f].checked
                                                  /\ projects[files[f].project].owner = u}
  BY RowsStep, CountsShrink, CountedAre
<1>4. Creating(u)' \subseteq Calls /\ Uploading(u)' \subseteq Calls
  BY DEF Creating, Uploading
<1>5. ASSUME NEW r \in Calls, Continued(r) \/ Abandoned(r)
      PROVE  Creating(u)' \subseteq Creating(u) /\ Uploading(u)' \subseteq Uploading(u) \ {r}
  <2>1. \A q \in Calls \ {r} : Same(q)
    BY <1>5, OthersSame
  <2>2. \A q \in Calls \ {r} : /\ q \in Creating(u)' => q \in Creating(u)
                               /\ q \in Uploading(u)' => q \in Uploading(u)
    BY <2>1, OthersWait
  <2>3. (r \in Creating(u)' => r \in Creating(u)) /\ r \notin Uploading(u)'
    BY <1>5, OwnWaits
  <2> QED
    BY <1>4, <2>2, <2>3
<1>6. CASE AtOnce /\ CountsKept
  <2>1. \A q \in Calls : Same(q)
    BY <1>6, AllSame
  <2>2. \A q \in Calls : /\ q \in Creating(u)' => q \in Creating(u)
                         /\ q \in Uploading(u)' => q \in Uploading(u)
    BY <2>1, OthersWait
  <2>3. Creating(u)' \subseteq Creating(u) /\ Uploading(u)' \subseteq Uploading(u)
    BY <1>4, <2>2
  <2> QED
    BY <1>1, <1>2, <1>3, <1>6, <2>3
<1>7. ASSUME NEW r \in Calls, Continued(r) \/ Abandoned(r), CountsKept
      PROVE  /\ Cardinality(Counted(u)') + Cardinality(Creating(u)')
                  < MaxProjectsPerUser + Cardinality(Calls)
             /\ Cardinality(CountedAssets(u)') + Cardinality(Uploading(u)')
                  < MaxAssetsPerUser + Cardinality(Calls)
  <2>1. Creating(u)' \subseteq Creating(u) /\ Uploading(u)' \subseteq Uploading(u)
    BY <1>5, <1>7
  <2> QED
    BY <1>1, <1>2, <1>3, <1>7, <2>1
\* An admission: below the quota at that moment.
<1>8. ASSUME NEW r \in Calls, Asked(r)
      PROVE  /\ Cardinality(Counted(u)') + Cardinality(Creating(u)')
                  < MaxProjectsPerUser + Cardinality(Calls)
             /\ Cardinality(CountedAssets(u)') + Cardinality(Uploading(u)')
                  < MaxAssetsPerUser + Cardinality(Calls)
  <2>0. \A q \in Calls \ {r} : Same(q)
    BY <1>8, OthersSame
  <2>1. \A q \in Calls \ {r} : /\ q \in Creating(u)' => q \in Creating(u)
                               /\ q \in Uploading(u)' => q \in Uploading(u)
    BY <2>0, OthersWait
  <2>2. CountsKept /\ UNCHANGED rows
    BY <1>8, AskedOps DEF CountsKept, rows
  <2>3. Cardinality(Counted(u)') + Cardinality(Creating(u)') < MaxProjectsPerUser + Cardinality(Calls)
    <3>1. CASE Creating(u)' \subseteq Creating(u)
      BY <1>1, <1>3, <2>2, <3>1
    <3>2. CASE ~(Creating(u)' \subseteq Creating(u))
      <4>1. r \in Creating(u)'
        BY <1>4, <2>1, <3>2
      <4>2. checkProjectQuota(u) /\ u \notin Exempt
        BY <1>8, <4>1, AskedOps DEF Creating
      <4> DEFINE own == {p \in Owned(u) : ~projects[p].template}
      <4>3. Cardinality(own) < MaxProjectsPerUser
        BY <4>2 DEF checkProjectQuota
      <4>4. Counted(u) \subseteq own /\ own \subseteq Owned(u)
        BY DEF Counted, CheckedIsLive, Owned, Live
      <4> HIDE DEF own
      <4>5. IsFiniteSet(own)
        BY <4>4, CountsFinite, FS_Subset
      <4>6. Cardinality(Counted(u)) <= Cardinality(own) /\ Cardinality(own) \in Nat /\ Cardinality(Counted(u)) \in Nat
        BY <1>0, <4>4, <4>5, FS_Subset, FS_CardinalityType
      <4>7. Cardinality(Counted(u)) < MaxProjectsPerUser
        BY <1>0, <4>3, <4>6
      <4>8. Counted(u)' \subseteq Counted(u)
        BY <1>3, <2>2
      <4> QED
        BY <1>0, <1>4, <4>7, <4>8, OneEnters
    <3> QED
      BY <3>1, <3>2
  <2>4. Cardinality(CountedAssets(u)') + Cardinality(Uploading(u)') < MaxAssetsPerUser + Cardinality(Calls)
    <3>1. CASE Uploading(u)' \subseteq Uploading(u)
      BY <1>2, <1>3, <2>2, <3>1
    <3>2. CASE ~(Uploading(u)' \subseteq Uploading(u))
      <4>1. r \in Uploading(u)'
        BY <1>4, <2>1, <3>2
      <4>2. /\ call'[r].op = "upload" /\ call'[r].flag
            /\ projects[call'[r].target].owner = u
        BY <2>2, <4>1 DEF Uploading, rows
      <4>3. Cardinality(AssetsOwnedBy(u)) + 1 <= MaxAssetsPerUser
        BY <1>8, <4>2, AskedOps DEF checkAssetQuota
      <4>4. CountedAssets(u) \subseteq AssetsOwnedBy(u)
        BY DEF CountedAssets
      <4>5. /\ Cardinality(CountedAssets(u)) <= Cardinality(AssetsOwnedBy(u))
            /\ Cardinality(AssetsOwnedBy(u)) \in Nat /\ Cardinality(CountedAssets(u)) \in Nat
        BY <1>0, <4>4, CountsFinite, FS_Subset, FS_CardinalityType
      <4>6. Cardinality(CountedAssets(u)) < MaxAssetsPerUser
        BY <1>0, <4>3, <4>5
      <4>7. CountedAssets(u)' \subseteq CountedAssets(u)
        BY <1>3, <2>2
      <4> QED
        BY <1>0, <1>4, <4>6, <4>7, OneEnters
    <3> QED
      BY <3>1, <3>2
  <2> QED
    BY <2>3, <2>4
\* An insertion: the request that was admitted waits no longer.
<1>9. ASSUME NEW r \in Calls, CreateProject(r) \/ CopyRow(r)
      PROVE  /\ Cardinality(Counted(u)') + Cardinality(Creating(u)')
                  < MaxProjectsPerUser + Cardinality(Calls)
             /\ Cardinality(CountedAssets(u)') + Cardinality(Uploading(u)')
                  < MaxAssetsPerUser + Cardinality(Calls)
  <2>1. PICK main \in Paths : ProjectAdded(call[r].user, main, call[r].flag)
    BY <1>9, ProjectStep
  <2>2. UNCHANGED files
    BY <1>9, ProjectStep
  <2> DEFINE n == lastProject'
  <2>3. /\ Continued(r) /\ call[r].step = "insert"
        /\ call[r].flag => call[r].op \in {"create", "duplicate", "use", "import"}
    BY <1>9 DEF Continued, CreateProject, CopyRow, Doing, Underway
  <2>4. Creating(u)' \subseteq Creating(u) \ {r} /\ Uploading(u)' \subseteq Uploading(u)
    <3>1. r \notin Creating(u)'
      BY <1>9, <2>3, OwnWaits
    <3> QED
      BY <1>5, <2>3, <3>1
  <2>5. CountedAssets(u)' \subseteq CountedAssets(u)
    <3>1. \A f \in DOMAIN files : files[f].project \in DOMAIN projects
      BY DEF ProjectsTypeOK
    <3> QED
      BY <1>3, <2>1, <2>2, <3>1 DEF ProjectAdded
  <2>6. CASE Counted(u)' \subseteq Counted(u)
    BY <1>1, <1>2, <2>4, <2>5, <2>6
  <2>7. CASE ~(Counted(u)' \subseteq Counted(u))
    <3>1. /\ \A p \in Counted(u)' : p \in Counted(u) \/ p = n
          /\ n \in Counted(u)' => call[r].flag /\ call[r].user = u
      BY <1>3, <2>1 DEF ProjectAdded
    <3>2. n \in Counted(u)' /\ Counted(u)' \subseteq Counted(u) \cup {n}
      BY <2>7, <3>1
    <3>3. r \in Creating(u)
      BY <2>3, <3>1, <3>2 DEF Creating
    <3> HIDE DEF n
    <3>4. Cardinality(Counted(u)') + Cardinality(Creating(u)') < MaxProjectsPerUser + Cardinality(Calls)
      BY <1>0, <2>4, <3>2, <3>3, OneMoves
    <3> QED
      BY <1>2, <2>4, <2>5, <3>4
  <2> QED
    BY <2>6, <2>7
<1>10. ASSUME NEW r \in Calls, CreateAssetFile(r)
       PROVE  /\ Cardinality(Counted(u)') + Cardinality(Creating(u)')
                   < MaxProjectsPerUser + Cardinality(Calls)
              /\ Cardinality(CountedAssets(u)') + Cardinality(Uploading(u)')
                   < MaxAssetsPerUser + Cardinality(Calls)
  <2> DEFINE p       == call[r].target
             checked == call[r].flag /\ p \in Live
             n       == lastFile'
  <2>1. /\ p \in DOMAIN projects /\ call[r].main \in Paths /\ call[r].main \notin PathsOf(p)
        /\ checked \in BOOLEAN /\ NewFile(p, call[r].main, TRUE, checked) /\ UNCHANGED projects
        /\ checked => call[r].flag
        /\ Continued(r) /\ call[r].op = "upload"
    BY <1>10 DEF CreateAssetFile, CanInsert, ProjectsTypeOK, Call, Continued, Doing, Underway
  <2> HIDE DEF checked
  <2>2. FileAdded(p, call[r].main, TRUE, checked)
    BY <2>1, FileInserted
  <2>3. Creating(u)' \subseteq Creating(u) /\ Uploading(u)' \subseteq Uploading(u) \ {r}
    BY <1>5, <2>1
  <2>4. Counted(u)' \subseteq Counted(u)
    BY <1>3, <2>1
  <2>5. CASE CountedAssets(u)' \subseteq CountedAssets(u)
    BY <1>1, <1>2, <2>3, <2>4, <2>5
  <2>6. CASE ~(CountedAssets(u)' \subseteq CountedAssets(u))
    <3>1. /\ \A f \in CountedAssets(u)' : f \in CountedAssets(u) \/ f = n
          /\ n \in CountedAssets(u)' => checked /\ projects[p].owner = u
      BY <1>3, <2>1, <2>2 DEF FileAdded
    <3>2. n \in CountedAssets(u)' /\ CountedAssets(u)' \subseteq CountedAssets(u) \cup {n}
      BY <2>6, <3>1
    <3>3. r \in Uploading(u)
      BY <2>1, <3>1, <3>2 DEF Uploading
    <3> HIDE DEF n
    <3>4. Cardinality(CountedAssets(u)') + Cardinality(Uploading(u)') < MaxAssetsPerUser + Cardinality(Calls)
      BY <1>0, <2>3, <3>2, <3>3, OneMoves
    <3> QED
      BY <1>1, <2>3, <2>4, <3>4
  <2> QED
    BY <2>5, <2>6
<1> QED
  BY <1>6, <1>7, <1>8, <1>9, <1>10, CountsStep DEF ProjectsNext, AtOnce

-----------------------------------------------------------------------------
(* The invariant.                                                           *)

LEMMA ProjectsInvInit ==
  ASSUME ProjectsInit
  PROVE  ProjectsInv
<1>0. call = [r \in Calls |-> NoCall] /\ projectMenu \in ProjectMenus
  BY DEF ProjectsInit
<1>1. \/ /\ DOMAIN projects = {} /\ projects = [p \in {} |-> 0] /\ lastProject = 0
         /\ DOMAIN files = {} /\ files = [f \in {} |-> 0] /\ lastFile = 0
      \/ /\ lastProject = 1 /\ DOMAIN projects = {1} /\ projects \in [{1} -> Project]
         /\ ~projects[1].template /\ ~projects[1].deleted
         /\ lastFile = 1 /\ DOMAIN files = {1} /\ files \in [{1} -> File]
         /\ files[1].project = 1 /\ ~files[1].asset /\ ~files[1].checked
  <2>1. CASE \E u \in Users : /\ projects = [p \in {1} |-> [owner |-> u, main |-> MainTyp, template |-> FALSE,
                                                          deleted |-> FALSE, checked |-> TRUE]]
                             /\ files = [f \in {1} |-> [project |-> 1, path |-> MainTyp, asset |-> FALSE,
                                                       checked |-> FALSE]]
                             /\ lastProject = 1 /\ lastFile = 1
    <3>1. PICK u \in Users : projects = [p \in {1} |-> [owner |-> u, main |-> MainTyp, template |-> FALSE,
                                                       deleted |-> FALSE, checked |-> TRUE]]
      BY <2>1
    <3>2. DOMAIN projects = {1} /\ projects \in [{1} -> Project] /\ ~projects[1].template /\ ~projects[1].deleted
      BY <3>1, ProjectConstants DEF Project
    <3>3. /\ DOMAIN files = {1} /\ files \in [{1} -> File]
          /\ files[1].project = 1 /\ ~files[1].asset /\ ~files[1].checked
      BY <2>1, ProjectConstants DEF File, Pids
    <3> QED
      BY <2>1, <3>2, <3>3
  <2>2. CASE /\ projects = [p \in {} |-> 0] /\ lastProject = 0
             /\ files = [f \in {} |-> 0] /\ lastFile = 0
    BY <2>2
  <2> QED
    BY <2>1, <2>2 DEF ProjectsInit
<1>a. call \in [Calls -> Call]
  BY <1>0, NoCallTyped
<1>b. 1 \in 0 .. MaxProjects /\ 0 \in 0 .. MaxProjects /\ 1 \in 0 .. MaxFiles /\ 0 \in 0 .. MaxFiles
  BY ProjectConstants
<1>c. /\ DOMAIN projects \subseteq 1 .. lastProject /\ projects \in [DOMAIN projects -> Project]
      /\ DOMAIN files \subseteq 1 .. lastFile /\ files \in [DOMAIN files -> File]
  <2>1. 1 \in 1 .. 1 /\ \A T : [p \in {} |-> 0] \in [{} -> T]
    OBVIOUS
  <2>2. projects \in [DOMAIN projects -> Project]
    BY <1>1, <2>1
  <2>3. files \in [DOMAIN files -> File]
    BY <1>1, <2>1
  <2> QED
    BY <1>1, <2>1, <2>2, <2>3
<1>d. /\ lastProject \in 0 .. MaxProjects /\ lastFile \in 0 .. MaxFiles
      /\ \A f \in DOMAIN files : files[f].project \in DOMAIN projects
      /\ \A f, g \in DOMAIN files : f = g
  BY <1>1, <1>b
<1>2. ProjectsTypeOK
  BY <1>0, <1>a, <1>c, <1>d DEF ProjectsTypeOK
<1>3. CheckedIsLive
  BY <1>1 DEF CheckedIsLive
<1>4. WithinQuota
  <2> SUFFICES ASSUME NEW u \in Users
               PROVE  /\ Cardinality(Counted(u)) + Cardinality(Creating(u))
                           < MaxProjectsPerUser + Cardinality(Calls)
                      /\ Cardinality(CountedAssets(u)) + Cardinality(Uploading(u))
                           < MaxAssetsPerUser + Cardinality(Calls)
    BY DEF WithinQuota
  <2>1. Creating(u) = {} /\ Uploading(u) = {}
    BY <1>0 DEF Creating, Uploading, NoCall
  <2>2. CountedAssets(u) = {}
    BY <1>1 DEF CountedAssets, AssetsOwnedBy
  <2>3. Counted(u) \subseteq {1}
    BY <1>1 DEF Counted, Owned, Live
  <2>4. Cardinality({}) = 0 /\ Cardinality(Counted(u)) <= 1 /\ Cardinality(Counted(u)) \in Nat
    <3>1. IsFiniteSet({1}) /\ Cardinality({1}) = 1
      BY FS_Singleton
    <3>2. IsFiniteSet(Counted(u)) /\ Cardinality(Counted(u)) <= Cardinality({1})
      BY <2>3, <3>1, FS_Subset
    <3> QED
      BY <3>1, <3>2, FS_EmptySet, FS_CardinalityType
  <2>5. Cardinality(Calls) \in Nat /\ Cardinality(Calls) # 0
    BY ProjectConstants, FS_EmptySet, FS_CardinalityType
  <2> QED
    BY <2>1, <2>2, <2>4, <2>5, ProjectConstants
<1>5. \A r \in Calls : Underway(r) /\ CopiedSoFar(r) /\ NotMain(r) /\ StillListed(r)
  BY <1>0, <1>1 DEF Underway, CopiedSoFar, NotMain, StillListed, Filling, VersionSteps, NoCall
<1>6. OneFills
  BY <1>0 DEF OneFills, Filling, NoCall
<1> QED
  BY <1>2, <1>3, <1>4, <1>5, <1>6 DEF ProjectsInv

LEMMA ProjectsInvStep ==
  ASSUME ProjectsInv, [ProjectsNext]_projectsVars
  PROVE  ProjectsInv'
<1>1. CASE ProjectsNext
  <2>1. ProjectsTypeOK' /\ CheckedIsLive'
    BY <1>1, ProjectsTypeStep, CheckedStep DEF ProjectsInv
  <2>2. WithinQuota'
    BY <1>1, WithinQuotaStep DEF ProjectsInv
  <2>3. (\A r \in Calls : Underway(r)') /\ OneFills'
    BY <1>1, UnderwayStep DEF ProjectsInv
  <2>4. \A r \in Calls : CopiedSoFar(r)'
    BY <1>1, CopiedSoFarStep DEF ProjectsInv
  <2>5. \A r \in Calls : NotMain(r)' /\ StillListed(r)'
    BY <1>1, NotMainStep, StillListedStep DEF ProjectsInv
  <2> QED
    BY <2>1, <2>2, <2>3, <2>4, <2>5 DEF ProjectsInv
<1>2. CASE UNCHANGED projectsVars
  <2>1. /\ ProjectsTypeOK' = ProjectsTypeOK /\ CheckedIsLive' = CheckedIsLive
        /\ OneFills' = OneFills
    BY <1>2 DEF projectsVars, ProjectsTypeOK, CheckedIsLive, Live, OneFills, Filling
  <2>2. WithinQuota'
    BY <1>2 DEF projectsVars, ProjectsInv, WithinQuota, Counted, CountedAssets, Owned, AssetsOwnedBy, Live,
       Creating, Uploading
  <2>a. UNCHANGED projects /\ UNCHANGED lastProject /\ UNCHANGED files /\ UNCHANGED lastFile /\ UNCHANGED call
    BY <1>2 DEF projectsVars
  <2>b. \A r \in Calls : Underway(r) /\ CopiedSoFar(r) /\ NotMain(r) /\ StillListed(r)
    BY DEF ProjectsInv
  <2>c. \A r \in Calls : Underway(r)' /\ NotMain(r)' /\ StillListed(r)'
    BY <2>a, <2>b DEF Underway, NotMain, StillListed, Filling
  <2>d. \A r \in Calls : CopiedSoFar(r)'
    BY <2>a, <2>b DEF CopiedSoFar, Filling, PathsOf, FilesOf
  <2>3. \A r \in Calls : Underway(r)' /\ NotMain(r)' /\ StillListed(r)' /\ CopiedSoFar(r)'
    BY <2>c, <2>d
  <2> QED
    BY <2>1, <2>2, <2>3 DEF ProjectsInv
<1> QED
  BY <1>1, <1>2

\* The invariant of projects, whatever their requests do between two statements.
THEOREM ProjectsInvariant == ProjectsSpec => []ProjectsInv
<1>1. ProjectsInit => ProjectsInv
  BY ProjectsInvInit
<1>2. ProjectsInv /\ [ProjectsNext]_projectsVars => ProjectsInv'
  BY ProjectsInvStep
<1> QED
  BY <1>1, <1>2, PTL DEF ProjectsSpec

\* roleauth.go:19, :38: the count and the insertion are two statements, so requests admitted
\* together exceed a quota, but by fewer than there are requests.
THEOREM QuotaOverrunBoundedAlways == ProjectsSpec => []QuotaOverrunBounded
<1>1. ProjectsInv => QuotaOverrunBounded
  <2> SUFFICES ASSUME ProjectsInv, NEW u \in Users
               PROVE  /\ Cardinality(Counted(u)) < MaxProjectsPerUser + Cardinality(Calls)
                      /\ Cardinality(CountedAssets(u)) < MaxAssetsPerUser + Cardinality(Calls)
    BY DEF QuotaOverrunBounded
  <2>1. /\ Cardinality(Counted(u)) \in Nat /\ Cardinality(Creating(u)) \in Nat
        /\ Cardinality(CountedAssets(u)) \in Nat /\ Cardinality(Uploading(u)) \in Nat
        /\ Cardinality(Calls) \in Nat
    BY CountsFinite, FS_CardinalityType, ProjectConstants DEF ProjectsInv
  <2>2. /\ Cardinality(Counted(u)) + Cardinality(Creating(u)) < MaxProjectsPerUser + Cardinality(Calls)
        /\ Cardinality(CountedAssets(u)) + Cardinality(Uploading(u)) < MaxAssetsPerUser + Cardinality(Calls)
    BY DEF ProjectsInv, WithinQuota
  <2> QED
    BY <2>1, <2>2, ProjectConstants
<1> QED
  BY <1>1, ProjectsInvariant, PTL

\* What becomes a template, and what file goes from a project that stays.
PublishedOrDeleted ==
  /\ \A p \in DOMAIN projects \cap DOMAIN projects' :
       projects'[p].template /\ ~projects[p].template
       => \E r \in Calls : SetProjectTemplate(r) /\ call[r].target = p
  /\ \A f \in DOMAIN files \ DOMAIN files' :
       \/ files[f].project \notin DOMAIN projects'
       \/ \E r \in Calls : DeleteFile(r) /\ call[r].file = f
       \/ \E r \in Calls : RestoreReplaced(r) \/ RestoreLeft(r)

LEMMA PublishedOrDeletedStep ==
  ASSUME ProjectsTypeOK, ProjectsNext
  PROVE  PublishedOrDeleted
<1>a. /\ projects \in [DOMAIN projects -> Project] /\ files \in [DOMAIN files -> File]
      /\ \A f \in DOMAIN files : files[f].project \in DOMAIN projects
  BY DEF ProjectsTypeOK
<1>1. ASSUME UNCHANGED rows PROVE PublishedOrDeleted
  BY <1>1 DEF PublishedOrDeleted, rows
<1>2. ASSUME NEW r \in Calls, CreateProject(r) \/ CopyRow(r) PROVE PublishedOrDeleted
  BY <1>2, ProjectStep DEF PublishedOrDeleted, ProjectAdded
<1>3. ASSUME NEW p, NEW path, NEW asset, NEW checked, FileAdded(p, path, asset, checked), UNCHANGED projects
      PROVE  PublishedOrDeleted
  BY <1>3 DEF FileAdded, PublishedOrDeleted
<1>4. ASSUME NEW r \in Calls, CreateTextFile(r) \/ CopyFile(r) \/ ImportEntry(r)
      PROVE  PublishedOrDeleted
  BY <1>1, <1>3, <1>4, FillingStep
<1>5. ASSUME NEW r \in Calls, SetProjectTemplate(r) PROVE PublishedOrDeleted
  <2>1. UNCHANGED files /\ \A p \in DOMAIN projects : p # call[r].target => projects'[p] = projects[p]
    BY <1>5, <1>a DEF SetProjectTemplate
  <2> QED
    BY <1>5, <2>1 DEF PublishedOrDeleted
<1>6. ASSUME NEW p \in DOMAIN projects, SoftDelete(p) PROVE PublishedOrDeleted
  BY <1>6, Trashed DEF PublishedOrDeleted
<1>7. ASSUME NEW p \in DOMAIN projects, NEW path \in Paths, UNCHANGED files,
             projects' = [projects EXCEPT ![p].main = path]
      PROVE  PublishedOrDeleted
  BY <1>7, MainSet DEF PublishedOrDeleted
<1>8. ASSUME NEW r \in Calls, Imported(r) PROVE PublishedOrDeleted
  BY <1>1, <1>6, <1>7, <1>8, ImportedStep
<1>9. ASSUME NEW f \in DOMAIN files', DOMAIN files \subseteq DOMAIN files', UNCHANGED projects
      PROVE  PublishedOrDeleted
  BY <1>9 DEF PublishedOrDeleted
<1>10. ASSUME NEW r \in Calls, CreateAssetFile(r) PROVE PublishedOrDeleted
  BY <1>10, <1>9 DEF CreateAssetFile, NewFile, WithRow
<1>11. ASSUME NEW r \in Calls, DeleteFile(r) PROVE PublishedOrDeleted
  <2>1. UNCHANGED projects /\ DOMAIN files' = DOMAIN files \ {call[r].file}
    BY <1>11 DEF DeleteFile, Restrict
  <2> QED
    BY <1>11, <2>1 DEF PublishedOrDeleted
<1>12. ASSUME NEW p \in Live, NEW path \in Paths, handleCreateFile(p, path) PROVE PublishedOrDeleted
  BY <1>3, <1>12, FileInserted DEF handleCreateFile, CanInsert
<1>13. ASSUME NEW f \in DOMAIN files, NEW path \in Paths, handleRenameFile(f, path) PROVE PublishedOrDeleted
  BY <1>13, <1>9, <1>a DEF handleRenameFile
<1>14. ASSUME NEW p \in DOMAIN projects, handleRestoreProject(p) PROVE PublishedOrDeleted
  <2>1. /\ DOMAIN projects' = DOMAIN projects /\ UNCHANGED files
        /\ \A q \in DOMAIN projects : projects'[q].template = projects[q].template
    BY <1>14, <1>a DEF handleRestoreProject, Project
  <2> QED
    BY <2>1 DEF PublishedOrDeleted
<1>15. ASSUME NEW p \in DOMAIN projects, handlePermanentDeleteProject(p) PROVE PublishedOrDeleted
  <2>1. /\ DOMAIN projects' = DOMAIN projects \ {p} /\ DOMAIN files' = DOMAIN files \ FilesOf(p)
        /\ \A q \in DOMAIN projects' : projects'[q] = projects[q]
    BY <1>15 DEF handlePermanentDeleteProject, Restrict
  <2> QED
    BY <2>1 DEF PublishedOrDeleted, FilesOf
<1>16. ASSUME NEW r \in Calls, Restore(r) PROVE PublishedOrDeleted
  <2>1. UNCHANGED projects
    BY <1>16, RestoringStep
  <2>2. CASE RestoreReplaced(r) \/ RestoreLeft(r)
    BY <2>1, <2>2 DEF PublishedOrDeleted
  <2>3. CASE ListCurrent(r) \/ RestoreContent(r) \/ Restored(r)
    BY <2>1, <2>3 DEF ListCurrent, RestoreContent, Restored, PublishedOrDeleted
  <2>4. CASE RestoreMissing(r) \/ Replace(r)
    <3>1. DOMAIN files \subseteq DOMAIN files'
      BY <2>4 DEF RestoreMissing, Replace, PutBack, NewFile, WithRow
    <3> QED
      BY <2>1, <3>1 DEF PublishedOrDeleted
  <2> QED
    BY <1>16, <2>2, <2>3, <2>4 DEF Restore
<1> QED
  BY <1>1, <1>2, <1>4, <1>5, <1>6, <1>7, <1>8, <1>10, <1>11, <1>12, <1>13, <1>14, <1>15, <1>16,
     NothingWritten
     DEF ProjectsNext, Continued, handleDeleteProject, handleUpdateProject, Live

\* projects_handlers.go:330: what is published holds every file of the list that was copied,
\* unless its files have been changed one by one in between.
THEOREM TemplateCompleteAlways == ProjectsSpec => TemplateComplete
<1>1. ASSUME ProjectsInv, [ProjectsNext]_projectsVars, NEW p \in DOMAIN projects \cap DOMAIN projects',
             projects'[p].template, ~projects[p].template
      PROVE  \E r \in Calls : /\ call[r].target = p
                              /\ call[r].flag \/ PathsOf(p) = {e.path : e \in call[r].list}
  <2>1. ProjectsTypeOK /\ ProjectsNext
    BY <1>1 DEF ProjectsInv, projectsVars
  <2>2. ASSUME NEW r \in Calls, SetProjectTemplate(r), call[r].target = p
        PROVE  (call[r].flag \/ PathsOf(p) = {e.path : e \in call[r].list})
    <3>1. Underway(r) /\ CopiedSoFar(r) /\ call[r].step = "publish"
      BY <1>1, <2>2 DEF ProjectsInv, SetProjectTemplate, Doing
    <3> QED
      BY <2>2, <3>1 DEF Underway, CopiedSoFar, Filling
  <2> QED
    BY <1>1, <2>1, <2>2, PublishedOrDeletedStep DEF PublishedOrDeleted
<1>2. ProjectsInv /\ [ProjectsNext]_projectsVars =>
        [\A p \in DOMAIN projects \cap DOMAIN projects' :
           projects'[p].template /\ ~projects[p].template
           => \E r \in Calls :
                /\ call[r].target = p
                /\ call[r].flag \/ PathsOf(p) = {e.path : e \in call[r].list}]_projectsVars
  BY <1>1
<1> QED
  BY <1>2, ProjectsInvariant, PTL DEF ProjectsSpec, TemplateComplete

\* files_handlers.go:227: a request to delete a file takes the main file only if it looked
\* before a renaming or a new main path.  Otherwise it is the restoration of a version that
\* takes it: of one that does not hold it, or holds it as an asset or in place of one.
THEOREM MainFileKeptAlways == ProjectsSpec => MainFileKept
<1>1. ASSUME ProjectsInv, [ProjectsNext]_projectsVars, NEW f \in DOMAIN files \ DOMAIN files',
             NEW main, main = projects[files[f].project].main,
             files[f].project \in DOMAIN projects', files[f].path = main
      PROVE  \E r \in Calls :
               /\ call'[r] # call[r]
               /\ \/ call[r].op = "delete" /\ call[r].file = f /\ call[r].flag
                  \/ /\ call[r].op = "version" /\ call[r].target = files[f].project
                     /\ \/ call[r].flag
                        \/ \A e \in call[r].list : e.path = main => e.asset \/ files[f].asset
  <2>1. ProjectsTypeOK /\ ProjectsNext /\ call \in [Calls -> Call]
    BY <1>1 DEF ProjectsInv, projectsVars, ProjectsTypeOK
  <2>2. ASSUME NEW r \in Calls, DeleteFile(r), call[r].file = f
        PROVE  call[r].op = "delete" /\ call[r].flag /\ call'[r] # call[r]
    <3>1. call'[r] = NoCall
      BY <2>1, <2>2, NotedTyped DEF DeleteFile
    <3>2. NotMain(r) /\ Underway(r) /\ call[r].step = "delete"
      BY <1>1, <2>2 DEF ProjectsInv, DeleteFile, Doing
    <3> QED
      BY <1>1, <2>2, <3>1, <3>2 DEF NotMain, Underway, NoCall
\* What a restoration knows of the file it takes.
  <2>3. ASSUME NEW r \in Calls, NEW c \in call[r].current, c.id = f, call[r].step = "restore"
        PROVE  /\ call[r].op = "version" /\ call[r].target = files[f].project
               /\ call[r].list \in Manifests /\ files[f].asset = c.asset
               /\ ~call[r].flag => c.path = main
    <3>1. Underway(r) /\ StillListed(r)
      BY <1>1 DEF ProjectsInv
    <3>2. call[r].op = "version" /\ call[r].list \in Manifests
      BY <2>3, <3>1 DEF Underway, VersionSteps
    <3> QED
      BY <1>1, <2>3, <3>1, <3>2 DEF StillListed
  <2>4. ASSUME NEW r \in Calls, NEW id, NEW next, Removes(r, id, next) PROVE f = id /\ call'[r] = next
    BY <1>1, <2>1, <2>4 DEF Removes, Restrict, Noted
  <2>5. ASSUME NEW r \in Calls, RestoreReplaced(r)
        PROVE  /\ call[r].op = "version" /\ call[r].target = files[f].project /\ call'[r] # call[r]
               /\ \/ call[r].flag
                  \/ \A e \in call[r].list : e.path = main => e.asset \/ files[f].asset
    <3>1. PICK e \in call[r].list, c \in call[r].current :
            /\ call[r].step = "restore" /\ c.path = e.path /\ (c.asset \/ e.asset)
            /\ Removes(r, c.id, [call[r] EXCEPT !.step = "replace", !.main = e.path])
      BY <2>5 DEF RestoreReplaced, Doing
    <3>2. f = c.id /\ call'[r] = [call[r] EXCEPT !.step = "replace", !.main = e.path]
      BY <2>4, <3>1
    <3>3. call'[r] # call[r]
      <4>1. call[r] \in Call
        BY <2>1
      <4>2. call'[r].step = "replace"
        BY <3>2, <4>1 DEF Call
      <4> QED
        BY <3>1, <4>2
    <3>4. /\ call[r].op = "version" /\ call[r].target = files[f].project
          /\ call[r].list \in Manifests /\ files[f].asset = c.asset
          /\ ~call[r].flag => c.path = main
      BY <2>3, <3>1, <3>2
    <3>5. \A d \in call[r].list : d.path = e.path => d = e
      BY <3>4, ProjectConstants
    <3> QED
      BY <3>1, <3>3, <3>4, <3>5
  <2>6. ASSUME NEW r \in Calls, RestoreLeft(r)
        PROVE  /\ call[r].op = "version" /\ call[r].target = files[f].project /\ call'[r] # call[r]
               /\ call[r].flag \/ \A e \in call[r].list : e.path # main
    <3>1. PICK c \in call[r].current :
            /\ call[r].step = "restore" /\ \A e \in call[r].list : e.path # c.path
            /\ Removes(r, c.id, [call[r] EXCEPT !.current = @ \ {c}])
      BY <2>6 DEF RestoreLeft, Doing
    <3>2. f = c.id /\ call'[r] = [call[r] EXCEPT !.current = @ \ {c}]
      BY <2>4, <3>1
    <3>3. call'[r] # call[r]
      <4>1. call[r] \in Call
        BY <2>1
      <4>2. call'[r].current = call[r].current \ {c}
        BY <3>2, <4>1 DEF Call
      <4> QED
        BY <4>2
    <3> QED
      BY <2>3, <3>1, <3>2, <3>3
  <2>7. \/ \E r \in Calls : DeleteFile(r) /\ call[r].file = f
        \/ \E r \in Calls : RestoreReplaced(r) \/ RestoreLeft(r)
    BY <1>1, <2>1, PublishedOrDeletedStep DEF PublishedOrDeleted
  <2> QED
    BY <2>2, <2>5, <2>6, <2>7
<1>2. ProjectsInv /\ [ProjectsNext]_projectsVars =>
        [\A f \in DOMAIN files \ DOMAIN files' :
           LET main == projects[files[f].project].main IN
           files[f].project \in DOMAIN projects' /\ files[f].path = main
           => \E r \in Calls :
                /\ call'[r] # call[r]
                /\ \/ call[r].op = "delete" /\ call[r].file = f /\ call[r].flag
                   \/ /\ call[r].op = "version" /\ call[r].target = files[f].project
                      /\ \/ call[r].flag
                         \/ \A e \in call[r].list : e.path = main => e.asset \/ files[f].asset]_projectsVars
  BY <1>1
<1> QED
  BY <1>2, ProjectsInvariant, PTL DEF ProjectsSpec, MainFileKept
-----------------------------------------------------------------------------
(* Side by side.                                                            *)

\* Whichever part moves, the rows of both have their types, belong to rows that exist, and
\* no project has two files of one path.
THEOREM RowsTypedAlways == MCSpec => []RowsTyped
<1>1. MCInit => AccountsInv /\ ProjectsInv
  BY AccountsInvInit, ProjectsInvInit DEF MCInit
<1>2. (AccountsInv /\ ProjectsInv) /\ [MCNext]_<<part, vars, projectsVars>> => (AccountsInv /\ ProjectsInv)'
  <2>1. [MCNext]_<<part, vars, projectsVars>> => [Next]_vars /\ [ProjectsNext]_projectsVars
    BY DEF MCNext
  <2> QED
    BY <2>1, AccountsInvStep, ProjectsInvStep
<1>3. AccountsInv /\ ProjectsInv => RowsTyped
  BY DEF AccountsInv, ProjectsInv, RowsTyped
<1> QED
  BY <1>1, <1>2, <1>3, PTL DEF MCSpec
=============================================================================
