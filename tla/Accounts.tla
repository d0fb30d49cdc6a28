------------------------------- MODULE Accounts -------------------------------
(***************************************************************************)
(* Accounts, sessions, one-time links, single sign-on and administrators.  *)
(* A handler is a sequence of statements, each committed on its own; what  *)
(* a request has read at its beginning, the user of its session above all, *)
(* it uses to its end.                                                     *)
(***************************************************************************)
EXTENDS Naturals, FiniteSets, Functions

CONSTANTS
  Emails,        \* addresses; each has a subject at the identity provider
  None,
  Requests,      \* requests handled concurrently
  Menus,         \* bound: what is asked for in one behaviour, under which setting
  MaxUsers,      \* bound: accounts ever created
  MaxPasswords,  \* bound: passwords an account ever has
  MaxTokens,     \* bound: one-time links ever issued
  MaxSessions,   \* bound: sessions at a time
  MaxTemplates   \* bound: copies of a built-in template

ASSUME AccountConstants ==
  /\ None \notin Emails /\ MaxUsers \in Nat /\ MaxPasswords \in Nat \ {0}
  /\ MaxTokens \in Nat /\ MaxSessions \in Nat /\ MaxTemplates \in Nat

VARIABLES
  users,         \* the rows, by id
  lastUser,      \* ids are never used twice
  identities,    \* oidc_identities: the account of each subject, 0 for none
  sessions,      \* what tells them apart here
  tokens,        \* password_resets and email_verifications
  lastToken,
  templates,     \* how many copies of a built-in template there are, see Copies
  menu,          \* the operations asked for, and whether sign-in needs a verified address
  req,           \* what each request is about to do
  resetTo,       \* history: the newest password a completed reset has given
  overlap        \* history: two requests have seeded at the same time

data == <<users, lastUser, identities>>
vars == <<data, sessions, tokens, lastToken, templates, menu, req, resetTo, overlap>>

Ids == 1 .. MaxUsers

\* pass numbers the passwords of an account; 0 is none.
Row     == [email : Emails, pass : 0 .. MaxPasswords, admin : BOOLEAN, verified : BOOLEAN]
\* late and spared say why a session may outlive a reset: its sign-in overlapped with the
\* reset, or the statement that deletes the sessions failed.
Session == [user : Ids, pass : 0 .. MaxPasswords, late : BOOLEAN, spared : BOOLEAN]
Token   == [user : Ids, kind : {"reset", "verify"}, alone : BOOLEAN]
Request == [op : {"idle", "register", "resend", "forgot", "reset", "verify", "login", "sso",
                  "change", "role", "remove", "startup"},
            step : {"none", "insert", "commit", "templates", "seed", "clear", "issue",
                    "session", "identity", "byEmail", "link", "setPassword", "markVerified",
                    "endSessions", "write"},
            email : Emails \cup {None}, by : 0 .. MaxUsers, user : 0 .. MaxUsers,
            pass : 0 .. MaxPasswords, flag : BOOLEAN]

\* Live and under its name are those that are as they were seeded, kept, and those that came
\* to the name, or back from the trash, later.
Copies == [kept : Nat, back : Nat, away : Nat]

Idle == [op |-> "idle", step |-> "none", email |-> None, by |-> 0, user |-> 0, pass |-> 0,
         flag |-> FALSE]

Init ==
  /\ users = [i \in {} |-> 0] /\ lastUser = 0
  /\ identities = [s \in Emails |-> 0]
  /\ sessions = {} /\ tokens = [t \in {} |-> 0] /\ lastToken = 0
  /\ templates = [kept |-> 0, back |-> 0, away |-> 0]
  /\ menu \in Menus /\ req = [r \in Requests |-> Idle]
  /\ resetTo = [i \in Ids |-> 0] /\ overlap = FALSE

Accounts == DOMAIN users
HasAddress(i, e) == users[i].email = e
Admins   == {i \in Accounts : users[i].admin}

-----------------------------------------------------------------------------
(* A request.                                                               *)

\* Nothing is served before the templates of the startup are there.
Serving == \A q \in Requests : req[q].op # "startup"

Begin(r, asked) ==
  /\ asked.op \in menu.ops /\ req[r] = Idle /\ Serving
  /\ req' = [req EXCEPT ![r] = asked]

At(r, step)  == req[r].step = step
Goto(r, step) == req' = [req EXCEPT ![r].step = step]
End(r)       == req' = [req EXCEPT ![r] = Idle]

\* A statement fails or the client leaves, and the handler gives up: not where it passes
\* over errors, after a reset and after a creation through single sign-on.
Cancelled(r) ==
  /\ req[r] # Idle /\ req[r].op # "startup"
  /\ req[r].step \notin {"templates", "seed", "endSessions"}
  /\ At(r, "markVerified") => req[r].op = "verify"
  /\ End(r)
  /\ UNCHANGED <<data, sessions, tokens, lastToken, templates, resetTo, overlap>>

-----------------------------------------------------------------------------
(* Creating an account.                                                     *)

\* CountUsers is about registration that an administrator may have closed; whether it
\* is open is left to choice for all but the first.
handleRegister(r, e) ==
  /\ Begin(r, [Idle EXCEPT !.op = "register", !.step = "insert", !.email = e])
  /\ UNCHANGED <<data, sessions, tokens, lastToken, templates, resetTo, overlap>>

\* INSERT ... NOT EXISTS(SELECT 1 FROM users): what the statement sees, before it commits.
CreateUser(r) ==
  /\ At(r, "insert")
  /\ req' = [req EXCEPT ![r].step = "commit", ![r].flag = (Accounts = {})]
  /\ UNCHANGED <<data, sessions, tokens, lastToken, templates, resetTo, overlap>>

AfterCreate(r, founder) ==
  CASE founder -> "templates"
    [] req[r].op = "sso" -> "link"
    [] menu.verification -> "clear"
    [] OTHER -> "session"

\* The address is unique: the second insertion of it fails.
UserCreated(r) ==
  /\ At(r, "commit")
  /\ IF \E i \in Accounts : HasAddress(i, req[r].email)
     THEN End(r) /\ UNCHANGED data
     ELSE LET i == lastUser + 1
              pass == IF req[r].op = "sso" THEN 0 ELSE 1
          IN  /\ lastUser < MaxUsers
              /\ lastUser' = i
              /\ users' = [j \in Accounts \cup {i} |->
                             IF j \in Accounts THEN users[j]
                             ELSE [email |-> req[r].email, pass |-> pass,
                                   admin |-> req[r].flag, verified |-> FALSE]]
              /\ req' = [req EXCEPT ![r].user = i, ![r].pass = pass,
                           ![r].step = IF req[r].op = "sso" THEN "markVerified"
                                       ELSE AfterCreate(r, req[r].flag),
                           ![r].flag = @ /\ req[r].op = "sso"]
              /\ UNCHANGED identities
  /\ UNCHANGED <<sessions, tokens, lastToken, templates, resetTo, overlap>>

AfterSeeding(r) == IF req[r].op = "startup" THEN End(r) ELSE Goto(r, AfterCreate(r, FALSE))

\* Mutant: seeding does not look whether the template is there.
SeedBlindly(r) ==
  /\ At(r, "templates") /\ Goto(r, "seed")
  /\ UNCHANGED <<data, sessions, tokens, lastToken, templates, resetTo, overlap>>

\* OnFirstUser, or a startup: look for an administrator to own the template, and for a live
\* template of its name.  One that is found only has its description refreshed.
Templates(r) ==
  /\ At(r, "templates")
  /\ IF templates.kept + templates.back > 0 \/ Admins = {} THEN AfterSeeding(r) /\ UNCHANGED overlap
     ELSE /\ Goto(r, "seed")
          /\ overlap' = (overlap \/ \E q \in Requests : At(q, "seed"))
  /\ UNCHANGED <<data, sessions, tokens, lastToken, templates, resetTo>>

AnotherCopy == templates.kept + templates.back + templates.away < MaxTemplates

\* seedOne makes a project a template when all is in it; an error leaves an ordinary project.
seedOne(r) ==
  /\ At(r, "seed")
  /\ \/ AnotherCopy /\ templates' = [templates EXCEPT !.kept = @ + 1]
     \/ UNCHANGED templates
  /\ AfterSeeding(r)
  /\ UNCHANGED <<data, sessions, tokens, lastToken, resetTo, overlap>>

\* Its owner renames it (handleUpdateProject) or puts it in the trash (handleDeleteProject,
\* handleDeleteTemplate).
TemplateAway ==
  /\ "template" \in menu.ops /\ Serving
  /\ \/ templates.kept > 0 /\ templates' = [templates EXCEPT !.kept = @ - 1, !.away = @ + 1]
     \/ templates.back > 0 /\ templates' = [templates EXCEPT !.back = @ - 1, !.away = @ + 1]
  /\ UNCHANGED <<data, sessions, tokens, lastToken, req, resetTo, overlap>>

\* It is restored or gets its name back, or somebody publishes a template of that name.
TemplateBack ==
  /\ "template" \in menu.ops /\ Serving
  /\ \/ templates.away > 0 /\ templates' = [templates EXCEPT !.back = @ + 1, !.away = @ - 1]
     \/ AnotherCopy /\ templates' = [templates EXCEPT !.back = @ + 1]
  /\ UNCHANGED <<data, sessions, tokens, lastToken, req, resetTo, overlap>>

\* handlePermanentDeleteProject, out of the trash.
TemplateGone ==
  /\ "template" \in menu.ops /\ Serving /\ templates.away > 0
  /\ templates' = [templates EXCEPT !.away = @ - 1]
  /\ UNCHANGED <<data, sessions, tokens, lastToken, req, resetTo, overlap>>

\* The process ends with all its requests; the next one seeds before it serves.
Restart(r) ==
  /\ req' = [q \in Requests |-> IF q = r THEN [Idle EXCEPT !.op = "startup", !.step = "templates"]
                                ELSE Idle]
  /\ UNCHANGED <<data, sessions, tokens, lastToken, templates, resetTo, overlap>>

-----------------------------------------------------------------------------
(* One-time links: clear the old ones, insert, mail.                        *)

Kind(r) == IF req[r].op = "forgot" THEN "reset" ELSE "verify"
Of(r)   == {t \in DOMAIN tokens : tokens[t].user = req[r].user /\ tokens[t].kind = Kind(r)}

handleForgotPassword(r, i) ==
  /\ users[i].pass > 0
  /\ Begin(r, [Idle EXCEPT !.op = "forgot", !.step = "clear", !.user = i])
  /\ UNCHANGED <<data, sessions, tokens, lastToken, templates, resetTo, overlap>>

handleResendVerification(r, i) ==
  /\ menu.verification /\ ~users[i].verified
  /\ Begin(r, [Idle EXCEPT !.op = "resend", !.step = "clear", !.user = i])
  /\ UNCHANGED <<data, sessions, tokens, lastToken, templates, resetTo, overlap>>

\* Mutant: the old link stays valid.
KeepOld(r) ==
  /\ At(r, "clear")
  /\ req' = [req EXCEPT ![r].step = "issue", ![r].flag = TRUE]
  /\ UNCHANGED <<data, sessions, tokens, lastToken, templates, resetTo, overlap>>

\* The flag says that no other link of the account has been inserted since.
ClearOld(r) ==
  /\ At(r, "clear")
  /\ tokens' = Restrict(tokens, DOMAIN tokens \ Of(r))
  /\ req' = [req EXCEPT ![r].step = "issue", ![r].flag = TRUE]
  /\ UNCHANGED <<data, sessions, lastToken, templates, resetTo, overlap>>

\* CreatePasswordReset, CreateEmailVerification; the account may be gone (foreign key).
\* A link whose mail is not delivered is one that nobody ever follows.
Issue(r) ==
  /\ At(r, "issue") /\ lastToken < MaxTokens
  /\ IF req[r].user \notin Accounts THEN End(r) /\ UNCHANGED <<tokens, lastToken>>
     ELSE LET t == lastToken + 1
          IN  /\ lastToken' = t
              /\ tokens' = [s \in DOMAIN tokens \cup {t} |->
                              IF s \in DOMAIN tokens THEN tokens[s]
                              ELSE [user |-> req[r].user, kind |-> Kind(r), alone |-> req[r].flag]]
              /\ req' = [q \in Requests |->
                           CASE q = r -> Idle
                             [] At(q, "issue") /\ req[q].user = req[r].user /\ Kind(q) = Kind(r)
                                  -> [req[q] EXCEPT !.flag = FALSE]
                             [] OTHER -> req[q]]
  /\ UNCHANGED <<data, sessions, templates, resetTo, overlap>>

\* DELETE ... RETURNING: of two requests with one link the database lets one through.
Consume(r, t, kind, op, step) ==
  /\ tokens[t].kind = kind
  /\ tokens' = Restrict(tokens, DOMAIN tokens \ {t})
  /\ Begin(r, [Idle EXCEPT !.op = op, !.step = step, !.user = tokens[t].user])
  /\ UNCHANGED <<data, sessions, lastToken, templates, resetTo, overlap>>

handleVerifyEmail(r, t)   == Consume(r, t, "verify", "verify", "markVerified")
handleResetPassword(r, t) == Consume(r, t, "reset", "reset", "setPassword")

TokenExpires(t) ==
  /\ tokens' = Restrict(tokens, DOMAIN tokens \ {t})
  /\ UNCHANGED <<data, sessions, lastToken, templates, req, resetTo, overlap>>

-----------------------------------------------------------------------------
(* Passwords.                                                               *)

\* From a session; the current password is compared with the one read with the session.
handleChangePassword(r, s) ==
  /\ users[s.user].pass > 0
  /\ Begin(r, [Idle EXCEPT !.op = "change", !.step = "setPassword", !.user = s.user])
  /\ UNCHANGED <<data, sessions, tokens, lastToken, templates, resetTo, overlap>>

SetPassword(r) ==
  LET i == req[r].user IN
  /\ At(r, "setPassword")
  /\ IF i \in Accounts
     THEN /\ users[i].pass < MaxPasswords
          /\ users' = [users EXCEPT ![i].pass = @ + 1]
     ELSE UNCHANGED users
  /\ IF req[r].op = "reset"
     THEN req' = [req EXCEPT ![r].step = "markVerified",
                             ![r].pass = IF i \in Accounts THEN users[i].pass + 1 ELSE 0]
     ELSE End(r)
  /\ UNCHANGED <<lastUser, identities, sessions, tokens, lastToken, templates,
                 resetTo, overlap>>

\* After a reset and after a creation through single sign-on an error is ignored.
MarkEmailVerified(r) ==
  /\ At(r, "markVerified")
  /\ \/ users' = [i \in Accounts |-> IF i = req[r].user THEN [users[i] EXCEPT !.verified = TRUE]
                                     ELSE users[i]]
     \/ req[r].op # "verify" /\ UNCHANGED users
  /\ CASE req[r].op = "verify" -> End(r)
       [] req[r].op = "reset"  -> Goto(r, "endSessions")
       [] OTHER -> req' = [req EXCEPT ![r].step = AfterCreate(r, req[r].flag), ![r].flag = FALSE]
  /\ UNCHANGED <<lastUser, identities, sessions, tokens, lastToken, templates,
                 resetTo, overlap>>

\* A sign-in that has read the account before and has not inserted its session yet.
Straggles(q, r) ==
  /\ req[q].step \in {"templates", "seed", "link", "session"}
  /\ req[q].user = req[r].user /\ req[q].pass < req[r].pass

\* Mutant: nothing is deleted.
KeepSessions(r) ==
  /\ At(r, "endSessions") /\ End(r)
  /\ resetTo' = [resetTo EXCEPT ![req[r].user] = IF @ < req[r].pass THEN req[r].pass ELSE @]
  /\ UNCHANGED <<data, sessions, tokens, lastToken, templates, overlap>>

\* An error is ignored here as well: the reset is complete, and the sessions are spared.
DeleteUserSessions(r) ==
  LET i == req[r].user IN
  /\ At(r, "endSessions")
  /\ \/ sessions' = {s \in sessions : s.user # i}
     \/ sessions' = {IF s.user = i THEN [s EXCEPT !.spared = TRUE] ELSE s : s \in sessions}
  /\ resetTo' = [resetTo EXCEPT ![i] = IF @ < req[r].pass THEN req[r].pass ELSE @]
  /\ req' = [q \in Requests |-> CASE q = r -> Idle
                                  [] Straggles(q, r) -> [req[q] EXCEPT !.flag = TRUE]
                                  [] OTHER -> req[q]]
  /\ UNCHANGED <<data, tokens, lastToken, templates, overlap>>

-----------------------------------------------------------------------------
(* Signing in.                                                              *)

\* UserByEmail, VerifyPassword against what was read, then the session.
handleLogin(r, i) ==
  /\ users[i].pass > 0 /\ (menu.verification => users[i].verified)
  /\ Begin(r, [Idle EXCEPT !.op = "login", !.step = "session", !.user = i, !.pass = users[i].pass])
  /\ UNCHANGED <<data, sessions, tokens, lastToken, templates, resetTo, overlap>>

\* By now the flag says whether DeleteUserSessions has come in between.
CreateSession(r) ==
  LET i == req[r].user IN
  /\ At(r, "session") /\ End(r)
  /\ Cardinality(sessions) < MaxSessions
  /\ sessions' = IF i \in Accounts
                 THEN sessions \cup {[user |-> i, pass |-> req[r].pass, late |-> req[r].flag,
                                    spared |-> FALSE]}
                 ELSE sessions
  /\ UNCHANGED <<data, tokens, lastToken, templates, resetTo, overlap>>

\* ClearSession, expiry.
handleLogout(s) ==
  /\ sessions' = sessions \ {s}
  /\ UNCHANGED <<data, tokens, lastToken, templates, req, resetTo, overlap>>

\* The provider's claims: the subject with its address, and whether the address is verified.
handleOIDCCallback(r, e, verified) ==
  /\ Begin(r, [Idle EXCEPT !.op = "sso", !.step = "identity", !.email = e, !.flag = verified])
  /\ UNCHANGED <<data, sessions, tokens, lastToken, templates, resetTo, overlap>>

Found(r, i, step) ==
  req' = [req EXCEPT ![r].step = step, ![r].user = i, ![r].pass = users[i].pass, ![r].flag = FALSE]

UserByOIDC(r) ==
  /\ At(r, "identity")
  /\ IF identities[req[r].email] # 0 THEN Found(r, identities[req[r].email], "session")
     ELSE Goto(r, IF req[r].flag THEN "byEmail" ELSE "insert")
  /\ UNCHANGED <<data, sessions, tokens, lastToken, templates, resetTo, overlap>>

UserByEmail(r) ==
  /\ At(r, "byEmail")
  /\ \/ \E i \in Accounts : HasAddress(i, req[r].email) /\ Found(r, i, "link")
     \/ (\A i \in Accounts : ~HasAddress(i, req[r].email)) /\ Goto(r, "insert")
  /\ UNCHANGED <<data, sessions, tokens, lastToken, templates, resetTo, overlap>>

\* ON CONFLICT DO NOTHING; the account may be gone.
LinkOIDC(r) ==
  LET i == req[r].user IN
  /\ At(r, "link")
  /\ IF i \in Accounts
     THEN /\ identities' = [identities EXCEPT ![req[r].email] = IF @ = 0 THEN i ELSE @]
          /\ Goto(r, "session")
     ELSE End(r) /\ UNCHANGED identities
  /\ UNCHANGED <<users, lastUser, sessions, tokens, lastToken, templates,
                 resetTo, overlap>>

-----------------------------------------------------------------------------
(* Administration.                                                          *)

\* Authenticate and RequireAdmin: what the request goes by to its end.
MayAdminister(s) == users[s.user].admin

\* Mutant: administrators may demote themselves.
DemoteAnyone(r, s, i, admin) ==
  /\ MayAdminister(s)
  /\ Begin(r, [Idle EXCEPT !.op = "role", !.step = "write", !.by = s.user, !.user = i, !.flag = admin])
  /\ UNCHANGED <<data, sessions, tokens, lastToken, templates, resetTo, overlap>>

handleAdminUpdateUser(r, s, i, admin) ==
  /\ MayAdminister(s) /\ ~(i = s.user /\ ~admin)
  /\ Begin(r, [Idle EXCEPT !.op = "role", !.step = "write", !.by = s.user, !.user = i, !.flag = admin])
  /\ UNCHANGED <<data, sessions, tokens, lastToken, templates, resetTo, overlap>>

handleAdminDeleteUser(r, s, i) ==
  /\ MayAdminister(s) /\ i # s.user
  /\ Begin(r, [Idle EXCEPT !.op = "remove", !.step = "write", !.by = s.user, !.user = i])
  /\ UNCHANGED <<data, sessions, tokens, lastToken, templates, resetTo, overlap>>

SetUserAdmin(r) ==
  /\ At(r, "write") /\ req[r].op = "role" /\ End(r)
  /\ users' = [i \in Accounts |-> IF i = req[r].user THEN [users[i] EXCEPT !.admin = req[r].flag]
                                  ELSE users[i]]
  /\ UNCHANGED <<lastUser, identities, sessions, tokens, lastToken, templates,
                 resetTo, overlap>>

\* Mutant: the sessions of the account are left behind.
DeleteUserOnly(r) ==
  LET i == req[r].user IN
  /\ At(r, "write") /\ req[r].op = "remove" /\ End(r)
  /\ users' = Restrict(users, Accounts \ {i})
  /\ identities' = [s \in Emails |-> IF identities[s] = i THEN 0 ELSE identities[s]]
  /\ tokens' = Restrict(tokens, {t \in DOMAIN tokens : tokens[t].user # i})
  /\ UNCHANGED <<lastUser, sessions, lastToken, templates, resetTo, overlap>>

\* Sessions, tokens and identities go with the account (ON DELETE CASCADE); an account
\* that owns something cannot be deleted, which is one way to be Cancelled.
DeleteUser(r) ==
  LET i == req[r].user IN
  /\ At(r, "write") /\ req[r].op = "remove" /\ End(r)
  /\ users' = Restrict(users, Accounts \ {i})
  /\ identities' = [s \in Emails |-> IF identities[s] = i THEN 0 ELSE identities[s]]
  /\ sessions' = {s \in sessions : s.user # i}
  /\ tokens' = Restrict(tokens, {t \in DOMAIN tokens : tokens[t].user # i})
  /\ UNCHANGED <<lastUser, lastToken, templates, resetTo, overlap>>

-----------------------------------------------------------------------------

Arrive(r) ==
  \/ \E e \in Emails : handleRegister(r, e)
  \/ \E e \in Emails, verified \in BOOLEAN : handleOIDCCallback(r, e, verified)
  \/ \E i \in Accounts : handleForgotPassword(r, i) \/ handleResendVerification(r, i)
                         \/ handleLogin(r, i)
  \/ \E t \in DOMAIN tokens : handleVerifyEmail(r, t) \/ handleResetPassword(r, t)
  \/ \E s \in sessions :
       \/ handleChangePassword(r, s)
       \/ \E i \in Accounts : handleAdminDeleteUser(r, s, i)
                              \/ \E admin \in BOOLEAN : handleAdminUpdateUser(r, s, i, admin)

Proceed(r) ==
  \/ CreateUser(r) \/ UserCreated(r) \/ Templates(r) \/ seedOne(r)
  \/ ClearOld(r) \/ Issue(r)
  \/ SetPassword(r) \/ MarkEmailVerified(r) \/ DeleteUserSessions(r)
  \/ CreateSession(r) \/ UserByOIDC(r) \/ UserByEmail(r) \/ LinkOIDC(r)
  \/ SetUserAdmin(r) \/ DeleteUser(r)

Next ==
  /\ \/ \E r \in Requests : Arrive(r) \/ Proceed(r) \/ Cancelled(r) \/ Restart(r)
     \/ TemplateAway \/ TemplateBack \/ TemplateGone
     \/ \E s \in sessions : handleLogout(s)
     \/ \E t \in DOMAIN tokens : TokenExpires(t)
  /\ UNCHANGED menu

Spec == Init /\ [][Next]_vars

-----------------------------------------------------------------------------
(* Properties.                                                              *)

\* Rows have their types, and whatever belongs to an account goes with it: sessions,
\* tokens, identities and one-time links are those of accounts that exist (migrations,
\* ON DELETE CASCADE; users.go:127).
TypeOK ==
  /\ lastUser \in 0 .. MaxUsers /\ Accounts \subseteq 1 .. lastUser
  /\ users \in [Accounts -> Row]
  /\ identities \in [Emails -> Accounts \cup {0}]
  /\ sessions \subseteq Session /\ \A s \in sessions : s.user \in Accounts
  /\ lastToken \in 0 .. MaxTokens /\ DOMAIN tokens \subseteq 1 .. lastToken
  /\ \A t \in DOMAIN tokens : tokens[t] \in Token /\ tokens[t].user \in Accounts
  /\ templates \in Copies /\ menu \in Menus
  /\ req \in [Requests -> Request] /\ resetTo \in [Ids -> 0 .. MaxPasswords]
  /\ overlap \in BOOLEAN

\* tokens_admin_handlers.go:112, :132 keep an administrator from removing himself: the last
\* administrator ceases to be one only by a request that writes for somebody who was an
\* administrator when it began and is none any more.
KeepsAdmin ==
  [][Admins # {} /\ Admins' = {}
       => \E r \in Requests : req'[r] # req[r] /\ req[r].by \in Ids \ Admins]_vars

\* auth_handlers.go:334: a reset "logs out other sessions".  A session that is older than
\* the password a completed reset has given belongs to a sign-in that had read the account
\* before the reset and inserted its session after it, or to an account whose sessions a
\* completed reset failed to delete, which :337 ignores.
ResetEndsSessions ==
  \A s \in sessions : s.pass < resetTo[s.user] => s.late \/ s.spared

\* users.go:155: "One active token per user is enough; clear old ones first."  Two links of
\* one kind are active only if they were issued by requests that overlapped.
OneActiveToken ==
  \A t, u \in DOMAIN tokens :
    /\ tokens[t].alone /\ tokens[u].alone
    /\ tokens[t].user = tokens[u].user /\ tokens[t].kind = tokens[u].kind
    => t = u

\* seed.go:32, main.go:150: "No-op [...] when a template of the same name is already present".
\* Of the copies that were seeded and never renamed or put in the trash there is one at most,
\* however often the process restarts and whatever becomes of other copies in between, unless
\* two accounts that both took themselves for the first seed at the same time.  Copies that
\* come back from the trash, or to the name, may stand beside it.
TemplatesOnce == templates.kept > 1 => overlap
=============================================================================
