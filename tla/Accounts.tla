------------------------------- MODULE Accounts -------------------------------
(***************************************************************************)
(* The accounts of the server: registration, login with a password and a     *)
(* second factor, the lock after failures, JWTs and their blacklist, password *)
(* reset and change, administration (servers/internal/api/handler_auth.go,   *)
(* handler_user_totp.go, auth/jwt.go, the UserRepo of storage/repo.go).      *)
(*                                                                         *)
(* A handler reads the account's row and acts on its copy, with bcrypt in    *)
(* between: a job is marked stale when the row changes in what it read.      *)
(* The maps in memory (blacklist, second-factor sessions, reset codes,       *)
(* pending secrets) each have a mutex, held for one operation, and are lost   *)
(* when the server starts again.  Time is a few actions: a lock, a token, a   *)
(* session or a code comes to its end.  A username is given to one account.  *)
(***************************************************************************)
EXTENDS Naturals, FiniteSets

CONSTANTS
    Users, Emails, Passwords,
    Tokens,         \* JWTs, by token ID
    Sessions,       \* the tokens between the two steps of a login
    Codes,          \* password reset codes
    Requests,
    Admin,          \* the default administrator, made by the first start
    MaxAttempts,    \* failures that lock an account
    MaxRestarts,    \* bound on the restarts of the server
    NoUser, NoEmail, NoPassword, NoToken, NoCode

ASSUME AttemptsAssumption == MaxAttempts \in Nat \ {0} /\ MaxRestarts \in Nat
ASSUME AdminAssumption == Admin \in Users /\ NoUser \notin Users
ASSUME NullAssumption ==
    /\ NoEmail \notin Emails /\ NoPassword \notin Passwords
    /\ NoToken \notin Tokens /\ NoCode \notin Codes

VARIABLES
    row,        \* users, by username
    token,      \* what each JWT says, and whether its time is over
    blacklist,  \* Manager.blacklist: token IDs
    barred,     \* Manager.blacklist, "user:": "due" when its time is over
    session,    \* totpSessionStore: the user of a session, while it is there
    code,       \* passwordResetStore: the code of an email address
    pending,    \* pendingBindings: the users with a secret to bind
    job,        \* requests in progress
    uses,       \* history: how often a session or a code was accepted
    given,      \* history: the sessions and codes handed out
    ended,      \* history: tokens logged out, rotated or reset in this start
    restarts    \* history: how often the server has started again

vars == <<row, token, blacklist, barred, session, code, pending, job,
          uses, given, ended, restarts>>

jwt == <<token, blacklist, barred, ended>>
tickets == <<session, code, uses, given>>

\* locked_until: never, in the future, or over.
Rows == {u \in [is : {"none", "there", "gone"}, email : Emails \cup {NoEmail},
                password : Passwords \cup {NoPassword}, role : {"admin", "user", ""},
                enabled : BOOLEAN, totp : BOOLEAN, failed : Nat,
                lock : {"never", "on", "over"}] :
            u.lock # "never" <=> u.failed >= MaxAttempts}
NoRow == [is |-> "none", email |-> NoEmail, password |-> NoPassword, role |-> "",
          enabled |-> FALSE, totp |-> FALSE, failed |-> 0, lock |-> "never"]
NewRow(e, p, role) == [is |-> "there", email |-> e, password |-> p, role |-> role,
                       enabled |-> TRUE, totp |-> FALSE, failed |-> 0, lock |-> "never"]

\* covered: signed before the tokens of its user were last revoked.
Claims == [is : {"none", "live", "expired"}, user : Users \cup {NoUser},
           role : {"admin", "user", ""}, covered : BOOLEAN]
NoClaims == [is |-> "none", user |-> NoUser, role |-> "", covered |-> FALSE]

Kinds == {"", "login", "totp", "register", "create", "refresh", "logout",
          "change", "reset", "update", "bind", "unbind"}
Steps == {"idle", "failure", "success", "session", "user", "verify", "sign",
          "insert", "revoke", "password", "lookup", "revokeall", "bind", "clear",
          "unbind"}

\* missed: what a request would have found taken, but for a failed lookup.
Jobs == [pc : Steps, kind : Kinds, user : Users \cup {NoUser},
         email : Emails \cup {NoEmail}, password : Passwords \cup {NoPassword},
         role : {"admin", "user", ""}, totp : BOOLEAN, token : Tokens \cup {NoToken},
         missed : SUBSET {"name", "address"}, stale : BOOLEAN]
Idle == [pc |-> "idle", kind |-> "", user |-> NoUser, email |-> NoEmail,
         password |-> NoPassword, role |-> "", totp |-> FALSE, token |-> NoToken,
         missed |-> {}, stale |-> FALSE]

\* Types, and in a row: an account has been locked exactly when it counts
\* MaxAttempts failures or more, whatever logins count and reset at a time
\* (IncrementFailedAttempts, ResetFailedAttempts).
TypeOK ==
    /\ row \in [Users -> Rows]
    /\ token \in [Tokens -> Claims]
    /\ blacklist \subseteq Tokens
    /\ barred \in [Users -> {"no", "yes", "due"}]
    /\ session \in [Sessions -> Users \cup {NoUser}]
    /\ code \in [Emails -> Codes \cup {NoCode}]
    /\ pending \subseteq Users
    /\ job \in [Requests -> Jobs]
    /\ uses \in [Sessions \cup Codes -> Nat]
    /\ given \subseteq Sessions \cup Codes
    /\ ended \subseteq Tokens
    /\ restarts \in 0 .. MaxRestarts

\* ensureDefaultAdmin has run.
Init ==
    /\ \E e \in Emails, p \in Passwords :
         row = [u \in Users |-> IF u = Admin THEN NewRow(e, p, "admin") ELSE NoRow]
    /\ token = [t \in Tokens |-> NoClaims]
    /\ blacklist = {}
    /\ barred = [u \in Users |-> "no"]
    /\ session = [s \in Sessions |-> NoUser]
    /\ code = [e \in Emails |-> NoCode]
    /\ pending = {}
    /\ job = [r \in Requests |-> Idle]
    /\ uses = [k \in Sessions \cup Codes |-> 0]
    /\ given = {}
    /\ ended = {}
    /\ restarts = 0

There(u) == row[u].is = "there"
HasEmail(u, e) == There(u) /\ row[u].email = e
Locked(u) == row[u].lock = "on"

\* Verify, which every request with a token passes first.
Accepted(t) == /\ token[t].is = "live"
               /\ t \notin blacklist
               /\ barred[token[t].user] = "no"

-----------------------------------------------------------------------------
(* Requests.                                                                *)

Begin(r, j) == job[r] = Idle /\ job' = [job EXCEPT ![r] = j]
Step(r, pc) == [job EXCEPT ![r].pc = pc]
End(r) == [job EXCEPT ![r] = Idle]

\* An UPDATE of a row that is gone changes nothing.
Write(u, new) == row' = IF There(u) THEN [row EXCEPT ![u] = new] ELSE row

\* The row of u changes: what other requests have read of it is stale.
Touch(jobs, u) ==
    [r \in Requests |-> IF jobs[r].user = u THEN [jobs[r] EXCEPT !.stale = TRUE]
                        ELSE jobs[r]]
\* An address is taken: a request that found it free is stale.
Take(jobs, u, e) ==
    [r \in Requests |->
       IF jobs[r].pc = "insert" /\ (jobs[r].user = u \/ jobs[r].email = e)
       THEN [jobs[r] EXCEPT !.stale = TRUE] ELSE Touch(jobs, u)[r]]

-----------------------------------------------------------------------------
(* Login.                                                                   *)

MayTry(u) == There(u)
MayLogin(u) == There(u) /\ row[u].enabled /\ ~Locked(u)

Login(r, u, p) ==
    /\ MayLogin(u)
    /\ Begin(r, [Idle EXCEPT !.kind = "login", !.user = u, !.password = p,
                   !.role = row[u].role, !.totp = row[u].totp,
                   !.pc = IF p = row[u].password THEN "success" ELSE "failure"])
    /\ UNCHANGED <<row, jwt, tickets, pending, restarts>>

LockedFrom(n) == n > MaxAttempts
Locks(n) == n >= MaxAttempts

\* One UPDATE counts, and locks; its error is ignored.
CountFailure(r) ==
    /\ job[r].pc = "failure"
    /\ LET u == job[r].user
           n == row[u].failed + 1
       IN  \/ /\ Write(u, [row[u] EXCEPT !.failed = n, !.lock = IF Locks(n) THEN "on" ELSE @])
              /\ job' = IF Locks(n) THEN Touch(End(r), u) ELSE End(r)
           \/ job' = End(r) /\ UNCHANGED row
    /\ UNCHANGED <<jwt, tickets, pending, restarts>>

\* The error is ignored here too.
ResetFailures(r) ==
    /\ job[r].pc = "success"
    /\ LET u == job[r].user
       IN  Write(u, [row[u] EXCEPT !.failed = 0, !.lock = "never"]) \/ UNCHANGED row
    /\ job' = Step(r, IF job[r].kind = "login" /\ job[r].totp THEN "session" ELSE "sign")
    /\ UNCHANGED <<jwt, tickets, pending, restarts>>

CreateSession(r, s) ==
    /\ job[r].pc = "session"
    /\ s \notin given
    /\ session' = [session EXCEPT ![s] = job[r].user]
    /\ given' = given \cup {s}
    /\ job' = End(r)
    /\ UNCHANGED <<row, jwt, code, uses, pending, restarts>>

\* consume takes the session out of the store, whatever comes of it.
Consume(store, k, null) == [store EXCEPT ![k] = null]

TOTPVerify(r, s) ==
    /\ session[s] # NoUser
    /\ session' = Consume(session, s, NoUser)
    /\ uses' = [uses EXCEPT ![s] = @ + 1]
    /\ Begin(r, [Idle EXCEPT !.kind = "totp", !.user = session[s], !.pc = "user"])
    /\ UNCHANGED <<row, jwt, code, given, pending, restarts>>

\* A disabled account is not refused here.
ReadUser(r) ==
    /\ job[r].pc = "user"
    /\ LET u == job[r].user
       IN  job' = IF There(u) /\ ~Locked(u)
                  THEN [job EXCEPT ![r].pc = "verify", ![r].role = row[u].role,
                                   ![r].stale = FALSE]
                  ELSE End(r)
    /\ UNCHANGED <<row, jwt, tickets, pending, restarts>>

\* verifyLoginTOTPCode reads the secret; no code is right without one.
VerifyTOTP(r, right) ==
    /\ job[r].pc = "verify"
    /\ right => There(job[r].user) /\ row[job[r].user].totp
    /\ job' = Step(r, IF right THEN "success" ELSE "failure")
    /\ UNCHANGED <<row, jwt, tickets, pending, restarts>>

Sign(r, t) ==
    /\ job[r].pc = "sign"
    /\ token[t] = NoClaims
    /\ token' = [token EXCEPT ![t] = [NoClaims EXCEPT !.is = "live",
                                        !.user = job[r].user, !.role = job[r].role]]
    /\ job' = End(r)
    /\ UNCHANGED <<row, blacklist, barred, ended, tickets, pending, restarts>>

-----------------------------------------------------------------------------
(* Tokens.                                                                  *)

Logout(r, t) ==
    /\ Accepted(t)
    /\ Begin(r, [Idle EXCEPT !.kind = "logout", !.token = t, !.pc = "revoke"])
    /\ UNCHANGED <<row, jwt, tickets, pending, restarts>>

Refresh(r, t) ==
    /\ Accepted(t)
    /\ Begin(r, [Idle EXCEPT !.kind = "refresh", !.token = t, !.pc = "revoke",
                             !.user = token[t].user, !.role = token[t].role])
    /\ UNCHANGED <<row, jwt, tickets, pending, restarts>>

\* Revoke; a refresh then signs a token with the claims of the old one.
Revoke(r) ==
    /\ job[r].pc = "revoke"
    /\ blacklist' = blacklist \cup {job[r].token}
    /\ ended' = ended \cup {job[r].token}
    /\ job' = IF job[r].kind = "refresh" THEN Step(r, "sign") ELSE End(r)
    /\ UNCHANGED <<row, token, barred, tickets, pending, restarts>>

RevokeAllForUser(r) ==
    /\ job[r].pc = "revokeall"
    /\ LET u == job[r].user
           signed == {t \in Tokens : token[t].is # "none" /\ token[t].user = u}
       IN  /\ barred' = [barred EXCEPT ![u] = "yes"]
           /\ token' = [t \in Tokens |-> [token[t] EXCEPT !.covered = @ \/ t \in signed]]
           /\ ended' = ended \cup signed
    /\ job' = End(r)
    /\ UNCHANGED <<row, blacklist, tickets, pending, restarts>>

TokenExpires(t) ==
    /\ token[t].is = "live"
    /\ token' = [token EXCEPT ![t].is = "expired"]
    /\ UNCHANGED <<row, blacklist, barred, ended, tickets, pending, job, restarts>>

\* The entry of a user lasts as long as a token does, and began later.
BarExpires(u) ==
    /\ barred[u] = "yes"
    /\ \A t \in Tokens : token[t].user = u /\ token[t].covered => token[t].is = "expired"
    /\ barred' = [barred EXCEPT ![u] = "due"]
    /\ UNCHANGED <<row, token, blacklist, ended, tickets, pending, job, restarts>>

KeepsNone(t) == FALSE
Keeps(t) == token[t].is = "live"

CleanupBlacklist ==
    /\ blacklist' = {t \in blacklist : Keeps(t)}
    /\ barred' = [u \in Users |-> IF barred[u] = "due" THEN "no" ELSE barred[u]]
    /\ UNCHANGED <<row, token, ended, tickets, pending, job, restarts>>

-----------------------------------------------------------------------------
(* Registration and administration.                                         *)

\* What the two lookups of handleRegister and handleCreateUser find.
Taken(u, e) == (IF There(u) THEN {"name"} ELSE {})
                 \cup (IF \E v \in Users : HasEmail(v, e) THEN {"address"} ELSE {})

\* A request that finds either is refused.  It goes on when it finds neither, and
\* a lookup that fails finds nothing.  Bound: a name is not given a second time.
CheckNew(r, kind, u, e, p, role) ==
    /\ row[u] = NoRow \/ There(u)
    /\ Begin(r, [Idle EXCEPT !.kind = kind, !.user = u, !.email = e, !.password = p,
                             !.role = role, !.missed = Taken(u, e), !.pc = "insert"])
    /\ UNCHANGED <<row, jwt, tickets, pending, restarts>>

Register(r, u, e, p) == CheckNew(r, "register", u, e, p, "user")
CreateUser(r, u, e, p, role) == CheckNew(r, "create", u, e, p, role)

\* The username is unique in the table, the address is not.
InsertUser(r) ==
    /\ job[r].pc = "insert"
    /\ LET u == job[r].user
       IN  \/ /\ row[u] = NoRow
              /\ row' = [row EXCEPT ![u] = NewRow(job[r].email, job[r].password, job[r].role)]
              /\ job' = Take(IF job[r].kind = "register" THEN Step(r, "sign") ELSE End(r),
                             u, job[r].email)
           \/ job' = End(r) /\ UNCHANGED row
    /\ UNCHANGED <<jwt, tickets, pending, restarts>>

\* Of one's own account, or of any by an administrator.
UpdateProfile(u, e) ==
    /\ There(u)
    /\ row' = [row EXCEPT ![u].email = e]
    /\ job' = Take(job, u, e)
    /\ UNCHANGED <<jwt, tickets, pending, restarts>>

\* handleUpdateUser with a password: the profile, then the password.
UpdateUser(r, u, e, p) ==
    /\ job[r] = Idle
    /\ There(u)
    /\ row' = [row EXCEPT ![u].email = e]
    /\ job' = Take([job EXCEPT ![r] = [Idle EXCEPT !.kind = "update", !.user = u,
                                          !.password = p, !.pc = "password"]], u, e)
    /\ UNCHANGED <<jwt, tickets, pending, restarts>>

UpdateUserRole(u, role) ==
    /\ There(u)
    /\ row' = [row EXCEPT ![u].role = role]
    /\ job' = Touch(job, u)
    /\ UNCHANGED <<jwt, tickets, pending, restarts>>

UpdateUserEnabled(u, enabled) ==
    /\ There(u)
    /\ row' = [row EXCEPT ![u].enabled = enabled]
    /\ job' = Touch(job, u)
    /\ UNCHANGED <<jwt, tickets, pending, restarts>>

\* Not one's own account; the other tables' keys may refuse it.  Bound: the default
\* administrator stays, whom the next start would make anew under the same name.
DeleteUser(u) ==
    /\ There(u) /\ u # Admin
    /\ row' = [row EXCEPT ![u] = [NoRow EXCEPT !.is = "gone"]]
    /\ job' = Touch(job, u)
    /\ UNCHANGED <<jwt, tickets, pending, restarts>>

-----------------------------------------------------------------------------
(* Passwords.                                                               *)

\* Whoever has a token and the old password.
ChangePassword(r, t, p) ==
    /\ Accepted(t)
    /\ There(token[t].user)
    /\ Begin(r, [Idle EXCEPT !.kind = "change", !.user = token[t].user,
                             !.password = p, !.pc = "password"])
    /\ UNCHANGED <<row, jwt, tickets, pending, restarts>>

\* A new code takes the place of the one before.
ForgotPassword(e, k) ==
    /\ \E u \in Users : HasEmail(u, e)
    /\ k \notin given
    /\ code' = [code EXCEPT ![e] = k]
    /\ given' = given \cup {k}
    /\ UNCHANGED <<row, jwt, session, uses, pending, job, restarts>>

\* verify accepts the code of the address, once.
ResetPassword(r, e, p) ==
    /\ code[e] # NoCode
    /\ code' = Consume(code, e, NoCode)
    /\ uses' = [uses EXCEPT ![code[e]] = @ + 1]
    /\ Begin(r, [Idle EXCEPT !.kind = "reset", !.email = e, !.password = p, !.pc = "lookup"])
    /\ UNCHANGED <<row, jwt, session, given, pending, restarts>>

\* GetByEmail finds one of the accounts with the address.
LookupEmail(r) ==
    /\ job[r].pc = "lookup"
    /\ \/ \E u \in Users : /\ HasEmail(u, job[r].email)
                           /\ job' = [job EXCEPT ![r].user = u, ![r].pc = "password"]
       \/ job' = End(r) /\ \A u \in Users : ~HasEmail(u, job[r].email)
    /\ UNCHANGED <<row, jwt, tickets, pending, restarts>>

\* Only a reset goes on to revoke the tokens of the account.
UpdatePassword(r) ==
    /\ job[r].pc = "password"
    /\ LET u == job[r].user
       IN  \/ /\ Write(u, [row[u] EXCEPT !.password = job[r].password])
              /\ job' = Touch(IF job[r].kind = "reset" THEN Step(r, "revokeall") ELSE End(r), u)
           \/ job' = End(r) /\ UNCHANGED row
    /\ UNCHANGED <<jwt, tickets, pending, restarts>>

-----------------------------------------------------------------------------
(* The second factor.                                                       *)

GenerateLoginTOTP(t) ==
    /\ Accepted(t)
    /\ There(token[t].user) /\ ~row[token[t].user].totp
    /\ pending' = pending \cup {token[t].user}
    /\ UNCHANGED <<row, jwt, tickets, job, restarts>>

\* With a code that the pending secret makes.
BindLoginTOTP(r, t) ==
    /\ Accepted(t)
    /\ token[t].user \in pending
    /\ Begin(r, [Idle EXCEPT !.kind = "bind", !.user = token[t].user, !.pc = "bind"])
    /\ UNCHANGED <<row, jwt, tickets, pending, restarts>>

\* With a code that the secret in the row makes.
UnbindLoginTOTP(r, t) ==
    /\ Accepted(t)
    /\ There(token[t].user) /\ row[token[t].user].totp
    /\ Begin(r, [Idle EXCEPT !.kind = "unbind", !.user = token[t].user, !.pc = "unbind"])
    /\ UNCHANGED <<row, jwt, tickets, pending, restarts>>

WriteTOTP(r) ==
    /\ job[r].pc \in {"bind", "unbind"}
    /\ LET u == job[r].user
       IN  \/ /\ Write(u, [row[u] EXCEPT !.totp = (job[r].pc = "bind")])
              /\ job' = Touch(IF job[r].pc = "bind" THEN Step(r, "clear") ELSE End(r), u)
           \/ job' = End(r) /\ UNCHANGED row
    /\ UNCHANGED <<jwt, tickets, pending, restarts>>

DeletePending(r) ==
    /\ job[r].pc = "clear"
    /\ pending' = pending \ {job[r].user}
    /\ job' = End(r)
    /\ UNCHANGED <<row, jwt, tickets, restarts>>

-----------------------------------------------------------------------------
(* Time, and a new start.                                                   *)

LockExpires(u) ==
    /\ Locked(u)
    /\ row' = [row EXCEPT ![u].lock = "over"]
    /\ UNCHANGED <<jwt, tickets, pending, job, restarts>>

SessionExpires(s) ==
    /\ session[s] # NoUser
    /\ session' = [session EXCEPT ![s] = NoUser]
    /\ UNCHANGED <<row, jwt, code, uses, given, pending, job, restarts>>

CodeExpires(e) ==
    /\ code[e] # NoCode
    /\ code' = [code EXCEPT ![e] = NoCode]
    /\ UNCHANGED <<row, jwt, session, uses, given, pending, job, restarts>>

PendingExpires(u) ==
    /\ u \in pending
    /\ pending' = pending \ {u}
    /\ UNCHANGED <<row, jwt, tickets, job, restarts>>

\* The secret of the tokens is in the configuration: they stay good.
Restart ==
    /\ restarts < MaxRestarts
    /\ restarts' = restarts + 1
    /\ blacklist' = {} /\ ended' = {}
    /\ barred' = [u \in Users |-> "no"]
    /\ session' = [s \in Sessions |-> NoUser]
    /\ code' = [e \in Emails |-> NoCode]
    /\ pending' = {}
    /\ job' = [r \in Requests |-> Idle]
    /\ token' = [t \in Tokens |-> [token[t] EXCEPT !.covered = FALSE]]
    /\ UNCHANGED <<row, uses, given>>

-----------------------------------------------------------------------------
LoginStep(r) ==
    \/ \E u \in Users, p \in Passwords : Login(r, u, p)
    \/ CountFailure(r) \/ ResetFailures(r) \/ ReadUser(r)
    \/ \E s \in Sessions : CreateSession(r, s) \/ TOTPVerify(r, s)
    \/ \E right \in BOOLEAN : VerifyTOTP(r, right)
    \/ \E t \in Tokens : Sign(r, t)

TokenStep(r) ==
    \/ \E t \in Tokens : Logout(r, t) \/ Refresh(r, t)
    \/ \E t \in Tokens : BindLoginTOTP(r, t) \/ UnbindLoginTOTP(r, t)
    \/ Revoke(r) \/ RevokeAllForUser(r) \/ WriteTOTP(r) \/ DeletePending(r)

AccountStep(r) ==
    \/ \E u \in Users, e \in Emails, p \in Passwords :
         \/ Register(r, u, e, p) \/ UpdateUser(r, u, e, p)
         \/ \E role \in {"admin", "user"} : CreateUser(r, u, e, p, role)
    \/ \E e \in Emails, p \in Passwords : ResetPassword(r, e, p)
    \/ \E t \in Tokens, p \in Passwords : ChangePassword(r, t, p)
    \/ InsertUser(r) \/ LookupEmail(r) \/ UpdatePassword(r)

Administration ==
    \E u \in Users :
        \/ \E e \in Emails : UpdateProfile(u, e)
        \/ \E role \in {"admin", "user"} : UpdateUserRole(u, role)
        \/ \E enabled \in BOOLEAN : UpdateUserEnabled(u, enabled)
        \/ DeleteUser(u)

Time ==
    \/ \E u \in Users : LockExpires(u) \/ BarExpires(u) \/ PendingExpires(u)
    \/ \E t \in Tokens : TokenExpires(t)
    \/ \E s \in Sessions : SessionExpires(s)
    \/ \E e \in Emails : CodeExpires(e)
    \/ CleanupBlacklist

Next ==
    \/ \E r \in Requests : LoginStep(r) \/ TokenStep(r) \/ AccountStep(r)
    \/ \E e \in Emails, k \in Codes : ForgotPassword(e, k)
    \/ \E t \in Tokens : GenerateLoginTOTP(t)
    \/ Administration \/ Time \/ Restart

Spec == Init /\ [][Next]_vars

-----------------------------------------------------------------------------
(* Properties.                                                              *)

\* A token that was logged out or rotated, or signed before its user's
\* password was reset, is not accepted again as long as the server runs,
\* whatever the clean-up of the blacklist takes out (Verify, Revoke,
\* RevokeAllForUser, cleanupBlacklist).
EndedStaysEnded == \A t \in ended : ~Accepted(t)

\* A request that is about to act still has the account as it read it, unless
\* the account has changed since: a login signs a token for an account that is
\* there, enabled and not locked, with its role, on its password, and on both
\* factors where there are two; a new account takes a free name and address, but
\* for a lookup that failed (only the name is looked at again, by the table); a
\* reset meets the account of its address.
ActsOnWhatItRead ==
    \A r \in Requests :
        LET j == job[r]
            u == row[j.user]
        IN  ~j.stale =>
                /\ j.pc = "sign" /\ j.kind = "login" =>
                     /\ u.enabled /\ ~u.totp
                     /\ u.password = j.password
                /\ j.pc = "sign" /\ j.kind = "totp" => u.totp
                /\ j.pc = "sign" /\ j.kind \in {"login", "totp"} =>
                     /\ There(j.user) /\ ~Locked(j.user)
                     /\ j.role = u.role
                /\ j.pc = "insert" =>
                     /\ u = NoRow \/ "name" \in j.missed
                     /\ (\A v \in Users : ~HasEmail(v, j.email)) \/ "address" \in j.missed
                /\ j.pc = "password" /\ j.kind = "reset" => HasEmail(j.user, j.email)

\* The session between the two steps of a login lets one code be tried, and a
\* reset code sets one password, of two requests at a time too
\* (sessionStore.consume, resetCodeStore.verify).
UsedOnce == \A k \in Sessions \cup Codes : uses[k] <= 1

\* What was used up works no more: a token that was logged out, rotated or reset, and
\* a session or a code that one request has tried (EndedStaysEnded, UsedOnce).
UsedUp == EndedStaysEnded /\ UsedOnce
=============================================================================
