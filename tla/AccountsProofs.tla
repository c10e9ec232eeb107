---------------------------- MODULE AccountsProofs ----------------------------
(***************************************************************************)
(* Proofs about Accounts: its types and its properties follow from one         *)
(* inductive invariant, for any accounts, tokens, sessions, codes and requests. *)
(***************************************************************************)
EXTENDS Accounts, TLAPS

-----------------------------------------------------------------------------
(* The inductive invariant.                                                 *)

\* A request past its first step names what it works on.
JobNamed(j) ==
    /\ j.pc \notin {"idle", "lookup", "revoke"} => j.user \in Users
    /\ j.pc = "revoke" => /\ j.token \in Tokens /\ token[j.token].is # "none"
                          /\ j.kind = "refresh" => j.user \in Users
    /\ j.pc = "insert" => j.email \in Emails /\ j.password \in Passwords /\ j.role # ""
    /\ j.pc = "password" => j.password \in Passwords
    /\ j.pc = "lookup" => j.password \in Passwords
    /\ j.pc \in {"user", "verify"} => j.kind = "totp"
Named == \A r \in Requests : JobNamed(job[r])

\* What ended is out: by its own time, by its ID, or by its user, until all the
\* tokens that the entry of the user is for are out of time.
Out(t) ==
    \/ token[t].is = "expired" \/ t \in blacklist
    \/ token[t].covered /\ barred[token[t].user] # "no"
Ended == \A t \in ended : token[t].is # "none" /\ Out(t)
Due == \A u \in Users : barred[u] = "due" =>
         \A t \in Tokens : token[t].user = u /\ token[t].covered => token[t].is = "expired"
\* The user of a token.
SignedFor == \A t \in Tokens : token[t].is # "none" => token[t].user \in Users

\* A session or a code that can still be used was given out, to one place, and
\* has not been used.
Fresh(k) == k \in given /\ uses[k] = 0
Tickets ==
    /\ \A k \in Sessions \cup Codes : uses[k] <= 1 /\ (k \notin given => uses[k] = 0)
    /\ \A s \in Sessions : session[s] # NoUser => Fresh(s)
    /\ \A e \in Emails : code[e] # NoCode =>
         /\ Fresh(code[e])
         /\ \A f \in Emails : code[f] = code[e] => f = e
         /\ code[e] \in Sessions => session[code[e]] = NoUser

\* What a request that is not stale has read is in the row still.
JobActs(j) == ~j.stale =>
    /\ j.kind = "login" /\ j.pc \in {"success", "sign"} =>
         /\ row[j.user].enabled /\ row[j.user].password = j.password
         /\ row[j.user].totp = j.totp
         /\ j.pc = "sign" => ~j.totp
    /\ j.kind = "totp" /\ j.pc \in {"success", "sign"} => row[j.user].totp
    /\ \/ j.kind = "login" /\ j.pc \in {"success", "sign"}
       \/ j.kind = "totp" /\ j.pc \in {"verify", "success", "sign"}
       => There(j.user) /\ ~Locked(j.user) /\ j.role = row[j.user].role
    /\ j.pc = "insert" =>
         /\ row[j.user] = NoRow \/ "name" \in j.missed
         /\ (\A v \in Users : ~HasEmail(v, j.email)) \/ "address" \in j.missed
    /\ j.pc = "password" /\ j.kind = "reset" => HasEmail(j.user, j.email)
Acts == \A r \in Requests : JobActs(job[r])

IInv == TypeOK /\ Named /\ Ended /\ Due /\ SignedFor /\ Tickets /\ Acts

LEMMA AttemptsMeans == MaxAttempts \in Nat /\ MaxAttempts > 0 /\ ~(0 >= MaxAttempts)
BY AttemptsAssumption

USE AdminAssumption, NullAssumption

-----------------------------------------------------------------------------
(* Records.                                                                 *)

LEMMA OneJob ==
  ASSUME NEW jobs \in [Requests -> Jobs], NEW r \in Requests, NEW j \in Jobs
  PROVE  /\ [jobs EXCEPT ![r] = j] \in [Requests -> Jobs]
         /\ \A q \in Requests : [jobs EXCEPT ![r] = j][q] = jobs[q] \/ [jobs EXCEPT ![r] = j][q] = j
OBVIOUS

LEMMA IdleJob ==
  /\ Idle \in Jobs /\ Idle.pc = "idle" /\ Idle.kind = "" /\ Idle.user = NoUser
  /\ Idle.email = NoEmail /\ Idle.password = NoPassword /\ Idle.role = ""
  /\ Idle.totp = FALSE /\ Idle.token = NoToken /\ Idle.stale = FALSE /\ Idle.missed = {}
BY DEF Idle, Jobs, Steps, Kinds

LEMMA IdleFits == JobNamed(Idle) /\ JobActs(Idle) /\ JobActs(Idle)'
BY IdleJob DEF JobNamed, JobActs

\* What a job may be changed to.
LEMMA JobEdits ==
  ASSUME NEW j \in Jobs
  PROVE  /\ \A pc \in Steps : LET k == [j EXCEPT !.pc = pc]
              IN  /\ k \in Jobs /\ k.pc = pc /\ k.kind = j.kind /\ k.user = j.user
                  /\ k.email = j.email /\ k.password = j.password /\ k.role = j.role
                  /\ k.totp = j.totp /\ k.token = j.token /\ k.stale = j.stale
         /\ LET k == [j EXCEPT !.stale = TRUE]
            IN  /\ k \in Jobs /\ k.pc = j.pc /\ k.kind = j.kind /\ k.user = j.user
                /\ k.email = j.email /\ k.password = j.password /\ k.role = j.role
                /\ k.totp = j.totp /\ k.token = j.token /\ k.stale = TRUE
BY DEF Jobs

\* The fields of a row, and what ties the lock to the count.
RowFields == [is : {"none", "there", "gone"}, email : Emails \cup {NoEmail},
              password : Passwords \cup {NoPassword}, role : {"admin", "user", ""},
              enabled : BOOLEAN, totp : BOOLEAN, failed : Nat,
              lock : {"never", "on", "over"}]
LEMMA RowMeans ==
  ASSUME NEW x
  PROVE  x \in Rows <=> x \in RowFields /\ (x.lock # "never" <=> x.failed >= MaxAttempts)
BY DEF Rows, RowFields

LEMMA NoRowIs ==
  /\ NoRow \in Rows /\ NoRow.is = "none" /\ NoRow.email = NoEmail /\ NoRow.lock = "never"
  /\ NoRow.failed = 0 /\ NoRow.password = NoPassword /\ NoRow.role = ""
<1>1. /\ NoRow \in RowFields /\ NoRow.is = "none" /\ NoRow.email = NoEmail
      /\ NoRow.lock = "never" /\ NoRow.failed = 0 /\ NoRow.password = NoPassword
      /\ NoRow.role = ""
  BY DEF NoRow, RowFields
<1>2. NoRow.lock # "never" <=> NoRow.failed >= MaxAttempts
  BY <1>1, AttemptsMeans
<1> QED BY <1>1, <1>2, RowMeans

LEMMA NewRowIs ==
  ASSUME NEW e \in Emails, NEW p \in Passwords, NEW role \in {"admin", "user", ""}
  PROVE  /\ NewRow(e, p, role) \in Rows /\ NewRow(e, p, role).is = "there"
         /\ NewRow(e, p, role).email = e
<1>2. /\ NewRow(e, p, role) \in RowFields /\ NewRow(e, p, role).is = "there"
      /\ NewRow(e, p, role).email = e /\ NewRow(e, p, role).lock = "never"
      /\ NewRow(e, p, role).failed = 0
  BY DEF RowFields, NewRow
<1>3. NewRow(e, p, role).lock # "never" <=> NewRow(e, p, role).failed >= MaxAttempts
  BY <1>2, AttemptsMeans
<1> QED BY <1>2, <1>3, RowMeans

LEMMA NoClaimsIs ==
  /\ NoClaims \in Claims /\ NoClaims.is = "none" /\ NoClaims.covered = FALSE
BY DEF NoClaims, Claims

-----------------------------------------------------------------------------
(* Requests that read: one job moves and nothing else.                      *)

LEMMA JobMoves ==
  ASSUME IInv, NEW r \in Requests, NEW j \in Jobs, job' = [job EXCEPT ![r] = j],
         JobNamed(j), JobActs(j), UNCHANGED <<row, jwt>>
  PROVE  job' \in [Requests -> Jobs] /\ Named' /\ Ended' /\ Due' /\ SignedFor' /\ Acts'
<1>1. /\ job' \in [Requests -> Jobs] /\ job'[r] = j
      /\ \A q \in Requests : q # r => job'[q] = job[q]
  BY DEF IInv, TypeOK
<1>2. UNCHANGED <<row, token, blacklist, barred, ended>>
  BY DEF jwt
<1>3. ASSUME NEW k PROVE JobNamed(k)' = JobNamed(k) /\ JobActs(k)' = JobActs(k)
  BY <1>2 DEF JobNamed, JobActs, There, Locked, HasEmail
<1>4. Named' /\ Acts'
  <2> SUFFICES ASSUME NEW q \in Requests PROVE JobNamed(job[q])' /\ JobActs(job[q])'
    BY DEF Named, Acts
  <2> PICK k : k = job'[q]
    OBVIOUS
  <2>1. JobNamed(k) /\ JobActs(k)
    BY <1>1 DEF IInv, Named, Acts
  <2>2. JobNamed(k)' /\ JobActs(k)'
    BY <1>3, <2>1
  <2> QED BY <2>2, ZenonT(40) DEF JobNamed, JobActs, There, Locked, HasEmail
<1>5. Ended' /\ Due' /\ SignedFor'
  BY <1>2 DEF IInv, Ended, Out, Due, SignedFor
<1> QED BY <1>1, <1>4, <1>5

\* With the tickets too: the whole invariant.
LEMMA ReadKeeps ==
  ASSUME IInv, NEW r \in Requests, NEW j \in Jobs, job' = [job EXCEPT ![r] = j],
         JobNamed(j), JobActs(j), UNCHANGED <<row, jwt, tickets, restarts>>,
         pending' \subseteq Users
  PROVE  IInv'
<1>1. job' \in [Requests -> Jobs] /\ Named' /\ Ended' /\ Due' /\ SignedFor' /\ Acts'
  BY JobMoves
<1>2. UNCHANGED <<row, token, blacklist, barred, ended, session, code, uses, given, restarts>>
  BY DEF jwt, tickets
<1>3. TypeOK'
  BY <1>1, <1>2 DEF IInv, TypeOK
<1>4. Tickets'
  BY <1>2 DEF IInv, Tickets, Fresh
<1> QED BY <1>1, <1>3, <1>4 DEF IInv

LEMMA LoginKeeps ==
  ASSUME IInv, NEW r \in Requests, NEW u \in Users, NEW p \in Passwords, Login(r, u, p)
  PROVE  IInv'
<1> DEFINE j == [Idle EXCEPT !.kind = "login", !.user = u, !.password = p,
                   !.role = row[u].role, !.totp = row[u].totp,
                   !.pc = IF p = row[u].password THEN "success" ELSE "failure"]
<1>1. /\ job' = [job EXCEPT ![r] = j] /\ UNCHANGED <<row, jwt, tickets, restarts, pending>>
      /\ There(u) /\ row[u].enabled /\ ~Locked(u)
  BY DEF Login, Begin, MayLogin
<1>2. /\ j.kind = "login" /\ j.user = u /\ j.password = p
      /\ j.role = row[u].role /\ j.totp = row[u].totp
      /\ j.pc = IF p = row[u].password THEN "success" ELSE "failure"
  BY DEF Idle
<1>3. j \in Jobs
  BY <1>1, ZenonT(40) DEF Idle, Jobs, Steps, Kinds, IInv, TypeOK, Rows
<1>4. pending \subseteq Users
  BY DEF IInv, TypeOK
<1> HIDE DEF j
<1>5. JobNamed(j)
  BY <1>2 DEF JobNamed
<1>6. JobActs(j)
  BY <1>1, <1>2 DEF JobActs
<1> QED BY <1>1, <1>3, <1>4, <1>5, <1>6, ReadKeeps

\* The two steps of a second factor that read.
LEMMA FactorKeeps ==
  ASSUME IInv, NEW r \in Requests, ReadUser(r) \/ \E right \in BOOLEAN : VerifyTOTP(r, right)
  PROVE  IInv'
<1>0. /\ job[r] \in Jobs /\ JobNamed(job[r]) /\ JobActs(job[r]) /\ pending \subseteq Users
      /\ row \in [Users -> Rows] /\ job \in [Requests -> Jobs]
  BY DEF IInv, TypeOK, Named, Acts
<1>1. CASE ReadUser(r)
  <2> PICK u : u = job[r].user
    OBVIOUS
  <2>1. /\ job[r].pc = "user" /\ u \in Users /\ job[r].kind = "totp"
        /\ UNCHANGED <<row, jwt, tickets, pending, restarts>>
    BY <1>0, <1>1 DEF ReadUser, JobNamed
  <2>2. CASE There(u) /\ ~Locked(u)
    <3> DEFINE j == [job[r] EXCEPT !.pc = "verify", !.role = row[u].role, !.stale = FALSE]
    <3>1. job' = [job EXCEPT ![r].pc = "verify", ![r].role = row[u].role, ![r].stale = FALSE]
      BY <1>1, <2>2 DEF ReadUser
    <3>2. job' = [job EXCEPT ![r] = j]
      BY <1>0, <3>1
    <3>3. row[u].role \in {"admin", "user", ""}
      BY <1>0, <2>1 DEF Rows
    <3>4. j \in Jobs
      BY <1>0, <3>3 DEF Jobs, Steps
    <3>5. j.pc = "verify" /\ j.role = row[u].role /\ j.user = u /\ j.kind = "totp"
      BY <1>0, <2>1 DEF Jobs
    <3> HIDE DEF j
    <3>6. JobNamed(j) /\ JobActs(j)
      BY <2>1, <2>2, <3>5 DEF JobNamed, JobActs
    <3> QED BY <1>0, <2>1, <3>2, <3>4, <3>6, ReadKeeps
  <2>3. CASE ~(There(u) /\ ~Locked(u))
    <3>1. job' = [job EXCEPT ![r] = Idle]
      BY <1>1, <2>3 DEF ReadUser, End
    <3> QED BY <1>0, <2>1, <3>1, IdleJob, IdleFits, ReadKeeps
  <2> QED BY <2>2, <2>3
<1>2. ASSUME NEW right \in BOOLEAN, VerifyTOTP(r, right) PROVE IInv'
  <2> PICK u : u = job[r].user
    OBVIOUS
  <2> DEFINE pc == IF right THEN "success" ELSE "failure"
             j == [job[r] EXCEPT !.pc = pc]
  <2>a. pc \in Steps /\ pc \in {"success", "failure"} /\ (pc = "success" => right)
    BY DEF Steps
  <2>1. /\ job[r].pc = "verify" /\ u \in Users /\ job[r].kind = "totp"
        /\ right => There(u) /\ row[u].totp
        /\ UNCHANGED <<row, jwt, tickets, pending, restarts>>
    BY <1>0, <1>2 DEF VerifyTOTP, JobNamed
  <2>2. job' = [job EXCEPT ![r] = j]
    BY <1>0, <1>2 DEF VerifyTOTP, Step
  <2> HIDE DEF pc
  <2>3. /\ j \in Jobs /\ j.pc = pc
        /\ j.user = u /\ j.kind = "totp" /\ j.stale = job[r].stale /\ j.role = job[r].role
    BY <1>0, <2>a, <2>1, JobEdits, ZenonT(40)
  <2> HIDE DEF j
  <2>4. JobNamed(j)
    BY <2>a, <2>1, <2>3 DEF JobNamed
  <2>5. JobActs(j)
    BY <1>0, <2>a, <2>1, <2>3 DEF JobActs
  <2> QED BY <1>0, <2>1, <2>2, <2>3, <2>4, <2>5, ReadKeeps
<1> QED BY <1>1, <1>2

\* A request with a token begins.
LEMMA AcceptedUser ==
  ASSUME IInv, NEW t \in Tokens, Accepted(t)
  PROVE  /\ token[t].is # "none" /\ token[t].user \in Users
         /\ token[t].role \in {"admin", "user", ""}
BY DEF IInv, TypeOK, Accepted, SignedFor, Claims

LEMMA TokenBeginsKeep ==
  ASSUME IInv, NEW r \in Requests, NEW t \in Tokens,
         \/ Logout(r, t) \/ Refresh(r, t) \/ BindLoginTOTP(r, t) \/ UnbindLoginTOTP(r, t)
         \/ \E p \in Passwords : ChangePassword(r, t, p)
  PROVE  IInv'
<1>0. /\ pending \subseteq Users /\ Accepted(t)
      /\ UNCHANGED <<row, jwt, tickets, pending, restarts>>
  BY DEF IInv, TypeOK, Logout, Refresh, BindLoginTOTP, UnbindLoginTOTP, ChangePassword
<1>1. /\ token[t].is # "none" /\ token[t].user \in Users
      /\ token[t].role \in {"admin", "user", ""}
  BY <1>0, AcceptedUser
<1>2. ASSUME NEW j, Begin(r, j), j \in Jobs, JobNamed(j), JobActs(j) PROVE IInv'
  BY <1>0, <1>2, ReadKeeps DEF Begin
<1>3. CASE Logout(r, t)
  <2> DEFINE j == [Idle EXCEPT !.kind = "logout", !.token = t, !.pc = "revoke"]
  <2>1. /\ j.kind = "logout" /\ j.token = t /\ j.pc = "revoke" /\ j \in Jobs
    BY DEF Idle, Jobs, Kinds, Steps
  <2> HIDE DEF j
  <2>2. JobNamed(j) /\ JobActs(j)
    BY <1>1, <2>1 DEF JobNamed, JobActs
  <2>3. Begin(r, j)
    BY <1>3 DEF Logout, j
  <2> QED BY <1>2, <2>1, <2>2, <2>3
<1>4. CASE Refresh(r, t)
  <2> DEFINE j == [Idle EXCEPT !.kind = "refresh", !.token = t, !.pc = "revoke",
                               !.user = token[t].user, !.role = token[t].role]
  <2>1. /\ j.kind = "refresh" /\ j.token = t /\ j.pc = "revoke" /\ j.user = token[t].user
        /\ j \in Jobs
    BY <1>1 DEF Idle, Jobs, Kinds, Steps
  <2> HIDE DEF j
  <2>2. JobNamed(j) /\ JobActs(j)
    BY <1>1, <2>1 DEF JobNamed, JobActs
  <2>3. Begin(r, j)
    BY <1>4 DEF Refresh, j
  <2> QED BY <1>2, <2>1, <2>2, <2>3
<1>5. CASE BindLoginTOTP(r, t)
  <2> DEFINE j == [Idle EXCEPT !.kind = "bind", !.user = token[t].user, !.pc = "bind"]
  <2>1. j.kind = "bind" /\ j.pc = "bind" /\ j.user = token[t].user /\ j \in Jobs
    BY <1>1 DEF Idle, Jobs, Kinds, Steps
  <2> HIDE DEF j
  <2>2. JobNamed(j) /\ JobActs(j)
    BY <1>1, <2>1 DEF JobNamed, JobActs
  <2>3. Begin(r, j)
    BY <1>5 DEF BindLoginTOTP, j
  <2> QED BY <1>2, <2>1, <2>2, <2>3
<1>6. CASE UnbindLoginTOTP(r, t)
  <2> DEFINE j == [Idle EXCEPT !.kind = "unbind", !.user = token[t].user, !.pc = "unbind"]
  <2>1. j.kind = "unbind" /\ j.pc = "unbind" /\ j.user = token[t].user /\ j \in Jobs
    BY <1>1 DEF Idle, Jobs, Kinds, Steps
  <2> HIDE DEF j
  <2>2. JobNamed(j) /\ JobActs(j)
    BY <1>1, <2>1 DEF JobNamed, JobActs
  <2>3. Begin(r, j)
    BY <1>6 DEF UnbindLoginTOTP, j
  <2> QED BY <1>2, <2>1, <2>2, <2>3
<1>7. ASSUME NEW p \in Passwords, ChangePassword(r, t, p) PROVE IInv'
  <2> DEFINE j == [Idle EXCEPT !.kind = "change", !.user = token[t].user,
                               !.password = p, !.pc = "password"]
  <2>1. /\ j.kind = "change" /\ j.pc = "password" /\ j.user = token[t].user
        /\ j.password = p /\ j \in Jobs
    BY <1>1 DEF Idle, Jobs, Kinds, Steps
  <2> HIDE DEF j
  <2>2. JobNamed(j) /\ JobActs(j)
    BY <1>1, <2>1 DEF JobNamed, JobActs
  <2>3. Begin(r, j)
    BY <1>7 DEF ChangePassword, j
  <2> QED BY <1>2, <2>1, <2>2, <2>3
<1> QED BY <1>3, <1>4, <1>5, <1>6, <1>7

\* A username and an address, found free or not found; the account of an address.
LEMMA CheckNewKeeps ==
  ASSUME IInv, NEW r \in Requests, NEW kind \in {"register", "create"}, NEW u \in Users,
         NEW e \in Emails, NEW p \in Passwords, NEW role \in {"admin", "user"},
         CheckNew(r, kind, u, e, p, role)
  PROVE  IInv'
<1> DEFINE j == [Idle EXCEPT !.kind = kind, !.user = u, !.email = e, !.password = p,
                             !.role = role, !.missed = Taken(u, e), !.pc = "insert"]
<1>1. /\ j.kind = kind /\ j.user = u /\ j.email = e /\ j.password = p /\ j.role = role
      /\ j.pc = "insert" /\ j \in Jobs /\ j.missed = Taken(u, e)
  <2>1. Taken(u, e) \in SUBSET {"name", "address"}
    BY DEF Taken
  <2> QED BY <2>1 DEF Idle, Jobs, Kinds, Steps
<1> HIDE DEF j
<1>2. /\ job' = [job EXCEPT ![r] = j] /\ UNCHANGED <<row, jwt, tickets, pending, restarts>>
      /\ row[u] = NoRow \/ There(u)
  BY DEF CheckNew, Begin, j
<1>3. JobNamed(j)
  BY <1>1 DEF JobNamed
<1>4. row[u] = NoRow \/ "name" \in Taken(u, e)
  BY <1>2 DEF Taken
<1>5. (\A v \in Users : ~HasEmail(v, e)) \/ "address" \in Taken(u, e)
  BY DEF Taken
<1>6. JobActs(j)
  BY <1>1, <1>4, <1>5 DEF JobActs
<1> QED BY <1>1, <1>2, <1>3, <1>6, ReadKeeps DEF IInv, TypeOK

LEMMA LookupKeeps ==
  ASSUME IInv, NEW r \in Requests, LookupEmail(r)
  PROVE  IInv'
<1>0. /\ job[r] \in Jobs /\ JobNamed(job[r]) /\ pending \subseteq Users
      /\ job \in [Requests -> Jobs] /\ job[r].pc = "lookup"
      /\ UNCHANGED <<row, jwt, tickets, pending, restarts>>
  BY DEF IInv, TypeOK, Named, LookupEmail
<1>1. CASE job' = End(r)
  BY <1>0, <1>1, IdleJob, IdleFits, ReadKeeps DEF End
<1>2. ASSUME NEW u \in Users, HasEmail(u, job[r].email),
             job' = [job EXCEPT ![r].user = u, ![r].pc = "password"]
      PROVE  IInv'
  <2> DEFINE j == [job[r] EXCEPT !.user = u, !.pc = "password"]
  <2>1. job' = [job EXCEPT ![r] = j]
    BY <1>0, <1>2
  <2>2. /\ j \in Jobs /\ j.user = u /\ j.pc = "password" /\ j.email = job[r].email
        /\ j.password = job[r].password
    BY <1>0 DEF Jobs, Steps
  <2> HIDE DEF j
  <2>3. JobNamed(j)
    BY <1>0, <2>2 DEF JobNamed
  <2>4. JobActs(j)
    BY <1>2, <2>2 DEF JobActs
  <2> QED BY <1>0, <2>1, <2>2, <2>3, <2>4, ReadKeeps
<1> QED BY <1>1, <1>2 DEF LookupEmail

-----------------------------------------------------------------------------
(* Sessions and codes.                                                      *)

\* Accounts and tokens stay: what is left to show.
LEMMA TicketsMove ==
  ASSUME IInv, UNCHANGED <<row, jwt, restarts>>, pending' \subseteq Users,
         job' \in [Requests -> Jobs], Named', Acts',
         session' \in [Sessions -> Users \cup {NoUser}],
         code' \in [Emails -> Codes \cup {NoCode}],
         uses' \in [Sessions \cup Codes -> Nat], given' \subseteq Sessions \cup Codes, Tickets'
  PROVE  IInv'
<1>1. UNCHANGED <<row, token, blacklist, barred, ended, restarts>>
  BY DEF jwt
<1>2. TypeOK'
  BY <1>1 DEF IInv, TypeOK
<1>3. Ended' /\ Due' /\ SignedFor'
  BY <1>1 DEF IInv, Ended, Out, Due, SignedFor
<1> QED BY <1>2, <1>3 DEF IInv

\* Jobs that stay are fit while the accounts and the tokens stay.
LEMMA JobsStay ==
  ASSUME IInv, UNCHANGED <<row, token, job>>
  PROVE  Named' /\ Acts'
BY DEF IInv, Named, JobNamed, Acts, JobActs, There, Locked, HasEmail

LEMMA CreateSessionKeeps ==
  ASSUME IInv, NEW r \in Requests, NEW s \in Sessions, CreateSession(r, s)
  PROVE  IInv'
<1>1. /\ job' = [job EXCEPT ![r] = Idle] /\ s \notin given
      /\ session' = [session EXCEPT ![s] = job[r].user] /\ given' = given \cup {s}
      /\ UNCHANGED <<row, jwt, code, uses, pending, restarts>>
      /\ job[r].user \in Users
  BY DEF CreateSession, End, IInv, Named, JobNamed
<1>2. job' \in [Requests -> Jobs] /\ Named' /\ Acts'
  BY <1>1, JobMoves, IdleJob, IdleFits
<1>3. /\ session \in [Sessions -> Users \cup {NoUser}]
      /\ code \in [Emails -> Codes \cup {NoCode}]
      /\ uses \in [Sessions \cup Codes -> Nat] /\ given \subseteq Sessions \cup Codes
      /\ pending \subseteq Users /\ Tickets
  BY DEF IInv, TypeOK
<1>4. /\ session' \in [Sessions -> Users \cup {NoUser}]
      /\ \A x \in Sessions : x # s => session'[x] = session[x]
  BY <1>1, <1>3
<1>5. uses[s] = 0 /\ \A e \in Emails : code[e] # NoCode => code[e] # s
  BY <1>1, <1>3 DEF Tickets, Fresh
<1>6. Tickets'
  <2>1. \A k \in Sessions \cup Codes : uses'[k] <= 1 /\ (k \notin given' => uses'[k] = 0)
    BY <1>1, <1>3 DEF Tickets
  <2>2. \A x \in Sessions : session'[x] # NoUser => x \in given' /\ uses'[x] = 0
    BY <1>1, <1>3, <1>4, <1>5 DEF Tickets, Fresh
  <2>3. \A e \in Emails : code'[e] # NoCode =>
          /\ code'[e] \in given' /\ uses'[code'[e]] = 0
          /\ \A f \in Emails : code'[f] = code'[e] => f = e
          /\ code'[e] \in Sessions => session'[code'[e]] = NoUser
    BY <1>1, <1>3, <1>4, <1>5 DEF Tickets, Fresh
  <2> QED BY <2>1, <2>2, <2>3 DEF Tickets, Fresh
<1> QED BY <1>1, <1>2, <1>3, <1>4, <1>6, TicketsMove

\* One use: the session is out of the store with it.
LEMMA TOTPVerifyKeeps ==
  ASSUME IInv, NEW r \in Requests, NEW s \in Sessions, TOTPVerify(r, s)
  PROVE  IInv'
<1> DEFINE j == [Idle EXCEPT !.kind = "totp", !.user = session[s], !.pc = "user"]
<1>1. /\ job' = [job EXCEPT ![r] = j] /\ session[s] # NoUser
      /\ session' = [session EXCEPT ![s] = NoUser] /\ uses' = [uses EXCEPT ![s] = @ + 1]
      /\ UNCHANGED <<row, jwt, code, given, pending, restarts>>
  BY DEF TOTPVerify, Begin, Consume
<1>2. /\ session \in [Sessions -> Users \cup {NoUser}]
      /\ code \in [Emails -> Codes \cup {NoCode}]
      /\ uses \in [Sessions \cup Codes -> Nat] /\ given \subseteq Sessions \cup Codes
      /\ pending \subseteq Users /\ Tickets
  BY DEF IInv, TypeOK
<1>3. session[s] \in Users
  BY <1>1, <1>2
<1>4. /\ j \in Jobs /\ j.kind = "totp" /\ j.user = session[s] /\ j.pc = "user"
  BY <1>3 DEF Idle, Jobs, Kinds, Steps
<1> HIDE DEF j
<1>5. JobNamed(j) /\ JobActs(j)
  BY <1>3, <1>4 DEF JobNamed, JobActs
<1>6. job' \in [Requests -> Jobs] /\ Named' /\ Acts'
  BY <1>1, <1>4, <1>5, JobMoves
<1>7. /\ session' \in [Sessions -> Users \cup {NoUser}] /\ session'[s] = NoUser
      /\ \A x \in Sessions : x # s => session'[x] = session[x]
      /\ uses[s] = 0 /\ s \in given
      /\ \A e \in Emails : code[e] # NoCode => code[e] # s
  BY <1>1, <1>2 DEF Tickets, Fresh
<1>8. /\ uses' \in [Sessions \cup Codes -> Nat] /\ uses'[s] = 1
      /\ \A k \in Sessions \cup Codes : k # s => uses'[k] = uses[k]
  BY <1>1, <1>2, <1>7
<1>9. Tickets'
  <2>1. \A k \in Sessions \cup Codes : uses'[k] <= 1 /\ (k \notin given' => uses'[k] = 0)
    BY <1>1, <1>2, <1>7, <1>8 DEF Tickets
  <2>2. \A x \in Sessions : session'[x] # NoUser => x \in given' /\ uses'[x] = 0
    BY <1>1, <1>2, <1>7, <1>8 DEF Tickets, Fresh
  <2>3. \A e \in Emails : code'[e] # NoCode =>
          /\ code'[e] \in given' /\ uses'[code'[e]] = 0
          /\ \A f \in Emails : code'[f] = code'[e] => f = e
          /\ code'[e] \in Sessions => session'[code'[e]] = NoUser
    BY <1>1, <1>2, <1>7, <1>8 DEF Tickets, Fresh
  <2> QED BY <2>1, <2>2, <2>3 DEF Tickets, Fresh
<1> QED BY <1>1, <1>2, <1>6, <1>7, <1>8, <1>9, TicketsMove

LEMMA ForgotKeeps ==
  ASSUME IInv, NEW e \in Emails, NEW k \in Codes, ForgotPassword(e, k)
  PROVE  IInv'
<1>1. /\ code' = [code EXCEPT ![e] = k] /\ given' = given \cup {k} /\ k \notin given
      /\ UNCHANGED <<row, jwt, session, uses, pending, job, restarts>>
  BY DEF ForgotPassword
<1>2. /\ session \in [Sessions -> Users \cup {NoUser}]
      /\ code \in [Emails -> Codes \cup {NoCode}] /\ job \in [Requests -> Jobs]
      /\ uses \in [Sessions \cup Codes -> Nat] /\ given \subseteq Sessions \cup Codes
      /\ pending \subseteq Users /\ Tickets
  BY DEF IInv, TypeOK
<1>3. /\ code' \in [Emails -> Codes \cup {NoCode}] /\ code'[e] = k
      /\ \A f \in Emails : f # e => code'[f] = code[f]
      /\ uses[k] = 0 /\ \A f \in Emails : code[f] # k
      /\ k \in Sessions => session[k] = NoUser
  BY <1>1, <1>2 DEF Tickets, Fresh
<1>4. Tickets'
  <2>1. \A x \in Sessions \cup Codes : uses'[x] <= 1 /\ (x \notin given' => uses'[x] = 0)
    BY <1>1, <1>2 DEF Tickets
  <2>2. \A x \in Sessions : session'[x] # NoUser => x \in given' /\ uses'[x] = 0
    BY <1>1, <1>2 DEF Tickets, Fresh
  <2>3. \A f \in Emails : code'[f] # NoCode =>
          /\ code'[f] \in given' /\ uses'[code'[f]] = 0
          /\ \A g \in Emails : code'[g] = code'[f] => g = f
          /\ code'[f] \in Sessions => session'[code'[f]] = NoUser
    BY <1>1, <1>2, <1>3 DEF Tickets, Fresh
  <2> QED BY <2>1, <2>2, <2>3 DEF Tickets, Fresh
<1>5. Named' /\ Acts'
  BY <1>1, JobsStay DEF jwt
<1> QED BY <1>1, <1>2, <1>3, <1>4, <1>5, TicketsMove

LEMMA ResetKeeps ==
  ASSUME IInv, NEW r \in Requests, NEW e \in Emails, NEW p \in Passwords,
         ResetPassword(r, e, p)
  PROVE  IInv'
<1> DEFINE j == [Idle EXCEPT !.kind = "reset", !.email = e, !.password = p, !.pc = "lookup"]
<1> PICK k : k = code[e]
  OBVIOUS
<1>1. /\ job' = [job EXCEPT ![r] = j] /\ k # NoCode
      /\ code' = [code EXCEPT ![e] = NoCode] /\ uses' = [uses EXCEPT ![k] = @ + 1]
      /\ UNCHANGED <<row, jwt, session, given, pending, restarts>>
  BY DEF ResetPassword, Begin, Consume
<1>2. /\ session \in [Sessions -> Users \cup {NoUser}]
      /\ code \in [Emails -> Codes \cup {NoCode}]
      /\ uses \in [Sessions \cup Codes -> Nat] /\ given \subseteq Sessions \cup Codes
      /\ pending \subseteq Users /\ Tickets
  BY DEF IInv, TypeOK
<1>3. /\ j \in Jobs /\ j.kind = "reset" /\ j.password = p /\ j.pc = "lookup"
  BY DEF Idle, Jobs, Kinds, Steps
<1> HIDE DEF j
<1>4. JobNamed(j) /\ JobActs(j)
  BY <1>3 DEF JobNamed, JobActs
<1>5. job' \in [Requests -> Jobs] /\ Named' /\ Acts'
  BY <1>1, <1>3, <1>4, JobMoves
<1>6. /\ code' \in [Emails -> Codes \cup {NoCode}] /\ code'[e] = NoCode
      /\ \A f \in Emails : f # e => code'[f] = code[f]
      /\ k \in Codes /\ uses[k] = 0 /\ k \in given
      /\ \A f \in Emails : f # e => code[f] # k
      /\ k \in Sessions => session[k] = NoUser
  BY <1>1, <1>2 DEF Tickets, Fresh
<1>7. /\ uses' \in [Sessions \cup Codes -> Nat] /\ uses'[k] = 1
      /\ \A x \in Sessions \cup Codes : x # k => uses'[x] = uses[x]
  BY <1>1, <1>2, <1>6
<1>8. Tickets'
  <2>1. \A x \in Sessions \cup Codes : uses'[x] <= 1 /\ (x \notin given' => uses'[x] = 0)
    BY <1>1, <1>2, <1>6, <1>7 DEF Tickets
  <2>2. \A x \in Sessions : session'[x] # NoUser => x \in given' /\ uses'[x] = 0
    BY <1>1, <1>2, <1>6, <1>7 DEF Tickets, Fresh
  <2>3. \A f \in Emails : code'[f] # NoCode =>
          /\ code'[f] \in given' /\ uses'[code'[f]] = 0
          /\ \A g \in Emails : code'[g] = code'[f] => g = f
          /\ code'[f] \in Sessions => session'[code'[f]] = NoUser
    BY <1>1, <1>2, <1>6, <1>7 DEF Tickets, Fresh
  <2> QED BY <2>1, <2>2, <2>3 DEF Tickets, Fresh
<1> QED BY <1>1, <1>2, <1>5, <1>6, <1>7, <1>8, TicketsMove

\* What expires, and what is pending.
LEMMA StoresKeep ==
  ASSUME IInv,
         \/ \E s \in Sessions : SessionExpires(s)
         \/ \E e \in Emails : CodeExpires(e)
         \/ \E u \in Users : PendingExpires(u)
         \/ \E t \in Tokens : GenerateLoginTOTP(t)
  PROVE  IInv'
<1>1. /\ session \in [Sessions -> Users \cup {NoUser}]
      /\ code \in [Emails -> Codes \cup {NoCode}] /\ job \in [Requests -> Jobs]
      /\ uses \in [Sessions \cup Codes -> Nat] /\ given \subseteq Sessions \cup Codes
      /\ pending \subseteq Users /\ Tickets
  BY DEF IInv, TypeOK
<1>2. UNCHANGED <<row, jwt, uses, given, job, restarts>>
  BY DEF SessionExpires, CodeExpires, PendingExpires, GenerateLoginTOTP, tickets
<1>3. Named' /\ Acts'
  BY <1>2, JobsStay DEF jwt
<1>4. ASSUME NEW s \in Sessions, SessionExpires(s) PROVE IInv'
  <2>1. /\ session' = [session EXCEPT ![s] = NoUser] /\ code' = code /\ pending' = pending
    BY <1>4 DEF SessionExpires
  <2>2. session' \in [Sessions -> Users \cup {NoUser}]
    BY <1>1, <2>1
  <2>3. Tickets'
    BY <1>1, <1>2, <2>1 DEF Tickets, Fresh
  <2> QED BY <1>1, <1>2, <1>3, <2>1, <2>2, <2>3, TicketsMove
<1>5. ASSUME NEW e \in Emails, CodeExpires(e) PROVE IInv'
  <2>1. /\ code' = [code EXCEPT ![e] = NoCode] /\ session' = session /\ pending' = pending
    BY <1>5 DEF CodeExpires
  <2>2. code' \in [Emails -> Codes \cup {NoCode}]
    BY <1>1, <2>1
  <2>3. Tickets'
    BY <1>1, <1>2, <2>1 DEF Tickets, Fresh
  <2> QED BY <1>1, <1>2, <1>3, <2>1, <2>2, <2>3, TicketsMove
<1>6. CASE (\E u \in Users : PendingExpires(u)) \/ (\E t \in Tokens : GenerateLoginTOTP(t))
  <2>1. session' = session /\ code' = code
    BY <1>6 DEF PendingExpires, GenerateLoginTOTP, tickets
  <2>2. pending' \subseteq Users
    <3>1. ASSUME NEW u \in Users, PendingExpires(u) PROVE pending' \subseteq Users
      BY <1>1, <3>1 DEF PendingExpires
    <3>2. ASSUME NEW t \in Tokens, GenerateLoginTOTP(t) PROVE pending' \subseteq Users
      <4>1. Accepted(t) /\ pending' = pending \cup {token[t].user}
        BY <3>2 DEF GenerateLoginTOTP
      <4> QED BY <1>1, <4>1, AcceptedUser
    <3> QED BY <1>6, <3>1, <3>2
  <2>3. Tickets'
    BY <1>1, <1>2, <2>1 DEF Tickets, Fresh
  <2> QED BY <1>1, <1>2, <1>3, <2>1, <2>2, <2>3, TicketsMove
<1> QED BY <1>4, <1>5, <1>6

LEMMA DeletePendingKeeps ==
  ASSUME IInv, NEW r \in Requests, DeletePending(r)
  PROVE  IInv'
<1>1. /\ job' = [job EXCEPT ![r] = Idle] /\ UNCHANGED <<row, jwt, tickets, restarts>>
      /\ pending' \subseteq Users
  BY DEF DeletePending, End, IInv, TypeOK
<1> QED BY <1>1, IdleJob, IdleFits, ReadKeeps

-----------------------------------------------------------------------------
(* Tokens.                                                                  *)

LEMMA TokensMove ==
  ASSUME IInv, UNCHANGED <<row, tickets, pending, restarts>>, job' \in [Requests -> Jobs],
         \A q \in Requests : job'[q] = job[q] \/ (JobNamed(job'[q]) /\ JobActs(job'[q])),
         token' \in [Tokens -> Claims],
         \A t \in Tokens : token[t].is # "none" => token'[t].is # "none",
         blacklist' \subseteq Tokens, barred' \in [Users -> {"no", "yes", "due"}],
         ended' \subseteq Tokens, Ended', Due', SignedFor'
  PROVE  IInv'
<1>1. UNCHANGED <<row, session, code, uses, given, pending, restarts>>
  BY DEF tickets
<1>2. TypeOK'
  BY <1>1 DEF IInv, TypeOK
<1>3. Tickets'
  BY <1>1 DEF IInv, Tickets, Fresh
<1>4. Named' /\ Acts'
  <2> SUFFICES ASSUME NEW q \in Requests PROVE JobNamed(job[q])' /\ JobActs(job[q])'
    BY DEF Named, Acts
  <2> PICK k : k = job'[q]
    OBVIOUS
  <2>1. JobNamed(k) /\ JobActs(k)
    BY DEF IInv, Named, Acts
  <2>2. JobNamed(k)'
    BY <2>1 DEF JobNamed
  <2>3. JobActs(k)'
    BY <1>1, <2>1 DEF JobActs, There, Locked, HasEmail
  <2> QED BY <2>2, <2>3 DEF JobNamed, JobActs, There, Locked, HasEmail
<1> QED BY <1>2, <1>3, <1>4 DEF IInv

\* The parts that tokens are in.
LEMMA TokenParts ==
  ASSUME IInv
  PROVE  /\ token \in [Tokens -> Claims] /\ blacklist \subseteq Tokens /\ ended \subseteq Tokens
         /\ barred \in [Users -> {"no", "yes", "due"}] /\ job \in [Requests -> Jobs]
         /\ \A t \in ended : token[t].is # "none" /\ Out(t)
         /\ Due /\ SignedFor
BY DEF IInv, TypeOK, Ended

LEMMA ExpiredClaim ==
  ASSUME NEW c \in Claims
  PROVE  LET d == [c EXCEPT !.is = "expired"]
         IN  d \in Claims /\ d.is = "expired" /\ d.user = c.user /\ d.covered = c.covered
BY DEF Claims

LEMMA RevokeKeeps ==
  ASSUME IInv, NEW r \in Requests, Revoke(r)
  PROVE  IInv'
<1> PICK x : x = job[r].token
  OBVIOUS
<1>1. /\ job[r] \in Jobs /\ job[r].pc = "revoke" /\ x \in Tokens /\ token[x].is # "none"
      /\ job[r].kind = "refresh" => job[r].user \in Users
      /\ blacklist' = blacklist \cup {x} /\ ended' = ended \cup {x}
      /\ UNCHANGED <<row, token, barred, tickets, pending, restarts>>
  BY DEF Revoke, IInv, TypeOK, Named, JobNamed
<1>2. /\ job' \in [Requests -> Jobs]
      /\ \A q \in Requests : job'[q] = job[q] \/ (JobNamed(job'[q]) /\ JobActs(job'[q]))
  <2>1. CASE job[r].kind = "refresh"
    <3> DEFINE j == [job[r] EXCEPT !.pc = "sign"]
    <3>1. job' = [job EXCEPT ![r] = j]
      BY <2>1, TokenParts DEF Revoke, Step
    <3>2. /\ j \in Jobs /\ j.pc = "sign" /\ j.kind = "refresh" /\ j.user = job[r].user
      BY <1>1, <2>1, JobEdits, ZenonT(40) DEF Steps
    <3> HIDE DEF j
    <3>3. JobNamed(j) /\ JobActs(j)
      BY <1>1, <2>1, <3>2 DEF JobNamed, JobActs
    <3> QED BY <3>1, <3>2, <3>3, TokenParts
  <2>2. CASE job[r].kind # "refresh"
    BY <2>2, TokenParts, IdleJob, IdleFits DEF Revoke, End
  <2> QED BY <2>1, <2>2
<1>3. Ended' /\ Due' /\ SignedFor'
  BY <1>1, TokenParts DEF Ended, Out, Due, SignedFor
<1> QED BY <1>1, <1>2, <1>3, TokenParts, TokensMove

LEMMA RevokeAllKeeps ==
  ASSUME IInv, NEW r \in Requests, RevokeAllForUser(r)
  PROVE  IInv'
<1> DEFINE signed(u) == {t \in Tokens : token[t].is # "none" /\ token[t].user = u}
<1> PICK u : u = job[r].user
  OBVIOUS
<1>1. /\ u \in Users /\ barred' = [barred EXCEPT ![u] = "yes"]
      /\ token' = [t \in Tokens |-> [token[t] EXCEPT !.covered = @ \/ t \in signed(u)]]
      /\ ended' = ended \cup signed(u) /\ job' = [job EXCEPT ![r] = Idle]
      /\ UNCHANGED <<row, blacklist, tickets, pending, restarts>>
  BY DEF RevokeAllForUser, End, IInv, Named, JobNamed
<1>2. \A t \in Tokens : /\ token'[t] \in Claims /\ token'[t].is = token[t].is
                        /\ token'[t].user = token[t].user
                        /\ token'[t].covered <=> (token[t].covered \/ t \in signed(u))
  <2> SUFFICES ASSUME NEW t \in Tokens
               PROVE  /\ token'[t] \in Claims /\ token'[t].is = token[t].is
                      /\ token'[t].user = token[t].user
                      /\ token'[t].covered <=> (token[t].covered \/ t \in signed(u))
    OBVIOUS
  <2> DEFINE b == token[t].covered \/ t \in signed(u)
  <2>1. token[t] \in Claims /\ b \in BOOLEAN
    BY TokenParts
  <2>2. token'[t] = [token[t] EXCEPT !.covered = b]
    BY <1>1
  <2> HIDE DEF b
  <2>3. /\ token'[t] \in Claims /\ token'[t].is = token[t].is
        /\ token'[t].user = token[t].user /\ token'[t].covered = b
    BY <2>1, <2>2 DEF Claims
  <2> QED BY <2>3 DEF b
<1> HIDE DEF signed
<1>3. /\ token' \in [Tokens -> Claims]
      /\ barred' \in [Users -> {"no", "yes", "due"}] /\ barred'[u] = "yes"
      /\ \A v \in Users : v # u => barred'[v] = barred[v]
  BY <1>1, <1>2, TokenParts
<1>4. \A t \in signed(u) : t \in Tokens /\ token[t].is # "none" /\ token[t].user = u
  BY DEF signed
<1>5. SignedFor'
  BY <1>2, TokenParts DEF SignedFor
<1>6. ended' \subseteq Tokens /\ Ended'
  <2>1. ASSUME NEW t \in ended' PROVE t \in Tokens /\ token'[t].is # "none" /\ Out(t)'
    <3>1. CASE t \in signed(u)
      BY <1>2, <1>3, <1>4, <3>1 DEF Out
    <3>2. CASE t \in ended
      <4>1. t \in Tokens /\ token[t].is # "none" /\ Out(t) /\ token[t].user \in Users
        BY <3>2, TokenParts DEF SignedFor
      <4>2. token'[t].covered <=> (token[t].covered \/ t \in signed(u))
        BY <1>2, <4>1
      <4> QED BY <1>1, <1>2, <1>3, <4>1, <4>2 DEF Out
    <3> QED BY <1>1, <2>1, <3>1, <3>2
  <2> QED BY <2>1 DEF Ended
<1>7. Due'
  <2> SUFFICES ASSUME NEW v \in Users, barred'[v] = "due", NEW t \in Tokens,
                      token'[t].user = v, token'[t].covered
               PROVE  token'[t].is = "expired"
    BY DEF Due
  <2>1. v # u /\ barred[v] = "due"
    BY <1>3
  <2>2. token[t].user = v /\ token[t].covered
    BY <1>2, <1>4, <2>1
  <2> QED BY <1>2, <2>1, <2>2, TokenParts DEF Due
<1>8. /\ job' \in [Requests -> Jobs]
      /\ \A q \in Requests : job'[q] = job[q] \/ (JobNamed(job'[q]) /\ JobActs(job'[q]))
  BY <1>1, IdleJob, IdleFits, TokenParts
<1>9. \A t \in Tokens : token[t].is # "none" => token'[t].is # "none"
  BY <1>2
<1> QED BY <1>1, <1>3, <1>5, <1>6, <1>7, <1>8, <1>9, TokenParts, TokensMove

LEMMA SignKeeps ==
  ASSUME IInv, NEW r \in Requests, NEW t \in Tokens, Sign(r, t)
  PROVE  IInv'
<1> DEFINE c == [NoClaims EXCEPT !.is = "live", !.user = job[r].user, !.role = job[r].role]
<1>1. /\ job[r] \in Jobs /\ job[r].user \in Users /\ token[t] = NoClaims
      /\ token' = [token EXCEPT ![t] = c] /\ job' = [job EXCEPT ![r] = Idle]
      /\ UNCHANGED <<row, blacklist, barred, ended, tickets, pending, restarts>>
  BY DEF Sign, End, IInv, TypeOK, Named, JobNamed
<1>2. /\ c \in Claims /\ c.is = "live" /\ c.user = job[r].user /\ c.covered = FALSE
  BY <1>1 DEF NoClaims, Claims, Jobs
<1> HIDE DEF c
<1>3. /\ token' \in [Tokens -> Claims] /\ token'[t] = c
      /\ \A x \in Tokens : x # t => token'[x] = token[x]
  BY <1>1, <1>2, TokenParts
<1>4. t \notin ended
  BY <1>1, TokenParts, NoClaimsIs
<1>5. Ended'
  BY <1>1, <1>3, <1>4, TokenParts DEF Ended, Out
<1>6. Due' /\ SignedFor'
  BY <1>1, <1>2, <1>3, TokenParts DEF Due, SignedFor
<1>7. /\ job' \in [Requests -> Jobs]
      /\ \A q \in Requests : job'[q] = job[q] \/ (JobNamed(job'[q]) /\ JobActs(job'[q]))
  BY <1>1, IdleJob, IdleFits, TokenParts
<1> QED BY <1>1, <1>2, <1>3, <1>5, <1>6, <1>7, TokenParts, NoClaimsIs, TokensMove

\* The clean-up takes out what is of no more use.
LEMMA TimesKeep ==
  ASSUME IInv,
         \/ \E t \in Tokens : TokenExpires(t)
         \/ \E u \in Users : BarExpires(u)
         \/ CleanupBlacklist
  PROVE  IInv'
<1>1. UNCHANGED <<row, ended, tickets, pending, job, restarts>>
  BY DEF TokenExpires, BarExpires, CleanupBlacklist
<1>2. ASSUME NEW t \in Tokens, TokenExpires(t) PROVE IInv'
  <2> DEFINE c == [token[t] EXCEPT !.is = "expired"]
  <2>1. /\ c \in Claims /\ c.is = "expired" /\ c.user = token[t].user
        /\ c.covered = token[t].covered
    BY TokenParts, ExpiredClaim
  <2>2. /\ token' = [token EXCEPT ![t] = c] /\ UNCHANGED <<blacklist, barred>>
        /\ token[t].is = "live"
    BY <1>2, TokenParts DEF TokenExpires
  <2> HIDE DEF c
  <2>3. /\ token' \in [Tokens -> Claims] /\ token'[t] = c
        /\ \A x \in Tokens : x # t => token'[x] = token[x]
    BY <2>1, <2>2, TokenParts
  <2>4. Ended'
    BY <1>1, <2>1, <2>2, <2>3, TokenParts DEF Ended, Out
  <2>5. Due' /\ SignedFor'
    BY <2>1, <2>2, <2>3, TokenParts DEF Due, SignedFor
  <2>6. \A x \in Tokens : token[x].is # "none" => token'[x].is # "none"
    BY <2>1, <2>3
  <2> QED BY <1>1, <2>2, <2>3, <2>4, <2>5, <2>6, TokenParts, TokensMove
<1>3. ASSUME NEW u \in Users, BarExpires(u) PROVE IInv'
  <2>1. /\ barred' = [barred EXCEPT ![u] = "due"] /\ barred[u] = "yes"
        /\ UNCHANGED <<token, blacklist>>
        /\ \A t \in Tokens : token[t].user = u /\ token[t].covered => token[t].is = "expired"
    BY <1>3 DEF BarExpires
  <2>2. /\ barred' \in [Users -> {"no", "yes", "due"}] /\ barred'[u] = "due"
        /\ \A v \in Users : v # u => barred'[v] = barred[v]
    BY <2>1, TokenParts
  <2>3. Ended'
    BY <1>1, <2>1, <2>2, TokenParts DEF Ended, Out, SignedFor
  <2>4. Due' /\ SignedFor'
    BY <2>1, <2>2, TokenParts DEF Due, SignedFor
  <2> QED BY <1>1, <2>1, <2>2, <2>3, <2>4, TokenParts, TokensMove
<1>4. CASE CleanupBlacklist
  <2>1. /\ blacklist' = {t \in blacklist : token[t].is = "live"} /\ token' = token
        /\ barred' = [u \in Users |-> IF barred[u] = "due" THEN "no" ELSE barred[u]]
    BY <1>4 DEF CleanupBlacklist, Keeps
  <2>2. /\ barred' \in [Users -> {"no", "yes", "due"}]
        /\ \A u \in Users : barred'[u] # "due"
        /\ \A u \in Users : barred[u] = "yes" => barred'[u] = "yes"
    BY <2>1, TokenParts
  <2>3. ASSUME NEW t \in ended' PROVE token'[t].is # "none" /\ Out(t)'
    <3>1. /\ t \in Tokens /\ token[t].is # "none" /\ Out(t) /\ token[t].user \in Users
          /\ token[t].is \in {"live", "expired"}
      BY <1>1, <2>3, TokenParts DEF SignedFor, Claims
    <3>2. CASE token[t].is = "expired" \/ t \in blacklist
      BY <2>1, <3>1, <3>2 DEF Out
    <3>3. CASE token[t].covered /\ barred[token[t].user] # "no"
      BY <2>1, <2>2, <3>1, <3>3, TokenParts DEF Out, Due
    <3> QED BY <3>1, <3>2, <3>3 DEF Out
  <2>4. Ended' /\ Due' /\ SignedFor'
    BY <2>1, <2>2, <2>3, TokenParts DEF Ended, Due, SignedFor
  <2>5. blacklist' \subseteq Tokens
    BY <2>1, TokenParts
  <2> QED BY <1>1, <2>1, <2>2, <2>4, <2>5, TokenParts, TokensMove
<1> QED BY <1>2, <1>3, <1>4

-----------------------------------------------------------------------------
(* Accounts.                                                                *)

\* One account changes; a request has read another, or is stale.
LEMMA RowMoves ==
  ASSUME IInv, NEW u \in Users, row' \in [Users -> Rows],
         \A v \in Users : v # u => row'[v] = row[v],
         UNCHANGED <<jwt, tickets, pending, restarts>>,
         job' \in [Requests -> Jobs], \A q \in Requests : JobNamed(job'[q]),
         \A q \in Requests :
            \/ job'[q].stale \/ JobActs(job[q])'
            \/ /\ job'[q] = job[q] /\ job[q].user # u
               /\ job[q].pc = "insert" =>
                    \A f : f = job[q].email => (HasEmail(u, f)' => HasEmail(u, f))
  PROVE  IInv'
<1>1. UNCHANGED <<token, blacklist, barred, ended, session, code, uses, given, pending, restarts>>
  BY DEF jwt, tickets
<1>2. TypeOK'
  BY <1>1 DEF IInv, TypeOK
<1>3. Ended' /\ Due' /\ SignedFor' /\ Tickets'
  BY <1>1 DEF IInv, Ended, Out, Due, SignedFor, Tickets, Fresh
<1>4. Named'
  BY <1>1 DEF Named, JobNamed
<1>5. Acts'
  <2> SUFFICES ASSUME NEW q \in Requests PROVE JobActs(job[q])'
    BY DEF Acts
  <2>1. CASE job'[q].stale
    BY <2>1 DEF JobActs
  <2>2. CASE /\ job'[q] = job[q] /\ job[q].user # u
             /\ job[q].pc = "insert" =>
                  \A f : f = job[q].email => (HasEmail(u, f)' => HasEmail(u, f))
    <3> PICK k : k = job[q]
      OBVIOUS
    <3>1. JobActs(k) /\ JobNamed(k) /\ k.user # u /\ job'[q] = k
      BY <2>2 DEF IInv, Acts, Named
    <3>2. k.pc \in {"success", "sign", "verify", "insert", "password"} =>
            k.user \in Users /\ row'[k.user] = row[k.user]
      BY <3>1 DEF JobNamed
    <3>3. k.pc = "insert" => \A v \in Users : HasEmail(v, k.email)' => HasEmail(v, k.email)
      <4>1. k.pc = "insert" => (HasEmail(u, k.email)' => HasEmail(u, k.email))
        BY <2>2, <3>1
      <4> QED BY <4>1 DEF HasEmail, There
    <3>4. JobActs(k)'
      <4>1. k.pc = "insert" /\ ~k.stale =>
              /\ row'[k.user] = NoRow \/ "name" \in k.missed
              /\ (\A v \in Users : ~HasEmail(v, k.email)') \/ "address" \in k.missed
        BY <3>1, <3>2, <3>3 DEF JobActs
      <4>2. k.pc = "password" /\ k.kind = "reset" /\ ~k.stale => HasEmail(k.user, k.email)'
        BY <3>1, <3>2 DEF JobActs, HasEmail, There
      <4>3. k.pc \in {"success", "sign", "verify"} =>
              /\ row'[k.user] = row[k.user]
              /\ There(k.user)' = There(k.user) /\ Locked(k.user)' = Locked(k.user)
        BY <3>2 DEF There, Locked
      <4> QED BY <3>1, <4>1, <4>2, <4>3 DEF JobActs
    <3> QED BY <3>1, <3>4 DEF JobActs, There, Locked, HasEmail
  <2> QED BY <2>1, <2>2
<1> QED BY <1>2, <1>3, <1>4, <1>5 DEF IInv

\* What Touch and Take leave of a job.
LEMMA StaleJob ==
  ASSUME NEW k \in Jobs, JobNamed(k)
  PROVE  LET j == [k EXCEPT !.stale = TRUE]
         IN  j \in Jobs /\ j.stale /\ JobNamed(j)
<1> DEFINE j == [k EXCEPT !.stale = TRUE]
<1>1. /\ j \in Jobs /\ j.stale = TRUE /\ j.pc = k.pc /\ j.kind = k.kind /\ j.user = k.user
      /\ j.email = k.email /\ j.password = k.password /\ j.role = k.role /\ j.token = k.token
  BY JobEdits
<1> HIDE DEF j
<1>2. JobNamed(j)
  BY <1>1 DEF JobNamed
<1> QED BY <1>1, <1>2 DEF j

LEMMA TouchIs ==
  ASSUME NEW u, NEW jobs \in [Requests -> Jobs], \A q \in Requests : JobNamed(jobs[q])
  PROVE  /\ Touch(jobs, u) \in [Requests -> Jobs]
         /\ \A q \in Requests :
              /\ JobNamed(Touch(jobs, u)[q])
              /\ \/ Touch(jobs, u)[q].stale
                 \/ Touch(jobs, u)[q] = jobs[q] /\ jobs[q].user # u
<1>1. ASSUME NEW q \in Requests
      PROVE  /\ Touch(jobs, u)[q] \in Jobs /\ JobNamed(Touch(jobs, u)[q])
             /\ \/ Touch(jobs, u)[q].stale
                \/ Touch(jobs, u)[q] = jobs[q] /\ jobs[q].user # u
  <2>1. jobs[q] \in Jobs /\ JobNamed(jobs[q])
    OBVIOUS
  <2>2. CASE jobs[q].user = u
    <3>1. Touch(jobs, u)[q] = [jobs[q] EXCEPT !.stale = TRUE]
      BY <2>2 DEF Touch
    <3> QED BY <2>1, <3>1, StaleJob
  <2>3. CASE jobs[q].user # u
    BY <2>1, <2>3 DEF Touch
  <2> QED BY <2>2, <2>3
<1>2. Touch(jobs, u) = [q \in Requests |-> Touch(jobs, u)[q]]
  BY DEF Touch
<1> QED BY <1>1, <1>2

LEMMA TakeIs ==
  ASSUME NEW u, NEW e, NEW jobs \in [Requests -> Jobs], \A q \in Requests : JobNamed(jobs[q])
  PROVE  /\ Take(jobs, u, e) \in [Requests -> Jobs]
         /\ \A q \in Requests :
              /\ JobNamed(Take(jobs, u, e)[q])
              /\ \/ Take(jobs, u, e)[q].stale
                 \/ /\ Take(jobs, u, e)[q] = jobs[q] /\ jobs[q].user # u
                    /\ jobs[q].pc = "insert" => jobs[q].email # e
<1>1. ASSUME NEW q \in Requests
      PROVE  /\ Take(jobs, u, e)[q] \in Jobs /\ JobNamed(Take(jobs, u, e)[q])
             /\ \/ Take(jobs, u, e)[q].stale
                \/ /\ Take(jobs, u, e)[q] = jobs[q] /\ jobs[q].user # u
                   /\ jobs[q].pc = "insert" => jobs[q].email # e
  <2>1. jobs[q] \in Jobs /\ JobNamed(jobs[q])
    OBVIOUS
  <2>2. CASE jobs[q].pc = "insert" /\ (jobs[q].user = u \/ jobs[q].email = e)
    <3>1. Take(jobs, u, e)[q] = [jobs[q] EXCEPT !.stale = TRUE]
      BY <2>2 DEF Take
    <3> QED BY <2>1, <3>1, StaleJob
  <2>3. CASE ~(jobs[q].pc = "insert" /\ (jobs[q].user = u \/ jobs[q].email = e))
    <3>1. Take(jobs, u, e)[q] = Touch(jobs, u)[q]
      BY <2>3 DEF Take
    <3> QED BY <2>3, <3>1, TouchIs
  <2> QED BY <2>2, <2>3
<1>2. Take(jobs, u, e) = [q \in Requests |-> Take(jobs, u, e)[q]]
  BY DEF Take
<1> QED BY <1>1, <1>2

\* An account changes, and what was read of it is stale.
LEMMA TouchKeeps ==
  ASSUME IInv, NEW u \in Users, NEW jobs \in [Requests -> Jobs],
         \A q \in Requests : jobs[q] = job[q] \/ jobs[q] = Idle \/ jobs[q].user = u,
         \A q \in Requests : JobNamed(jobs[q]),
         job' = Touch(jobs, u), row' \in [Users -> Rows],
         \A v \in Users : v # u => row'[v] = row[v],
         \A f : HasEmail(u, f)' => HasEmail(u, f),
         UNCHANGED <<jwt, tickets, pending, restarts>>
  PROVE  IInv'
<1>1. /\ job' \in [Requests -> Jobs] /\ \A q \in Requests : JobNamed(job'[q])
      /\ \A q \in Requests : job'[q].stale \/ (job'[q] = jobs[q] /\ jobs[q].user # u)
  BY TouchIs
<1>2. ASSUME NEW q \in Requests
      PROVE  \/ job'[q].stale \/ JobActs(job[q])'
             \/ /\ job'[q] = job[q] /\ job[q].user # u
                /\ job[q].pc = "insert" =>
                     \A f : f = job[q].email => (HasEmail(u, f)' => HasEmail(u, f))
  <2>1. CASE job'[q] = Idle
    BY <2>1, IdleFits DEF JobActs, There, Locked, HasEmail
  <2>2. CASE job'[q] = job[q] /\ job[q].user # u
    BY <2>2
  <2> QED BY <1>1, <2>1, <2>2
<1> QED BY <1>1, <1>2, RowMoves

LEMMA TakeKeeps ==
  ASSUME IInv, NEW u \in Users, NEW e, NEW jobs \in [Requests -> Jobs],
         \A q \in Requests : jobs[q] = job[q] \/ jobs[q] = Idle \/ jobs[q].user = u,
         \A q \in Requests : JobNamed(jobs[q]),
         job' = Take(jobs, u, e), row' \in [Users -> Rows],
         \A v \in Users : v # u => row'[v] = row[v],
         \A f : HasEmail(u, f)' => HasEmail(u, f) \/ f = e,
         UNCHANGED <<jwt, tickets, pending, restarts>>
  PROVE  IInv'
<1>1. /\ job' \in [Requests -> Jobs] /\ \A q \in Requests : JobNamed(job'[q])
      /\ \A q \in Requests :
           \/ job'[q].stale
           \/ /\ job'[q] = jobs[q] /\ jobs[q].user # u
              /\ jobs[q].pc = "insert" => jobs[q].email # e
  BY TakeIs
<1>2. ASSUME NEW q \in Requests
      PROVE  \/ job'[q].stale \/ JobActs(job[q])'
             \/ /\ job'[q] = job[q] /\ job[q].user # u
                /\ job[q].pc = "insert" =>
                     \A f : f = job[q].email => (HasEmail(u, f)' => HasEmail(u, f))
  <2>1. CASE job'[q] = Idle
    BY <2>1, IdleFits DEF JobActs, There, Locked, HasEmail
  <2>2. CASE /\ job'[q] = job[q] /\ job[q].user # u
             /\ job[q].pc = "insert" => job[q].email # e
    BY <2>2
  <2> QED BY <1>1, <2>1, <2>2
<1> QED BY <1>1, <1>2, RowMoves

\* An account changes in nothing that a request relies on.
LEMMA RowSoftens ==
  ASSUME IInv, NEW u \in Users, NEW x \in Rows, row' = [row EXCEPT ![u] = x], row[u] # NoRow,
         x.is = row[u].is, x.email = row[u].email, x.password = row[u].password,
         x.role = row[u].role, x.enabled = row[u].enabled, x.totp = row[u].totp,
         x.lock = "on" => row[u].lock = "on",
         job' \in [Requests -> Jobs],
         \A q \in Requests : JobNamed(job'[q]) /\ JobActs(job'[q]),
         UNCHANGED <<jwt, tickets, pending, restarts>>
  PROVE  IInv'
<1>1. UNCHANGED <<token, blacklist, barred, ended, session, code, uses, given, pending, restarts>>
  BY DEF jwt, tickets
<1>2. /\ row' \in [Users -> Rows] /\ row'[u] = x
      /\ \A v \in Users : v # u => row'[v] = row[v]
  BY DEF IInv, TypeOK
<1>3. TypeOK'
  BY <1>1, <1>2 DEF IInv, TypeOK
<1>4. Ended' /\ Due' /\ SignedFor' /\ Tickets'
  BY <1>1 DEF IInv, Ended, Out, Due, SignedFor, Tickets, Fresh
<1>5. Named'
  BY <1>1 DEF Named, JobNamed
<1>6. Acts'
  <2> SUFFICES ASSUME NEW q \in Requests PROVE JobActs(job[q])'
    BY DEF Acts
  <2> PICK k : k = job'[q]
    OBVIOUS
  <2>1. JobActs(k) /\ JobNamed(k)
    OBVIOUS
  <2>2. \A v \in Users :
          /\ row'[v].enabled = row[v].enabled /\ row'[v].password = row[v].password
          /\ row'[v].totp = row[v].totp /\ row'[v].role = row[v].role
          /\ row'[v].is = row[v].is /\ row'[v].email = row[v].email
          /\ row'[v].lock = "on" => row[v].lock = "on"
          /\ row[v] = NoRow => row'[v] = NoRow
    BY <1>2
  <2>3. k.pc \in {"success", "sign", "verify", "insert", "password"} => k.user \in Users
    BY <2>1 DEF JobNamed
  <2>4. JobActs(k)'
    <3>1. k.pc = "insert" /\ ~k.stale =>
            /\ row'[k.user] = NoRow \/ "name" \in k.missed
            /\ (\A v \in Users : ~HasEmail(v, k.email)') \/ "address" \in k.missed
      BY <2>1, <2>2, <2>3 DEF JobActs, HasEmail, There
    <3>2. k.pc = "password" /\ k.kind = "reset" /\ ~k.stale => HasEmail(k.user, k.email)'
      BY <2>1, <2>2, <2>3 DEF JobActs, HasEmail, There
    <3>3. k.pc \in {"success", "sign", "verify"} =>
            /\ row'[k.user].enabled = row[k.user].enabled
            /\ row'[k.user].password = row[k.user].password
            /\ row'[k.user].totp = row[k.user].totp /\ row'[k.user].role = row[k.user].role
            /\ There(k.user)' = There(k.user) /\ (Locked(k.user)' => Locked(k.user))
      BY <2>2, <2>3 DEF There, Locked
    <3> QED BY <2>1, <3>1, <3>2, <3>3 DEF JobActs
  <2> QED BY <2>4 DEF JobActs, There, Locked, HasEmail
<1> QED BY <1>3, <1>4, <1>5, <1>6 DEF IInv

\* The fields of a row.
LEMMA RowEdits ==
  ASSUME NEW x \in Rows
  PROVE  /\ x \in RowFields /\ (x.lock # "never" <=> x.failed >= MaxAttempts)
         /\ \A y \in RowFields : y.lock = x.lock /\ y.failed = x.failed => y \in Rows
BY RowMeans

LEMMA RowsTyped ==
  ASSUME IInv, NEW u \in Users
  PROVE  /\ row \in [Users -> Rows] /\ row[u] \in Rows /\ row[u] \in RowFields
         /\ There(u) => row[u] # NoRow
         /\ job \in [Requests -> Jobs] /\ pending \subseteq Users
         /\ \A q \in Requests : JobNamed(job[q]) /\ JobActs(job[q])
BY RowEdits, NoRowIs DEF IInv, TypeOK, Named, Acts, There

\* A failure counted: at the limit it locks, and requests are stale.
LEMMA CountFailureKeeps ==
  ASSUME IInv, NEW r \in Requests, CountFailure(r)
  PROVE  IInv'
<1> PICK u : u = job[r].user
  OBVIOUS
<1> DEFINE n == row[u].failed + 1
           x == [row[u] EXCEPT !.failed = n, !.lock = IF Locks(n) THEN "on" ELSE @]
<1>1. /\ u \in Users /\ UNCHANGED <<jwt, tickets, pending, restarts>>
  BY DEF CountFailure, IInv, Named, JobNamed
<1>2. /\ row \in [Users -> Rows] /\ row[u] \in Rows /\ row[u] \in RowFields
      /\ job \in [Requests -> Jobs]
      /\ There(u) => row[u] # NoRow
      /\ \A q \in Requests : JobNamed(job[q]) /\ JobActs(job[q])
      /\ pending \subseteq Users
  BY <1>1, RowsTyped
<1>3. CASE job' = End(r) /\ UNCHANGED row
  BY <1>1, <1>2, <1>3, IdleJob, IdleFits, ReadKeeps DEF End
<1>4. CASE /\ Write(u, x)
           /\ job' = IF Locks(n) THEN Touch(End(r), u) ELSE End(r)
  <2>1. row[u].failed \in Nat /\ n \in Nat /\ n >= 1 /\ MaxAttempts \in Nat
        /\ (row[u].lock # "never" <=> row[u].failed >= MaxAttempts)
    <3>1. row[u].failed \in Nat
      BY <1>2 DEF RowFields
    <3>2. row[u].lock # "never" <=> row[u].failed >= MaxAttempts
      BY <1>2, RowEdits
    <3> QED BY <3>1, <3>2, AttemptsMeans
  <2>2. /\ x.is = row[u].is /\ x.email = row[u].email /\ x.password = row[u].password
        /\ x.role = row[u].role /\ x.enabled = row[u].enabled /\ x.totp = row[u].totp
        /\ x.failed = n /\ x.lock = IF Locks(n) THEN "on" ELSE row[u].lock
    BY <1>2 DEF RowFields
  <2>3. x \in Rows
    <3>1. x \in RowFields
      BY <1>2, <2>1 DEF RowFields
    <3> HIDE DEF x
    <3>2. x.lock # "never" <=> x.failed >= MaxAttempts
      BY <2>1, <2>2 DEF Locks
    <3> QED BY <3>1, <3>2, RowMeans
  <2> HIDE DEF x
  <2>4. /\ End(r) \in [Requests -> Jobs] /\ \A q \in Requests : End(r)[q] = job[q] \/ End(r)[q] = Idle
        /\ \A q \in Requests : JobNamed(End(r)[q]) /\ JobActs(End(r)[q])
    <3>1. /\ End(r) \in [Requests -> Jobs]
          /\ \A q \in Requests : End(r)[q] = job[q] \/ End(r)[q] = Idle
      BY <1>2, IdleJob, OneJob DEF End
    <3> QED BY <1>2, <3>1, IdleFits
  <2>5. CASE Locks(n)
    <3>1. /\ row' \in [Users -> Rows] /\ \A v \in Users : v # u => row'[v] = row[v]
          /\ row'[u].is = row[u].is /\ row'[u].email = row[u].email
      BY <1>1, <1>2, <1>4, <2>2, <2>3 DEF Write
    <3>2. \A f : HasEmail(u, f)' => HasEmail(u, f)
      BY <3>1 DEF HasEmail, There
    <3>3. job' = Touch(End(r), u)
      BY <1>4, <2>5
    <3> QED BY <1>1, <2>4, <3>1, <3>2, <3>3, TouchKeeps
  <2>6. CASE ~Locks(n) /\ There(u)
    <3>1. job' = End(r) /\ row' = [row EXCEPT ![u] = x]
      BY <1>4, <2>6 DEF Write
    <3>2. x.lock = "on" => row[u].lock = "on"
      BY <2>2, <2>6
    <3>3. /\ job' \in [Requests -> Jobs]
          /\ \A q \in Requests : JobNamed(job'[q]) /\ JobActs(job'[q])
      BY <2>4, <3>1
    <3>4. row[u] # NoRow
      BY <1>2, <2>6
    <3> QED BY <1>1, <2>2, <2>3, <3>1, <3>2, <3>3, <3>4, RowSoftens
  <2>7. CASE ~Locks(n) /\ ~There(u)
    <3>1. job' = [job EXCEPT ![r] = Idle] /\ row' = row
      BY <1>4, <2>7 DEF Write, End
    <3> QED BY <1>1, <1>2, <3>1, IdleJob, IdleFits, ReadKeeps
  <2> QED BY <2>5, <2>6, <2>7
<1> QED BY <1>3, <1>4 DEF CountFailure

LEMMA ResetFailuresKeeps ==
  ASSUME IInv, NEW r \in Requests, ResetFailures(r)
  PROVE  IInv'
<1> PICK u : u = job[r].user
  OBVIOUS
<1> DEFINE x == [row[u] EXCEPT !.failed = 0, !.lock = "never"]
           pc == IF job[r].kind = "login" /\ job[r].totp THEN "session" ELSE "sign"
           j == [job[r] EXCEPT !.pc = pc]
<1>1. /\ u \in Users /\ UNCHANGED <<jwt, tickets, pending, restarts>>
      /\ job[r].pc = "success"
  BY DEF ResetFailures, IInv, Named, JobNamed
<1>2. /\ row \in [Users -> Rows] /\ row[u] \in Rows /\ row[u] \in RowFields
      /\ job \in [Requests -> Jobs]
      /\ There(u) => row[u] # NoRow
      /\ \A q \in Requests : JobNamed(job[q]) /\ JobActs(job[q])
      /\ pending \subseteq Users /\ job[r] \in Jobs /\ JobNamed(job[r]) /\ JobActs(job[r])
  BY <1>1, RowsTyped
<1>3. pc \in Steps /\ pc \in {"session", "sign"}
      /\ (pc = "sign" => ~(job[r].kind = "login" /\ job[r].totp))
  BY DEF Steps
<1>4. job' = [job EXCEPT ![r] = j]
  BY <1>2 DEF ResetFailures, Step
<1> HIDE DEF pc
<1>5. /\ j \in Jobs /\ j.pc = pc /\ j.kind = job[r].kind /\ j.user = u
      /\ j.email = job[r].email /\ j.password = job[r].password /\ j.role = job[r].role
      /\ j.totp = job[r].totp /\ j.stale = job[r].stale
  <2>1. job[r] \in Jobs /\ pc \in Steps
    BY <1>2, <1>3
  <2> QED BY <2>1, JobEdits
<1> HIDE DEF j
<1>6. JobNamed(j)
  BY <1>1, <1>3, <1>5 DEF JobNamed
<1>7. JobActs(j)
  <2>1. job[r].totp \in BOOLEAN
    BY <1>2 DEF Jobs
  <2> QED BY <1>1, <1>2, <1>3, <1>5, <2>1 DEF JobActs
<1>8. CASE row' = row
  BY <1>1, <1>2, <1>4, <1>5, <1>6, <1>7, <1>8, ReadKeeps
<1>9. CASE There(u) /\ row' = [row EXCEPT ![u] = x]
  <2>1. /\ x.is = row[u].is /\ x.email = row[u].email /\ x.password = row[u].password
        /\ x.role = row[u].role /\ x.enabled = row[u].enabled /\ x.totp = row[u].totp
        /\ x.failed = 0 /\ x.lock = "never" /\ x \in RowFields
    BY <1>2 DEF RowFields
  <2> HIDE DEF x
  <2>2. x.lock # "never" <=> x.failed >= MaxAttempts
    BY <2>1, AttemptsMeans
  <2>3. x \in Rows
    BY <2>1, <2>2, RowMeans
  <2>4. job' \in [Requests -> Jobs] /\ \A q \in Requests : JobNamed(job'[q]) /\ JobActs(job'[q])
    <3>1. /\ job' \in [Requests -> Jobs]
          /\ \A q \in Requests : job'[q] = job[q] \/ job'[q] = j
      BY <1>2, <1>4, <1>5, OneJob
    <3> QED BY <1>2, <1>6, <1>7, <3>1
  <2>5. row[u] # NoRow /\ (x.lock = "on" => row[u].lock = "on")
    BY <1>2, <1>9, <2>1
  <2> QED BY <1>1, <1>9, <2>1, <2>3, <2>4, <2>5, RowSoftens
<1>10. row' = row \/ (There(u) /\ row' = [row EXCEPT ![u] = x])
  BY DEF ResetFailures, Write
<1> QED BY <1>8, <1>9, <1>10

LEMMA LockExpiresKeeps ==
  ASSUME IInv, NEW u \in Users, LockExpires(u)
  PROVE  IInv'
<1> DEFINE x == [row[u] EXCEPT !.lock = "over"]
<1>1. /\ row' = [row EXCEPT ![u] = x] /\ row[u].lock = "on"
      /\ UNCHANGED <<jwt, tickets, pending, job, restarts>>
  BY RowsTyped DEF LockExpires, Locked
<1>2. /\ x.is = row[u].is /\ x.email = row[u].email /\ x.password = row[u].password
      /\ x.role = row[u].role /\ x.enabled = row[u].enabled /\ x.totp = row[u].totp
      /\ x.failed = row[u].failed /\ x.lock = "over" /\ x \in RowFields
  BY RowsTyped DEF RowFields
<1> HIDE DEF x
<1>3. x.lock # "never" <=> x.failed >= MaxAttempts
  BY <1>1, <1>2, RowsTyped, RowEdits
<1>4. x \in Rows
  BY <1>2, <1>3, RowMeans
<1>5. row[u] # NoRow
  BY <1>1, NoRowIs
<1> QED BY <1>1, <1>2, <1>4, <1>5, RowsTyped, RowSoftens

\* A row with one field changed, of an account that is there.
LEMMA FieldChanged ==
  ASSUME NEW x \in Rows
  PROVE  /\ \A e \in Emails : LET y == [x EXCEPT !.email = e]
              IN  y \in Rows /\ y.is = x.is /\ y.email = e
         /\ \A p \in Passwords : LET y == [x EXCEPT !.password = p]
              IN  y \in Rows /\ y.is = x.is /\ y.email = x.email
         /\ \A role \in {"admin", "user"} : LET y == [x EXCEPT !.role = role]
              IN  y \in Rows /\ y.is = x.is /\ y.email = x.email
<1>1. /\ x \in RowFields
      /\ \A y \in RowFields : y.lock = x.lock /\ y.failed = x.failed => y \in Rows
  BY RowEdits
<1>2. ASSUME NEW e \in Emails
      PROVE  LET y == [x EXCEPT !.email = e] IN y \in Rows /\ y.is = x.is /\ y.email = e
  <2> DEFINE y == [x EXCEPT !.email = e]
  <2>1. y \in RowFields /\ y.is = x.is /\ y.email = e /\ y.lock = x.lock /\ y.failed = x.failed
    BY <1>1 DEF RowFields
  <2> QED BY <1>1, <2>1
<1>3. ASSUME NEW p \in Passwords
      PROVE  LET y == [x EXCEPT !.password = p] IN y \in Rows /\ y.is = x.is /\ y.email = x.email
  <2> DEFINE y == [x EXCEPT !.password = p]
  <2>1. /\ y \in RowFields /\ y.is = x.is /\ y.email = x.email /\ y.lock = x.lock
        /\ y.failed = x.failed
    BY <1>1 DEF RowFields
  <2> QED BY <1>1, <2>1
<1>4. ASSUME NEW role \in {"admin", "user"}
      PROVE  LET y == [x EXCEPT !.role = role] IN y \in Rows /\ y.is = x.is /\ y.email = x.email
  <2> DEFINE y == [x EXCEPT !.role = role]
  <2>1. /\ y \in RowFields /\ y.is = x.is /\ y.email = x.email /\ y.lock = x.lock
        /\ y.failed = x.failed
    BY <1>1 DEF RowFields
  <2> QED BY <1>1, <2>1
<1> QED BY <1>2, <1>3, <1>4

\* The switches of an account: enabled, and a second factor.
LEMMA SwitchChanged ==
  ASSUME NEW x \in Rows, NEW b \in BOOLEAN
  PROVE  /\ LET y == [x EXCEPT !.enabled = b]
            IN  y \in Rows /\ y.is = x.is /\ y.email = x.email
         /\ LET y == [x EXCEPT !.totp = b]
            IN  y \in Rows /\ y.is = x.is /\ y.email = x.email
<1>1. /\ x \in RowFields
      /\ \A y \in RowFields : y.lock = x.lock /\ y.failed = x.failed => y \in Rows
  BY RowEdits
<1> DEFINE y == [x EXCEPT !.enabled = b]
           z == [x EXCEPT !.totp = b]
<1>2. /\ y \in RowFields /\ y.is = x.is /\ y.email = x.email /\ y.lock = x.lock
      /\ y.failed = x.failed
  BY <1>1 DEF RowFields
<1>3. /\ z \in RowFields /\ z.is = x.is /\ z.email = x.email /\ z.lock = x.lock
      /\ z.failed = x.failed
  BY <1>1 DEF RowFields
<1> QED BY <1>1, <1>2, <1>3

\* A new row is put in place, and what was read of the account is stale.
LEMMA WriteKeeps ==
  ASSUME IInv, NEW u \in Users, NEW x \in Rows,
         row' = IF There(u) THEN [row EXCEPT ![u] = x] ELSE row,
         x.is \in {row[u].is, "gone"}, x.email = row[u].email \/ x.is = "gone",
         NEW jobs \in [Requests -> Jobs],
         \A q \in Requests : jobs[q] = job[q] \/ jobs[q] = Idle \/ jobs[q].user = u,
         \A q \in Requests : JobNamed(jobs[q]),
         job' = Touch(jobs, u), UNCHANGED <<jwt, tickets, pending, restarts>>
  PROVE  IInv'
<1>1. /\ row' \in [Users -> Rows] /\ \A v \in Users : v # u => row'[v] = row[v]
      /\ row'[u] \in {row[u], x}
  BY DEF IInv, TypeOK
<1>2. \A f : HasEmail(u, f)' => HasEmail(u, f)
  BY <1>1 DEF HasEmail, There
<1> QED BY <1>1, <1>2, TouchKeeps

\* A row takes the place of another, with an address that is taken from now on.
LEMMA PlaceKeeps ==
  ASSUME IInv, NEW u \in Users, NEW e, NEW x \in Rows, x.email = e,
         row' = [row EXCEPT ![u] = x], NEW jobs \in [Requests -> Jobs],
         \A q \in Requests : jobs[q] = job[q] \/ jobs[q] = Idle \/ jobs[q].user = u,
         \A q \in Requests : JobNamed(jobs[q]),
         job' = Take(jobs, u, e), UNCHANGED <<jwt, tickets, pending, restarts>>
  PROVE  IInv'
<1>1. /\ row' \in [Users -> Rows] /\ \A v \in Users : v # u => row'[v] = row[v]
      /\ row'[u].email = e
  BY RowsTyped
<1>2. \A f : HasEmail(u, f)' => HasEmail(u, f) \/ f = e
  BY <1>1 DEF HasEmail, There
<1> QED BY <1>1, <1>2, TakeKeeps

\* What a request may leave behind: itself at another step, or nothing.
LEMMA StepOf ==
  ASSUME IInv, NEW r \in Requests, NEW pc \in {"revokeall", "clear", "sign"},
         job[r].user \in Users
  PROVE  /\ Step(r, pc) \in [Requests -> Jobs]
         /\ \A q \in Requests : Step(r, pc)[q] = job[q] \/ Step(r, pc)[q].user = job[r].user
         /\ \A q \in Requests : JobNamed(Step(r, pc)[q])
<1> DEFINE j == [job[r] EXCEPT !.pc = pc]
<1>1. /\ pc \in Steps /\ job[r] \in Jobs /\ job \in [Requests -> Jobs]
      /\ \A q \in Requests : JobNamed(job[q])
  BY DEF Steps, IInv, TypeOK, Named
<1>2. j \in Jobs /\ j.pc = pc /\ j.user = job[r].user
  BY <1>1, JobEdits
<1>3. Step(r, pc) = [job EXCEPT ![r] = j]
  BY <1>1 DEF Step
<1> HIDE DEF j
<1>4. JobNamed(j)
  BY <1>2 DEF JobNamed
<1>5. /\ Step(r, pc) \in [Requests -> Jobs]
      /\ \A q \in Requests : Step(r, pc)[q] = job[q] \/ Step(r, pc)[q] = j
  BY <1>1, <1>2, <1>3, OneJob
<1> QED BY <1>1, <1>2, <1>4, <1>5

LEMMA EndOf ==
  ASSUME IInv, NEW r \in Requests
  PROVE  /\ End(r) \in [Requests -> Jobs]
         /\ \A q \in Requests : End(r)[q] = job[q] \/ End(r)[q] = Idle
         /\ \A q \in Requests : JobNamed(End(r)[q])
<1>1. job \in [Requests -> Jobs] /\ \A q \in Requests : JobNamed(job[q])
  BY RowsTyped
<1>2. /\ End(r) \in [Requests -> Jobs]
      /\ \A q \in Requests : End(r)[q] = job[q] \/ End(r)[q] = Idle
  BY <1>1, IdleJob, OneJob DEF End
<1> QED BY <1>1, <1>2, IdleFits

\* A request ends, and nothing else happens.
LEMMA EndKeeps ==
  ASSUME IInv, NEW r \in Requests, job' = End(r),
         UNCHANGED <<row, jwt, tickets, pending, restarts>>
  PROVE  IInv'
<1>1. pending \subseteq Users
  BY DEF IInv, TypeOK
<1> QED BY <1>1, IdleJob, IdleFits, ReadKeeps DEF End

LEMMA InsertUserKeeps ==
  ASSUME IInv, NEW r \in Requests, InsertUser(r)
  PROVE  IInv'
<1>1. /\ job[r].pc = "insert" /\ job[r] \in Jobs /\ JobNamed(job[r])
      /\ UNCHANGED <<jwt, tickets, pending, restarts>>
  BY DEF InsertUser, IInv, TypeOK, Named
<1>2. /\ job[r].user \in Users /\ job[r].email \in Emails
      /\ job[r].password \in Passwords
  BY <1>1 DEF JobNamed
<1>3. job[r].role \in {"admin", "user", ""}
  BY <1>1 DEF Jobs
<1>4. ASSUME NEW jobs \in {Step(r, "sign"), End(r)},
             row' = [row EXCEPT ![job[r].user] =
                       NewRow(job[r].email, job[r].password, job[r].role)],
             job' = Take(jobs, job[r].user, job[r].email)
      PROVE  IInv'
  <2>1. /\ jobs \in [Requests -> Jobs]
        /\ \A q \in Requests : jobs[q] = job[q] \/ jobs[q] = Idle \/ jobs[q].user = job[r].user
        /\ \A q \in Requests : JobNamed(jobs[q])
    BY <1>2, StepOf, EndOf
  <2> DEFINE x == NewRow(job[r].email, job[r].password, job[r].role)
  <2>2. x \in Rows /\ x.email = job[r].email
    BY <1>2, <1>3, NewRowIs
  <2>3. row' = [row EXCEPT ![job[r].user] = x]
    BY <1>4
  <2> HIDE DEF x
  <2> QED BY <1>1, <1>2, <1>4, <2>1, <2>2, <2>3, PlaceKeeps
<1>5. CASE job' = End(r) /\ UNCHANGED row
  BY <1>1, <1>5, EndKeeps
<1> QED BY <1>4, <1>5 DEF InsertUser

LEMMA ProfileKeeps ==
  ASSUME IInv, NEW u \in Users, NEW e \in Emails,
         \/ UpdateProfile(u, e)
         \/ \E r \in Requests, p \in Passwords : UpdateUser(r, u, e, p)
  PROVE  IInv'
<1>1. /\ UNCHANGED <<jwt, tickets, pending, restarts>>
      /\ row' = [row EXCEPT ![u].email = e]
  BY DEF UpdateProfile, UpdateUser
<1>2. /\ row \in [Users -> Rows] /\ row[u] \in Rows /\ job \in [Requests -> Jobs]
      /\ \A q \in Requests : JobNamed(job[q])
  BY RowsTyped
<1>3. /\ row' \in [Users -> Rows] /\ \A v \in Users : v # u => row'[v] = row[v]
      /\ row'[u].email = e
  <2> DEFINE y == [row[u] EXCEPT !.email = e]
  <2>1. y \in Rows /\ y.email = e
    BY <1>2, FieldChanged
  <2>2. row' = [row EXCEPT ![u] = y]
    BY <1>1, <1>2
  <2> HIDE DEF y
  <2> QED BY <1>2, <2>1, <2>2
<1>4. \A f : HasEmail(u, f)' => HasEmail(u, f) \/ f = e
  BY <1>3 DEF HasEmail, There
<1>5. CASE UpdateProfile(u, e)
  <2>1. job' = Take(job, u, e)
    BY <1>5 DEF UpdateProfile
  <2> QED BY <1>1, <1>2, <1>3, <1>4, <2>1, TakeKeeps
<1>6. ASSUME NEW r \in Requests, NEW p \in Passwords, UpdateUser(r, u, e, p) PROVE IInv'
  <2> DEFINE j == [Idle EXCEPT !.kind = "update", !.user = u, !.password = p, !.pc = "password"]
             jobs == [job EXCEPT ![r] = j]
  <2>1. j \in Jobs /\ j.kind = "update" /\ j.user = u /\ j.password = p /\ j.pc = "password"
    BY DEF Idle, Jobs, Kinds, Steps
  <2>2. job' = Take(jobs, u, e)
    BY <1>6 DEF UpdateUser
  <2> HIDE DEF j
  <2>3. JobNamed(j)
    BY <2>1 DEF JobNamed
  <2>4. /\ jobs \in [Requests -> Jobs] /\ \A q \in Requests : jobs[q] = job[q] \/ jobs[q] = j
    BY <1>2, <2>1, OneJob
  <2> HIDE DEF jobs
  <2> QED BY <1>1, <1>2, <1>3, <1>4, <2>1, <2>2, <2>3, <2>4, TakeKeeps
<1> QED BY <1>5, <1>6

LEMMA AdministrationKeeps ==
  ASSUME IInv, NEW u \in Users,
         \/ \E role \in {"admin", "user"} : UpdateUserRole(u, role)
         \/ \E enabled \in BOOLEAN : UpdateUserEnabled(u, enabled)
         \/ DeleteUser(u)
  PROVE  IInv'
<1>1. /\ UNCHANGED <<jwt, tickets, pending, restarts>> /\ There(u) /\ job' = Touch(job, u)
  BY DEF UpdateUserRole, UpdateUserEnabled, DeleteUser
<1>2. /\ row \in [Users -> Rows] /\ row[u] \in Rows /\ job \in [Requests -> Jobs]
      /\ \A q \in Requests : JobNamed(job[q])
  BY RowsTyped
<1>3. PICK x \in Rows : /\ row' = [row EXCEPT ![u] = x]
                        /\ x.is \in {row[u].is, "gone"}
                        /\ x.email = row[u].email \/ x.is = "gone"
  <2>1. ASSUME NEW role \in {"admin", "user"}, UpdateUserRole(u, role)
        PROVE  \E x \in Rows : /\ row' = [row EXCEPT ![u] = x]
                               /\ x.is \in {row[u].is, "gone"}
                               /\ x.email = row[u].email \/ x.is = "gone"
    <3> DEFINE x == [row[u] EXCEPT !.role = role]
    <3>1. x \in Rows /\ x.is = row[u].is /\ x.email = row[u].email
      BY <1>2, FieldChanged
    <3>2. row' = [row EXCEPT ![u] = x]
      BY <1>2, <2>1 DEF UpdateUserRole
    <3> QED BY <3>1, <3>2
  <2>2. ASSUME NEW enabled \in BOOLEAN, UpdateUserEnabled(u, enabled)
        PROVE  \E x \in Rows : /\ row' = [row EXCEPT ![u] = x]
                               /\ x.is \in {row[u].is, "gone"}
                               /\ x.email = row[u].email \/ x.is = "gone"
    <3> DEFINE x == [row[u] EXCEPT !.enabled = enabled]
    <3>1. x \in Rows /\ x.is = row[u].is /\ x.email = row[u].email
      BY <1>2, SwitchChanged
    <3>2. row' = [row EXCEPT ![u] = x]
      BY <1>2, <2>2 DEF UpdateUserEnabled
    <3> QED BY <3>1, <3>2
  <2>3. CASE DeleteUser(u)
    <3> DEFINE x == [NoRow EXCEPT !.is = "gone"]
    <3>1. x \in RowFields /\ x.is = "gone" /\ x.lock = "never" /\ x.failed = 0
      BY DEF NoRow, RowFields
    <3>2. row' = [row EXCEPT ![u] = x]
      BY <2>3 DEF DeleteUser
    <3> HIDE DEF x
    <3>3. x.lock # "never" <=> x.failed >= MaxAttempts
      BY <3>1, AttemptsMeans
    <3> QED BY <3>1, <3>2, <3>3, RowMeans
  <2> QED BY <2>1, <2>2, <2>3
<1> QED BY <1>1, <1>2, <1>3, WriteKeeps

\* The writes of a password and of a second factor, of an account that may be gone.
LEMMA WritesKeep ==
  ASSUME IInv, NEW r \in Requests, UpdatePassword(r) \/ WriteTOTP(r)
  PROVE  IInv'
<1> PICK u : u = job[r].user
  OBVIOUS
<1>1. /\ job[r] \in Jobs /\ JobNamed(job[r]) /\ job \in [Requests -> Jobs]
      /\ \A q \in Requests : JobNamed(job[q])
      /\ UNCHANGED <<jwt, tickets, pending, restarts>> /\ pending \subseteq Users
      /\ row \in [Users -> Rows] /\ job[r].pc \in {"password", "bind", "unbind"}
  BY DEF UpdatePassword, WriteTOTP, IInv, TypeOK, Named
<1>2. u \in Users
  BY <1>1 DEF JobNamed
<1>3. CASE job' = End(r) /\ UNCHANGED row
  BY <1>1, <1>3, EndKeeps
<1>6. ASSUME NEW x \in Rows, x.is = row[u].is, x.email = row[u].email, Write(u, x),
             NEW jobs, job' = Touch(jobs, u), jobs \in {End(r), Step(r, "revokeall"), Step(r, "clear")}
      PROVE  IInv'
  <2>1. /\ jobs \in [Requests -> Jobs]
        /\ \A q \in Requests : jobs[q] = job[q] \/ jobs[q] = Idle \/ jobs[q].user = u
        /\ \A q \in Requests : JobNamed(jobs[q])
    BY <1>2, <1>6, StepOf, EndOf
  <2>2. row' = IF There(u) THEN [row EXCEPT ![u] = x] ELSE row
    BY <1>6 DEF Write
  <2> QED BY <1>1, <1>2, <1>6, <2>1, <2>2, WriteKeeps
<1>7. CASE /\ job[r].pc = "password" /\ Write(u, [row[u] EXCEPT !.password = job[r].password])
           /\ job' = Touch(IF job[r].kind = "reset" THEN Step(r, "revokeall") ELSE End(r), u)
  <2> DEFINE x == [row[u] EXCEPT !.password = job[r].password]
  <2>1. job[r].password \in Passwords /\ row[u] \in Rows
    BY <1>1, <1>2, <1>7 DEF JobNamed
  <2>2. x \in Rows /\ x.is = row[u].is /\ x.email = row[u].email
    BY <2>1, FieldChanged
  <2> HIDE DEF x
  <2>3. Write(u, x)
    BY <1>7 DEF x
  <2> QED BY <1>6, <1>7, <2>2, <2>3
<1>8. CASE /\ job[r].pc \in {"bind", "unbind"}
           /\ Write(u, [row[u] EXCEPT !.totp = (job[r].pc = "bind")])
           /\ job' = Touch(IF job[r].pc = "bind" THEN Step(r, "clear") ELSE End(r), u)
  <2> DEFINE b == job[r].pc = "bind"
             x == [row[u] EXCEPT !.totp = b]
  <2>1. b \in BOOLEAN /\ row[u] \in Rows
    BY <1>1, <1>2
  <2>2. x \in Rows /\ x.is = row[u].is /\ x.email = row[u].email
    <3> HIDE DEF b
    <3> QED BY <2>1, SwitchChanged
  <2>3. Write(u, x)
    BY <1>8
  <2> HIDE DEF x
  <2> QED BY <1>6, <1>8, <2>2, <2>3
<1> QED BY <1>3, <1>7, <1>8 DEF UpdatePassword, WriteTOTP

LEMMA RestartKeeps ==
  ASSUME IInv, Restart
  PROVE  IInv'
<1>1. /\ row' = row /\ uses' = uses /\ given' = given
      /\ restarts < MaxRestarts /\ restarts' = restarts + 1
      /\ blacklist' = {} /\ ended' = {} /\ pending' = {}
      /\ barred' = [u \in Users |-> "no"]
      /\ session' = [s \in Sessions |-> NoUser]
      /\ code' = [e \in Emails |-> NoCode]
      /\ job' = [r \in Requests |-> Idle]
      /\ token' = [t \in Tokens |-> [token[t] EXCEPT !.covered = FALSE]]
  BY DEF Restart
<1>2. /\ token \in [Tokens -> Claims] /\ restarts \in 0 .. MaxRestarts
      /\ row \in [Users -> Rows] /\ uses \in [Sessions \cup Codes -> Nat]
      /\ given \subseteq Sessions \cup Codes /\ SignedFor /\ Tickets
  BY DEF IInv, TypeOK
<1>3. /\ token' \in [Tokens -> Claims]
      /\ \A t \in Tokens : token'[t].is = token[t].is /\ token'[t].user = token[t].user
  BY <1>1, <1>2, TokenParts, ZenonT(40) DEF Claims
<1>4. restarts' \in 0 .. MaxRestarts
  BY <1>1, <1>2, AttemptsAssumption
<1>5. TypeOK'
  BY <1>1, <1>2, <1>3, <1>4, IdleJob DEF TypeOK
<1>6. Named' /\ Acts'
  BY <1>1, IdleJob DEF Named, Acts, JobNamed, JobActs
<1>7. Ended' /\ Due'
  BY <1>1 DEF Ended, Due
<1>8. SignedFor'
  BY <1>2, <1>3 DEF SignedFor
<1>9. Tickets'
  BY <1>1, <1>2 DEF Tickets, Fresh
<1> QED BY <1>5, <1>6, <1>7, <1>8, <1>9 DEF IInv

LEMMA StutterKeeps ==
  ASSUME IInv, UNCHANGED vars
  PROVE  IInv'
<1>1. /\ UNCHANGED <<row, token, blacklist, barred, session, code, pending, job>>
      /\ UNCHANGED <<uses, given, ended, restarts>>
  BY DEF vars
<1>2. TypeOK'
  BY <1>1 DEF IInv, TypeOK
<1>3. Named' /\ Ended' /\ Due' /\ SignedFor'
  BY <1>1 DEF IInv, Named, JobNamed, Ended, Out, Due, SignedFor
<1>4. Tickets'
  BY <1>1 DEF IInv, Tickets, Fresh
<1>5. Acts'
  BY <1>1 DEF IInv, Acts, JobActs, There, Locked, HasEmail
<1> QED BY <1>2, <1>3, <1>4, <1>5 DEF IInv

LEMMA InitInv ==
  ASSUME Init
  PROVE  IInv
<1>1. PICK e \in Emails, p \in Passwords :
        row = [u \in Users |-> IF u = Admin THEN NewRow(e, p, "admin") ELSE NoRow]
  BY DEF Init
<1>2. row \in [Users -> Rows]
  BY <1>1, NewRowIs, NoRowIs
<1>3. /\ token = [t \in Tokens |-> NoClaims] /\ blacklist = {} /\ ended = {} /\ given = {}
      /\ barred = [u \in Users |-> "no"] /\ session = [s \in Sessions |-> NoUser]
      /\ code = [c \in Emails |-> NoCode] /\ pending = {}
      /\ job = [r \in Requests |-> Idle] /\ uses = [k \in Sessions \cup Codes |-> 0]
      /\ restarts = 0
  BY DEF Init
<1>4. restarts \in 0 .. MaxRestarts
  BY <1>3, AttemptsAssumption
<1>5. TypeOK
  BY <1>2, <1>3, <1>4, NoClaimsIs, IdleJob DEF TypeOK
<1>6. Named /\ Acts
  BY <1>3, IdleFits DEF Named, Acts
<1>7. Ended /\ Due /\ SignedFor
  BY <1>3, NoClaimsIs DEF Ended, Due, SignedFor
<1>8. Tickets
  BY <1>3 DEF Tickets
<1> QED BY <1>5, <1>6, <1>7, <1>8 DEF IInv

-----------------------------------------------------------------------------
(* The theorems.                                                            *)

LEMMA RequestsKeep ==
  ASSUME IInv, NEW r \in Requests, LoginStep(r) \/ TokenStep(r) \/ AccountStep(r)
  PROVE  IInv'
<1>1. CASE LoginStep(r)
  BY <1>1, LoginKeeps, CountFailureKeeps, ResetFailuresKeeps, FactorKeeps,
     CreateSessionKeeps, TOTPVerifyKeeps, SignKeeps DEF LoginStep
<1>2. CASE TokenStep(r)
  BY <1>2, TokenBeginsKeep, RevokeKeeps, RevokeAllKeeps, WritesKeep, DeletePendingKeeps
     DEF TokenStep
<1>3. CASE AccountStep(r)
  <2>1. ASSUME NEW u \in Users, NEW e \in Emails, NEW p \in Passwords,
               \/ Register(r, u, e, p)
               \/ \E role \in {"admin", "user"} : CreateUser(r, u, e, p, role)
        PROVE  IInv'
    BY <2>1, CheckNewKeeps DEF Register, CreateUser
  <2>2. ASSUME NEW u \in Users, NEW e \in Emails, NEW p \in Passwords, UpdateUser(r, u, e, p)
        PROVE  IInv'
    BY <2>2, ProfileKeeps
  <2>3. ASSUME NEW t \in Tokens, NEW p \in Passwords, ChangePassword(r, t, p)
        PROVE  IInv'
    BY <2>3, TokenBeginsKeep
  <2> QED BY <1>3, <2>1, <2>2, <2>3, ResetKeeps, InsertUserKeeps, LookupKeeps, WritesKeep
          DEF AccountStep
<1> QED BY <1>1, <1>2, <1>3

LEMMA OthersKeep ==
  ASSUME IInv, Administration \/ Time
  PROVE  IInv'
<1>1. CASE Administration
  BY <1>1, ProfileKeeps, AdministrationKeeps DEF Administration
<1>2. CASE Time
  BY <1>2, LockExpiresKeeps, TimesKeep, StoresKeep DEF Time
<1> QED BY <1>1, <1>2

\* The invariant holds in every state the accounts reach, of requests,
\* administrators, clocks and restarts in any order.
THEOREM Invariant == Spec => []IInv
<1>1. Init => IInv
  BY InitInv
<1>2. IInv /\ [Next]_vars => IInv'
  <2> SUFFICES ASSUME IInv, [Next]_vars
               PROVE  IInv'
    OBVIOUS
  <2>1. CASE \E r \in Requests : LoginStep(r) \/ TokenStep(r) \/ AccountStep(r)
    BY <2>1, RequestsKeep
  <2>2. CASE \E e \in Emails, k \in Codes : ForgotPassword(e, k)
    BY <2>2, ForgotKeeps
  <2>3. CASE \E t \in Tokens : GenerateLoginTOTP(t)
    BY <2>3, StoresKeep
  <2>4. CASE Administration \/ Time
    BY <2>4, OthersKeep
  <2>5. CASE Restart
    BY <2>5, RestartKeeps
  <2>6. CASE UNCHANGED vars
    BY <2>6, StutterKeeps
  <2> QED BY <2>1, <2>2, <2>3, <2>4, <2>5, <2>6 DEF Next
<1> QED BY <1>1, <1>2, PTL DEF Spec

\* Every variable has its type, and an account has been locked exactly when it
\* counts MaxAttempts failures, whatever logins count and reset at a time
\* (IncrementFailedAttempts, ResetFailedAttempts).
THEOREM TypeCorrect == Spec => []TypeOK
<1>1. IInv => TypeOK
  BY DEF IInv
<1> QED BY <1>1, Invariant, PTL

\* A token that was logged out, rotated or reset is not accepted again before the
\* server starts again, and a session or a reset code is accepted once, of any
\* number of requests (Verify, cleanupBlacklist, sessionStore.consume,
\* resetCodeStore.verify).
THEOREM UsedUpCorrect == Spec => []UsedUp
<1>1. IInv => UsedUp
  <2> SUFFICES ASSUME IInv
               PROVE  UsedUp
    OBVIOUS
  <2>1. ASSUME NEW t \in ended
        PROVE  ~Accepted(t)
    BY <2>1 DEF IInv, Ended, Out, Accepted
  <2>2. UsedOnce
    BY DEF IInv, Tickets, UsedOnce
  <2> QED BY <2>1, <2>2 DEF UsedUp, EndedStaysEnded
<1> QED BY <1>1, Invariant, PTL

\* What a login signs, a registration inserts and a reset writes is what the row
\* says still, unless the row has changed since it was read, or the lookup of a
\* registration failed (handleLogin, handleTOTPVerify, handleRegister,
\* handleResetPassword).
THEOREM ActsOnWhatItReadCorrect == Spec => []ActsOnWhatItRead
<1>1. IInv => ActsOnWhatItRead
  <2> SUFFICES ASSUME IInv, NEW r \in Requests, ~job[r].stale
               PROVE  LET j == job[r]
                          u == row[j.user]
                      IN  /\ j.pc = "sign" /\ j.kind = "login" =>
                               /\ u.enabled /\ ~u.totp
                               /\ u.password = j.password
                          /\ j.pc = "sign" /\ j.kind = "totp" => u.totp
                          /\ j.pc = "sign" /\ j.kind \in {"login", "totp"} =>
                               /\ There(j.user) /\ ~Locked(j.user)
                               /\ j.role = u.role
                          /\ j.pc = "insert" =>
                               /\ u = NoRow \/ "name" \in j.missed
                               /\ (\A v \in Users : ~HasEmail(v, j.email))
                                    \/ "address" \in j.missed
                          /\ j.pc = "password" /\ j.kind = "reset" => HasEmail(j.user, j.email)
    BY DEF ActsOnWhatItRead
  <2>1. JobActs(job[r])
    BY DEF IInv, Acts
  <2> QED BY <2>1 DEF JobActs
<1> QED BY <1>1, Invariant, PTL
=============================================================================
