----------------------------- MODULE Verification -----------------------------
(***************************************************************************)
(* What a user claims to be and what a user claims to control                *)
(* (servers/internal/verification/service.go, api/handler_verification.go,   *)
(* the extension templates of issuance/template.go): subject infos that an    *)
(* administrator reviews, and extension infos -- domains, mailboxes,          *)
(* addresses -- that are proved by a DNS record, a file on a web server or a   *)
(* code sent by mail.                                                         *)
(*                                                                         *)
(* No lock and no transaction: a request reads, asks the network, and writes; *)
(* other requests run in between.  The mail of a code is sent by a goroutine  *)
(* that nobody waits for.  world is what the holder of a value shows there.   *)
(***************************************************************************)
EXTENDS Naturals, FiniteSets

CONSTANTS
    Claimants, Admins,
    Values,         \* domain names, mail addresses, IP addresses
    Infos,          \* the UUIDs of extension infos
    Subjects,       \* the UUIDs of subject infos
    Templates,      \* the UUIDs of extension templates
    Checks,         \* requests in progress
    Limit,          \* max_dns, max_email, max_ip of a template; 0 is no limit
    ExpiresDays,    \* verify_expires_days, as the administrator asked
    Controls,       \* the user whose domain, mailbox or host a value is
    Nobody, NoTemplate, NoInfo, NoClaim

Types == {"domain", "email", "ip"}
Methods == {"txt", "http", "email"}

Claims == [user : Claimants, type : Types, value : Values, method : Methods,
           template : Templates \cup {NoTemplate}]

ASSUME LimitAssumption == Limit \in [Templates \X Types -> Nat]
ASSUME DaysAssumption == ExpiresDays \in [Templates -> Nat]
ASSUME ControlAssumption == Controls \in [Values -> Claimants]
ASSUME ChecksAssumption == IsFiniteSet(Checks)
ASSUME InfosNullAssumption ==
    Nobody \notin Claimants \cup Admins /\ NoTemplate \notin Templates
    /\ NoInfo \notin Infos /\ NoClaim \notin Claims

VARIABLES
    subject,    \* subject_infos
    info,       \* extension_infos
    template,   \* extension_templates
    world,      \* the tokens shown in DNS and on web servers, with the value
    mails,      \* the codes a goroutine is about to mail
    work,       \* requests in progress
    shown,      \* history: what world has held, and the codes that arrived
    excused     \* history: the keys of limits that two requests counted towards at
                \* once, and the infos for which a read failed and was passed over

infoVars == <<subject, info, template, world, mails, work, shown, excused>>

\* The row of an info: what is claimed, and how long the proof of it lasts.
InfoRows == [is : {"none", "pending", "verified", "deleted"},
             claim : Claims \cup {NoClaim}, days : Nat]

Started(i) == \E r \in Checks : work[r].pc \in {"count", "insert"} /\ work[r].info = i
InfoThere(i) == info[i].is \in {"pending", "verified"}

\* A proof of the info i: the place, the value it is found at, the token's info.
Proofs == {"dns", "web", "mail"} \X Values \X Infos
Proof(place, i) == <<place, info[i].claim.value, i>>

NoInfoRow == [is |-> "none", claim |-> NoClaim, days |-> 0]
Job(pc, i, claim, place) ==
    [pc |-> pc, info |-> i, claim |-> claim, place |-> place, days |-> 0]
NoWork == Job("idle", NoInfo, NoClaim, "")
Works == [pc : {"idle", "count", "insert", "look", "mark", "write"},
         info : Infos \cup {NoInfo}, claim : Claims \cup {NoClaim},
         place : {"", "dns", "web"}, days : Nat]

InfosInit ==
    /\ subject = [s \in Subjects |-> [is |-> "none", user |-> Nobody, by |-> Nobody]]
    /\ info = [i \in Infos |-> NoInfoRow]
    /\ template = [t \in Templates |-> "none"]
    /\ world = {} /\ mails = {} /\ shown = {} /\ excused = {}
    /\ work = [r \in Checks |-> NoWork]

----------------------------------------------------------------------------
\* Subject infos

SubmitSubject(u, s) ==
    /\ subject[s].is = "none"
    /\ subject' = [subject EXCEPT ![s] = [is |-> "pending", user |-> u, by |-> Nobody]]
    /\ UNCHANGED <<info, template, world, mails, work, shown, excused>>

\* One statement, with the status in its condition; a review that comes second
\* changes nothing and is answered like the first.
ReviewSubject(a, s, verdict) ==
    /\ subject[s].is = "pending"
    /\ subject' = [subject EXCEPT ![s].is = verdict, ![s].by = a]
    /\ UNCHANGED <<info, template, world, mails, work, shown, excused>>

DeleteSubject(u, s) ==
    /\ subject[s].is \notin {"none", "deleted"}
    /\ subject[s].user = u \/ u \in Admins
    /\ subject' = [subject EXCEPT ![s].is = "deleted"]
    /\ UNCHANGED <<info, template, world, mails, work, shown, excused>>

----------------------------------------------------------------------------
\* Extension templates: made and deleted, never changed

CreateTemplate(t) ==
    /\ template[t] = "none"
    /\ template' = [template EXCEPT ![t] = "there"]
    /\ UNCHANGED <<subject, info, world, mails, work, shown, excused>>

DeleteTemplate(t) ==
    /\ template[t] = "there"
    /\ template' = [template EXCEPT ![t] = "deleted"]
    /\ UNCHANGED <<subject, info, world, mails, work, shown, excused>>

DefaultDays == 90
TemplateDays(t) == IF ExpiresDays[t] = 0 THEN DefaultDays ELSE ExpiresDays[t]

----------------------------------------------------------------------------
\* A new extension info: the template is read, the rows are counted, a row is
\* inserted, the code is mailed.

\* The method is the client's for a domain alone.
MethodOf(type, asked) ==
    CASE type = "domain" -> asked [] type = "email" -> "email" [] type = "ip" -> "http"

\* A template that is not there limits nothing, and neither does one that
\* cannot be read.
Create(r, u, i, type, v, asked, t) ==
    /\ work[r] = NoWork
    /\ info[i].is = "none" /\ ~Started(i) /\ <<"limit", i>> \notin excused
    /\ t # NoTemplate => template[t] # "none"
    /\ LET limited == t # NoTemplate /\ template[t] = "there"
           claim == [user |-> u, type |-> type, value |-> v,
                     method |-> MethodOf(type, asked), template |-> t]
       IN  \E read \in BOOLEAN :
             /\ work' = [work EXCEPT ![r] =
                    Job(IF limited /\ read THEN "count" ELSE "insert", i, claim, "")]
             /\ excused' = IF limited /\ ~read THEN excused \cup {<<"limit", i>>} ELSE excused
    /\ UNCHANGED <<subject, info, template, world, mails, shown>>

Key(claim) == <<claim.user, claim.template, claim.type>>
RowsOf(key) == {i \in Infos : InfoThere(i) /\ Key(info[i].claim) = key}

\* Those that were held against the limit, and those that have been and are to
\* be inserted.
Counted(key) == {i \in RowsOf(key) : <<"limit", i>> \notin excused}
CountOf(key) == Cardinality(Counted(key))
Inserting(key) == {r \in Checks : /\ work[r].pc = "insert" /\ Key(work[r].claim) = key
                                  /\ <<"limit", work[r].info>> \notin excused}

AdmitsOneMore(claim) ==
    LET limit == Limit[<<claim.template, claim.type>>] IN limit > 0 => Cardinality(RowsOf(Key(claim))) <= limit

\* Verified or not, every row counts.
Admits(claim) ==
    LET limit == Limit[<<claim.template, claim.type>>] IN limit > 0 => Cardinality(RowsOf(Key(claim))) < limit

\* A count that fails is 0, which is below every limit.
CountRows(r) ==
    /\ work[r].pc = "count"
    /\ LET claim == work[r].claim
       IN  \/ /\ Admits(claim)
              /\ work' = [work EXCEPT ![r].pc = "insert"]
              /\ excused' = IF Inserting(Key(claim)) = {} THEN excused ELSE excused \cup {Key(claim)}
           \/ /\ ~Admits(claim)
              /\ work' = [work EXCEPT ![r] = NoWork]
              /\ UNCHANGED excused
           \/ /\ work' = [work EXCEPT ![r].pc = "insert"]
              /\ excused' = excused \cup {<<"limit", work[r].info>>}
    /\ UNCHANGED <<subject, info, template, world, mails, shown>>

ClashesVerified(claim) ==
    \E i \in Infos : /\ info[i].is = "verified"
                     /\ info[i].claim.user = claim.user
                     /\ info[i].claim.type = claim.type
                     /\ info[i].claim.value = claim.value

\* idx_extension_infos_value: one row for a user's value of a type.
Clashes(claim) ==
    \E i \in Infos : /\ InfoThere(i)
                     /\ info[i].claim.user = claim.user
                     /\ info[i].claim.type = claim.type
                     /\ info[i].claim.value = claim.value

InsertRow(r) ==
    /\ work[r].pc = "insert"
    /\ LET claim == work[r].claim  i == work[r].info
       IN  \/ /\ ~Clashes(claim)
              /\ info' = [info EXCEPT ![i] = [is |-> "pending", claim |-> claim, days |-> 0]]
              /\ mails' = IF claim.type = "email" THEN mails \cup {i} ELSE mails
           \/ Clashes(claim) /\ UNCHANGED <<info, mails>>
    /\ work' = [work EXCEPT ![r] = NoWork]
    /\ UNCHANGED <<subject, template, world, shown, excused>>

\* The goroutine: the mailer's error is dropped, and no code is sent again.
Mail(i) ==
    /\ i \in mails
    /\ mails' = mails \ {i}
    /\ \/ shown' = shown \cup {Proof("mail", i)}
       \/ UNCHANGED shown
    /\ UNCHANGED <<subject, info, template, world, work, excused>>

DeleteInfo(i) ==
    /\ InfoThere(i)
    /\ info' = [info EXCEPT ![i].is = "deleted"]
    /\ UNCHANGED <<subject, template, world, mails, work, shown, excused>>

----------------------------------------------------------------------------
\* A verification: the row is read, the proof is looked for, the template is
\* read for the days, the row is updated.

\* The holder of a value shows the tokens of their own infos there, or no
\* longer does.
Publish(place, v, i) ==
    /\ InfoThere(i) /\ info[i].claim.user = Controls[v]
    /\ world' = world \cup {<<place, v, i>>}
    /\ shown' = shown \cup {<<place, v, i>>}
    /\ UNCHANGED <<subject, info, template, mails, work, excused>>

Withdraw(proof) ==
    /\ proof \in world
    /\ world' = world \ {proof}
    /\ UNCHANGED <<subject, info, template, mails, work, shown, excused>>

\* handleVerifyHTTP takes every type of info, and answers at once for one that is
\* verified; VerifyDNSTXT verifies it again.
VerifyShown(r, i, place) ==
    /\ work[r] = NoWork
    /\ InfoThere(i)
    /\ place = "dns" => info[i].claim.type = "domain" /\ info[i].claim.method = "txt"
    /\ place = "web" => info[i].is # "verified"
    /\ work' = [work EXCEPT ![r] = Job("look", i, info[i].claim, place)]
    /\ UNCHANGED <<subject, info, template, world, mails, shown, excused>>

FindsSomeToken(r) == \E i \in Infos : <<work[r].place, work[r].claim.value, i>> \in world

\* The token of the row that was read, at the value of that row.
Finds(r) == <<work[r].place, work[r].claim.value, work[r].info>> \in world

Look(r) ==
    /\ work[r].pc = "look"
    /\ \/ Finds(r) /\ work' = [work EXCEPT ![r].pc = "mark"]
       \/ ~Finds(r) /\ work' = [work EXCEPT ![r] = NoWork]
    /\ UNCHANGED <<subject, info, template, world, mails, shown, excused>>

\* The code that was mailed for this info; another changes nothing, and is
\* not counted.
VerifyEmail(r, i) ==
    /\ work[r] = NoWork
    /\ InfoThere(i) /\ info[i].claim.type = "email"
    /\ Proof("mail", i) \in shown
    /\ work' = [work EXCEPT ![r] = Job("mark", i, info[i].claim, "")]
    /\ UNCHANGED <<subject, info, template, world, mails, shown, excused>>

\* A row or a template that is gone by now, or that cannot be read, gives the
\* default.
ReadDays(r) ==
    /\ work[r].pc = "mark"
    /\ LET t == work[r].claim.template  i == work[r].info
           known == InfoThere(i) /\ t # NoTemplate /\ template[t] = "there"
       IN  \/ /\ work' = [work EXCEPT ![r].pc = "write",
                            ![r].days = IF known THEN TemplateDays(t) ELSE DefaultDays]
              /\ UNCHANGED excused
           \/ /\ known
              /\ work' = [work EXCEPT ![r].pc = "write", ![r].days = DefaultDays]
              /\ excused' = excused \cup {<<"days", i>>}
    /\ UNCHANGED <<subject, info, template, world, mails, shown>>

\* The update names the row alone: one deleted meanwhile stays deleted.
MarkVerified(r) ==
    /\ work[r].pc = "write"
    /\ info' = IF InfoThere(work[r].info)
               THEN [info EXCEPT ![work[r].info].is = "verified",
                                  ![work[r].info].days = work[r].days]
               ELSE info
    /\ work' = [work EXCEPT ![r] = NoWork]
    /\ UNCHANGED <<subject, template, world, mails, shown, excused>>

\* A statement of a request fails where the code looks at its error, or the
\* client hangs up.
GivesUp(r) ==
    /\ work[r].pc # "idle"
    /\ work' = [work EXCEPT ![r] = NoWork]
    /\ UNCHANGED <<subject, info, template, world, mails, shown, excused>>

\* The server stops: requests and mails that were under way are lost.
Crash ==
    /\ work' = [r \in Checks |-> NoWork] /\ mails' = {}
    /\ UNCHANGED <<subject, info, template, world, shown, excused>>

----------------------------------------------------------------------------
InfosNext ==
    \/ \E u \in Claimants, s \in Subjects : SubmitSubject(u, s)
    \/ \E a \in Admins, s \in Subjects, verdict \in {"approved", "rejected"} :
            ReviewSubject(a, s, verdict)
    \/ \E u \in Claimants \cup Admins, s \in Subjects : DeleteSubject(u, s)
    \/ \E t \in Templates : CreateTemplate(t) \/ DeleteTemplate(t)
    \/ \E r \in Checks, u \in Claimants, i \in Infos, type \in Types, v \in Values,
          asked \in {"txt", "http"}, t \in Templates \cup {NoTemplate} :
            Create(r, u, i, type, v, asked, t)
    \/ \E r \in Checks : CountRows(r) \/ InsertRow(r)
    \/ \E i \in Infos : Mail(i) \/ DeleteInfo(i)
    \/ \E place \in {"dns", "web"}, v \in Values, i \in Infos : Publish(place, v, i)
    \/ \E proof \in world : Withdraw(proof)
    \/ \E r \in Checks, i \in Infos :
            VerifyEmail(r, i) \/ \E place \in {"dns", "web"} : VerifyShown(r, i, place)
    \/ \E r \in Checks : Look(r) \/ ReadDays(r) \/ MarkVerified(r) \/ GivesUp(r)
    \/ Crash

InfosSpec == InfosInit /\ [][InfosNext]_infoVars

----------------------------------------------------------------------------
Excuses == (Claimants \X (Templates \cup {NoTemplate}) \X Types)
             \cup ({"limit", "days"} \X Infos)

\* Types; a review names its administrator, and a user has one row for a value.
InfosTypeOK ==
    /\ subject \in [Subjects -> [is : {"none", "pending", "approved", "rejected", "deleted"},
                                 user : Claimants \cup {Nobody}, by : Admins \cup {Nobody}]]
    /\ info \in [Infos -> InfoRows] /\ work \in [Checks -> Works]
    /\ template \in [Templates -> {"none", "there", "deleted"}]
    /\ world \subseteq Proofs /\ shown \subseteq Proofs /\ mails \subseteq Infos
    /\ excused \subseteq Excuses
    /\ \A s \in Subjects : /\ subject[s].is \in {"approved", "rejected"} => subject[s].by # Nobody
                           /\ subject[s].is = "pending" => subject[s].by = Nobody
    /\ \A i, j \in Infos :
            /\ InfoThere(i) /\ InfoThere(j)
            /\ \A f \in {"user", "type", "value"} : info[i].claim[f] = info[j].claim[f]
            => i = j

\* An info is verified by a proof that was its own: its token in DNS or on the web at
\* its value, shown by the holder of the value, who is its user; or the code mailed
\* to its address.  The row is read, and may be deleted and claimed again, before
\* the network answers (service.go:273-293, :300-317, handler_verification.go:154-201).
\* The proof lasts as long as its template says; the default is taken for a
\* template that is deleted, maybe between the reads, or that could not be read
\* (service.go:370-379).
VerifiedWasProved ==
    \A i \in Infos : info[i].is = "verified" =>
        LET claim == info[i].claim  t == claim.template
        IN  /\ \/ claim.type = "email" /\ Proof("mail", i) \in shown
               \/ /\ claim.user = Controls[claim.value]
                  /\ \/ Proof("web", i) \in shown
                     \/ claim.method = "txt" /\ Proof("dns", i) \in shown
            /\ IF t = NoTemplate THEN info[i].days = DefaultDays
               ELSE \/ info[i].days = TemplateDays(t)
                    \/ /\ info[i].days = DefaultDays
                       /\ template[t] = "deleted" \/ <<"days", i>> \in excused

\* The limit of a template is passed only by rows for which the template or the count
\* could not be read (service.go:188-206, which lets them in), and by requests that
\* counted before one of them inserted: by one row for each request but one.
LimitOrOverlap ==
    \A u \in Claimants, t \in Templates, type \in Types :
        LET key == <<u, t, type>>  limit == Limit[<<t, type>>]
            rows == CountOf(key)
        IN  template[t] = "there" /\ limit > 0 =>
                \/ rows <= limit
                \/ key \in excused /\ rows <= limit + Cardinality(Checks) - 1
=============================================================================
