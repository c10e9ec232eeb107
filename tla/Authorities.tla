----------------------------- MODULE Authorities -----------------------------
(***************************************************************************)
(* The certificate authorities of the server (servers/internal/ca), the      *)
(* certificates they issue, the templates that say what may be issued        *)
(* (issuance/template.go), renewal and revocation (api/handler_ca.go,        *)
(* api/handler_card.go).                                                    *)
(*                                                                         *)
(* Every request is a few statements with nothing around them, so what one  *)
(* has read may have changed when it writes: its job is then marked stale.   *)
(* The properties say what the code guarantees to a request that is not.     *)
(* A certificate stands for its serial number; of a template, the modelled   *)
(* part is the list of CAs it allows and the extensions it adds.             *)
(***************************************************************************)
EXTENDS Naturals, FiniteSets

CONSTANTS
    CAs,
    Certs,
    Chains,         \* certificates that can be added to the chain of a CA
    Templates,      \* issuance templates
    Requests,
    NoCA, NoCert, NoTemplate, NoChain

ASSUME NullAssumption ==
    /\ NoCA \notin CAs /\ NoCert \notin Certs
    /\ NoTemplate \notin Templates /\ NoChain \notin Chains
ASSUME FiniteAssumption == IsFiniteSet(Certs)

VARIABLES
    ca,         \* cas.status, before the row "none" and after it "gone"
    parent,     \* cas.parent_uuid
    count,      \* cas.issued_count
    chain,      \* cas.cert_pem: what has been added to the CA's certificate
    revoked,    \* revoked_certs: serial numbers by CA
    status,     \* certificates: "sent" to the client only, or the row's status
    issuer,     \* certificates.ca_uuid
    renewed,    \* rows made by RenewCert, which have no serial number
    template,   \* issuance_templates; NoRow without
    extension,  \* whether the cert_ext_templates row the templates name exists
    job,        \* requests in progress
    lost        \* history: certificates whose entry on the list failed

vars == <<ca, parent, count, chain, revoked, status, issuer, renewed, template,
          extension, job, lost>>

authorities == <<ca, parent, count, chain>>
certificates == <<status, issuer, renewed>>
templates == <<template, extension>>

Steps == {"idle", "children", "delete", "extensions", "validate", "authority",
          "count", "store", "append", "renew", "mark", "lookup", "insert"}

\* onCard: store the certificate on a card; ext: its template's extensions are
\* in it; copy: the chain that was read; stale: what was read has changed;
\* unread (history): the reads of the template that failed, and made a difference.
Jobs == [pc : Steps, ca : CAs \cup {NoCA}, cert : Certs \cup {NoCert},
         source : Certs \cup {NoCert}, template : Templates \cup {NoTemplate},
         chain : Chains \cup {NoChain}, copy : SUBSET Chains,
         onCard : BOOLEAN, ext : BOOLEAN, stale : BOOLEAN,
         unread : SUBSET {"extensions", "validate"}]
Idle == [pc |-> "idle", ca |-> NoCA, cert |-> NoCert, source |-> NoCert,
         template |-> NoTemplate, chain |-> NoChain, copy |-> {},
         onCard |-> FALSE, ext |-> FALSE, stale |-> FALSE, unread |-> {}]

\* cas: the CAs allowed, or {} for all; ext: it names the extensions.
Rows == [there : {TRUE}, cas : SUBSET CAs, ext : BOOLEAN]
NoRow == [there |-> FALSE, cas |-> {}, ext |-> FALSE]

TypeOK ==
    /\ ca \in [CAs -> {"none", "active", "disabled", "gone"}]
    /\ parent \in [CAs -> CAs \cup {NoCA}]
    /\ count \in [CAs -> Nat]
    /\ chain \in [CAs -> SUBSET Chains]
    /\ revoked \in [CAs -> SUBSET Certs]
    /\ status \in [Certs -> {"none", "sent", "active", "revoked"}]
    /\ issuer \in [Certs -> CAs \cup {NoCA}]
    /\ renewed \subseteq Certs
    /\ template \in [Templates -> Rows \cup {NoRow}]
    /\ extension \in BOOLEAN
    /\ job \in [Requests -> Jobs]
    /\ lost \subseteq Certs

Init ==
    /\ ca = [c \in CAs |-> "none"]
    /\ parent = [c \in CAs |-> NoCA]
    /\ count = [c \in CAs |-> 0]
    /\ chain = [c \in CAs |-> {}]
    /\ revoked = [c \in CAs |-> {}]
    /\ status = [x \in Certs |-> "none"]
    /\ issuer = [x \in Certs |-> NoCA]
    /\ renewed = {}
    /\ template = [t \in Templates |-> NoRow]
    /\ extension = FALSE
    /\ job = [r \in Requests |-> Idle]
    /\ lost = {}

There(c) == c \in CAs /\ ca[c] \in {"active", "disabled"}

-----------------------------------------------------------------------------
(* What a request has read is changed by another.                           *)

Touch(jobs, others) ==
    [r \in Requests |-> IF r \in others THEN [jobs[r] EXCEPT !.stale = TRUE]
                        ELSE jobs[r]]

At(steps) == {r \in Requests : job[r].pc \in steps}
Deleting(c) == {r \in At({"children", "delete"}) : job[r].ca = c}
Issuing(c) == {r \in At({"count"}) : job[r].ca = c}
Appending(c) == {r \in At({"append"}) : job[r].ca = c}
Applying == At({"extensions", "validate", "authority", "count"})
Deciding(x) == {r \in At({"renew", "mark"}) : job[r].source = x}

Begin(r, j) == job[r] = Idle /\ job' = [job EXCEPT ![r] = j]
Step(r, pc) == [job EXCEPT ![r].pc = pc]
End(r) == [job EXCEPT ![r] = Idle]
Refuse(r) == job' = End(r)

-----------------------------------------------------------------------------
(* Authorities.                                                             *)

\* The end of CreateSelfSignedCA, and of ImportCA, which does not look the
\* parent up.
CreateCA(c, p) ==
    /\ ca[c] = "none"
    /\ ca' = [ca EXCEPT ![c] = "active"]
    /\ parent' = [parent EXCEPT ![c] = p]
    /\ job' = Touch(job, Deleting(p))
    /\ UNCHANGED <<count, chain, revoked, certificates, templates, lost>>

CreateSelfSignedCA(c) == CreateCA(c, NoCA)
ImportCA(c, p) == CreateCA(c, p)

\* Update writes the status it is given.
UpdateCA(c, s) ==
    /\ There(c)
    /\ ca' = [ca EXCEPT ![c] = s]
    /\ job' = Touch(job, Issuing(c))
    /\ UNCHANGED <<parent, count, chain, revoked, certificates, templates, lost>>

\* Delete reads the count, counts the children, and deletes.
DeleteCA(r, c) ==
    /\ There(c)
    /\ count[c] = 0
    /\ Begin(r, [Idle EXCEPT !.pc = "children", !.ca = c])
    /\ UNCHANGED <<authorities, revoked, certificates, templates, lost>>

NoChildren(c) == {}
Children(c) == {d \in CAs : There(d) /\ parent[d] = c}

CountChildren(r) ==
    /\ job[r].pc = "children"
    /\ job' = IF Children(job[r].ca) = {} THEN Step(r, "delete") ELSE End(r)
    /\ UNCHANGED <<authorities, revoked, certificates, templates, lost>>

\* The foreign key of revoked_certs keeps a CA with revoked serial numbers.
DeleteRow(r) ==
    /\ job[r].pc = "delete"
    /\ \/ /\ There(job[r].ca) /\ revoked[job[r].ca] = {}
          /\ ca' = [ca EXCEPT ![job[r].ca] = "gone"]
          /\ job' = Touch(End(r), (Issuing(job[r].ca) \cup Deleting(job[r].ca)
                                     \cup Appending(job[r].ca)) \ {r})
       \/ Refuse(r) /\ UNCHANGED ca
    /\ UNCHANGED <<parent, count, chain, revoked, certificates, templates, lost>>

\* ImportChain reads the whole text, appends to it and writes it back.
ImportChain(r, c, k) ==
    /\ There(c)
    /\ k \notin chain[c]
    /\ Begin(r, [Idle EXCEPT !.pc = "append", !.ca = c, !.chain = k, !.copy = chain[c]])
    /\ UNCHANGED <<authorities, revoked, certificates, templates, lost>>

Overwritten(r) == {job[r].chain}
Appended(r) == job[r].copy \cup {job[r].chain}

AppendChain(r) ==
    /\ job[r].pc = "append"
    /\ \/ /\ There(job[r].ca)
          /\ chain' = [chain EXCEPT ![job[r].ca] = Appended(r)]
          /\ job' = Touch(End(r), Appending(job[r].ca) \ {r})
       \/ Refuse(r) /\ UNCHANGED chain
    /\ UNCHANGED <<ca, parent, count, revoked, certificates, templates, lost>>

-----------------------------------------------------------------------------
(* Templates.                                                               *)

CreateTemplate(t, cas, ext) ==
    /\ template[t] = NoRow
    /\ template' = [template EXCEPT ![t] = [there |-> TRUE, cas |-> cas, ext |-> ext]]
    /\ job' = Touch(job, Applying)
    /\ UNCHANGED <<authorities, revoked, certificates, extension, lost>>

UpdateTemplate(t, cas, ext) ==
    /\ template[t] # NoRow
    /\ template' = [template EXCEPT ![t] = [there |-> TRUE, cas |-> cas, ext |-> ext]]
    /\ job' = Touch(job, Applying)
    /\ UNCHANGED <<authorities, revoked, certificates, extension, lost>>

RowAfterDelete(t) == NoRow

DeleteTemplate(t) ==
    /\ template[t] # NoRow
    /\ template' = [template EXCEPT ![t] = RowAfterDelete(t)]
    /\ job' = Touch(job, Applying)
    /\ UNCHANGED <<authorities, revoked, certificates, extension, lost>>

CreateCertExtTemplate ==
    /\ ~extension
    /\ extension' = TRUE
    /\ job' = Touch(job, Applying)
    /\ UNCHANGED <<authorities, revoked, certificates, template, lost>>

\* DeleteCertExtTemplate counts the templates that name it in a column for
\* another kind of template, extension_tmpl_uuid, so it never refuses.
DeleteCertExtTemplate ==
    /\ extension
    /\ extension' = FALSE
    /\ job' = Touch(job, Applying)
    /\ UNCHANGED <<authorities, revoked, certificates, template, lost>>

-----------------------------------------------------------------------------
(* Issue.                                                                   *)

Fresh(x) == status[x] = "none" /\ \A r \in Requests : job[r].cert # x

\* handleIssueCert; the template is looked at only when one is named.
IssueCert(r, c, t, x, onCard) ==
    /\ Fresh(x)
    /\ Begin(r, [Idle EXCEPT !.pc = IF t = NoTemplate THEN "authority" ELSE "extensions",
                             !.ca = c, !.template = t, !.cert = x, !.onCard = onCard])
    /\ UNCHANGED <<authorities, revoked, certificates, templates, lost>>

Missed(r, ext) ==
    IF ext = (template[job[r].template].ext /\ extension) THEN {} ELSE {"extensions"}

\* A template or extensions that are not there, or cannot be read, add nothing,
\* without an error.
ApplyCertExtTemplate(r) ==
    /\ job[r].pc = "extensions"
    /\ \E ext \in {template[job[r].template].ext /\ extension, FALSE} :
          job' = [job EXCEPT ![r].pc = "validate", ![r].stale = FALSE, ![r].ext = ext,
                             ![r].unread = Missed(r, ext)]
    /\ UNCHANGED <<authorities, revoked, certificates, templates, lost>>

\* A template that is not there forbids nothing, nor does one that cannot be read.
AllowsAny(t, c) == TRUE
Allows(t, c) == template[t].cas = {} \/ c \in template[t].cas

ValidateAgainstTemplate(r) ==
    /\ job[r].pc = "validate"
    /\ \/ Allows(job[r].template, job[r].ca) /\ job' = Step(r, "authority")
       \/ /\ ~Allows(job[r].template, job[r].ca)
          /\ \/ Refuse(r)
             \/ job' = [job EXCEPT ![r].pc = "authority", ![r].unread = @ \cup {"validate"}]
    /\ UNCHANGED <<authorities, revoked, certificates, templates, lost>>

MayIssue(c) == ca[c] = "active"

\* From here the certificate is signed with the key that was read.
ReadAuthority(r) ==
    /\ job[r].pc = "authority"
    /\ job' = IF MayIssue(job[r].ca) THEN Step(r, "count") ELSE End(r)
    /\ UNCHANGED <<authorities, revoked, certificates, templates, lost>>

Sent(r) ==
    /\ status' = [status EXCEPT ![job[r].cert] = "sent"]
    /\ issuer' = [issuer EXCEPT ![job[r].cert] = job[r].ca]

CountedOnCards(r) == IF There(job[r].ca) /\ job[r].onCard
                     THEN [count EXCEPT ![job[r].ca] = @ + 1] ELSE count
Counted(r) == IF There(job[r].ca) THEN [count EXCEPT ![job[r].ca] = @ + 1] ELSE count

AfterCount(r) == IF job[r].onCard THEN Step(r, "store") ELSE End(r)

\* IncrementIssuedCount: of a CA that is gone it updates no row, and succeeds;
\* when it fails the certificate that was signed is not handed out.
CountIssue(r) ==
    /\ job[r].pc = "count"
    /\ \/ /\ count' = Counted(r)
          /\ job' = Touch(AfterCount(r), Deleting(job[r].ca))
          /\ IF job[r].onCard THEN UNCHANGED <<status, issuer>> ELSE Sent(r)
       \/ Refuse(r) /\ UNCHANGED <<count, status, issuer>>
    /\ UNCHANGED <<ca, parent, chain, revoked, renewed, templates, lost>>

\* A certificate that cannot be stored is not handed out either.
StoreIssued(r) ==
    /\ job[r].pc = "store"
    /\ \/ /\ status' = [status EXCEPT ![job[r].cert] = "active"]
          /\ issuer' = [issuer EXCEPT ![job[r].cert] = job[r].ca]
       \/ UNCHANGED <<status, issuer>>
    /\ job' = End(r)
    /\ UNCHANGED <<authorities, revoked, renewed, templates, lost>>

-----------------------------------------------------------------------------
(* Renewal and revocation.                                                  *)

\* handleRenewCert and RenewCert look at the row that was read first.
RenewCert(r, x, y) ==
    /\ status[x] = "active" /\ x \notin renewed     \* a row without content is refused
    /\ Fresh(y)
    /\ Begin(r, [Idle EXCEPT !.pc = "renew", !.ca = issuer[x], !.source = x, !.cert = y])
    /\ UNCHANGED <<authorities, revoked, certificates, templates, lost>>

\* The new row has the old key and CA, and neither content nor serial number.
StoreRenewal(r) ==
    /\ job[r].pc = "renew"
    /\ \/ /\ status' = [status EXCEPT ![job[r].cert] = "active"]
          /\ issuer' = [issuer EXCEPT ![job[r].cert] = job[r].ca]
          /\ renewed' = renewed \cup {job[r].cert}
       \/ UNCHANGED <<status, issuer, renewed>>
    /\ job' = End(r)
    /\ UNCHANGED <<authorities, revoked, templates, lost>>

\* handleRevokeCertByUUID refuses a row that says it is revoked.
RevokeByUUID(r, x) ==
    /\ status[x] = "active"
    /\ Begin(r, [Idle EXCEPT !.pc = "mark", !.source = x, !.ca = issuer[x]])
    /\ UNCHANGED <<authorities, revoked, certificates, templates, lost>>

AfterMark(r) == IF job[r].source \in renewed THEN End(r) ELSE Step(r, "lookup")

MarkRevoked(r) ==
    /\ job[r].pc = "mark"
    /\ \/ /\ status' = [status EXCEPT ![job[r].source] = "revoked"]
          /\ job' = Touch(AfterMark(r), Deciding(job[r].source) \ {r})
       \/ Refuse(r) /\ UNCHANGED status
    /\ UNCHANGED <<authorities, revoked, issuer, renewed, templates, lost>>

\* handleRevokeCert takes any serial number: the client names source itself.
RevokeBySerial(r, c, x) ==
    /\ Begin(r, [Idle EXCEPT !.pc = "lookup", !.source = x, !.ca = c, !.onCard = TRUE])
    /\ UNCHANGED <<authorities, revoked, certificates, templates, lost>>

\* The certificate has been marked: the failure is logged, no more.
GiveUp(r) ==
    /\ Refuse(r)
    /\ lost' = IF job[r].onCard THEN lost ELSE lost \cup {job[r].source}
    /\ UNCHANGED revoked

\* Service.RevokeCert looks the CA up and inserts the serial number.
LookupCA(r) ==
    /\ job[r].pc = "lookup"
    /\ \/ There(job[r].ca) /\ job' = Step(r, "insert") /\ UNCHANGED <<revoked, lost>>
       \/ GiveUp(r)
    /\ UNCHANGED <<authorities, certificates, templates>>

InsertRevoked(r) ==
    /\ job[r].pc = "insert"
    /\ \/ /\ There(job[r].ca)
          /\ revoked' = [revoked EXCEPT ![job[r].ca] = @ \cup {job[r].source}]
          /\ job' = End(r)
          /\ UNCHANGED lost
       \/ GiveUp(r)
    /\ UNCHANGED <<authorities, certificates, templates>>

-----------------------------------------------------------------------------
Administer(r) ==
    \/ \E c \in CAs : DeleteCA(r, c) \/ \E k \in Chains : ImportChain(r, c, k)
    \/ CountChildren(r) \/ DeleteRow(r) \/ AppendChain(r)

Issue(r) ==
    \/ \E c \in CAs, t \in Templates \cup {NoTemplate}, x \in Certs, onCard \in BOOLEAN :
         IssueCert(r, c, t, x, onCard)
    \/ ApplyCertExtTemplate(r) \/ ValidateAgainstTemplate(r) \/ ReadAuthority(r)
    \/ CountIssue(r) \/ StoreIssued(r)

Revoke(r) ==
    \/ \E x \in Certs : RevokeByUUID(r, x) \/ \E c \in CAs : RevokeBySerial(r, c, x)
    \/ MarkRevoked(r) \/ LookupCA(r) \/ InsertRevoked(r)

Next ==
    \/ \E c \in CAs : \/ CreateSelfSignedCA(c) \/ \E p \in CAs \cup {NoCA} : ImportCA(c, p)
                      \/ \E s \in {"active", "disabled"} : UpdateCA(c, s)
    \/ \E t \in Templates, cas \in SUBSET CAs, ext \in BOOLEAN :
         CreateTemplate(t, cas, ext) \/ UpdateTemplate(t, cas, ext)
    \/ \E t \in Templates : DeleteTemplate(t)
    \/ CreateCertExtTemplate \/ DeleteCertExtTemplate
    \/ \E r \in Requests : Administer(r) \/ Issue(r) \/ Revoke(r)
    \/ \E r \in Requests, x, y \in Certs : RenewCert(r, x, y)
    \/ \E r \in Requests : StoreRenewal(r)

Spec == Init /\ [][Next]_vars

-----------------------------------------------------------------------------
(* Properties.                                                              *)

IssuedBy(c) == {x \in Certs : issuer[x] = c /\ x \notin renewed}

\* issued_count is never below the number of certificates that a CA has given
\* out, whatever issues fail, overlap or end after others: Service.Delete
\* relies on it.
CountCoversIssued ==
    \A c \in CAs : There(c) => Cardinality(IssuedBy(c)) <= count[c]

\* A CA that has issued, or that is the parent of another, is deleted only by
\* a request that looked before the issue was counted or the other imported.
DeletedUnissued ==
    [][\A c \in CAs : There(c) /\ ca'[c] = "gone" =>
         \/ count[c] = 0 /\ \A d \in CAs : There(d) => parent[d] # c
         \/ \E r \in Requests : job[r].stale /\ job[r].ca = c /\ job'[r] # job[r]]_vars

\* Of the chain of a CA nothing is lost, except to an import that read the
\* chain before another import wrote it (Service.ImportChain); and a revoked
\* certificate is renewed only by a request that read it before.
StaleWrites ==
    [][/\ \A c \in CAs : chain[c] \subseteq chain'[c]
                           \/ \E r \in Requests : job[r].stale /\ job[r].ca = c
                                                    /\ job'[r] # job[r]
       /\ \A y \in renewed' \ renewed : \E r \in Requests :
            /\ job[r].cert = y
            /\ job[r].stale \/ status[job[r].source] # "revoked"]_vars

\* A certificate about to be signed under a template is one that the template
\* allows, with the template's extensions, by a CA that is active: unless one
\* of the three has changed since the issue looked, or the read of the template that
\* would have said so failed: such a read allows, and adds, what it would for a
\* template that is not there (ca.IssueCert, applyCertExtTemplate,
\* validateAgainstTemplate).  What it issues never has extensions that the template
\* does not name, and the CA is looked at in every case.
IssuesAsTold ==
    \A r \in At({"authority", "count"}) :
        ~job[r].stale =>
            /\ job[r].template # NoTemplate =>
                 LET t == template[job[r].template]
                 IN  /\ t.cas # {} => job[r].ca \in t.cas \/ "validate" \in job[r].unread
                     /\ job[r].ext => t.ext /\ extension
                     /\ t.ext /\ extension => job[r].ext \/ "extensions" \in job[r].unread
            /\ job[r].pc = "count" => ca[job[r].ca] = "active"

\* A certificate marked as revoked is on the list of its CA, or a request is
\* about to put it there, or that one step failed: then nothing will, as the
\* handler refuses a certificate that is marked.
MarkedIsListed ==
    \A x \in Certs \ renewed :
        status[x] = "revoked" =>
            \/ x \in revoked[issuer[x]] \/ x \in lost
            \/ \E r \in At({"lookup", "insert"}) : job[r].source = x
                                                     /\ job[r].ca = issuer[x]

\* Every issue and every revocation does what was looked up for it (IssuesAsTold,
\* MarkedIsListed), or what it looked up changed, or the read or the step that was
\* passed over failed.
DoesAsTold == IssuesAsTold /\ MarkedIsListed
=============================================================================
