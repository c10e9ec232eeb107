------------------------------ MODULE PkiToolbox ------------------------------
(***************************************************************************)
(* The certificate toolbox of the client: CSRs, local certificate            *)
(* authorities and certificates with their private keys, all in the database *)
(* (clients/internal/pki/cert.go, csr.go, selfsign.go, storage/pki_repo.go,  *)
(* api/pki_handler.go, the delivery of api/cloud_handler.go).                *)
(*                                                                         *)
(* A key pair goes by a name; the public half is what a certificate is for.  *)
(* A request runs one statement at a time on what it read before.  Any       *)
(* statement may fail, and the program may stop between two of them.         *)
(***************************************************************************)
EXTENDS Naturals, FiniteSets

CONSTANTS
    Csrs, CAs, Ids,     \* UUIDs of pki_csrs, pki_cas, pki_certs: never used again
    Keys,               \* key pairs
    Requests,
    MaxIssued,          \* bound on the certificates a CA issues
    NoKey, NoCsr, NoCA, NoId

VARIABLES
    csr,    \* pki_csrs
    ca,     \* pki_cas
    cert,   \* pki_certs: certificates, and private keys waiting for one
    work    \* requests in progress

vars == <<csr, ca, cert, work>>

\* kept: the private key is in the row (key_storage "database").
CsrRows == [is : {"none", "there", "gone"}, key : Keys \cup {NoKey}, kept : BOOLEAN]
NoCsrRow == [is |-> "none", key |-> NoKey, kept |-> FALSE]

\* The private key of a CA, which ImportAndSaveCA takes as it comes.
CARows == [is : {"none", "there", "gone"}, key : {"own", "other", "none"},
           revoked : BOOLEAN, issued : 0 .. MaxIssued]
NoCARow == [is |-> "none", key |-> "none", revoked |-> FALSE, issued |-> 0]

\* for: the key pair the certificate is for; key: the private key beside it.
\* pair: both came in one request; sealed: the key is encrypted once more.
CertRows == [is : {"none", "there", "gone"}, for : Keys \cup {NoKey},
             key : Keys \cup {NoKey}, pair : BOOLEAN, sealed : BOOLEAN,
             ca : CAs \cup {NoCA}, revoked : BOOLEAN]
NoCertRow == [is |-> "none", for |-> NoKey, key |-> NoKey, pair |-> FALSE,
              sealed |-> FALSE, ca |-> NoCA, revoked |-> FALSE]

Works == [pc : {"idle", "ca", "insert", "count", "list", "take"},
          new : CertRows, ca : CAs \cup {NoCA}, orphan : Ids \cup {NoId}]
Idle == [pc |-> "idle", new |-> NoCertRow, ca |-> NoCA, orphan |-> NoId]

\* Types, and in a CA's row: the certificates it counts are at most those it signed,
\* so a failed count loses one and a deleted certificate stays counted.
TypeOK ==
    /\ csr \in [Csrs -> CsrRows]
    /\ ca \in [CAs -> CARows]
    /\ cert \in [Ids -> CertRows]
    /\ work \in [Requests -> Works]
    /\ \A a \in CAs :
         ca[a].issued <= Cardinality({i \in Ids : cert[i].ca = a})

Init ==
    /\ csr = [c \in Csrs |-> NoCsrRow]
    /\ ca = [a \in CAs |-> NoCARow]
    /\ cert = [i \in Ids |-> NoCertRow]
    /\ work = [r \in Requests |-> Idle]

-----------------------------------------------------------------------------

Begin(r, w) == work[r] = Idle /\ work' = [work EXCEPT ![r] = w]
Step(r, pc) == [work EXCEPT ![r].pc = pc]
End(r) == [work EXCEPT ![r] = Idle]

InCsr(c, k) == csr[c].is = "there" /\ csr[c].kept /\ csr[c].key = k
InCert(i, k) == cert[i].is = "there" /\ cert[i].key = k

\* A statement fails, and the request with it.
Fail(r) ==
    /\ work[r] # Idle
    /\ work' = End(r)
    /\ UNCHANGED <<csr, ca, cert>>

\* The program stops and starts again.
Restart ==
    /\ work' = [r \in Requests |-> Idle]
    /\ UNCHANGED <<csr, ca, cert>>

\* A row is deleted; what it was signed by is remembered for the count.
Gone(i) == [NoCertRow EXCEPT !.is = "gone", !.ca = cert[i].ca]

-----------------------------------------------------------------------------
(* CSRs and certificate authorities.                                        *)

\* CreateAndSaveCSR makes a new key pair in memory, for a smart card as well, and
\* stores the private key only for "database".
CreateCsr(c, k, kept) ==
    /\ csr[c].is = "none"
    /\ \A d \in Csrs : csr[d].key # k
    /\ \A i \in Ids : cert[i].key # k /\ cert[i].for # k
    /\ \A r \in Requests : work[r].new.key # k /\ work[r].new.for # k
    /\ csr' = [csr EXCEPT ![c] = [is |-> "there", key |-> k, kept |-> kept]]
    /\ UNCHANGED <<ca, cert, work>>

\* The key pair is not forgotten, for others may hold certificates for it.
DeleteCsr(c) ==
    /\ csr[c].is = "there"
    /\ csr' = [csr EXCEPT ![c].is = "gone"]
    /\ UNCHANGED <<ca, cert, work>>

\* CreateAndSaveCA, with a key of its own, and ImportAndSaveCA.
CreateCA(a, key) ==
    /\ ca[a].is = "none"
    /\ ca' = [ca EXCEPT ![a] = [NoCARow EXCEPT !.is = "there", !.key = key]]
    /\ UNCHANGED <<csr, cert, work>>

RevokeCA(a) ==
    /\ ca[a].is = "there"
    /\ ca' = [ca EXCEPT ![a].revoked = TRUE]
    /\ UNCHANGED <<csr, cert, work>>

DeleteCA(a) ==
    /\ ca[a].is = "there"
    /\ ca' = [ca EXCEPT ![a].is = "gone"]
    /\ UNCHANGED <<csr, cert, work>>

-----------------------------------------------------------------------------
(* Issuing.                                                                 *)

\* The certificate that goes with a CSR, and its private key where it is kept.
FromCsr(c, a) ==
    [NoCertRow EXCEPT !.is = "there", !.for = csr[c].key, !.ca = a,
                      !.key = IF csr[c].kept THEN csr[c].key ELSE NoKey]

\* IssueCertFromCSR: the CSR, then the CA.
ReadCsr(r, c, a) ==
    /\ csr[c].is = "there"
    /\ Begin(r, [Idle EXCEPT !.pc = "ca", !.new = FromCsr(c, a), !.ca = a])
    /\ UNCHANGED <<csr, ca, cert>>

\* x509.CreateCertificate refuses a private key that is not the CA's.
ReadCA(r) ==
    LET a == ca[work[r].ca] IN
    /\ work[r].pc = "ca"
    /\ a.is = "there" /\ ~a.revoked /\ a.key = "own"
    /\ work' = Step(r, "insert")
    /\ UNCHANGED <<csr, ca, cert>>

\* IncrIssuedCount; a CA that is gone counts nothing.
Count(r) ==
    LET a == work[r].ca IN
    /\ work[r].pc = "count"
    /\ ca[a].issued < MaxIssued
    /\ ca' = IF ca[a].is = "there" THEN [ca EXCEPT ![a].issued = @ + 1] ELSE ca
    /\ work' = End(r)
    /\ UNCHANGED <<csr, cert>>

\* SelfSignFromCSR, for a CSR with its private key.
SelfSign(r, c) ==
    /\ csr[c].is = "there" /\ csr[c].kept
    /\ Begin(r, [Idle EXCEPT !.pc = "insert", !.new = FromCsr(c, NoCA)])
    /\ UNCHANGED <<csr, ca, cert>>

\* PKICertRepo.Create.
Insert(r, i) ==
    /\ work[r].pc = "insert"
    /\ cert[i].is = "none"
    /\ cert' = [cert EXCEPT ![i] = work[r].new]
    /\ work' = IF work[r].ca = NoCA THEN End(r)
               ELSE [work EXCEPT ![r].pc = "count", ![r].new = NoCertRow]
    /\ UNCHANGED <<csr, ca>>

-----------------------------------------------------------------------------
(* Importing.                                                               *)

Bring(r, for, key, sealed) ==
    /\ Begin(r, [Idle EXCEPT !.pc = "insert",
                   !.new = [NoCertRow EXCEPT !.is = "there", !.for = for, !.key = key,
                                             !.pair = TRUE, !.sealed = sealed]])
    /\ UNCHANGED <<csr, ca, cert>>

\* importCertWithKey and importFromPKCS12 take the pair as it comes.
ImportPair(r, for, key) == Bring(r, for, key, FALSE)

\* deliverToDatabase encrypts the key that the server delivered.
Deliver(r, key) == Bring(r, key, key, TRUE)

\* importKeyOnly: a private key that waits for its certificate.
ImportKey(r, key) ==
    /\ Begin(r, [Idle EXCEPT !.pc = "insert",
                   !.new = [NoCertRow EXCEPT !.is = "there", !.key = key]])
    /\ UNCHANGED <<csr, ca, cert>>

\* ListOrphanKeys.
Orphans == {i \in Ids : cert[i].is = "there" /\ cert[i].for = NoKey /\ cert[i].key # NoKey}
\* matchKeyToCert.
Matches(i, for) == cert[i].key = for

\* importCertOnly: the certificate takes over a private key that waits for it; where
\* ListOrphanKeys fails, none does.
ImportCert(r, for) ==
    LET new == [NoCertRow EXCEPT !.is = "there", !.for = for]
        found == {i \in Orphans : Matches(i, for)} IN
    /\ \/ Begin(r, [Idle EXCEPT !.pc = "insert", !.new = new])
       \/ \E i \in found :
            Begin(r, [Idle EXCEPT !.pc = "take", !.orphan = i,
                                  !.new = [new EXCEPT !.key = cert[i].key]])
    /\ UNCHANGED <<csr, ca, cert>>

\* The row of the private key is deleted; an error is ignored.
TakeOver(r) ==
    /\ work[r].pc = "take"
    /\ \E done \in BOOLEAN :
         cert' = IF done /\ cert[work[r].orphan].is = "there"
                 THEN [cert EXCEPT ![work[r].orphan] = Gone(work[r].orphan)] ELSE cert
    /\ work' = Step(r, "insert")
    /\ UNCHANGED <<csr, ca>>

-----------------------------------------------------------------------------
(* Changing and exporting a certificate.                                    *)

\* Mutant: revoking takes the private key away.
RevokeAndClear(i) ==
    /\ cert[i].is = "there"
    /\ cert' = [cert EXCEPT ![i].revoked = TRUE, ![i].key = NoKey]
    /\ UNCHANGED <<csr, ca, work>>

RevokeCert(i) ==
    /\ cert[i].is = "there"
    /\ cert' = [cert EXCEPT ![i].revoked = TRUE]
    /\ UNCHANGED <<csr, ca, work>>

DeleteCert(i) ==
    /\ cert[i].is = "there"
    /\ cert' = [cert EXCEPT ![i] = Gone(i)]
    /\ UNCHANGED <<csr, ca, work>>

DeletePrivateKey(i) ==
    /\ cert[i].is = "there"
    /\ cert' = [cert EXCEPT ![i].key = NoKey]
    /\ UNCHANGED <<csr, ca, work>>

\* ExportCert as PKCS#12: the certificate and the private key beside it, where
\* both can be read.
Exports(i) ==
    IF cert[i].is = "there" /\ cert[i].for # NoKey /\ cert[i].key # NoKey /\ ~cert[i].sealed
    THEN {[for |-> cert[i].for, key |-> cert[i].key]} ELSE {}

-----------------------------------------------------------------------------

Issue(r) ==
    \/ \E c \in Csrs : SelfSign(r, c) \/ \E a \in CAs : ReadCsr(r, c, a)
    \/ ReadCA(r)
    \/ \E i \in Ids : Insert(r, i)
    \/ Count(r)

Import(r) ==
    \/ \E for, key \in Keys : ImportPair(r, for, key)
    \/ \E key \in Keys : Deliver(r, key) \/ ImportKey(r, key) \/ ImportCert(r, key)
    \/ TakeOver(r)

Handler(r) == Issue(r) \/ Import(r) \/ Fail(r)

AdministerCsrs ==
    \E c \in Csrs : (\E k \in Keys, kept \in BOOLEAN : CreateCsr(c, k, kept)) \/ DeleteCsr(c)

AdministerCAs ==
    \E a \in CAs : \/ \E key \in {"own", "other", "none"} : CreateCA(a, key)
                   \/ RevokeCA(a) \/ DeleteCA(a)

AdministerCerts == \E i \in Ids : RevokeCert(i) \/ DeleteCert(i) \/ DeletePrivateKey(i)

Administer == AdministerCsrs \/ AdministerCAs \/ AdministerCerts

Next == Administer \/ Restart \/ \E r \in Requests : Handler(r)

Spec == Init /\ [][Next]_vars

-----------------------------------------------------------------------------
(* Properties.                                                              *)

\* The private key exported with a certificate is the certificate's own, however
\* the two came together, unless one request brought both
\* (IssueCertFromCSR, SelfSignFromCSR, importCertOnly, ExportCert).
ExportsItsKey ==
    \A i \in Ids : \A e \in Exports(i) : e.key = e.for \/ cert[i].pair

Kept(k) == (\E c \in Csrs : InCsr(c, k)) \/ (\E i \in Ids : InCert(i, k))

\* A private key leaves the database only with a row that someone deletes, or
\* deletes it from, or when a certificate takes it over, and then the request of
\* that certificate has it in hand
\* (importCertOnly, handleDeleteCSR, handleDeletePKICert, handleDeletePKICertKey).
KeysKept ==
    \A k \in Keys : Kept(k) /\ ~Kept(k)' =>
        \/ \E c \in Csrs : InCsr(c, k) /\ csr'[c].is = "gone" /\ work' = work
        \/ \E i \in Ids : /\ InCert(i, k) /\ work' = work
                          /\ cert'[i].is = "gone" \/ cert'[i] = [cert[i] EXCEPT !.key = NoKey]
        \/ \E r \in Requests : work'[r].pc = "insert" /\ work'[r].new.key = k

=============================================================================
