-------------------------- MODULE AuthoritiesProofs --------------------------
(***************************************************************************)
(* Proofs about Authorities, for any number of requests, CAs, certificates,  *)
(* chains and templates.                                                    *)
(***************************************************************************)
EXTENDS Authorities, FiniteSetTheorems, TLAPS

USE NullAssumption

-----------------------------------------------------------------------------
(* The inductive invariant.                                                 *)

\* What a job names when it is at a step.
ShapeOK(r) ==
    LET j == job[r] IN
    /\ j.pc \in {"extensions", "validate", "authority", "count", "store"} =>
         j.ca \in CAs /\ j.cert \in Certs
    /\ j.pc \in {"extensions", "validate"} => j.template \in Templates
    /\ j.pc \in {"children", "delete", "append"} => j.ca \in CAs
    /\ j.pc = "append" => j.chain \in Chains
    /\ j.pc = "renew" => j.cert \in Certs /\ j.ca \in CAs
    /\ j.pc \in {"renew", "mark", "lookup", "insert"} => j.source \in Certs

Shapes == \A r \in Requests : ShapeOK(r)

\* A certificate that is being made is made by one request, and is not there yet.
Claims ==
    \A r \in Requests :
        job[r].cert # NoCert =>
            /\ status[job[r].cert] = "none"
            /\ \A q \in Requests : job[q].cert = job[r].cert => q = r

\* What a job that is not stale has read is still so: the count and the children of
\* the CA it deletes, the chain it appends to, the template and the CA it issues
\* under, unless a read failed that it does without, the status of the certificate
\* it renews.
Reads(r, steps) == job[r].pc \in steps /\ ~job[r].stale

KnowsCount(r) == Reads(r, {"children", "delete"}) => count[job[r].ca] = 0
KnowsChildren(r) == Reads(r, {"delete"}) => Children(job[r].ca) = {}
KnowsChain(r) == Reads(r, {"append"}) => chain[job[r].ca] \subseteq job[r].copy
KnowsExtension(r) ==
    Reads(r, {"validate", "authority", "count"}) /\ job[r].template # NoTemplate =>
        /\ job[r].ext => template[job[r].template].ext /\ extension
        /\ template[job[r].template].ext /\ extension =>
             job[r].ext \/ "extensions" \in job[r].unread
KnowsAllowed(r) == Reads(r, {"authority", "count"}) /\ job[r].template # NoTemplate =>
    Allows(job[r].template, job[r].ca) \/ "validate" \in job[r].unread
KnowsActive(r) == Reads(r, {"count"}) => ca[job[r].ca] = "active"
KnowsSource(r) == Reads(r, {"renew"}) => status[job[r].source] # "revoked"

KnowsOK(r) == /\ KnowsCount(r) /\ KnowsChildren(r) /\ KnowsChain(r)
              /\ KnowsExtension(r) /\ KnowsAllowed(r) /\ KnowsActive(r) /\ KnowsSource(r)
Knows == \A r \in Requests : KnowsOK(r)

\* A certificate has an issuer, and a CA has issued, or is about to count or store
\* an issue or to store a renewal, only once it was made.
Made ==
    /\ \A x \in Certs : /\ status[x] # "none" => issuer[x] \in CAs
                        /\ issuer[x] \in CAs => ca[issuer[x]] # "none"
    /\ \A r \in Requests : job[r].pc \in {"count", "store", "renew"} => ca[job[r].ca] # "none"

\* issued_count covers what is handed out and what is counted but not stored yet.
Storing(c) == {x \in Certs : \E r \in Requests : /\ job[r].pc = "store" /\ job[r].ca = c
                                                 /\ job[r].cert = x}
Covered(c) == IssuedBy(c) \cup Storing(c)
Counts == \A c \in CAs : There(c) => Cardinality(Covered(c)) <= count[c]

\* A revocation that has marked the row goes for the list of its issuer.
Marking == \A r \in Requests : job[r].pc = "mark" =>
    job[r].ca = issuer[job[r].source] /\ status[job[r].source] # "none" /\ ~job[r].onCard
Listing(x) == \E r \in Requests : /\ job[r].pc \in {"lookup", "insert"}
                                  /\ job[r].source = x /\ job[r].ca = issuer[x]
                                  /\ ~job[r].onCard
Listed == \A x \in Certs \ renewed :
    status[x] = "revoked" => x \in revoked[issuer[x]] \/ x \in lost \/ Listing(x)

IInv == TypeOK /\ Shapes /\ Claims /\ Knows /\ Made /\ Counts /\ Marking /\ Listed

-----------------------------------------------------------------------------
(* Types.                                                                   *)

LEMMA IdleIsJob == Idle \in Jobs
BY DEF Idle, Jobs, Steps

LEMMA JobFields ==
    ASSUME TypeOK, NEW r \in Requests
    PROVE  /\ job[r].ca \in CAs \cup {NoCA} /\ job[r].cert \in Certs \cup {NoCert}
           /\ job[r].copy \subseteq Chains /\ job[r].onCard \in BOOLEAN
BY DEF TypeOK, Jobs

-----------------------------------------------------------------------------
(* What a step does to the jobs, field by field.                            *)

\* The job of q stays where it is; at most it becomes stale.
Same(q) ==
    /\ job'[q].pc = job[q].pc /\ job'[q].ca = job[q].ca
    /\ job'[q].cert = job[q].cert /\ job'[q].source = job[q].source
    /\ job'[q].template = job[q].template /\ job'[q].chain = job[q].chain
    /\ job'[q].copy = job[q].copy /\ job'[q].onCard = job[q].onCard
    /\ job'[q].ext = job[q].ext /\ job'[q].unread = job[q].unread
    /\ (job[q].stale => job'[q].stale)

\* The job of r goes on to another step, and to nothing else.
Moved(r, pc) ==
    /\ job'[r].pc = pc /\ job'[r].ca = job[r].ca
    /\ job'[r].cert = job[r].cert /\ job'[r].source = job[r].source
    /\ job'[r].template = job[r].template /\ job'[r].chain = job[r].chain
    /\ job'[r].copy = job[r].copy /\ job'[r].onCard = job[r].onCard
    /\ job'[r].ext = job[r].ext /\ job'[r].unread = job[r].unread
    /\ (job[r].stale => job'[r].stale)

Gone(r) == job'[r].pc = "idle" /\ job'[r].cert = NoCert

Others(r) == \A q \in Requests \ {r} : Same(q)

\* Another request has changed what these have read.
LEMMA JobsTouched ==
    ASSUME TypeOK, NEW S, job' = Touch(job, S)
    PROVE  /\ job' \in [Requests -> Jobs]
           /\ \A q \in Requests : Same(q) /\ (q \in S => job'[q].stale)
<1>1. ASSUME NEW q \in Requests
      PROVE  job'[q] \in Jobs /\ Same(q) /\ (q \in S => job'[q].stale)
  <2>1. job[q] \in Jobs
    BY DEF TypeOK
  <2>2. CASE q \in S
    <3>1. PICK j \in Jobs : j = [job[q] EXCEPT !.stale = TRUE]
      BY <2>1 DEF Jobs
    <3>2. job'[q] = j
      BY <2>2, <3>1 DEF Touch
    <3> QED BY <2>1, <3>1, <3>2 DEF Jobs, Same
  <2>3. CASE q \notin S
    BY <2>1, <2>3 DEF Touch, Same
  <2> QED BY <2>2, <2>3
<1> QED BY <1>1 DEF Touch

LEMMA JobEnded ==
    ASSUME TypeOK, NEW r \in Requests, job' = End(r)
    PROVE  job' \in [Requests -> Jobs] /\ Others(r) /\ Gone(r)
<1>1. job' \in [Requests -> Jobs]
  BY IdleIsJob DEF End, TypeOK
<1>2. Others(r)
  BY DEF End, TypeOK, Others, Same
<1>3. Gone(r)
  BY DEF End, TypeOK, Gone, Idle
<1> QED BY <1>1, <1>2, <1>3

LEMMA JobStepped ==
    ASSUME TypeOK, NEW r \in Requests, NEW pc \in Steps, job' = Step(r, pc)
    PROVE  job' \in [Requests -> Jobs] /\ Others(r) /\ Moved(r, pc)
<1>0. job[r] \in Jobs
  BY DEF TypeOK
<1>1. [job[r] EXCEPT !.pc = pc] \in Jobs
  BY <1>0 DEF Jobs
<1>2. job' = [job EXCEPT ![r] = [job[r] EXCEPT !.pc = pc]]
  BY DEF Step
<1>3. job' \in [Requests -> Jobs]
  BY <1>1, <1>2 DEF TypeOK
<1>4. Others(r)
  BY <1>2 DEF TypeOK, Others, Same
<1>5. Moved(r, pc)
  BY <1>0, <1>2 DEF TypeOK, Jobs, Moved
<1> QED BY <1>3, <1>4, <1>5

LEMMA JobBegun ==
    ASSUME TypeOK, NEW r \in Requests, NEW j \in Jobs, Begin(r, j)
    PROVE  /\ job' \in [Requests -> Jobs] /\ Others(r) /\ job'[r] = j
           /\ job[r].pc = "idle" /\ job[r].cert = NoCert
<1>1. job' \in [Requests -> Jobs] /\ job'[r] = j
  BY DEF Begin, TypeOK
<1>2. Others(r)
  BY DEF Begin, TypeOK, Others, Same
<1> QED BY <1>1, <1>2 DEF Begin, Idle

\* A step of r that also changes what others have read.
LEMMA JobEndedTouched ==
    ASSUME TypeOK, NEW r \in Requests, NEW S, job' = Touch(End(r), S)
    PROVE  /\ job' \in [Requests -> Jobs] /\ Others(r) /\ Gone(r)
           /\ \A q \in Requests : q \in S => job'[q].stale
<1>1. ASSUME NEW q \in Requests PROVE End(r)[q] \in Jobs
  BY IdleIsJob DEF End, TypeOK
<1>2. ASSUME NEW q \in Requests
      PROVE  job'[q] \in Jobs /\ (q \in S => job'[q].stale)
  BY <1>1 DEF Touch, Jobs
<1>3. job' \in [Requests -> Jobs]
  BY <1>2 DEF Touch
<1>4. ASSUME NEW q \in Requests \ {r} PROVE Same(q)
  <2>1. End(r)[q] = job[q] /\ job[q] \in Jobs
    BY DEF End, TypeOK
  <2> QED BY <2>1 DEF Touch, Same, Jobs
<1>5. End(r)[r] = Idle
  BY DEF End, TypeOK
<1>6. Gone(r)
  BY <1>5 DEF Touch, Gone, Idle
<1> QED BY <1>2, <1>3, <1>4, <1>6 DEF Others

LEMMA JobSteppedTouched ==
    ASSUME TypeOK, NEW r \in Requests, NEW pc \in Steps, NEW S, job' = Touch(Step(r, pc), S)
    PROVE  /\ job' \in [Requests -> Jobs] /\ Others(r) /\ Moved(r, pc)
           /\ \A q \in Requests : q \in S => job'[q].stale
<1>0. job[r] \in Jobs
  BY DEF TypeOK
<1>1. [job[r] EXCEPT !.pc = pc] \in Jobs
  BY <1>0 DEF Jobs
<1>2. Step(r, pc) = [job EXCEPT ![r] = [job[r] EXCEPT !.pc = pc]]
  BY DEF Step
<1>3. ASSUME NEW q \in Requests PROVE Step(r, pc)[q] \in Jobs
  BY <1>1, <1>2 DEF TypeOK
<1>4. ASSUME NEW q \in Requests
      PROVE  job'[q] \in Jobs /\ (q \in S => job'[q].stale)
  BY <1>3 DEF Touch, Jobs
<1>5. job' \in [Requests -> Jobs]
  BY <1>4 DEF Touch
<1>6. ASSUME NEW q \in Requests \ {r} PROVE Same(q)
  <2>1. Step(r, pc)[q] = job[q] /\ job[q] \in Jobs
    BY <1>2 DEF TypeOK
  <2> QED BY <2>1 DEF Touch, Same, Jobs
<1>7. Step(r, pc)[r] = [job[r] EXCEPT !.pc = pc]
  BY <1>2 DEF TypeOK
<1>8. Moved(r, pc)
  BY <1>0, <1>7 DEF Touch, Moved, Jobs
<1> QED BY <1>4, <1>5, <1>6, <1>8 DEF Others

\* What the jobs know is still so when the tables have not changed.
LEMMA NothingRead ==
    ASSUME Shapes, Knows, NEW q \in Requests, Same(q),
           UNCHANGED <<authorities, certificates, templates>>
    PROVE  KnowsOK(q)'
<1>1. KnowsCount(q)' /\ KnowsChain(q)' /\ KnowsActive(q)' /\ KnowsSource(q)'
  BY DEF Knows, KnowsOK, KnowsCount, KnowsChain, KnowsActive, KnowsSource, Reads, Same,
     authorities, certificates
<1>2. KnowsChildren(q)'
  BY DEF Knows, KnowsOK, KnowsChildren, Children, There, Reads, Same, authorities
<1>3. KnowsExtension(q)' /\ KnowsAllowed(q)'
  BY DEF Knows, KnowsOK, KnowsExtension, KnowsAllowed, Allows, Reads, Same, templates
<1> QED BY <1>1, <1>2, <1>3 DEF KnowsOK

\* What is handed out grows by one at most.
LEMMA CoveredAtMost ==
    ASSUME NEW S \in SUBSET Certs, NEW n \in Nat, Cardinality(S) <= n, NEW R, R \subseteq S
    PROVE  Cardinality(R) <= n
<1>1. IsFiniteSet(S) /\ Cardinality(S) \in Nat
  BY FiniteAssumption, FS_Subset, FS_CardinalityType
<1> QED BY <1>1, FS_Subset, FS_CardinalityType

LEMMA CoveredOneMore ==
    ASSUME NEW S \in SUBSET Certs, NEW n \in Nat, Cardinality(S) <= n, NEW x \in Certs,
           NEW R, R \subseteq S \cup {x}
    PROVE  Cardinality(R) <= n + 1
<1>1. IsFiniteSet(S) /\ Cardinality(S) \in Nat
  BY FiniteAssumption, FS_Subset, FS_CardinalityType
<1>2. /\ IsFiniteSet(S \cup {x})
      /\ Cardinality(S \cup {x}) = IF x \in S THEN Cardinality(S) ELSE Cardinality(S) + 1
  BY <1>1, FS_AddElement
<1> QED BY <1>1, <1>2, FS_Subset, FS_CardinalityType

-----------------------------------------------------------------------------
(* Every action preserves the invariant.                                    *)

LEMMA CreateCAKeeps ==
    ASSUME IInv, NEW c \in CAs, NEW p \in CAs \cup {NoCA}, CreateCA(c, p)
    PROVE  IInv'
<1>0. TypeOK /\ Shapes /\ Claims /\ Knows /\ Made /\ Counts /\ Marking /\ Listed
  BY DEF IInv
<1>1. /\ job' \in [Requests -> Jobs]
      /\ \A q \in Requests : Same(q)
      /\ \A q \in Requests :
           job[q].pc \in {"children", "delete"} /\ job[q].ca = p => job'[q].stale
  BY <1>0, JobsTouched DEF CreateCA, Deleting, At
<1>2. /\ ca[c] = "none"
      /\ ca' = [ca EXCEPT ![c] = "active"]
      /\ parent' = [parent EXCEPT ![c] = p]
      /\ UNCHANGED <<count, chain, revoked, certificates, templates, lost>>
  BY <1>0, <1>1 DEF CreateCA
<1>3. TypeOK'
  BY <1>0, <1>1, <1>2 DEF TypeOK, Shapes, ShapeOK, Rows, NoRow, certificates, templates
<1>4. Shapes'
  BY <1>0, <1>1, <1>2 DEF Shapes, ShapeOK, Same, Others, Moved, Gone
<1>5. Claims'
  BY <1>0, <1>1, <1>2 DEF Claims, Same, Others, Moved, Gone, certificates
<1>6. Knows'
  <2>1. ASSUME NEW q \in Requests PROVE KnowsCount(q)'
    BY <1>0, <1>1, <1>2, <2>1
       DEF Knows, KnowsOK, KnowsCount, Reads, Shapes, ShapeOK, Same, TypeOK
  <2>2. ASSUME NEW q \in Requests PROVE KnowsChildren(q)'
    BY <1>0, <1>1, <1>2, <2>2
       DEF Knows, KnowsOK, KnowsChildren, Children, There, Reads, Shapes, ShapeOK, Same,
       TypeOK
  <2>3. ASSUME NEW q \in Requests PROVE KnowsChain(q)'
    BY <1>0, <1>1, <1>2, <2>3
       DEF Knows, KnowsOK, KnowsChain, Reads, Shapes, ShapeOK, Same, TypeOK
  <2>4. ASSUME NEW q \in Requests PROVE KnowsExtension(q)'
    BY <1>0, <1>1, <1>2, <2>4
       DEF Knows, KnowsOK, KnowsExtension, Reads, Shapes, ShapeOK, Same, templates,
       TypeOK
  <2>5. ASSUME NEW q \in Requests PROVE KnowsAllowed(q)'
    BY <1>0, <1>1, <1>2, <2>5
       DEF Knows, KnowsOK, KnowsAllowed, Allows, Reads, Shapes, ShapeOK, Same,
       templates, TypeOK
  <2>6. ASSUME NEW q \in Requests PROVE KnowsActive(q)'
    BY <1>0, <1>1, <1>2, <2>6
       DEF Knows, KnowsOK, KnowsActive, Reads, Shapes, ShapeOK, Same, TypeOK
  <2>7. ASSUME NEW q \in Requests PROVE KnowsSource(q)'
    BY <1>0, <1>1, <1>2, <2>7
       DEF Knows, KnowsOK, KnowsSource, Reads, Shapes, ShapeOK, Same, certificates,
       TypeOK
  <2> QED BY <2>1, <2>2, <2>3, <2>4, <2>5, <2>6, <2>7 DEF Knows, KnowsOK
<1>7. Made'
  BY <1>0, <1>1, <1>2 DEF Made, Shapes, ShapeOK, Same, Others, Moved, Gone, There,
     certificates, TypeOK, Knows, KnowsActive, Reads
<1>8. Counts'
  <2>1. ASSUME NEW d \in CAs PROVE Covered(d)' = Covered(d)
    BY <1>1, <1>2 DEF Covered, IssuedBy, Storing, Same, certificates
  <2>2. Covered(c) = {}
    BY <1>0, <1>2 DEF Covered, IssuedBy, Storing, Made
  <2>3. Cardinality(Covered(c)) <= count[c]
    BY <1>0, <2>2, FS_EmptySet DEF TypeOK
  <2> QED BY <1>0, <1>2, <2>1, <2>3 DEF Counts, There, TypeOK
<1>9. Marking'
  BY <1>0, <1>1, <1>2 DEF Marking, Shapes, ShapeOK, Same, Others, Moved, Gone,
     certificates
<1>10. Listed'
  BY <1>0, <1>1, <1>2 DEF Listed, Listing, Same, Others, Moved, Gone, certificates
<1> QED BY <1>3, <1>4, <1>5, <1>6, <1>7, <1>8, <1>9, <1>10 DEF IInv

LEMMA UpdateCAKeeps ==
    ASSUME IInv, NEW c \in CAs, NEW s \in {"active", "disabled"}, UpdateCA(c, s)
    PROVE  IInv'
<1>0. TypeOK /\ Shapes /\ Claims /\ Knows /\ Made /\ Counts /\ Marking /\ Listed
  BY DEF IInv
<1>1. /\ job' \in [Requests -> Jobs]
      /\ \A q \in Requests : Same(q)
      /\ \A q \in Requests : job[q].pc = "count" /\ job[q].ca = c => job'[q].stale
  BY <1>0, JobsTouched DEF UpdateCA, Issuing, At
<1>2. /\ There(c)
      /\ ca' = [ca EXCEPT ![c] = s]
      /\ UNCHANGED <<parent, count, chain, revoked, certificates, templates, lost>>
  BY <1>0, <1>1 DEF UpdateCA
<1>3. TypeOK'
  BY <1>0, <1>1, <1>2 DEF TypeOK, Shapes, ShapeOK, Rows, NoRow, certificates, templates,
     There
<1>4. Shapes'
  BY <1>0, <1>1, <1>2 DEF Shapes, ShapeOK, Same, Others, Moved, Gone
<1>5. Claims'
  BY <1>0, <1>1, <1>2 DEF Claims, Same, Others, Moved, Gone, certificates, There
<1>6. Knows'
  <2>1. ASSUME NEW q \in Requests PROVE KnowsCount(q)'
    BY <1>0, <1>1, <1>2, <2>1
       DEF Knows, KnowsOK, KnowsCount, Reads, Shapes, ShapeOK, Same, TypeOK
  <2>2. ASSUME NEW q \in Requests PROVE KnowsChildren(q)'
    BY <1>0, <1>1, <1>2, <2>2
       DEF Knows, KnowsOK, KnowsChildren, Children, There, Reads, Shapes, ShapeOK, Same,
       TypeOK
  <2>3. ASSUME NEW q \in Requests PROVE KnowsChain(q)'
    BY <1>0, <1>1, <1>2, <2>3
       DEF Knows, KnowsOK, KnowsChain, Reads, Shapes, ShapeOK, Same, TypeOK
  <2>4. ASSUME NEW q \in Requests PROVE KnowsExtension(q)'
    BY <1>0, <1>1, <1>2, <2>4
       DEF Knows, KnowsOK, KnowsExtension, Reads, Shapes, ShapeOK, Same, templates,
       TypeOK
  <2>5. ASSUME NEW q \in Requests PROVE KnowsAllowed(q)'
    BY <1>0, <1>1, <1>2, <2>5
       DEF Knows, KnowsOK, KnowsAllowed, Allows, Reads, Shapes, ShapeOK, Same,
       templates, TypeOK
  <2>6. ASSUME NEW q \in Requests PROVE KnowsActive(q)'
    BY <1>0, <1>1, <1>2, <2>6
       DEF Knows, KnowsOK, KnowsActive, Reads, Shapes, ShapeOK, Same, There, TypeOK
  <2>7. ASSUME NEW q \in Requests PROVE KnowsSource(q)'
    BY <1>0, <1>1, <1>2, <2>7
       DEF Knows, KnowsOK, KnowsSource, Reads, Shapes, ShapeOK, Same, certificates,
       There, TypeOK
  <2> QED BY <2>1, <2>2, <2>3, <2>4, <2>5, <2>6, <2>7 DEF Knows, KnowsOK
<1>7. Made'
  BY <1>0, <1>1, <1>2 DEF Made, Shapes, ShapeOK, Same, Others, Moved, Gone, There,
     certificates, TypeOK, Knows, KnowsActive, Reads
<1>8. Counts'
  BY <1>0, <1>1, <1>2 DEF Counts, Covered, IssuedBy, Storing, Same, Others, Moved, Gone,
     There, certificates
<1>9. Marking'
  BY <1>0, <1>1, <1>2 DEF Marking, Shapes, ShapeOK, Same, Others, Moved, Gone,
     certificates, There
<1>10. Listed'
  BY <1>0, <1>1, <1>2 DEF Listed, Listing, Same, Others, Moved, Gone, certificates, There
<1> QED BY <1>3, <1>4, <1>5, <1>6, <1>7, <1>8, <1>9, <1>10 DEF IInv

LEMMA CreateTemplateKeeps ==
    ASSUME IInv, NEW t \in Templates, NEW cas \in SUBSET CAs,
           NEW e \in BOOLEAN, CreateTemplate(t, cas, e)
    PROVE  IInv'
<1>0. TypeOK /\ Shapes /\ Claims /\ Knows /\ Made /\ Counts /\ Marking /\ Listed
  BY DEF IInv
<1>1. /\ job' \in [Requests -> Jobs]
      /\ \A q \in Requests : Same(q)
      /\ \A q \in Requests :
           job[q].pc \in {"extensions", "validate", "authority", "count"} => job'[q].stale
  BY <1>0, JobsTouched DEF CreateTemplate, Applying, At
<1>2. /\ template' = [template EXCEPT ![t] = [there |-> TRUE, cas |-> cas, ext |-> e]]
      /\ UNCHANGED <<authorities, revoked, certificates, extension, lost>>
  BY <1>0, <1>1 DEF CreateTemplate
<1>3. TypeOK'
  BY <1>0, <1>1, <1>2 DEF TypeOK, Shapes, ShapeOK, Rows, NoRow, authorities, certificates
<1>4. Shapes'
  BY <1>0, <1>1, <1>2 DEF Shapes, ShapeOK, Same, Others, Moved, Gone
<1>5. Claims'
  BY <1>0, <1>1, <1>2 DEF Claims, Same, Others, Moved, Gone, certificates
<1>6. Knows'
  <2>1. ASSUME NEW q \in Requests PROVE KnowsCount(q)'
    BY <1>0, <1>1, <1>2, <2>1
       DEF Knows, KnowsOK, KnowsCount, Reads, Shapes, ShapeOK, Same, authorities, TypeOK
  <2>2. ASSUME NEW q \in Requests PROVE KnowsChildren(q)'
    BY <1>0, <1>1, <1>2, <2>2
       DEF Knows, KnowsOK, KnowsChildren, Children, There, Reads, Shapes, ShapeOK, Same,
       authorities, TypeOK
  <2>3. ASSUME NEW q \in Requests PROVE KnowsChain(q)'
    BY <1>0, <1>1, <1>2, <2>3
       DEF Knows, KnowsOK, KnowsChain, Reads, Shapes, ShapeOK, Same, authorities, TypeOK
  <2>4. ASSUME NEW q \in Requests PROVE KnowsExtension(q)'
    BY <1>0, <1>1, <1>2, <2>4
       DEF Knows, KnowsOK, KnowsExtension, Reads, Shapes, ShapeOK, Same, TypeOK, Rows,
       NoRow
  <2>5. ASSUME NEW q \in Requests PROVE KnowsAllowed(q)'
    BY <1>0, <1>1, <1>2, <2>5
       DEF Knows, KnowsOK, KnowsAllowed, Allows, Reads, Shapes, ShapeOK, Same, TypeOK,
       Rows, NoRow
  <2>6. ASSUME NEW q \in Requests PROVE KnowsActive(q)'
    BY <1>0, <1>1, <1>2, <2>6
       DEF Knows, KnowsOK, KnowsActive, Reads, Shapes, ShapeOK, Same, authorities,
       TypeOK
  <2>7. ASSUME NEW q \in Requests PROVE KnowsSource(q)'
    BY <1>0, <1>1, <1>2, <2>7
       DEF Knows, KnowsOK, KnowsSource, Reads, Shapes, ShapeOK, Same, certificates,
       TypeOK
  <2> QED BY <2>1, <2>2, <2>3, <2>4, <2>5, <2>6, <2>7 DEF Knows, KnowsOK
<1>7. Made'
  BY <1>0, <1>1, <1>2 DEF Made, Shapes, ShapeOK, Same, Others, Moved, Gone, There,
     authorities, certificates
<1>8. Counts'
  BY <1>0, <1>1, <1>2 DEF Counts, Covered, IssuedBy, Storing, Same, Others, Moved, Gone,
     There, authorities, certificates
<1>9. Marking'
  BY <1>0, <1>1, <1>2 DEF Marking, Shapes, ShapeOK, Same, Others, Moved, Gone,
     certificates
<1>10. Listed'
  BY <1>0, <1>1, <1>2 DEF Listed, Listing, Same, Others, Moved, Gone, certificates
<1> QED BY <1>3, <1>4, <1>5, <1>6, <1>7, <1>8, <1>9, <1>10 DEF IInv

LEMMA UpdateTemplateKeeps ==
    ASSUME IInv, NEW t \in Templates, NEW cas \in SUBSET CAs,
           NEW e \in BOOLEAN, UpdateTemplate(t, cas, e)
    PROVE  IInv'
<1>0. TypeOK /\ Shapes /\ Claims /\ Knows /\ Made /\ Counts /\ Marking /\ Listed
  BY DEF IInv
<1>1. /\ job' \in [Requests -> Jobs]
      /\ \A q \in Requests : Same(q)
      /\ \A q \in Requests :
           job[q].pc \in {"extensions", "validate", "authority", "count"} => job'[q].stale
  BY <1>0, JobsTouched DEF UpdateTemplate, Applying, At
<1>2. /\ template' = [template EXCEPT ![t] = [there |-> TRUE, cas |-> cas, ext |-> e]]
      /\ UNCHANGED <<authorities, revoked, certificates, extension, lost>>
  BY <1>0, <1>1 DEF UpdateTemplate
<1>3. TypeOK'
  BY <1>0, <1>1, <1>2 DEF TypeOK, Shapes, ShapeOK, Rows, NoRow, authorities, certificates
<1>4. Shapes'
  BY <1>0, <1>1, <1>2 DEF Shapes, ShapeOK, Same, Others, Moved, Gone
<1>5. Claims'
  BY <1>0, <1>1, <1>2 DEF Claims, Same, Others, Moved, Gone, certificates
<1>6. Knows'
  <2>1. ASSUME NEW q \in Requests PROVE KnowsCount(q)'
    BY <1>0, <1>1, <1>2, <2>1
       DEF Knows, KnowsOK, KnowsCount, Reads, Shapes, ShapeOK, Same, authorities, TypeOK
  <2>2. ASSUME NEW q \in Requests PROVE KnowsChildren(q)'
    BY <1>0, <1>1, <1>2, <2>2
       DEF Knows, KnowsOK, KnowsChildren, Children, There, Reads, Shapes, ShapeOK, Same,
       authorities, TypeOK
  <2>3. ASSUME NEW q \in Requests PROVE KnowsChain(q)'
    BY <1>0, <1>1, <1>2, <2>3
       DEF Knows, KnowsOK, KnowsChain, Reads, Shapes, ShapeOK, Same, authorities, TypeOK
  <2>4. ASSUME NEW q \in Requests PROVE KnowsExtension(q)'
    BY <1>0, <1>1, <1>2, <2>4
       DEF Knows, KnowsOK, KnowsExtension, Reads, Shapes, ShapeOK, Same, TypeOK, Rows,
       NoRow
  <2>5. ASSUME NEW q \in Requests PROVE KnowsAllowed(q)'
    BY <1>0, <1>1, <1>2, <2>5
       DEF Knows, KnowsOK, KnowsAllowed, Allows, Reads, Shapes, ShapeOK, Same, TypeOK,
       Rows, NoRow
  <2>6. ASSUME NEW q \in Requests PROVE KnowsActive(q)'
    BY <1>0, <1>1, <1>2, <2>6
       DEF Knows, KnowsOK, KnowsActive, Reads, Shapes, ShapeOK, Same, authorities,
       TypeOK
  <2>7. ASSUME NEW q \in Requests PROVE KnowsSource(q)'
    BY <1>0, <1>1, <1>2, <2>7
       DEF Knows, KnowsOK, KnowsSource, Reads, Shapes, ShapeOK, Same, certificates,
       TypeOK
  <2> QED BY <2>1, <2>2, <2>3, <2>4, <2>5, <2>6, <2>7 DEF Knows, KnowsOK
<1>7. Made'
  BY <1>0, <1>1, <1>2 DEF Made, Shapes, ShapeOK, Same, Others, Moved, Gone, There,
     authorities, certificates
<1>8. Counts'
  BY <1>0, <1>1, <1>2 DEF Counts, Covered, IssuedBy, Storing, Same, Others, Moved, Gone,
     There, authorities, certificates
<1>9. Marking'
  BY <1>0, <1>1, <1>2 DEF Marking, Shapes, ShapeOK, Same, Others, Moved, Gone,
     certificates
<1>10. Listed'
  BY <1>0, <1>1, <1>2 DEF Listed, Listing, Same, Others, Moved, Gone, certificates
<1> QED BY <1>3, <1>4, <1>5, <1>6, <1>7, <1>8, <1>9, <1>10 DEF IInv

LEMMA DeleteTemplateKeeps ==
    ASSUME IInv, NEW t \in Templates, DeleteTemplate(t)
    PROVE  IInv'
<1>0. TypeOK /\ Shapes /\ Claims /\ Knows /\ Made /\ Counts /\ Marking /\ Listed
  BY DEF IInv
<1>1. /\ job' \in [Requests -> Jobs]
      /\ \A q \in Requests : Same(q)
      /\ \A q \in Requests :
           job[q].pc \in {"extensions", "validate", "authority", "count"} => job'[q].stale
  BY <1>0, JobsTouched DEF DeleteTemplate, Applying, At
<1>2. /\ template' = [template EXCEPT ![t] = NoRow]
      /\ UNCHANGED <<authorities, revoked, certificates, extension, lost>>
  BY <1>0, <1>1 DEF DeleteTemplate, RowAfterDelete
<1>3. TypeOK'
  BY <1>0, <1>1, <1>2 DEF TypeOK, Shapes, ShapeOK, Rows, NoRow, authorities, certificates
<1>4. Shapes'
  BY <1>0, <1>1, <1>2 DEF Shapes, ShapeOK, Same, Others, Moved, Gone
<1>5. Claims'
  BY <1>0, <1>1, <1>2 DEF Claims, Same, Others, Moved, Gone, certificates
<1>6. Knows'
  <2>1. ASSUME NEW q \in Requests PROVE KnowsCount(q)'
    BY <1>0, <1>1, <1>2, <2>1
       DEF Knows, KnowsOK, KnowsCount, Reads, Shapes, ShapeOK, Same, authorities, TypeOK
  <2>2. ASSUME NEW q \in Requests PROVE KnowsChildren(q)'
    BY <1>0, <1>1, <1>2, <2>2
       DEF Knows, KnowsOK, KnowsChildren, Children, There, Reads, Shapes, ShapeOK, Same,
       authorities, TypeOK
  <2>3. ASSUME NEW q \in Requests PROVE KnowsChain(q)'
    BY <1>0, <1>1, <1>2, <2>3
       DEF Knows, KnowsOK, KnowsChain, Reads, Shapes, ShapeOK, Same, authorities, TypeOK
  <2>4. ASSUME NEW q \in Requests PROVE KnowsExtension(q)'
    BY <1>0, <1>1, <1>2, <2>4
       DEF Knows, KnowsOK, KnowsExtension, Reads, Shapes, ShapeOK, Same, TypeOK, Rows,
       NoRow
  <2>5. ASSUME NEW q \in Requests PROVE KnowsAllowed(q)'
    BY <1>0, <1>1, <1>2, <2>5
       DEF Knows, KnowsOK, KnowsAllowed, Allows, Reads, Shapes, ShapeOK, Same, TypeOK,
       Rows, NoRow
  <2>6. ASSUME NEW q \in Requests PROVE KnowsActive(q)'
    BY <1>0, <1>1, <1>2, <2>6
       DEF Knows, KnowsOK, KnowsActive, Reads, Shapes, ShapeOK, Same, authorities,
       TypeOK
  <2>7. ASSUME NEW q \in Requests PROVE KnowsSource(q)'
    BY <1>0, <1>1, <1>2, <2>7
       DEF Knows, KnowsOK, KnowsSource, Reads, Shapes, ShapeOK, Same, certificates,
       TypeOK
  <2> QED BY <2>1, <2>2, <2>3, <2>4, <2>5, <2>6, <2>7 DEF Knows, KnowsOK
<1>7. Made'
  BY <1>0, <1>1, <1>2 DEF Made, Shapes, ShapeOK, Same, Others, Moved, Gone, There,
     authorities, certificates
<1>8. Counts'
  BY <1>0, <1>1, <1>2 DEF Counts, Covered, IssuedBy, Storing, Same, Others, Moved, Gone,
     There, authorities, certificates
<1>9. Marking'
  BY <1>0, <1>1, <1>2 DEF Marking, Shapes, ShapeOK, Same, Others, Moved, Gone,
     certificates
<1>10. Listed'
  BY <1>0, <1>1, <1>2 DEF Listed, Listing, Same, Others, Moved, Gone, certificates
<1> QED BY <1>3, <1>4, <1>5, <1>6, <1>7, <1>8, <1>9, <1>10 DEF IInv

LEMMA CreateCertExtTemplateKeeps ==
    ASSUME IInv, CreateCertExtTemplate
    PROVE  IInv'
<1>0. TypeOK /\ Shapes /\ Claims /\ Knows /\ Made /\ Counts /\ Marking /\ Listed
  BY DEF IInv
<1>1. /\ job' \in [Requests -> Jobs]
      /\ \A q \in Requests : Same(q)
      /\ \A q \in Requests :
           job[q].pc \in {"extensions", "validate", "authority", "count"} => job'[q].stale
  BY <1>0, JobsTouched DEF CreateCertExtTemplate, Applying, At
<1>2. /\ extension' = TRUE
      /\ UNCHANGED <<authorities, revoked, certificates, template, lost>>
  BY <1>0, <1>1 DEF CreateCertExtTemplate
<1>3. TypeOK'
  BY <1>0, <1>1, <1>2 DEF TypeOK, Shapes, ShapeOK, Rows, NoRow, authorities, certificates
<1>4. Shapes'
  BY <1>0, <1>1, <1>2 DEF Shapes, ShapeOK, Same, Others, Moved, Gone
<1>5. Claims'
  BY <1>0, <1>1, <1>2 DEF Claims, Same, Others, Moved, Gone, certificates
<1>6. Knows'
  <2>1. ASSUME NEW q \in Requests PROVE KnowsCount(q)'
    BY <1>0, <1>1, <1>2, <2>1
       DEF Knows, KnowsOK, KnowsCount, Reads, Shapes, ShapeOK, Same, authorities
  <2>2. ASSUME NEW q \in Requests PROVE KnowsChildren(q)'
    BY <1>0, <1>1, <1>2, <2>2
       DEF Knows, KnowsOK, KnowsChildren, Children, There, Reads, Shapes, ShapeOK, Same,
       authorities
  <2>3. ASSUME NEW q \in Requests PROVE KnowsChain(q)'
    BY <1>0, <1>1, <1>2, <2>3
       DEF Knows, KnowsOK, KnowsChain, Reads, Shapes, ShapeOK, Same, authorities
  <2>4. ASSUME NEW q \in Requests PROVE KnowsExtension(q)'
    BY <1>0, <1>1, <1>2, <2>4
       DEF Knows, KnowsOK, KnowsExtension, Reads, Shapes, ShapeOK, Same
  <2>5. ASSUME NEW q \in Requests PROVE KnowsAllowed(q)'
    BY <1>0, <1>1, <1>2, <2>5
       DEF Knows, KnowsOK, KnowsAllowed, Allows, Reads, Shapes, ShapeOK, Same
  <2>6. ASSUME NEW q \in Requests PROVE KnowsActive(q)'
    BY <1>0, <1>1, <1>2, <2>6
       DEF Knows, KnowsOK, KnowsActive, Reads, Shapes, ShapeOK, Same, authorities
  <2>7. ASSUME NEW q \in Requests PROVE KnowsSource(q)'
    BY <1>0, <1>1, <1>2, <2>7
       DEF Knows, KnowsOK, KnowsSource, Reads, Shapes, ShapeOK, Same, certificates
  <2> QED BY <2>1, <2>2, <2>3, <2>4, <2>5, <2>6, <2>7 DEF Knows, KnowsOK
<1>7. Made'
  BY <1>0, <1>1, <1>2 DEF Made, Shapes, ShapeOK, Same, Others, Moved, Gone, There,
     authorities, certificates
<1>8. Counts'
  BY <1>0, <1>1, <1>2 DEF Counts, Covered, IssuedBy, Storing, Same, Others, Moved, Gone,
     There, authorities, certificates
<1>9. Marking'
  BY <1>0, <1>1, <1>2 DEF Marking, Shapes, ShapeOK, Same, Others, Moved, Gone,
     certificates
<1>10. Listed'
  BY <1>0, <1>1, <1>2 DEF Listed, Listing, Same, Others, Moved, Gone, certificates
<1> QED BY <1>3, <1>4, <1>5, <1>6, <1>7, <1>8, <1>9, <1>10 DEF IInv

LEMMA DeleteCertExtTemplateKeeps ==
    ASSUME IInv, DeleteCertExtTemplate
    PROVE  IInv'
<1>0. TypeOK /\ Shapes /\ Claims /\ Knows /\ Made /\ Counts /\ Marking /\ Listed
  BY DEF IInv
<1>1. /\ job' \in [Requests -> Jobs]
      /\ \A q \in Requests : Same(q)
      /\ \A q \in Requests :
           job[q].pc \in {"extensions", "validate", "authority", "count"} => job'[q].stale
  BY <1>0, JobsTouched DEF DeleteCertExtTemplate, Applying, At
<1>2. /\ extension' = FALSE
      /\ UNCHANGED <<authorities, revoked, certificates, template, lost>>
  BY <1>0, <1>1 DEF DeleteCertExtTemplate
<1>3. TypeOK'
  BY <1>0, <1>1, <1>2 DEF TypeOK, Shapes, ShapeOK, Rows, NoRow, authorities, certificates
<1>4. Shapes'
  BY <1>0, <1>1, <1>2 DEF Shapes, ShapeOK, Same, Others, Moved, Gone
<1>5. Claims'
  BY <1>0, <1>1, <1>2 DEF Claims, Same, Others, Moved, Gone, certificates
<1>6. Knows'
  <2>1. ASSUME NEW q \in Requests PROVE KnowsCount(q)'
    BY <1>0, <1>1, <1>2, <2>1
       DEF Knows, KnowsOK, KnowsCount, Reads, Shapes, ShapeOK, Same, authorities
  <2>2. ASSUME NEW q \in Requests PROVE KnowsChildren(q)'
    BY <1>0, <1>1, <1>2, <2>2
       DEF Knows, KnowsOK, KnowsChildren, Children, There, Reads, Shapes, ShapeOK, Same,
       authorities
  <2>3. ASSUME NEW q \in Requests PROVE KnowsChain(q)'
    BY <1>0, <1>1, <1>2, <2>3
       DEF Knows, KnowsOK, KnowsChain, Reads, Shapes, ShapeOK, Same, authorities
  <2>4. ASSUME NEW q \in Requests PROVE KnowsExtension(q)'
    BY <1>0, <1>1, <1>2, <2>4
       DEF Knows, KnowsOK, KnowsExtension, Reads, Shapes, ShapeOK, Same
  <2>5. ASSUME NEW q \in Requests PROVE KnowsAllowed(q)'
    BY <1>0, <1>1, <1>2, <2>5
       DEF Knows, KnowsOK, KnowsAllowed, Allows, Reads, Shapes, ShapeOK, Same
  <2>6. ASSUME NEW q \in Requests PROVE KnowsActive(q)'
    BY <1>0, <1>1, <1>2, <2>6
       DEF Knows, KnowsOK, KnowsActive, Reads, Shapes, ShapeOK, Same, authorities
  <2>7. ASSUME NEW q \in Requests PROVE KnowsSource(q)'
    BY <1>0, <1>1, <1>2, <2>7
       DEF Knows, KnowsOK, KnowsSource, Reads, Shapes, ShapeOK, Same, certificates
  <2> QED BY <2>1, <2>2, <2>3, <2>4, <2>5, <2>6, <2>7 DEF Knows, KnowsOK
<1>7. Made'
  BY <1>0, <1>1, <1>2 DEF Made, Shapes, ShapeOK, Same, Others, Moved, Gone, There,
     authorities, certificates
<1>8. Counts'
  BY <1>0, <1>1, <1>2 DEF Counts, Covered, IssuedBy, Storing, Same, Others, Moved, Gone,
     There, authorities, certificates
<1>9. Marking'
  BY <1>0, <1>1, <1>2 DEF Marking, Shapes, ShapeOK, Same, Others, Moved, Gone,
     certificates
<1>10. Listed'
  BY <1>0, <1>1, <1>2 DEF Listed, Listing, Same, Others, Moved, Gone, certificates
<1> QED BY <1>3, <1>4, <1>5, <1>6, <1>7, <1>8, <1>9, <1>10 DEF IInv

LEMMA DeleteCAKeeps ==
    ASSUME IInv, NEW r \in Requests, NEW c \in CAs, DeleteCA(r, c)
    PROVE  IInv'
<1>0. TypeOK /\ Shapes /\ Claims /\ Knows /\ Made /\ Counts /\ Marking /\ Listed
  BY DEF IInv
<1>1. /\ job' \in [Requests -> Jobs]
      /\ Others(r)
      /\ job[r].pc = "idle" /\ job[r].cert = NoCert
      /\ job'[r].pc = "children" /\ job'[r].ca = c /\ job'[r].cert = NoCert
      /\ job'[r].source = NoCert /\ job'[r].template = NoTemplate
      /\ job'[r].chain = NoChain /\ job'[r].copy = {}
      /\ job'[r].onCard = FALSE /\ job'[r].ext = FALSE /\ job'[r].stale = FALSE
  <2>1. [Idle EXCEPT !.pc = "children", !.ca = c] \in Jobs
    BY <1>0 DEF Idle, Jobs, Steps, TypeOK
  <2>2. Begin(r, [Idle EXCEPT !.pc = "children", !.ca = c])
    BY DEF DeleteCA
  <2>3. /\ job' \in [Requests -> Jobs] /\ Others(r)
        /\ job[r].pc = "idle" /\ job[r].cert = NoCert
        /\ job'[r] = [Idle EXCEPT !.pc = "children", !.ca = c]
    BY <1>0, <2>1, <2>2, JobBegun
  <2> QED BY <2>3 DEF Idle
<1>2. /\ There(c) /\ count[c] = 0
      /\ UNCHANGED <<authorities, revoked, certificates, templates, lost>>
  BY <1>0, <1>1 DEF DeleteCA
<1>3. TypeOK'
  BY <1>0, <1>1, <1>2 DEF TypeOK, Shapes, ShapeOK, Rows, NoRow, authorities, certificates,
     templates, There
<1>4. Shapes'
  BY <1>0, <1>1, <1>2 DEF Shapes, ShapeOK, Same, Others, Moved, Gone
<1>5. Claims'
  BY <1>0, <1>1, <1>2 DEF Claims, Same, Others, Moved, Gone, certificates, There
<1>6. Knows'
  <2>1. ASSUME NEW q \in Requests \ {r} PROVE KnowsOK(q)'
    BY <1>0, <1>1, <1>2, <2>1, NothingRead DEF Others
  <2>2. KnowsOK(r)'
    BY <1>0, <1>1, <1>2
       DEF KnowsOK, KnowsCount, KnowsChildren, KnowsChain, KnowsExtension, KnowsAllowed,
       KnowsActive, KnowsSource, Reads, authorities
  <2> QED BY <2>1, <2>2 DEF Knows
<1>7. Made'
  BY <1>0, <1>1, <1>2 DEF Made, Shapes, ShapeOK, Same, Others, Moved, Gone, There,
     authorities, certificates
<1>8. Counts'
  BY <1>0, <1>1, <1>2 DEF Counts, Covered, IssuedBy, Storing, Same, Others, Moved, Gone,
     There, authorities, certificates
<1>9. Marking'
  BY <1>0, <1>1, <1>2 DEF Marking, Shapes, ShapeOK, Same, Others, Moved, Gone,
     certificates, There
<1>10. Listed'
  BY <1>0, <1>1, <1>2 DEF Listed, Listing, Same, Others, Moved, Gone, certificates, There
<1> QED BY <1>3, <1>4, <1>5, <1>6, <1>7, <1>8, <1>9, <1>10 DEF IInv

LEMMA CountChildrenKeeps ==
    ASSUME IInv, NEW r \in Requests, CountChildren(r)
    PROVE  IInv'
<1>0. TypeOK /\ Shapes /\ Claims /\ Knows /\ Made /\ Counts /\ Marking /\ Listed
  BY DEF IInv
<1>1. /\ job' \in [Requests -> Jobs]
      /\ Others(r)
      /\ job[r].pc = "children"
      /\ Gone(r) \/ (Moved(r, "delete") /\ Children(job[r].ca) = {})
  BY <1>0, JobEnded, JobStepped DEF CountChildren, Steps
<1>2. /\ UNCHANGED <<authorities, revoked, certificates, templates, lost>>
  BY <1>0, <1>1 DEF CountChildren
<1>3. TypeOK'
  BY <1>0, <1>1, <1>2 DEF TypeOK, Shapes, ShapeOK, Rows, NoRow, authorities, certificates,
     templates
<1>4. Shapes'
  BY <1>0, <1>1, <1>2 DEF Shapes, ShapeOK, Same, Others, Moved, Gone
<1>5. Claims'
  BY <1>0, <1>1, <1>2 DEF Claims, Same, Others, Moved, Gone, certificates
<1>6. Knows'
  <2>1. ASSUME NEW q \in Requests \ {r} PROVE KnowsOK(q)'
    BY <1>0, <1>1, <1>2, <2>1, NothingRead DEF Others
  <2>2. KnowsOK(r)'
    BY <1>0, <1>1, <1>2
       DEF KnowsOK, KnowsCount, KnowsChildren, KnowsChain, KnowsExtension, KnowsAllowed,
       KnowsActive, KnowsSource, Reads, Moved, Gone, Children, There, authorities,
       Knows
  <2> QED BY <2>1, <2>2 DEF Knows
<1>7. Made'
  BY <1>0, <1>1, <1>2 DEF Made, Shapes, ShapeOK, Same, Others, Moved, Gone, There,
     authorities, certificates
<1>8. Counts'
  BY <1>0, <1>1, <1>2 DEF Counts, Covered, IssuedBy, Storing, Same, Others, Moved, Gone,
     There, authorities, certificates
<1>9. Marking'
  BY <1>0, <1>1, <1>2 DEF Marking, Shapes, ShapeOK, Same, Others, Moved, Gone,
     certificates
<1>10. Listed'
  BY <1>0, <1>1, <1>2 DEF Listed, Listing, Same, Others, Moved, Gone, certificates
<1> QED BY <1>3, <1>4, <1>5, <1>6, <1>7, <1>8, <1>9, <1>10 DEF IInv

LEMMA DeleteRowKeeps ==
    ASSUME IInv, NEW r \in Requests, DeleteRow(r)
    PROVE  IInv'
<1>0. TypeOK /\ Shapes /\ Claims /\ Knows /\ Made /\ Counts /\ Marking /\ Listed
  BY DEF IInv
<1>1. /\ job' \in [Requests -> Jobs]
      /\ Others(r)
      /\ Gone(r)
  BY <1>0, JobEndedTouched, JobEnded DEF DeleteRow, Refuse
<1>2. /\ job[r].pc = "delete"
      /\ \/ /\ There(job[r].ca) /\ revoked[job[r].ca] = {}
            /\ ca' = [ca EXCEPT ![job[r].ca] = "gone"]
            /\ \A q \in Requests \ {r} :
                 job[q].pc \in {"count", "children", "delete", "append"} /\ job[q].ca = job[r].ca =>
                   job'[q].stale
         \/ ca' = ca
      /\ UNCHANGED <<parent, count, chain, revoked, certificates, templates, lost>>
  BY <1>0, <1>1, JobEndedTouched DEF DeleteRow, Refuse, Issuing, Deleting, Appending, At
<1>3. TypeOK'
  BY <1>0, <1>1, <1>2 DEF TypeOK, Shapes, ShapeOK, Rows, NoRow, certificates, templates,
     There
<1>4. Shapes'
  BY <1>0, <1>1, <1>2 DEF Shapes, ShapeOK, Same, Others, Moved, Gone
<1>5. Claims'
  BY <1>0, <1>1, <1>2 DEF Claims, Same, Others, Moved, Gone, certificates, There
<1>6. Knows'
  <2>1. ASSUME NEW q \in Requests PROVE KnowsCount(q)'
    BY <1>0, <1>1, <1>2, <2>1
       DEF Knows, KnowsOK, KnowsCount, Reads, Shapes, ShapeOK, Same, Others, Gone,
       TypeOK
  <2>2. ASSUME NEW q \in Requests PROVE KnowsChildren(q)'
    BY <1>0, <1>1, <1>2, <2>2
       DEF Knows, KnowsOK, KnowsChildren, Children, There, Reads, Shapes, ShapeOK, Same,
       Others, Gone, TypeOK
  <2>3. ASSUME NEW q \in Requests PROVE KnowsChain(q)'
    BY <1>0, <1>1, <1>2, <2>3
       DEF Knows, KnowsOK, KnowsChain, Reads, Shapes, ShapeOK, Same, Others, Gone,
       TypeOK
  <2>4. ASSUME NEW q \in Requests PROVE KnowsExtension(q)'
    BY <1>0, <1>1, <1>2, <2>4
       DEF Knows, KnowsOK, KnowsExtension, Reads, Shapes, ShapeOK, Same, Others, Gone,
       templates, TypeOK
  <2>5. ASSUME NEW q \in Requests PROVE KnowsAllowed(q)'
    BY <1>0, <1>1, <1>2, <2>5
       DEF Knows, KnowsOK, KnowsAllowed, Allows, Reads, Shapes, ShapeOK, Same, Others,
       Gone, templates, TypeOK
  <2>6. ASSUME NEW q \in Requests PROVE KnowsActive(q)'
    BY <1>0, <1>1, <1>2, <2>6
       DEF Knows, KnowsOK, KnowsActive, Reads, Shapes, ShapeOK, Same, Others, Gone,
       There, TypeOK
  <2>7. ASSUME NEW q \in Requests PROVE KnowsSource(q)'
    BY <1>0, <1>1, <1>2, <2>7
       DEF Knows, KnowsOK, KnowsSource, Reads, Shapes, ShapeOK, Same, Others, Gone,
       certificates, There, TypeOK
  <2> QED BY <2>1, <2>2, <2>3, <2>4, <2>5, <2>6, <2>7 DEF Knows, KnowsOK
<1>7. Made'
  BY <1>0, <1>1, <1>2 DEF Made, Shapes, ShapeOK, Same, Others, Moved, Gone, There,
     certificates, TypeOK, Knows, KnowsActive, Reads
<1>8. Counts'
  <2>1. ASSUME NEW d \in CAs PROVE Covered(d)' = Covered(d)
    BY <1>1, <1>2 DEF Covered, IssuedBy, Storing, Same, Others, Gone, certificates
  <2>2. ASSUME NEW d \in CAs, There(d)' PROVE There(d)
    BY <1>0, <1>2, <2>2 DEF There, TypeOK
  <2> QED BY <1>0, <1>2, <2>1, <2>2 DEF Counts
<1>9. Marking'
  BY <1>0, <1>1, <1>2 DEF Marking, Shapes, ShapeOK, Same, Others, Moved, Gone,
     certificates, There
<1>10. Listed'
  BY <1>0, <1>1, <1>2 DEF Listed, Listing, Same, Others, Moved, Gone, certificates, There
<1> QED BY <1>3, <1>4, <1>5, <1>6, <1>7, <1>8, <1>9, <1>10 DEF IInv

LEMMA ImportChainKeeps ==
    ASSUME IInv, NEW r \in Requests, NEW c \in CAs, NEW k \in Chains, ImportChain(r, c, k)
    PROVE  IInv'
<1>0. TypeOK /\ Shapes /\ Claims /\ Knows /\ Made /\ Counts /\ Marking /\ Listed
  BY DEF IInv
<1>1. /\ job' \in [Requests -> Jobs]
      /\ Others(r)
      /\ job[r].pc = "idle" /\ job[r].cert = NoCert
      /\ job'[r].pc = "append" /\ job'[r].ca = c /\ job'[r].cert = NoCert
      /\ job'[r].source = NoCert /\ job'[r].template = NoTemplate
      /\ job'[r].chain = k /\ job'[r].copy = chain[c]
      /\ job'[r].onCard = FALSE /\ job'[r].ext = FALSE /\ job'[r].stale = FALSE
  <2>1. [Idle EXCEPT !.pc = "append", !.ca = c, !.chain = k, !.copy = chain[c]] \in Jobs
    BY <1>0 DEF Idle, Jobs, Steps, TypeOK
  <2>2. Begin(r, [Idle EXCEPT !.pc = "append", !.ca = c, !.chain = k, !.copy = chain[c]])
    BY DEF ImportChain
  <2>3. /\ job' \in [Requests -> Jobs] /\ Others(r)
        /\ job[r].pc = "idle" /\ job[r].cert = NoCert
        /\ job'[r] = [Idle EXCEPT !.pc = "append", !.ca = c, !.chain = k, !.copy = chain[c]]
    BY <1>0, <2>1, <2>2, JobBegun
  <2> QED BY <2>3 DEF Idle
<1>2. /\ There(c)
      /\ UNCHANGED <<authorities, revoked, certificates, templates, lost>>
  BY <1>0, <1>1 DEF ImportChain
<1>3. TypeOK'
  BY <1>0, <1>1, <1>2 DEF TypeOK, Shapes, ShapeOK, Rows, NoRow, authorities, certificates,
     templates, There
<1>4. Shapes'
  BY <1>0, <1>1, <1>2 DEF Shapes, ShapeOK, Same, Others, Moved, Gone
<1>5. Claims'
  BY <1>0, <1>1, <1>2 DEF Claims, Same, Others, Moved, Gone, certificates, There
<1>6. Knows'
  <2>1. ASSUME NEW q \in Requests \ {r} PROVE KnowsOK(q)'
    BY <1>0, <1>1, <1>2, <2>1, NothingRead DEF Others
  <2>2. KnowsOK(r)'
    BY <1>0, <1>1, <1>2
       DEF KnowsOK, KnowsCount, KnowsChildren, KnowsChain, KnowsExtension, KnowsAllowed,
       KnowsActive, KnowsSource, Reads, authorities
  <2> QED BY <2>1, <2>2 DEF Knows
<1>7. Made'
  BY <1>0, <1>1, <1>2 DEF Made, Shapes, ShapeOK, Same, Others, Moved, Gone, There,
     authorities, certificates
<1>8. Counts'
  BY <1>0, <1>1, <1>2 DEF Counts, Covered, IssuedBy, Storing, Same, Others, Moved, Gone,
     There, authorities, certificates
<1>9. Marking'
  BY <1>0, <1>1, <1>2 DEF Marking, Shapes, ShapeOK, Same, Others, Moved, Gone,
     certificates, There
<1>10. Listed'
  BY <1>0, <1>1, <1>2 DEF Listed, Listing, Same, Others, Moved, Gone, certificates, There
<1> QED BY <1>3, <1>4, <1>5, <1>6, <1>7, <1>8, <1>9, <1>10 DEF IInv

LEMMA AppendChainKeeps ==
    ASSUME IInv, NEW r \in Requests, AppendChain(r)
    PROVE  IInv'
<1>0. TypeOK /\ Shapes /\ Claims /\ Knows /\ Made /\ Counts /\ Marking /\ Listed
  BY DEF IInv
<1>1. /\ job' \in [Requests -> Jobs]
      /\ Others(r)
      /\ Gone(r)
  BY <1>0, JobEndedTouched, JobEnded DEF AppendChain, Refuse
<1>2. /\ job[r].pc = "append"
      /\ \/ /\ chain' = [chain EXCEPT ![job[r].ca] = Appended(r)]
            /\ \A q \in Requests \ {r} :
                 job[q].pc = "append" /\ job[q].ca = job[r].ca => job'[q].stale
         \/ chain' = chain
      /\ UNCHANGED <<ca, parent, count, revoked, certificates, templates, lost>>
  BY <1>0, <1>1, JobEndedTouched DEF AppendChain, Refuse, Appending, At
<1>3. TypeOK'
  <2>1. job[r].ca \in CAs /\ Appended(r) \subseteq Chains
    BY <1>0, <1>2, JobFields DEF Shapes, ShapeOK, Appended
  <2> QED BY <1>0, <1>1, <1>2, <2>1 DEF TypeOK, certificates, templates
<1>4. Shapes'
  BY <1>0, <1>1, <1>2 DEF Shapes, ShapeOK, Same, Others, Moved, Gone
<1>5. Claims'
  BY <1>0, <1>1, <1>2 DEF Claims, Same, Others, Moved, Gone, certificates, Appended
<1>6. Knows'
  <2>1. ASSUME NEW q \in Requests PROVE KnowsCount(q)'
    BY <1>0, <1>1, <1>2, <2>1
       DEF Knows, KnowsOK, KnowsCount, Reads, Shapes, ShapeOK, Same, Others, Gone,
       TypeOK
  <2>2. ASSUME NEW q \in Requests PROVE KnowsChildren(q)'
    BY <1>0, <1>1, <1>2, <2>2
       DEF Knows, KnowsOK, KnowsChildren, Children, There, Reads, Shapes, ShapeOK, Same,
       Others, Gone, TypeOK
  <2>3. ASSUME NEW q \in Requests PROVE KnowsChain(q)'
    BY <1>0, <1>1, <1>2, <2>3
       DEF Knows, KnowsOK, KnowsChain, Reads, Shapes, ShapeOK, Same, Others, Gone,
       Appended, TypeOK
  <2>4. ASSUME NEW q \in Requests PROVE KnowsExtension(q)'
    BY <1>0, <1>1, <1>2, <2>4
       DEF Knows, KnowsOK, KnowsExtension, Reads, Shapes, ShapeOK, Same, Others, Gone,
       templates, TypeOK
  <2>5. ASSUME NEW q \in Requests PROVE KnowsAllowed(q)'
    BY <1>0, <1>1, <1>2, <2>5
       DEF Knows, KnowsOK, KnowsAllowed, Allows, Reads, Shapes, ShapeOK, Same, Others,
       Gone, templates, TypeOK
  <2>6. ASSUME NEW q \in Requests PROVE KnowsActive(q)'
    BY <1>0, <1>1, <1>2, <2>6
       DEF Knows, KnowsOK, KnowsActive, Reads, Shapes, ShapeOK, Same, Others, Gone,
       TypeOK
  <2>7. ASSUME NEW q \in Requests PROVE KnowsSource(q)'
    BY <1>0, <1>1, <1>2, <2>7
       DEF Knows, KnowsOK, KnowsSource, Reads, Shapes, ShapeOK, Same, Others, Gone,
       certificates, TypeOK
  <2> QED BY <2>1, <2>2, <2>3, <2>4, <2>5, <2>6, <2>7 DEF Knows, KnowsOK
<1>7. Made'
  BY <1>0, <1>1, <1>2 DEF Made, Shapes, ShapeOK, Same, Others, Moved, Gone, There,
     certificates, Appended
<1>8. Counts'
  BY <1>0, <1>1, <1>2 DEF Counts, Covered, IssuedBy, Storing, Same, Others, Moved, Gone,
     There, certificates, Appended
<1>9. Marking'
  BY <1>0, <1>1, <1>2 DEF Marking, Shapes, ShapeOK, Same, Others, Moved, Gone,
     certificates, Appended
<1>10. Listed'
  BY <1>0, <1>1, <1>2 DEF Listed, Listing, Same, Others, Moved, Gone, certificates,
     Appended
<1> QED BY <1>3, <1>4, <1>5, <1>6, <1>7, <1>8, <1>9, <1>10 DEF IInv

LEMMA IssueCertKeeps ==
    ASSUME IInv, NEW r \in Requests, NEW c \in CAs, NEW t \in Templates \cup {NoTemplate}, NEW x \in Certs,
           NEW o \in BOOLEAN, IssueCert(r, c, t, x, o)
    PROVE  IInv'
<1>0. TypeOK /\ Shapes /\ Claims /\ Knows /\ Made /\ Counts /\ Marking /\ Listed
  BY DEF IInv
<1>1. /\ job' \in [Requests -> Jobs]
      /\ Others(r)
      /\ job[r].pc = "idle" /\ job[r].cert = NoCert
      /\ job'[r].pc = (IF t = NoTemplate THEN "authority" ELSE "extensions")
      /\ job'[r].ca = c /\ job'[r].cert = x
      /\ job'[r].source = NoCert /\ job'[r].template = t
      /\ job'[r].chain = NoChain /\ job'[r].copy = {}
      /\ job'[r].onCard = o /\ job'[r].ext = FALSE /\ job'[r].stale = FALSE
  <2>1. [Idle EXCEPT !.pc = IF t = NoTemplate THEN "authority" ELSE "extensions",
         !.ca = c, !.template = t, !.cert = x, !.onCard = o] \in Jobs
    BY <1>0 DEF Idle, Jobs, Steps, TypeOK
  <2>2. Begin(r, [Idle EXCEPT !.pc = IF t = NoTemplate THEN "authority" ELSE "extensions",
         !.ca = c, !.template = t, !.cert = x, !.onCard = o])
    BY DEF IssueCert
  <2>3. /\ job' \in [Requests -> Jobs] /\ Others(r)
        /\ job[r].pc = "idle" /\ job[r].cert = NoCert
        /\ job'[r] = [Idle EXCEPT !.pc = IF t = NoTemplate THEN "authority" ELSE "extensions",
           !.ca = c, !.template = t, !.cert = x, !.onCard = o]
    BY <1>0, <2>1, <2>2, JobBegun
  <2> QED BY <2>3 DEF Idle
<1>2. /\ Fresh(x)
      /\ UNCHANGED <<authorities, revoked, certificates, templates, lost>>
  BY <1>0, <1>1 DEF IssueCert
<1>3. TypeOK'
  BY <1>0, <1>1, <1>2 DEF TypeOK, Shapes, ShapeOK, Rows, NoRow, authorities, certificates,
     templates, Fresh
<1>4. Shapes'
  BY <1>0, <1>1, <1>2 DEF Shapes, ShapeOK, Same, Others, Moved, Gone
<1>5. Claims'
  BY <1>0, <1>1, <1>2 DEF Claims, Same, Others, Moved, Gone, certificates, Fresh
<1>6. Knows'
  <2>1. ASSUME NEW q \in Requests \ {r} PROVE KnowsOK(q)'
    BY <1>0, <1>1, <1>2, <2>1, NothingRead DEF Others
  <2>2. KnowsOK(r)'
    BY <1>0, <1>1, <1>2
       DEF KnowsOK, KnowsCount, KnowsChildren, KnowsChain, KnowsExtension, KnowsAllowed,
       KnowsActive, KnowsSource, Reads
  <2> QED BY <2>1, <2>2 DEF Knows
<1>7. Made'
  BY <1>0, <1>1, <1>2 DEF Made, Shapes, ShapeOK, Same, Others, Moved, Gone, There,
     authorities, certificates, Fresh
<1>8. Counts'
  BY <1>0, <1>1, <1>2 DEF Counts, Covered, IssuedBy, Storing, Same, Others, Moved, Gone,
     There, authorities, certificates, Fresh
<1>9. Marking'
  BY <1>0, <1>1, <1>2 DEF Marking, Shapes, ShapeOK, Same, Others, Moved, Gone,
     certificates, Fresh
<1>10. Listed'
  BY <1>0, <1>1, <1>2 DEF Listed, Listing, Same, Others, Moved, Gone, certificates, Fresh
<1> QED BY <1>3, <1>4, <1>5, <1>6, <1>7, <1>8, <1>9, <1>10 DEF IInv

LEMMA ApplyCertExtTemplateKeeps ==
    ASSUME IInv, NEW r \in Requests, ApplyCertExtTemplate(r)
    PROVE  IInv'
<1>0. TypeOK /\ Shapes /\ Claims /\ Knows /\ Made /\ Counts /\ Marking /\ Listed
  BY DEF IInv
<1>1. /\ job' \in [Requests -> Jobs]
      /\ Others(r)
      /\ job[r].pc = "extensions" /\ job'[r].pc = "validate" /\ ~job'[r].stale
      /\ job'[r].ca = job[r].ca /\ job'[r].cert = job[r].cert /\ job'[r].source = job[r].source
      /\ job'[r].template = job[r].template /\ job'[r].chain = job[r].chain
      /\ job'[r].copy = job[r].copy /\ job'[r].onCard = job[r].onCard
      /\ job'[r].ext => template[job[r].template].ext /\ extension
      /\ template[job[r].template].ext /\ extension =>
           job'[r].ext \/ "extensions" \in job'[r].unread
  <2>1. job[r] \in Jobs /\ job[r].template \in Templates /\ job[r].pc = "extensions"
    BY <1>0 DEF TypeOK, Shapes, ShapeOK, ApplyCertExtTemplate
  <2>2. template[job[r].template] \in Rows \cup {NoRow} /\ extension \in BOOLEAN
    BY <1>0, <2>1 DEF TypeOK
  <2>3. PICK ext \in {template[job[r].template].ext /\ extension, FALSE} :
           job' = [job EXCEPT ![r].pc = "validate", ![r].stale = FALSE, ![r].ext = ext,
                              ![r].unread = Missed(r, ext)]
    BY DEF ApplyCertExtTemplate
  <2>4. PICK n \in SUBSET {"extensions"} : n = Missed(r, ext)
    BY DEF Missed
  <2>5. PICK j \in Jobs : j = [job[r] EXCEPT !.pc = "validate", !.stale = FALSE,
                                            !.ext = ext, !.unread = n]
    <3>1. ext \in BOOLEAN
      OBVIOUS
    <3> QED BY <2>1, <2>4, <3>1 DEF Jobs, Steps
  <2>6. job' \in [Requests -> Jobs] /\ job'[r] = j /\ job' = [job EXCEPT ![r] = j]
    BY <1>0, <2>3, <2>4, <2>5 DEF TypeOK
  <2>7. Others(r)
    BY <1>0, <2>6 DEF TypeOK, Others, Same
  <2>8. /\ ext => template[job[r].template].ext /\ extension
        /\ template[job[r].template].ext /\ extension => ext \/ "extensions" \in n
    BY <2>2, <2>3, <2>4 DEF Missed
  <2> QED BY <2>1, <2>5, <2>6, <2>7, <2>8 DEF Jobs
<1>2. /\ UNCHANGED <<authorities, revoked, certificates, templates, lost>>
  BY <1>0, <1>1 DEF ApplyCertExtTemplate
<1>3. TypeOK'
  BY <1>0, <1>1, <1>2 DEF TypeOK, Shapes, ShapeOK, Rows, NoRow, authorities, certificates,
     templates
<1>4. Shapes'
  BY <1>0, <1>1, <1>2 DEF Shapes, ShapeOK, Same, Others, Moved, Gone
<1>5. Claims'
  BY <1>0, <1>1, <1>2 DEF Claims, Same, Others, Moved, Gone, certificates
<1>6. Knows'
  <2>1. ASSUME NEW q \in Requests \ {r} PROVE KnowsOK(q)'
    BY <1>0, <1>1, <1>2, <2>1, NothingRead DEF Others
  <2>2. KnowsOK(r)'
    BY <1>0, <1>1, <1>2
       DEF KnowsOK, KnowsCount, KnowsChildren, KnowsChain, KnowsExtension, KnowsAllowed,
       KnowsActive, KnowsSource, Reads, templates
  <2> QED BY <2>1, <2>2 DEF Knows
<1>7. Made'
  BY <1>0, <1>1, <1>2 DEF Made, Shapes, ShapeOK, Same, Others, Moved, Gone, There,
     authorities, certificates
<1>8. Counts'
  BY <1>0, <1>1, <1>2 DEF Counts, Covered, IssuedBy, Storing, Same, Others, Moved, Gone,
     There, authorities, certificates
<1>9. Marking'
  BY <1>0, <1>1, <1>2 DEF Marking, Shapes, ShapeOK, Same, Others, Moved, Gone,
     certificates
<1>10. Listed'
  BY <1>0, <1>1, <1>2 DEF Listed, Listing, Same, Others, Moved, Gone, certificates
<1> QED BY <1>3, <1>4, <1>5, <1>6, <1>7, <1>8, <1>9, <1>10 DEF IInv

\* The read of the template failed: r goes on, and all else is as it was.
Unread(r) ==
    /\ job'[r].pc = "authority" /\ job'[r].ca = job[r].ca
    /\ job'[r].cert = job[r].cert /\ job'[r].source = job[r].source
    /\ job'[r].template = job[r].template /\ job'[r].chain = job[r].chain
    /\ job'[r].copy = job[r].copy /\ job'[r].onCard = job[r].onCard
    /\ job'[r].ext = job[r].ext /\ job'[r].stale = job[r].stale
    /\ job'[r].unread = job[r].unread \cup {"validate"}

LEMMA ValidateAgainstTemplateKeeps ==
    ASSUME IInv, NEW r \in Requests, ValidateAgainstTemplate(r)
    PROVE  IInv'
<1>0. TypeOK /\ Shapes /\ Claims /\ Knows /\ Made /\ Counts /\ Marking /\ Listed
  BY DEF IInv
<1>1. /\ job' \in [Requests -> Jobs]
      /\ Others(r)
      /\ job[r].pc = "validate"
      /\ \/ Gone(r)
         \/ Moved(r, "authority") /\ Allows(job[r].template, job[r].ca)
         \/ Unread(r)
  <2>1. job[r] \in Jobs /\ job[r].pc = "validate"
    BY <1>0 DEF TypeOK, ValidateAgainstTemplate
  <2>2. CASE job' = [job EXCEPT ![r].pc = "authority", ![r].unread = @ \cup {"validate"}]
    <3>1. PICK n \in SUBSET {"extensions", "validate"} : n = job[r].unread \cup {"validate"}
      BY <2>1 DEF Jobs
    <3>2. PICK j \in Jobs : j = [job[r] EXCEPT !.pc = "authority", !.unread = n]
      BY <2>1 DEF Jobs, Steps
    <3>3. job' = [job EXCEPT ![r] = j]
      BY <2>2, <3>1, <3>2
    <3>4. job' \in [Requests -> Jobs] /\ job'[r] = j
      BY <1>0, <3>3 DEF TypeOK
    <3>5. Others(r)
      BY <1>0, <3>3 DEF TypeOK, Others, Same
    <3> QED BY <2>1, <3>1, <3>2, <3>4, <3>5 DEF Jobs, Unread
  <2> QED BY <1>0, <2>1, <2>2, JobEnded, JobStepped DEF ValidateAgainstTemplate, Steps, Refuse
<1>2. /\ UNCHANGED <<authorities, revoked, certificates, templates, lost>>
  BY <1>0, <1>1 DEF ValidateAgainstTemplate
<1>3. TypeOK'
  BY <1>0, <1>1, <1>2 DEF TypeOK, Shapes, ShapeOK, Rows, NoRow, authorities, certificates,
     templates
<1>4. Shapes'
  BY <1>0, <1>1, <1>2 DEF Shapes, ShapeOK, Same, Others, Moved, Unread, Gone
<1>5. Claims'
  BY <1>0, <1>1, <1>2 DEF Claims, Same, Others, Moved, Unread, Gone, certificates
<1>6. Knows'
  <2>1. ASSUME NEW q \in Requests \ {r} PROVE KnowsOK(q)'
    BY <1>0, <1>1, <1>2, <2>1, NothingRead DEF Others
  <2>2. KnowsOK(r)'
    BY <1>0, <1>1, <1>2
       DEF KnowsOK, KnowsCount, KnowsChildren, KnowsChain, KnowsExtension, KnowsAllowed,
       KnowsActive, KnowsSource, Reads, Moved, Unread, Gone, Allows, templates, Knows
  <2> QED BY <2>1, <2>2 DEF Knows
<1>7. Made'
  BY <1>0, <1>1, <1>2 DEF Made, Shapes, ShapeOK, Same, Others, Moved, Unread, Gone, There,
     authorities, certificates
<1>8. Counts'
  BY <1>0, <1>1, <1>2 DEF Counts, Covered, IssuedBy, Storing, Same, Others, Moved, Unread, Gone,
     There, authorities, certificates
<1>9. Marking'
  BY <1>0, <1>1, <1>2 DEF Marking, Shapes, ShapeOK, Same, Others, Moved, Unread, Gone,
     certificates
<1>10. Listed'
  BY <1>0, <1>1, <1>2 DEF Listed, Listing, Same, Others, Moved, Unread, Gone, certificates
<1> QED BY <1>3, <1>4, <1>5, <1>6, <1>7, <1>8, <1>9, <1>10 DEF IInv

LEMMA ReadAuthorityKeeps ==
    ASSUME IInv, NEW r \in Requests, ReadAuthority(r)
    PROVE  IInv'
<1>0. TypeOK /\ Shapes /\ Claims /\ Knows /\ Made /\ Counts /\ Marking /\ Listed
  BY DEF IInv
<1>1. /\ job' \in [Requests -> Jobs]
      /\ Others(r)
      /\ job[r].pc = "authority"
      /\ Gone(r) \/ (Moved(r, "count") /\ ca[job[r].ca] = "active")
  BY <1>0, JobEnded, JobStepped DEF ReadAuthority, MayIssue, Steps
<1>2. /\ UNCHANGED <<authorities, revoked, certificates, templates, lost>>
  BY <1>0, <1>1 DEF ReadAuthority
<1>3. TypeOK'
  BY <1>0, <1>1, <1>2 DEF TypeOK, Shapes, ShapeOK, Rows, NoRow, authorities, certificates,
     templates
<1>4. Shapes'
  BY <1>0, <1>1, <1>2 DEF Shapes, ShapeOK, Same, Others, Moved, Gone
<1>5. Claims'
  BY <1>0, <1>1, <1>2 DEF Claims, Same, Others, Moved, Gone, certificates
<1>6. Knows'
  <2>1. ASSUME NEW q \in Requests \ {r} PROVE KnowsOK(q)'
    BY <1>0, <1>1, <1>2, <2>1, NothingRead DEF Others
  <2>2. KnowsOK(r)'
    BY <1>0, <1>1, <1>2
       DEF KnowsOK, KnowsCount, KnowsChildren, KnowsChain, KnowsExtension, KnowsAllowed,
       KnowsActive, KnowsSource, Reads, Moved, Gone, Allows, authorities, templates,
       Knows
  <2> QED BY <2>1, <2>2 DEF Knows
<1>7. Made'
  BY <1>0, <1>1, <1>2 DEF Made, Shapes, ShapeOK, Same, Others, Moved, Gone, There,
     authorities, certificates
<1>8. Counts'
  BY <1>0, <1>1, <1>2 DEF Counts, Covered, IssuedBy, Storing, Same, Others, Moved, Gone,
     There, authorities, certificates
<1>9. Marking'
  BY <1>0, <1>1, <1>2 DEF Marking, Shapes, ShapeOK, Same, Others, Moved, Gone,
     certificates
<1>10. Listed'
  BY <1>0, <1>1, <1>2 DEF Listed, Listing, Same, Others, Moved, Gone, certificates
<1> QED BY <1>3, <1>4, <1>5, <1>6, <1>7, <1>8, <1>9, <1>10 DEF IInv

LEMMA CountIssueKeeps ==
    ASSUME IInv, NEW r \in Requests, CountIssue(r)
    PROVE  IInv'
<1>0. TypeOK /\ Shapes /\ Claims /\ Knows /\ Made /\ Counts /\ Marking /\ Listed
  BY DEF IInv
<1>1. /\ job' \in [Requests -> Jobs]
      /\ Others(r)
      /\ Gone(r) \/ Moved(r, "store")
  BY <1>0, JobEnded, JobEndedTouched, JobSteppedTouched DEF CountIssue, AfterCount, Refuse, Steps
<1>2. /\ job[r].pc = "count"
      /\ \/ /\ count' = Counted(r)
            /\ IF job[r].onCard THEN Moved(r, "store") /\ UNCHANGED <<status, issuer>>
               ELSE Gone(r) /\ Sent(r)
            /\ \A q \in Requests \ {r} :
                 job[q].pc \in {"children", "delete"} /\ job[q].ca = job[r].ca => job'[q].stale
         \/ Gone(r) /\ UNCHANGED <<count, status, issuer>>
      /\ UNCHANGED <<ca, parent, chain, revoked, renewed, templates, lost>>
  <2>1. CASE Refuse(r) /\ UNCHANGED <<count, status, issuer>>
    BY <1>0, <2>1, JobEnded DEF CountIssue, Refuse
  <2>2. CASE /\ count' = Counted(r) /\ job' = Touch(AfterCount(r), Deleting(job[r].ca))
             /\ job[r].onCard /\ UNCHANGED <<status, issuer>>
    <3>1. job' = Touch(Step(r, "store"), Deleting(job[r].ca))
      BY <2>2 DEF AfterCount
    <3>2. /\ Moved(r, "store")
          /\ \A q \in Requests : q \in Deleting(job[r].ca) => job'[q].stale
      BY <1>0, <3>1, JobSteppedTouched DEF Steps
    <3> QED BY <2>2, <3>2 DEF CountIssue, Deleting, At
  <2>3. CASE /\ count' = Counted(r) /\ job' = Touch(AfterCount(r), Deleting(job[r].ca))
             /\ ~job[r].onCard /\ Sent(r)
    <3>1. job' = Touch(End(r), Deleting(job[r].ca))
      BY <2>3 DEF AfterCount
    <3>2. /\ Gone(r)
          /\ \A q \in Requests : q \in Deleting(job[r].ca) => job'[q].stale
      BY <1>0, <3>1, JobEndedTouched
    <3> QED BY <2>3, <3>2 DEF CountIssue, Deleting, At
  <2> QED BY <2>1, <2>2, <2>3 DEF CountIssue
<1>3. TypeOK'
  <2>1. job[r].ca \in CAs /\ job[r].cert \in Certs
    BY <1>0, <1>2, JobFields DEF Shapes, ShapeOK
  <2> QED BY <1>0, <1>1, <1>2, <2>1 DEF TypeOK, templates, Counted, Sent
<1>4. Shapes'
  BY <1>0, <1>1, <1>2 DEF Shapes, ShapeOK, Same, Others, Moved, Gone
<1>5. Claims'
  BY <1>0, <1>1, <1>2, JobFields DEF Claims, Same, Others, Moved, Gone, Counted, Sent,
     TypeOK, Shapes, ShapeOK, Marking
<1>6. Knows'
  <2>1. ASSUME NEW q \in Requests PROVE KnowsCount(q)'
    BY <1>0, <1>1, <1>2, <2>1
       DEF Knows, KnowsOK, KnowsCount, Reads, Shapes, ShapeOK, Same, Others, Moved,
       Gone, Counted, TypeOK
  <2>2. ASSUME NEW q \in Requests PROVE KnowsChildren(q)'
    BY <1>0, <1>1, <1>2, <2>2
       DEF Knows, KnowsOK, KnowsChildren, Children, There, Reads, Shapes, ShapeOK, Same,
       Others, Moved, Gone, TypeOK
  <2>3. ASSUME NEW q \in Requests PROVE KnowsChain(q)'
    BY <1>0, <1>1, <1>2, <2>3
       DEF Knows, KnowsOK, KnowsChain, Reads, Shapes, ShapeOK, Same, Others, Moved,
       Gone, TypeOK
  <2>4. ASSUME NEW q \in Requests PROVE KnowsExtension(q)'
    BY <1>0, <1>1, <1>2, <2>4
       DEF Knows, KnowsOK, KnowsExtension, Reads, Shapes, ShapeOK, Same, Others, Moved,
       Gone, templates, TypeOK
  <2>5. ASSUME NEW q \in Requests PROVE KnowsAllowed(q)'
    BY <1>0, <1>1, <1>2, <2>5
       DEF Knows, KnowsOK, KnowsAllowed, Allows, Reads, Shapes, ShapeOK, Same, Others,
       Moved, Gone, templates, TypeOK
  <2>6. ASSUME NEW q \in Requests PROVE KnowsActive(q)'
    BY <1>0, <1>1, <1>2, <2>6
       DEF Knows, KnowsOK, KnowsActive, Reads, Shapes, ShapeOK, Same, Others, Moved,
       Gone, TypeOK
  <2>7. ASSUME NEW q \in Requests PROVE KnowsSource(q)'
    BY <1>0, <1>1, <1>2, <2>7
       DEF Knows, KnowsOK, KnowsSource, Reads, Shapes, ShapeOK, Same, Others, Moved,
       Gone, Sent, TypeOK
  <2> QED BY <2>1, <2>2, <2>3, <2>4, <2>5, <2>6, <2>7 DEF Knows, KnowsOK
<1>7. Made'
  BY <1>0, <1>1, <1>2, JobFields DEF Made, Shapes, ShapeOK, Same, Others, Moved, Gone,
     There, Counted, Sent, TypeOK, Knows, KnowsActive, Reads
<1>8. Counts'
  <2>1. PICK b \in CAs, x \in Certs : b = job[r].ca /\ x = job[r].cert
    BY <1>0, <1>2 DEF Shapes, ShapeOK
  <2>2. ASSUME NEW d \in CAs, There(d)' PROVE (Cardinality(Covered(d)) <= count[d])'
    <3>1. There(d)
      BY <1>2, <2>2 DEF There
    <3>2. /\ Covered(d) \in SUBSET Certs /\ count[d] \in Nat /\ Cardinality(Covered(d)) <= count[d]
      BY <1>0, <3>1 DEF Covered, IssuedBy, Storing, Counts, TypeOK
    <3>3. CASE d = b /\ count' = Counted(r)
      <4>1. Covered(d)' \subseteq Covered(d) \cup {x}
        BY <1>0, <1>1, <1>2, <2>1
           DEF Covered, IssuedBy, Storing, Same, Others, Moved, Gone, Sent, TypeOK
      <4>2. count'[d] = count[d] + 1
        BY <1>0, <2>1, <3>1, <3>3 DEF Counted, TypeOK
      <4> QED BY <3>2, <4>1, <4>2, CoveredOneMore
    <3>4. CASE d # b
      <4>1. Covered(d)' \subseteq Covered(d)
        BY <1>0, <1>1, <1>2, <2>1, <3>4
           DEF Covered, IssuedBy, Storing, Same, Others, Moved, Gone, Sent, TypeOK
      <4>2. count'[d] = count[d]
        BY <1>0, <1>2, <2>1, <3>4 DEF Counted, TypeOK
      <4> QED BY <3>2, <4>1, <4>2, CoveredAtMost
    <3>5. CASE Gone(r) /\ UNCHANGED <<count, status, issuer>>
      <4>1. Covered(d)' \subseteq Covered(d)
        BY <1>1, <1>2, <3>5 DEF Covered, IssuedBy, Storing, Same, Others, Gone
      <4> QED BY <3>2, <3>5, <4>1, CoveredAtMost
    <3> QED BY <1>2, <3>3, <3>4, <3>5
  <2> QED BY <2>2 DEF Counts
<1>9. Marking'
  BY <1>0, <1>1, <1>2 DEF Marking, Shapes, ShapeOK, Same, Others, Moved, Gone, Counted,
     Sent, TypeOK, Claims
<1>10. Listed'
  BY <1>0, <1>1, <1>2 DEF Listed, Listing, Same, Others, Moved, Gone, Counted, Sent,
     TypeOK, Shapes, ShapeOK, Claims, Marking, Made
<1> QED BY <1>3, <1>4, <1>5, <1>6, <1>7, <1>8, <1>9, <1>10 DEF IInv

LEMMA StoreIssuedKeeps ==
    ASSUME IInv, NEW r \in Requests, StoreIssued(r)
    PROVE  IInv'
<1>0. TypeOK /\ Shapes /\ Claims /\ Knows /\ Made /\ Counts /\ Marking /\ Listed
  BY DEF IInv
<1>1. /\ job' \in [Requests -> Jobs]
      /\ Others(r)
      /\ Gone(r)
  BY <1>0, JobEnded DEF StoreIssued
<1>2. /\ job[r].pc = "store"
      /\ \/ /\ status' = [status EXCEPT ![job[r].cert] = "active"]
            /\ issuer' = [issuer EXCEPT ![job[r].cert] = job[r].ca]
         \/ UNCHANGED <<status, issuer>>
      /\ UNCHANGED <<authorities, revoked, renewed, templates, lost>>
  BY <1>0, <1>1 DEF StoreIssued
<1>3. TypeOK'
  <2>1. job[r].ca \in CAs /\ job[r].cert \in Certs
    BY <1>0, <1>2, JobFields DEF Shapes, ShapeOK
  <2> QED BY <1>0, <1>1, <1>2, <2>1 DEF TypeOK, authorities, templates
<1>4. Shapes'
  BY <1>0, <1>1, <1>2 DEF Shapes, ShapeOK, Same, Others, Moved, Gone
<1>5. Claims'
  BY <1>0, <1>1, <1>2, JobFields DEF Claims, Same, Others, Moved, Gone, TypeOK, Shapes,
     ShapeOK, Marking
<1>6. Knows'
  <2>1. ASSUME NEW q \in Requests PROVE KnowsCount(q)'
    BY <1>0, <1>1, <1>2, <2>1
       DEF Knows, KnowsOK, KnowsCount, Reads, Shapes, ShapeOK, Same, Others, Gone,
       authorities, TypeOK
  <2>2. ASSUME NEW q \in Requests PROVE KnowsChildren(q)'
    BY <1>0, <1>1, <1>2, <2>2
       DEF Knows, KnowsOK, KnowsChildren, Children, There, Reads, Shapes, ShapeOK, Same,
       Others, Gone, authorities, TypeOK
  <2>3. ASSUME NEW q \in Requests PROVE KnowsChain(q)'
    BY <1>0, <1>1, <1>2, <2>3
       DEF Knows, KnowsOK, KnowsChain, Reads, Shapes, ShapeOK, Same, Others, Gone,
       authorities, TypeOK
  <2>4. ASSUME NEW q \in Requests PROVE KnowsExtension(q)'
    BY <1>0, <1>1, <1>2, <2>4
       DEF Knows, KnowsOK, KnowsExtension, Reads, Shapes, ShapeOK, Same, Others, Gone,
       templates, TypeOK
  <2>5. ASSUME NEW q \in Requests PROVE KnowsAllowed(q)'
    BY <1>0, <1>1, <1>2, <2>5
       DEF Knows, KnowsOK, KnowsAllowed, Allows, Reads, Shapes, ShapeOK, Same, Others,
       Gone, templates, TypeOK
  <2>6. ASSUME NEW q \in Requests PROVE KnowsActive(q)'
    BY <1>0, <1>1, <1>2, <2>6
       DEF Knows, KnowsOK, KnowsActive, Reads, Shapes, ShapeOK, Same, Others, Gone,
       authorities, TypeOK
  <2>7. ASSUME NEW q \in Requests PROVE KnowsSource(q)'
    BY <1>0, <1>1, <1>2, <2>7
       DEF Knows, KnowsOK, KnowsSource, Reads, Shapes, ShapeOK, Same, Others, Gone,
       TypeOK
  <2> QED BY <2>1, <2>2, <2>3, <2>4, <2>5, <2>6, <2>7 DEF Knows, KnowsOK
<1>7. Made'
  BY <1>0, <1>1, <1>2 DEF Made, Shapes, ShapeOK, Same, Others, Moved, Gone, There,
     authorities, TypeOK, Knows, KnowsActive, Reads
<1>8. Counts'
  <2>1. job[r].cert \in Certs
    BY <1>0, <1>2 DEF Shapes, ShapeOK
  <2>2. ASSUME NEW d \in CAs, There(d)' PROVE (Cardinality(Covered(d)) <= count[d])'
    <3>1. There(d) /\ count' = count
      BY <1>2, <2>2 DEF There, authorities
    <3>2. /\ Covered(d) \in SUBSET Certs /\ count[d] \in Nat /\ Cardinality(Covered(d)) <= count[d]
      BY <1>0, <3>1 DEF Covered, IssuedBy, Storing, Counts, TypeOK
    <3>3. Covered(d)' \subseteq Covered(d)
      BY <1>0, <1>1, <1>2, <2>1 DEF Covered, IssuedBy, Storing, Same, Others, Gone, TypeOK
    <3> QED BY <3>1, <3>2, <3>3, CoveredAtMost
  <2> QED BY <2>2 DEF Counts
<1>9. Marking'
  BY <1>0, <1>1, <1>2 DEF Marking, Shapes, ShapeOK, Same, Others, Moved, Gone, TypeOK,
     Claims
<1>10. Listed'
  BY <1>0, <1>1, <1>2 DEF Listed, Listing, Same, Others, Moved, Gone, TypeOK, Shapes,
     ShapeOK, Claims, Marking, Made
<1> QED BY <1>3, <1>4, <1>5, <1>6, <1>7, <1>8, <1>9, <1>10 DEF IInv

LEMMA RenewCertKeeps ==
    ASSUME IInv, NEW r \in Requests, NEW x \in Certs, NEW y \in Certs, RenewCert(r, x, y)
    PROVE  IInv'
<1>0. TypeOK /\ Shapes /\ Claims /\ Knows /\ Made /\ Counts /\ Marking /\ Listed
  BY DEF IInv
<1>1. /\ job' \in [Requests -> Jobs]
      /\ Others(r)
      /\ job[r].pc = "idle" /\ job[r].cert = NoCert
      /\ job'[r].pc = "renew" /\ job'[r].ca = issuer[x] /\ job'[r].cert = y
      /\ job'[r].source = x /\ job'[r].template = NoTemplate
      /\ job'[r].chain = NoChain /\ job'[r].copy = {}
      /\ job'[r].onCard = FALSE /\ job'[r].ext = FALSE /\ job'[r].stale = FALSE
  <2>1. [Idle EXCEPT !.pc = "renew", !.ca = issuer[x], !.source = x, !.cert = y] \in Jobs
    BY <1>0 DEF Idle, Jobs, Steps, TypeOK
  <2>2. Begin(r, [Idle EXCEPT !.pc = "renew", !.ca = issuer[x], !.source = x, !.cert = y])
    BY DEF RenewCert
  <2>3. /\ job' \in [Requests -> Jobs] /\ Others(r)
        /\ job[r].pc = "idle" /\ job[r].cert = NoCert
        /\ job'[r] = [Idle EXCEPT !.pc = "renew", !.ca = issuer[x], !.source = x, !.cert = y]
    BY <1>0, <2>1, <2>2, JobBegun
  <2> QED BY <2>3 DEF Idle
<1>2. /\ status[x] = "active" /\ Fresh(y)
      /\ UNCHANGED <<authorities, revoked, certificates, templates, lost>>
  BY <1>0, <1>1 DEF RenewCert
<1>3. TypeOK'
  BY <1>0, <1>1, <1>2 DEF TypeOK, Shapes, ShapeOK, Rows, NoRow, authorities, certificates,
     templates, Fresh
<1>4. Shapes'
  BY <1>0, <1>1, <1>2 DEF Shapes, ShapeOK, Same, Others, Moved, Gone, TypeOK, Made
<1>5. Claims'
  BY <1>0, <1>1, <1>2 DEF Claims, Same, Others, Moved, Gone, certificates, Fresh
<1>6. Knows'
  <2>1. ASSUME NEW q \in Requests \ {r} PROVE KnowsOK(q)'
    BY <1>0, <1>1, <1>2, <2>1, NothingRead DEF Others
  <2>2. KnowsOK(r)'
    BY <1>0, <1>1, <1>2
       DEF KnowsOK, KnowsCount, KnowsChildren, KnowsChain, KnowsExtension, KnowsAllowed,
       KnowsActive, KnowsSource, Reads, certificates
  <2> QED BY <2>1, <2>2 DEF Knows
<1>7. Made'
  BY <1>0, <1>1, <1>2 DEF Made, Shapes, ShapeOK, Same, Others, Moved, Gone, There,
     authorities, certificates, Fresh
<1>8. Counts'
  BY <1>0, <1>1, <1>2 DEF Counts, Covered, IssuedBy, Storing, Same, Others, Moved, Gone,
     There, authorities, certificates, Fresh
<1>9. Marking'
  BY <1>0, <1>1, <1>2 DEF Marking, Shapes, ShapeOK, Same, Others, Moved, Gone,
     certificates, Fresh
<1>10. Listed'
  BY <1>0, <1>1, <1>2 DEF Listed, Listing, Same, Others, Moved, Gone, certificates, Fresh
<1> QED BY <1>3, <1>4, <1>5, <1>6, <1>7, <1>8, <1>9, <1>10 DEF IInv

LEMMA StoreRenewalKeeps ==
    ASSUME IInv, NEW r \in Requests, StoreRenewal(r)
    PROVE  IInv'
<1>0. TypeOK /\ Shapes /\ Claims /\ Knows /\ Made /\ Counts /\ Marking /\ Listed
  BY DEF IInv
<1>1. /\ job' \in [Requests -> Jobs]
      /\ Others(r)
      /\ Gone(r)
  BY <1>0, JobEnded DEF StoreRenewal
<1>2. /\ job[r].pc = "renew"
      /\ \/ /\ status' = [status EXCEPT ![job[r].cert] = "active"]
            /\ issuer' = [issuer EXCEPT ![job[r].cert] = job[r].ca]
            /\ renewed' = renewed \cup {job[r].cert}
         \/ UNCHANGED <<status, issuer, renewed>>
      /\ UNCHANGED <<authorities, revoked, templates, lost>>
  BY <1>0, <1>1 DEF StoreRenewal
<1>3. TypeOK'
  <2>1. job[r].ca \in CAs /\ job[r].cert \in Certs
    BY <1>0, <1>2, JobFields DEF Shapes, ShapeOK
  <2> QED BY <1>0, <1>1, <1>2, <2>1 DEF TypeOK, authorities, templates
<1>4. Shapes'
  BY <1>0, <1>1, <1>2 DEF Shapes, ShapeOK, Same, Others, Moved, Gone
<1>5. Claims'
  BY <1>0, <1>1, <1>2, JobFields DEF Claims, Same, Others, Moved, Gone, TypeOK, Shapes,
     ShapeOK, Marking
<1>6. Knows'
  <2>1. ASSUME NEW q \in Requests PROVE KnowsCount(q)'
    BY <1>0, <1>1, <1>2, <2>1
       DEF Knows, KnowsOK, KnowsCount, Reads, Shapes, ShapeOK, Same, Others, Gone,
       authorities, TypeOK
  <2>2. ASSUME NEW q \in Requests PROVE KnowsChildren(q)'
    BY <1>0, <1>1, <1>2, <2>2
       DEF Knows, KnowsOK, KnowsChildren, Children, There, Reads, Shapes, ShapeOK, Same,
       Others, Gone, authorities, TypeOK
  <2>3. ASSUME NEW q \in Requests PROVE KnowsChain(q)'
    BY <1>0, <1>1, <1>2, <2>3
       DEF Knows, KnowsOK, KnowsChain, Reads, Shapes, ShapeOK, Same, Others, Gone,
       authorities, TypeOK
  <2>4. ASSUME NEW q \in Requests PROVE KnowsExtension(q)'
    BY <1>0, <1>1, <1>2, <2>4
       DEF Knows, KnowsOK, KnowsExtension, Reads, Shapes, ShapeOK, Same, Others, Gone,
       templates, TypeOK
  <2>5. ASSUME NEW q \in Requests PROVE KnowsAllowed(q)'
    BY <1>0, <1>1, <1>2, <2>5
       DEF Knows, KnowsOK, KnowsAllowed, Allows, Reads, Shapes, ShapeOK, Same, Others,
       Gone, templates, TypeOK
  <2>6. ASSUME NEW q \in Requests PROVE KnowsActive(q)'
    BY <1>0, <1>1, <1>2, <2>6
       DEF Knows, KnowsOK, KnowsActive, Reads, Shapes, ShapeOK, Same, Others, Gone,
       authorities, TypeOK
  <2>7. ASSUME NEW q \in Requests PROVE KnowsSource(q)'
    BY <1>0, <1>1, <1>2, <2>7
       DEF Knows, KnowsOK, KnowsSource, Reads, Shapes, ShapeOK, Same, Others, Gone,
       TypeOK
  <2> QED BY <2>1, <2>2, <2>3, <2>4, <2>5, <2>6, <2>7 DEF Knows, KnowsOK
<1>7. Made'
  BY <1>0, <1>1, <1>2 DEF Made, Shapes, ShapeOK, Same, Others, Moved, Gone, There,
     authorities, TypeOK, Knows, KnowsActive, Reads
<1>8. Counts'
  <2>1. job[r].cert \in Certs
    BY <1>0, <1>2 DEF Shapes, ShapeOK
  <2>2. ASSUME NEW d \in CAs, There(d)' PROVE (Cardinality(Covered(d)) <= count[d])'
    <3>1. There(d) /\ count' = count
      BY <1>2, <2>2 DEF There, authorities
    <3>2. /\ Covered(d) \in SUBSET Certs /\ count[d] \in Nat /\ Cardinality(Covered(d)) <= count[d]
      BY <1>0, <3>1 DEF Covered, IssuedBy, Storing, Counts, TypeOK
    <3>3. Covered(d)' \subseteq Covered(d)
      BY <1>0, <1>1, <1>2, <2>1 DEF Covered, IssuedBy, Storing, Same, Others, Gone, TypeOK
    <3> QED BY <3>1, <3>2, <3>3, CoveredAtMost
  <2> QED BY <2>2 DEF Counts
<1>9. Marking'
  BY <1>0, <1>1, <1>2 DEF Marking, Shapes, ShapeOK, Same, Others, Moved, Gone, TypeOK,
     Claims
<1>10. Listed'
  BY <1>0, <1>1, <1>2 DEF Listed, Listing, Same, Others, Moved, Gone, TypeOK, Shapes,
     ShapeOK, Claims, Marking, Made
<1> QED BY <1>3, <1>4, <1>5, <1>6, <1>7, <1>8, <1>9, <1>10 DEF IInv

LEMMA RevokeByUUIDKeeps ==
    ASSUME IInv, NEW r \in Requests, NEW x \in Certs, RevokeByUUID(r, x)
    PROVE  IInv'
<1>0. TypeOK /\ Shapes /\ Claims /\ Knows /\ Made /\ Counts /\ Marking /\ Listed
  BY DEF IInv
<1>1. /\ job' \in [Requests -> Jobs]
      /\ Others(r)
      /\ job[r].pc = "idle" /\ job[r].cert = NoCert
      /\ job'[r].pc = "mark" /\ job'[r].ca = issuer[x] /\ job'[r].cert = NoCert
      /\ job'[r].source = x /\ job'[r].template = NoTemplate
      /\ job'[r].chain = NoChain /\ job'[r].copy = {}
      /\ job'[r].onCard = FALSE /\ job'[r].ext = FALSE /\ job'[r].stale = FALSE
  <2>1. [Idle EXCEPT !.pc = "mark", !.source = x, !.ca = issuer[x]] \in Jobs
    BY <1>0 DEF Idle, Jobs, Steps, TypeOK
  <2>2. Begin(r, [Idle EXCEPT !.pc = "mark", !.source = x, !.ca = issuer[x]])
    BY DEF RevokeByUUID
  <2>3. /\ job' \in [Requests -> Jobs] /\ Others(r)
        /\ job[r].pc = "idle" /\ job[r].cert = NoCert
        /\ job'[r] = [Idle EXCEPT !.pc = "mark", !.source = x, !.ca = issuer[x]]
    BY <1>0, <2>1, <2>2, JobBegun
  <2> QED BY <2>3 DEF Idle
<1>2. /\ status[x] = "active"
      /\ UNCHANGED <<authorities, revoked, certificates, templates, lost>>
  BY <1>0, <1>1 DEF RevokeByUUID
<1>3. TypeOK'
  BY <1>0, <1>1, <1>2 DEF TypeOK, Shapes, ShapeOK, Rows, NoRow, authorities, certificates,
     templates
<1>4. Shapes'
  BY <1>0, <1>1, <1>2 DEF Shapes, ShapeOK, Same, Others, Moved, Gone
<1>5. Claims'
  BY <1>0, <1>1, <1>2 DEF Claims, Same, Others, Moved, Gone, certificates
<1>6. Knows'
  <2>1. ASSUME NEW q \in Requests \ {r} PROVE KnowsOK(q)'
    BY <1>0, <1>1, <1>2, <2>1, NothingRead DEF Others
  <2>2. KnowsOK(r)'
    BY <1>0, <1>1, <1>2
       DEF KnowsOK, KnowsCount, KnowsChildren, KnowsChain, KnowsExtension, KnowsAllowed,
       KnowsActive, KnowsSource, Reads
  <2> QED BY <2>1, <2>2 DEF Knows
<1>7. Made'
  BY <1>0, <1>1, <1>2 DEF Made, Shapes, ShapeOK, Same, Others, Moved, Gone, There,
     authorities, certificates
<1>8. Counts'
  BY <1>0, <1>1, <1>2 DEF Counts, Covered, IssuedBy, Storing, Same, Others, Moved, Gone,
     There, authorities, certificates
<1>9. Marking'
  BY <1>0, <1>1, <1>2 DEF Marking, Shapes, ShapeOK, Same, Others, Moved, Gone,
     certificates
<1>10. Listed'
  BY <1>0, <1>1, <1>2 DEF Listed, Listing, Same, Others, Moved, Gone, certificates
<1> QED BY <1>3, <1>4, <1>5, <1>6, <1>7, <1>8, <1>9, <1>10 DEF IInv

LEMMA MarkRevokedKeeps ==
    ASSUME IInv, NEW r \in Requests, MarkRevoked(r)
    PROVE  IInv'
<1>0. TypeOK /\ Shapes /\ Claims /\ Knows /\ Made /\ Counts /\ Marking /\ Listed
  BY DEF IInv
<1>1. /\ job' \in [Requests -> Jobs]
      /\ Others(r)
      /\ Gone(r) \/ Moved(r, "lookup")
  BY <1>0, JobEnded, JobEndedTouched, JobSteppedTouched DEF MarkRevoked, AfterMark, Refuse, Steps
<1>2. /\ job[r].pc = "mark"
      /\ \/ /\ status' = [status EXCEPT ![job[r].source] = "revoked"]
            /\ job[r].source \notin renewed => Moved(r, "lookup")
            /\ \A q \in Requests \ {r} :
                 job[q].pc = "renew" /\ job[q].source = job[r].source => job'[q].stale
         \/ Gone(r) /\ UNCHANGED status
      /\ UNCHANGED <<authorities, revoked, issuer, renewed, templates, lost>>
  <2> DEFINE S == Deciding(job[r].source) \ {r}
             Marks == /\ status' = [status EXCEPT ![job[r].source] = "revoked"]
                      /\ job' = Touch(AfterMark(r), S)
  <2>1. CASE Refuse(r) /\ UNCHANGED status
    BY <1>0, <2>1, JobEnded DEF MarkRevoked, Refuse
  <2>2. CASE Marks /\ job[r].source \in renewed
    <3>1. job' = Touch(End(r), S)
      BY <2>2 DEF AfterMark
    <3>2. \A q \in Requests : q \in S => job'[q].stale
      BY <1>0, <3>1, JobEndedTouched
    <3> QED BY <2>2, <3>2 DEF MarkRevoked, Deciding, At
  <2>3. CASE Marks /\ job[r].source \notin renewed
    <3>1. job' = Touch(Step(r, "lookup"), S)
      BY <2>3 DEF AfterMark
    <3>2. Moved(r, "lookup") /\ \A q \in Requests : q \in S => job'[q].stale
      BY <1>0, <3>1, JobSteppedTouched DEF Steps
    <3> QED BY <2>3, <3>2 DEF MarkRevoked, Deciding, At
  <2> QED BY <2>1, <2>2, <2>3 DEF MarkRevoked
<1>3. TypeOK'
  BY <1>0, <1>1, <1>2, JobFields DEF TypeOK, Shapes, ShapeOK, Rows, NoRow, authorities,
     templates
<1>4. Shapes'
  BY <1>0, <1>1, <1>2 DEF Shapes, ShapeOK, Same, Others, Moved, Gone
<1>5. Claims'
  BY <1>0, <1>1, <1>2, JobFields DEF Claims, Same, Others, Moved, Gone, TypeOK, Shapes,
     ShapeOK, Marking
<1>6. Knows'
  <2>1. ASSUME NEW q \in Requests PROVE KnowsCount(q)'
    BY <1>0, <1>1, <1>2, <2>1
       DEF Knows, KnowsOK, KnowsCount, Reads, Shapes, ShapeOK, Same, Others, Moved,
       Gone, authorities, TypeOK
  <2>2. ASSUME NEW q \in Requests PROVE KnowsChildren(q)'
    BY <1>0, <1>1, <1>2, <2>2
       DEF Knows, KnowsOK, KnowsChildren, Children, There, Reads, Shapes, ShapeOK, Same,
       Others, Moved, Gone, authorities, TypeOK
  <2>3. ASSUME NEW q \in Requests PROVE KnowsChain(q)'
    BY <1>0, <1>1, <1>2, <2>3
       DEF Knows, KnowsOK, KnowsChain, Reads, Shapes, ShapeOK, Same, Others, Moved,
       Gone, authorities, TypeOK
  <2>4. ASSUME NEW q \in Requests PROVE KnowsExtension(q)'
    BY <1>0, <1>1, <1>2, <2>4
       DEF Knows, KnowsOK, KnowsExtension, Reads, Shapes, ShapeOK, Same, Others, Moved,
       Gone, templates, TypeOK
  <2>5. ASSUME NEW q \in Requests PROVE KnowsAllowed(q)'
    BY <1>0, <1>1, <1>2, <2>5
       DEF Knows, KnowsOK, KnowsAllowed, Allows, Reads, Shapes, ShapeOK, Same, Others,
       Moved, Gone, templates, TypeOK
  <2>6. ASSUME NEW q \in Requests PROVE KnowsActive(q)'
    BY <1>0, <1>1, <1>2, <2>6
       DEF Knows, KnowsOK, KnowsActive, Reads, Shapes, ShapeOK, Same, Others, Moved,
       Gone, authorities, TypeOK
  <2>7. ASSUME NEW q \in Requests PROVE KnowsSource(q)'
    BY <1>0, <1>1, <1>2, <2>7
       DEF Knows, KnowsOK, KnowsSource, Reads, Shapes, ShapeOK, Same, Others, Moved,
       Gone, TypeOK, Claims
  <2> QED BY <2>1, <2>2, <2>3, <2>4, <2>5, <2>6, <2>7 DEF Knows, KnowsOK
<1>7. Made'
  BY <1>0, <1>1, <1>2 DEF Made, Shapes, ShapeOK, Same, Others, Moved, Gone, There,
     authorities, TypeOK, Knows, KnowsActive, Reads, Marking
<1>8. Counts'
  BY <1>0, <1>1, <1>2 DEF Counts, Covered, IssuedBy, Storing, Same, Others, Moved, Gone,
     There, authorities
<1>9. Marking'
  BY <1>0, <1>1, <1>2 DEF Marking, Shapes, ShapeOK, Same, Others, Moved, Gone, TypeOK,
     Claims
<1>10. Listed'
  BY <1>0, <1>1, <1>2 DEF Listed, Listing, Same, Others, Moved, Gone, TypeOK, Shapes,
     ShapeOK, Claims, Marking, Made
<1> QED BY <1>3, <1>4, <1>5, <1>6, <1>7, <1>8, <1>9, <1>10 DEF IInv

LEMMA RevokeBySerialKeeps ==
    ASSUME IInv, NEW r \in Requests, NEW c \in CAs, NEW x \in Certs, RevokeBySerial(r, c, x)
    PROVE  IInv'
<1>0. TypeOK /\ Shapes /\ Claims /\ Knows /\ Made /\ Counts /\ Marking /\ Listed
  BY DEF IInv
<1>1. /\ job' \in [Requests -> Jobs]
      /\ Others(r)
      /\ job[r].pc = "idle" /\ job[r].cert = NoCert
      /\ job'[r].pc = "lookup" /\ job'[r].ca = c /\ job'[r].cert = NoCert
      /\ job'[r].source = x /\ job'[r].template = NoTemplate
      /\ job'[r].chain = NoChain /\ job'[r].copy = {}
      /\ job'[r].onCard = TRUE /\ job'[r].ext = FALSE /\ job'[r].stale = FALSE
  <2>1. [Idle EXCEPT !.pc = "lookup", !.source = x, !.ca = c, !.onCard = TRUE] \in Jobs
    BY <1>0 DEF Idle, Jobs, Steps, TypeOK
  <2>2. Begin(r, [Idle EXCEPT !.pc = "lookup", !.source = x, !.ca = c, !.onCard = TRUE])
    BY DEF RevokeBySerial
  <2>3. /\ job' \in [Requests -> Jobs] /\ Others(r)
        /\ job[r].pc = "idle" /\ job[r].cert = NoCert
        /\ job'[r] = [Idle EXCEPT !.pc = "lookup", !.source = x, !.ca = c, !.onCard = TRUE]
    BY <1>0, <2>1, <2>2, JobBegun
  <2> QED BY <2>3 DEF Idle
<1>2. /\ UNCHANGED <<authorities, revoked, certificates, templates, lost>>
  BY <1>0, <1>1 DEF RevokeBySerial
<1>3. TypeOK'
  BY <1>0, <1>1, <1>2 DEF TypeOK, Shapes, ShapeOK, Rows, NoRow, authorities, certificates,
     templates
<1>4. Shapes'
  BY <1>0, <1>1, <1>2 DEF Shapes, ShapeOK, Same, Others, Moved, Gone
<1>5. Claims'
  BY <1>0, <1>1, <1>2 DEF Claims, Same, Others, Moved, Gone, certificates
<1>6. Knows'
  <2>1. ASSUME NEW q \in Requests \ {r} PROVE KnowsOK(q)'
    BY <1>0, <1>1, <1>2, <2>1, NothingRead DEF Others
  <2>2. KnowsOK(r)'
    BY <1>0, <1>1, <1>2
       DEF KnowsOK, KnowsCount, KnowsChildren, KnowsChain, KnowsExtension, KnowsAllowed,
       KnowsActive, KnowsSource, Reads
  <2> QED BY <2>1, <2>2 DEF Knows
<1>7. Made'
  BY <1>0, <1>1, <1>2 DEF Made, Shapes, ShapeOK, Same, Others, Moved, Gone, There,
     authorities, certificates
<1>8. Counts'
  BY <1>0, <1>1, <1>2 DEF Counts, Covered, IssuedBy, Storing, Same, Others, Moved, Gone,
     There, authorities, certificates
<1>9. Marking'
  BY <1>0, <1>1, <1>2 DEF Marking, Shapes, ShapeOK, Same, Others, Moved, Gone,
     certificates
<1>10. Listed'
  BY <1>0, <1>1, <1>2 DEF Listed, Listing, Same, Others, Moved, Gone, certificates
<1> QED BY <1>3, <1>4, <1>5, <1>6, <1>7, <1>8, <1>9, <1>10 DEF IInv

LEMMA LookupCAKeeps ==
    ASSUME IInv, NEW r \in Requests, LookupCA(r)
    PROVE  IInv'
<1>0. TypeOK /\ Shapes /\ Claims /\ Knows /\ Made /\ Counts /\ Marking /\ Listed
  BY DEF IInv
<1>1. /\ job' \in [Requests -> Jobs]
      /\ Others(r)
      /\ Gone(r) \/ Moved(r, "insert")
  BY <1>0, JobEnded, JobStepped DEF LookupCA, GiveUp, Refuse, Steps
<1>2. /\ job[r].pc = "lookup"
      /\ \/ Moved(r, "insert") /\ UNCHANGED <<revoked, lost>>
         \/ /\ Gone(r) /\ UNCHANGED revoked
            /\ lost' = IF job[r].onCard THEN lost ELSE lost \cup {job[r].source}
      /\ UNCHANGED <<authorities, certificates, templates>>
  <2>1. CASE GiveUp(r)
    BY <1>0, <2>1, JobEnded DEF LookupCA, GiveUp, Refuse
  <2>2. CASE ~GiveUp(r)
    <3>1. job' = Step(r, "insert")
      BY <2>2 DEF LookupCA
    <3>2. Moved(r, "insert")
      BY <1>0, <3>1, JobStepped DEF Steps
    <3> QED BY <2>2, <3>2 DEF LookupCA
  <2> QED BY <2>1, <2>2
<1>3. TypeOK'
  BY <1>0, <1>1, <1>2, JobFields DEF TypeOK, Shapes, ShapeOK, Rows, NoRow, authorities,
     certificates, templates
<1>4. Shapes'
  BY <1>0, <1>1, <1>2 DEF Shapes, ShapeOK, Same, Others, Moved, Gone
<1>5. Claims'
  BY <1>0, <1>1, <1>2 DEF Claims, Same, Others, Moved, Gone, certificates
<1>6. Knows'
  <2>1. ASSUME NEW q \in Requests \ {r} PROVE KnowsOK(q)'
    BY <1>0, <1>1, <1>2, <2>1, NothingRead DEF Others
  <2>2. KnowsOK(r)'
    BY <1>0, <1>1, <1>2
       DEF KnowsOK, KnowsCount, KnowsChildren, KnowsChain, KnowsExtension, KnowsAllowed,
       KnowsActive, KnowsSource, Reads, Moved, Gone
  <2> QED BY <2>1, <2>2 DEF Knows
<1>7. Made'
  BY <1>0, <1>1, <1>2 DEF Made, Shapes, ShapeOK, Same, Others, Moved, Gone, There,
     authorities, certificates
<1>8. Counts'
  BY <1>0, <1>1, <1>2 DEF Counts, Covered, IssuedBy, Storing, Same, Others, Moved, Gone,
     There, authorities, certificates
<1>9. Marking'
  BY <1>0, <1>1, <1>2 DEF Marking, Shapes, ShapeOK, Same, Others, Moved, Gone,
     certificates
<1>10. Listed'
  BY <1>0, <1>1, <1>2 DEF Listed, Listing, Same, Others, Moved, Gone, certificates
<1> QED BY <1>3, <1>4, <1>5, <1>6, <1>7, <1>8, <1>9, <1>10 DEF IInv

LEMMA InsertRevokedKeeps ==
    ASSUME IInv, NEW r \in Requests, InsertRevoked(r)
    PROVE  IInv'
<1>0. TypeOK /\ Shapes /\ Claims /\ Knows /\ Made /\ Counts /\ Marking /\ Listed
  BY DEF IInv
<1>1. /\ job' \in [Requests -> Jobs]
      /\ Others(r)
      /\ Gone(r)
  BY <1>0, JobEnded DEF InsertRevoked, GiveUp, Refuse
<1>2. /\ job[r].pc = "insert"
      /\ \/ /\ There(job[r].ca)
            /\ revoked' = [revoked EXCEPT ![job[r].ca] = @ \cup {job[r].source}]
            /\ UNCHANGED lost
         \/ /\ Gone(r) /\ UNCHANGED revoked
            /\ lost' = IF job[r].onCard THEN lost ELSE lost \cup {job[r].source}
      /\ UNCHANGED <<authorities, certificates, templates>>
  BY <1>0, <1>1 DEF InsertRevoked, Refuse, GiveUp
<1>3. TypeOK'
  <2>1. job[r].source \in Certs
    BY <1>0, <1>2, JobFields DEF Shapes, ShapeOK
  <2> QED BY <1>0, <1>1, <1>2, <2>1 DEF TypeOK, authorities, certificates, templates
<1>4. Shapes'
  BY <1>0, <1>1, <1>2 DEF Shapes, ShapeOK, Same, Others, Moved, Gone
<1>5. Claims'
  BY <1>0, <1>1, <1>2 DEF Claims, Same, Others, Moved, Gone, certificates, There
<1>6. Knows'
  <2>1. ASSUME NEW q \in Requests \ {r} PROVE KnowsOK(q)'
    BY <1>0, <1>1, <1>2, <2>1, NothingRead DEF Others
  <2>2. KnowsOK(r)'
    BY <1>0, <1>1, <1>2
       DEF KnowsOK, KnowsCount, KnowsChildren, KnowsChain, KnowsExtension, KnowsAllowed,
       KnowsActive, KnowsSource, Reads, Gone
  <2> QED BY <2>1, <2>2 DEF Knows
<1>7. Made'
  BY <1>0, <1>1, <1>2 DEF Made, Shapes, ShapeOK, Same, Others, Moved, Gone, There,
     authorities, certificates
<1>8. Counts'
  BY <1>0, <1>1, <1>2 DEF Counts, Covered, IssuedBy, Storing, Same, Others, Moved, Gone,
     There, authorities, certificates
<1>9. Marking'
  BY <1>0, <1>1, <1>2 DEF Marking, Shapes, ShapeOK, Same, Others, Moved, Gone,
     certificates, There
<1>10. Listed'
  <2> SUFFICES ASSUME NEW x \in Certs \ renewed, status[x] = "revoked"
               PROVE  x \in revoked'[issuer[x]] \/ x \in lost' \/ Listing(x)'
    BY <1>2 DEF Listed, certificates
  <2>1. issuer[x] \in CAs
    BY <1>0 DEF Made
  <2>2. CASE x \in revoked[issuer[x]] \/ x \in lost
    BY <1>0, <1>2, <2>1, <2>2 DEF TypeOK
  <2>3. CASE Listing(x)
    <3>1. PICK q \in Requests : /\ job[q].pc \in {"lookup", "insert"} /\ job[q].source = x
                                /\ job[q].ca = issuer[x] /\ ~job[q].onCard
      BY <2>3 DEF Listing
    <3>2. CASE q = r
      BY <1>0, <1>2, <2>1, <3>1, <3>2 DEF TypeOK
    <3>3. CASE q # r
      BY <1>1, <1>2, <3>1, <3>3 DEF Others, Same, Listing, certificates
    <3> QED BY <3>2, <3>3
  <2> QED BY <1>0, <2>2, <2>3 DEF Listed
<1> QED BY <1>3, <1>4, <1>5, <1>6, <1>7, <1>8, <1>9, <1>10 DEF IInv

-----------------------------------------------------------------------------
(* The invariant.                                                           *)

LEMMA InitInv == ASSUME Init PROVE IInv
<1>1. TypeOK
  BY IdleIsJob DEF Init, TypeOK, Rows
<1>2. Shapes /\ Claims /\ Marking
  BY DEF Init, Shapes, ShapeOK, Claims, Marking, Idle
<1>3. Knows
  BY DEF Init, Knows, KnowsOK, KnowsCount, KnowsChildren, KnowsChain, KnowsExtension,
     KnowsAllowed, KnowsActive, KnowsSource, Reads, Idle
<1>4. Made
  BY DEF Init, Made, Idle
<1>5. Counts
  BY DEF Init, Counts, There
<1>6. Listed
  BY DEF Init, Listed
<1> QED BY <1>1, <1>2, <1>3, <1>4, <1>5, <1>6 DEF IInv

LEMMA NextInv == ASSUME IInv, [Next]_vars PROVE IInv'
<1>1. ASSUME NEW c \in CAs, NEW p \in CAs \cup {NoCA}, CreateCA(c, p)
      PROVE  IInv'
  BY <1>1, CreateCAKeeps
<1>2. ASSUME NEW c \in CAs, NEW s \in {"active", "disabled"}, UpdateCA(c, s)
      PROVE  IInv'
  BY <1>2, UpdateCAKeeps
<1>3. ASSUME NEW t \in Templates, NEW cas \in SUBSET CAs,
             NEW e \in BOOLEAN, CreateTemplate(t, cas, e)
      PROVE  IInv'
  BY <1>3, CreateTemplateKeeps
<1>4. ASSUME NEW t \in Templates, NEW cas \in SUBSET CAs,
             NEW e \in BOOLEAN, UpdateTemplate(t, cas, e)
      PROVE  IInv'
  BY <1>4, UpdateTemplateKeeps
<1>5. ASSUME NEW t \in Templates, DeleteTemplate(t)
      PROVE  IInv'
  BY <1>5, DeleteTemplateKeeps
<1>6. ASSUME CreateCertExtTemplate
      PROVE  IInv'
  BY <1>6, CreateCertExtTemplateKeeps
<1>7. ASSUME DeleteCertExtTemplate
      PROVE  IInv'
  BY <1>7, DeleteCertExtTemplateKeeps
<1>8. ASSUME NEW r \in Requests, NEW c \in CAs, DeleteCA(r, c)
      PROVE  IInv'
  BY <1>8, DeleteCAKeeps
<1>9. ASSUME NEW r \in Requests, CountChildren(r)
      PROVE  IInv'
  BY <1>9, CountChildrenKeeps
<1>10. ASSUME NEW r \in Requests, DeleteRow(r)
      PROVE  IInv'
  BY <1>10, DeleteRowKeeps
<1>11. ASSUME NEW r \in Requests, NEW c \in CAs, NEW k \in Chains, ImportChain(r, c, k)
      PROVE  IInv'
  BY <1>11, ImportChainKeeps
<1>12. ASSUME NEW r \in Requests, AppendChain(r)
      PROVE  IInv'
  BY <1>12, AppendChainKeeps
<1>13. ASSUME NEW r \in Requests, NEW c \in CAs, NEW t \in Templates \cup {NoTemplate}, NEW x \in Certs,
              NEW o \in BOOLEAN, IssueCert(r, c, t, x, o)
      PROVE  IInv'
  BY <1>13, IssueCertKeeps
<1>14. ASSUME NEW r \in Requests, ApplyCertExtTemplate(r)
      PROVE  IInv'
  BY <1>14, ApplyCertExtTemplateKeeps
<1>15. ASSUME NEW r \in Requests, ValidateAgainstTemplate(r)
      PROVE  IInv'
  BY <1>15, ValidateAgainstTemplateKeeps
<1>16. ASSUME NEW r \in Requests, ReadAuthority(r)
      PROVE  IInv'
  BY <1>16, ReadAuthorityKeeps
<1>17. ASSUME NEW r \in Requests, CountIssue(r)
      PROVE  IInv'
  BY <1>17, CountIssueKeeps
<1>18. ASSUME NEW r \in Requests, StoreIssued(r)
      PROVE  IInv'
  BY <1>18, StoreIssuedKeeps
<1>19. ASSUME NEW r \in Requests, NEW x \in Certs, NEW y \in Certs, RenewCert(r, x, y)
      PROVE  IInv'
  BY <1>19, RenewCertKeeps
<1>20. ASSUME NEW r \in Requests, StoreRenewal(r)
      PROVE  IInv'
  BY <1>20, StoreRenewalKeeps
<1>21. ASSUME NEW r \in Requests, NEW x \in Certs, RevokeByUUID(r, x)
      PROVE  IInv'
  BY <1>21, RevokeByUUIDKeeps
<1>22. ASSUME NEW r \in Requests, MarkRevoked(r)
      PROVE  IInv'
  BY <1>22, MarkRevokedKeeps
<1>23. ASSUME NEW r \in Requests, NEW c \in CAs, NEW x \in Certs, RevokeBySerial(r, c, x)
      PROVE  IInv'
  BY <1>23, RevokeBySerialKeeps
<1>24. ASSUME NEW r \in Requests, LookupCA(r)
      PROVE  IInv'
  BY <1>24, LookupCAKeeps
<1>25. ASSUME NEW r \in Requests, InsertRevoked(r)
      PROVE  IInv'
  BY <1>25, InsertRevokedKeeps
<1>26. CASE UNCHANGED vars
  BY <1>26 DEF IInv, TypeOK, Shapes, ShapeOK, Claims, Knows, KnowsOK, KnowsCount,
     KnowsChildren, KnowsChain, KnowsExtension, KnowsAllowed, KnowsActive, KnowsSource, Reads,
     Children, Allows, Made, Counts, Covered, IssuedBy, Storing, There, Marking, Listed,
     Listing, vars
<1> QED BY <1>1, <1>2, <1>3, <1>4, <1>5, <1>6, <1>7, <1>8, <1>9, <1>10, <1>11, <1>12,
     <1>13, <1>14, <1>15, <1>16, <1>17, <1>18, <1>19, <1>20, <1>21, <1>22, <1>23,
     <1>24, <1>25, <1>26
     DEF Next, Administer, Issue, Revoke, CreateSelfSignedCA, ImportCA

THEOREM Invariant == Spec => []IInv
<1>1. Init => IInv
  BY InitInv
<1>2. IInv /\ [Next]_vars => IInv'
  BY NextInv
<1> QED BY <1>1, <1>2, PTL DEF Spec

-----------------------------------------------------------------------------
(* The theorems.                                                            *)

\* The state is always what the tables can hold.
THEOREM TypeCorrect == Spec => []TypeOK
<1>1. IInv => TypeOK
  BY DEF IInv
<1> QED BY <1>1, Invariant, PTL

\* issued_count of a CA is never below the number of certificates it has given
\* out: what Service.Delete relies on.
THEOREM CountCoversIssuedCorrect == Spec => []CountCoversIssued
<1>1. ASSUME IInv PROVE CountCoversIssued
  <2> SUFFICES ASSUME NEW c \in CAs, There(c) PROVE Cardinality(IssuedBy(c)) <= count[c]
    BY DEF CountCoversIssued
  <2>1. /\ Covered(c) \in SUBSET Certs /\ count[c] \in Nat
        /\ Cardinality(Covered(c)) <= count[c]
    BY <1>1 DEF IInv, TypeOK, Covered, IssuedBy, Storing, Counts
  <2>2. IssuedBy(c) \subseteq Covered(c)
    BY DEF Covered
  <2> QED BY <2>1, <2>2, CoveredAtMost
<1> QED BY <1>1, Invariant, PTL

\* What is signed is what its template says, or the read of the template that would
\* have said so failed; its CA is active; and what is marked as revoked is on its way
\* to the list, or that step failed.
THEOREM DoesAsToldCorrect == Spec => []DoesAsTold
<1>1. ASSUME IInv PROVE IssuesAsTold
  <2> SUFFICES ASSUME NEW r \in Requests, job[r].pc \in {"authority", "count"}, ~job[r].stale
               PROVE  /\ job[r].template # NoTemplate =>
                           /\ Allows(job[r].template, job[r].ca)
                                \/ "validate" \in job[r].unread
                           /\ job[r].ext => template[job[r].template].ext /\ extension
                           /\ template[job[r].template].ext /\ extension =>
                                job[r].ext \/ "extensions" \in job[r].unread
                      /\ job[r].pc = "count" => ca[job[r].ca] = "active"
    BY DEF IssuesAsTold, At, Allows
  <2> QED BY <1>1 DEF IInv, Knows, KnowsOK, KnowsExtension, KnowsAllowed, KnowsActive, Reads
<1>2. ASSUME IInv PROVE MarkedIsListed
  <2> SUFFICES ASSUME NEW x \in Certs \ renewed, status[x] = "revoked"
               PROVE  \/ x \in revoked[issuer[x]] \/ x \in lost
                      \/ \E r \in At({"lookup", "insert"}) : job[r].source = x
                                                               /\ job[r].ca = issuer[x]
    BY DEF MarkedIsListed
  <2> QED BY <1>2 DEF IInv, Listed, Listing, At
<1>3. IInv => DoesAsTold
  BY <1>1, <1>2 DEF DoesAsTold
<1> QED BY <1>3, Invariant, PTL

\* A CA that has issued or has children is deleted only by a request whose
\* look was before.
THEOREM DeletedUnissuedCorrect == Spec => DeletedUnissued
<1> DEFINE Unissued(c) ==
      \/ count[c] = 0 /\ \A d \in CAs : There(d) => parent[d] # c
      \/ \E r \in Requests : job[r].stale /\ job[r].ca = c /\ job'[r] # job[r]
<1>1. ASSUME IInv, [Next]_vars, NEW c \in CAs, There(c), ca'[c] = "gone"
      PROVE  Unissued(c)
  <2>1. PICK r \in Requests : DeleteRow(r) /\ ca' = [ca EXCEPT ![job[r].ca] = "gone"]
    <3>1. ca' # ca
      BY <1>1 DEF There
    <3>2. ASSUME NEW d \in CAs, NEW p \in CAs \cup {NoCA}, CreateCA(d, p) PROVE FALSE
      BY <1>1, <3>2 DEF CreateCA, IInv, TypeOK, There
    <3>3. ASSUME NEW d \in CAs, NEW s \in {"active", "disabled"}, UpdateCA(d, s) PROVE FALSE
      BY <1>1, <3>3 DEF UpdateCA, IInv, TypeOK, There
    <3>4. \E r \in Requests : DeleteRow(r)
      BY <1>1, <3>1, <3>2, <3>3
         DEF Next, Administer, Issue, Revoke, CreateSelfSignedCA, ImportCA, vars, authorities,
             DeleteCA, CountChildren, ImportChain, AppendChain, CreateTemplate, UpdateTemplate,
             DeleteTemplate, CreateCertExtTemplate, DeleteCertExtTemplate, IssueCert,
             ApplyCertExtTemplate, ValidateAgainstTemplate, ReadAuthority, CountIssue,
             StoreIssued, RenewCert, StoreRenewal, RevokeByUUID, MarkRevoked, RevokeBySerial,
             LookupCA, InsertRevoked
    <3> QED BY <3>1, <3>4 DEF DeleteRow
  <2>2. job[r].ca = c /\ job[r].pc = "delete"
    BY <1>1, <2>1 DEF DeleteRow, IInv, TypeOK, There
  <2>3. job'[r] # job[r]
    BY <1>1, <2>1, <2>2, JobEnded, JobEndedTouched DEF DeleteRow, Refuse, IInv, Gone
  <2>4. CASE ~job[r].stale
    <3>1. KnowsCount(r) /\ KnowsChildren(r)
      BY <1>1 DEF IInv, Knows, KnowsOK
    <3> QED BY <2>2, <2>4, <3>1 DEF KnowsCount, KnowsChildren, Reads, Children
  <2> QED BY <2>2, <2>3, <2>4
<1>2. IInv /\ [Next]_vars =>
        [\A c \in CAs : There(c) /\ ca'[c] = "gone" => Unissued(c)]_vars
  BY <1>1
<1> QED BY <1>2, Invariant, PTL DEF Spec, DeletedUnissued

\* Nothing is lost from a chain, and nothing revoked is renewed, except by a
\* request that had read before the change.
THEOREM StaleWritesCorrect == Spec => StaleWrites
<1> DEFINE Overwrites(c) ==
      \E r \in Requests : job[r].stale /\ job[r].ca = c /\ job'[r] # job[r]
           Renews(y) == \E r \in Requests : /\ job[r].cert = y
                                            /\ job[r].stale \/ status[job[r].source] # "revoked"
<1>1. ASSUME IInv, [Next]_vars,
             NEW c \in CAs PROVE chain[c] \subseteq chain'[c] \/ Overwrites(c)
  <2>1. CASE chain' = chain
    BY <2>1
  <2>2. CASE chain' # chain
    <3>1. PICK r \in Requests : AppendChain(r) /\ chain' = [chain EXCEPT ![job[r].ca] = Appended(r)]
      <4>1. \E r \in Requests : AppendChain(r)
        BY <1>1, <2>2
           DEF Next, Administer, Issue, Revoke, CreateSelfSignedCA, ImportCA, vars, authorities,
               CreateCA, UpdateCA, DeleteCA, CountChildren, DeleteRow, ImportChain,
               CreateTemplate, UpdateTemplate, DeleteTemplate, CreateCertExtTemplate,
               DeleteCertExtTemplate, IssueCert, ApplyCertExtTemplate,
               ValidateAgainstTemplate, ReadAuthority, CountIssue, StoreIssued, RenewCert,
               StoreRenewal, RevokeByUUID, MarkRevoked, RevokeBySerial, LookupCA, InsertRevoked
      <4> QED BY <2>2, <4>1 DEF AppendChain
    <3>2. job[r].pc = "append" /\ KnowsChain(r)
      BY <1>1, <3>1 DEF AppendChain, IInv, Knows, KnowsOK
    <3>3. job'[r] # job[r]
      BY <1>1, <3>1, <3>2, JobEnded, JobEndedTouched DEF AppendChain, Refuse, IInv, Gone
    <3>4. CASE c = job[r].ca /\ ~job[r].stale
      BY <1>1, <3>1, <3>2, <3>4 DEF KnowsChain, Reads, Appended, IInv, TypeOK
    <3>5. CASE c # job[r].ca
      BY <1>1, <3>1, <3>5 DEF IInv, TypeOK
    <3> QED BY <3>3, <3>4, <3>5
  <2> QED BY <2>1, <2>2
<1>2. ASSUME IInv, [Next]_vars, NEW y \in renewed' \ renewed PROVE Renews(y)
  <2>1. PICK r \in Requests : StoreRenewal(r)
    BY <1>2
       DEF Next, Administer, Issue, Revoke, CreateSelfSignedCA, ImportCA, vars, certificates,
           CreateCA, UpdateCA, DeleteCA, CountChildren, DeleteRow, ImportChain, AppendChain,
           CreateTemplate, UpdateTemplate, DeleteTemplate, CreateCertExtTemplate,
           DeleteCertExtTemplate, IssueCert, ApplyCertExtTemplate, ValidateAgainstTemplate,
           ReadAuthority, CountIssue, StoreIssued, RenewCert, RevokeByUUID, MarkRevoked,
           RevokeBySerial, LookupCA, InsertRevoked
  <2>2. job[r].pc = "renew" /\ job[r].cert = y
    BY <1>2, <2>1 DEF StoreRenewal
  <2>3. KnowsSource(r)
    BY <1>2 DEF IInv, Knows, KnowsOK
  <2> QED BY <2>2, <2>3 DEF KnowsSource, Reads
<1>3. IInv /\ [Next]_vars =>
        [/\ \A c \in CAs : chain[c] \subseteq chain'[c] \/ Overwrites(c)
         /\ \A y \in renewed' \ renewed : Renews(y)]_vars
  BY <1>1, <1>2
<1> QED BY <1>3, Invariant, PTL DEF Spec, StaleWrites
=============================================================================
