-------------------------- MODULE ClientStoreProofs --------------------------
(***************************************************************************)
(* Proofs about the client's database with what works on it (ClientStore:    *)
(* the local cards and the certificate toolbox), for any number of cards,    *)
(* users, certificates, secrets and requests, and about the cloud slot        *)
(* (CloudSlot), for any number of accounts, tokens, certificates and callers.*)
(***************************************************************************)
EXTENDS ClientStore, CloudSlot, FiniteSetTheorems, SequenceTheorems, TLAPS

(* The local cards: what ties their parts together.                         *)

\* A credential of a card seals the card's own master key.
Of(keys, c) == \A t \in Types : keys[t] = NoEntry \/ keys[t].mk = c

\* A card has the credentials it is opened and mended with.
Mended(keys) == \A t \in {"user", "puk", "admin"} : keys[t] # NoEntry

RowsOK == \A c \in Cards : There(c) => Of(row[c].keys, c) /\ Mended(row[c].keys)

\* What a list of certificates may hold.
ObjectOK(o) == o.card \in Cards /\ o.mk \in {o.card, NoCard}

CertsOK == \A i \in DOMAIN certs : ObjectOK(certs[i])

\* A slot has the credentials, the master key and the certificates of its card.
SlotsOK ==
    \A c \in Cards :
        /\ Of(slot[c].keys, c)
        /\ slot[c].open => slot[c].mk = c
        /\ \A h \in DOMAIN slot[c].objects :
             slot[c].objects[h].card = c /\ ObjectOK(slot[c].objects[h])

\* A request that changes a card carries credentials of that card.
CarriesKeys(j) ==
    /\ j.op \in {"card", "edit", "pin", "puk"} =>
         j.card \in Cards /\ Of(j.keys, j.card) /\ Mended(j.keys)
    /\ j.op = "pin" => j.type \in {"puk", "admin"}
    /\ j.op = "puk" => j.type = "admin"

\* A request is at a step of its operation.
AtItsStep(j) ==
    /\ j.pc = "write" => j.op \in {"user", "edit", "pin", "puk"}
    /\ j.pc = "write" /\ j.op = "user" => j.user \in Users
    /\ j.pc = "insert" => j.op \in {"card", "keygen", "deliver"}
    /\ j.pc = "insert" /\ j.op = "card" => j.user \in Users
    /\ j.pc = "expiry" => j.op = "card"
    /\ j.pc \in {"found", "key", "done"} => j.op = "sign" /\ j.card \in Cards

\* A request that makes a key has the card's master key.
HasMaster(j) ==
    /\ j.pc = "insert" /\ j.op # "card" => j.card \in Cards /\ j.mk = j.card
    /\ j.pc = "public" => j.card \in Cards

\* A signature: the handle names what it named, and the master key is the card's
\* or was overwritten.
SignsRightly(j) ==
    /\ j.pc = "found" /\ ~j.again /\ j.handle \in DOMAIN slot[j.card].objects =>
         slot[j.card].objects[j.handle].id = j.found
    /\ j.pc \in {"key", "done"} =>
         /\ j.object.card = j.card /\ ObjectOK(j.object)
         /\ j.object.id = j.found \/ j.again
    /\ j.pc = "key" => j.mk \in {j.card, Zero}
    /\ j.pc = "done" => j.mk = j.card

JobOK(j) == CarriesKeys(j) /\ AtItsStep(j) /\ HasMaster(j) /\ SignsRightly(j)
JobsOK == \A r \in Requests : JobOK(job[r])

CardsInv == TypeOK /\ RowsOK /\ CertsOK /\ SlotsOK /\ JobsOK

----------------------------------------------------------------------------
(* Lists of certificates.                                                   *)

Distinct(list) == \A i, k \in DOMAIN list : list[i].id = list[k].id => i = k

\* What is left of a list is a list of some of its rows.
LEMMA ListsLeft ==
  ASSUME certs \in Seq(Objects), NEW places \in SUBSET DOMAIN certs,
         NEW list \in ListOf(places)
  PROVE  /\ list \in Seq(Objects)
         /\ \A k \in DOMAIN list : \E i \in places : list[k] = certs[i]
         /\ Distinct(certs) => Distinct(list)
<1> DEFINE n == Cardinality(places)
<1>1. n \in Nat
  <2>1. DOMAIN certs = 1 .. Len(certs) /\ Len(certs) \in Nat
    OBVIOUS
  <2>2. IsFiniteSet(DOMAIN certs)
    BY <2>1, FS_Interval
  <2> QED BY <2>2, FS_Subset, FS_CardinalityType
<1>2. PICK f \in [1 .. n -> places] :
        /\ \A a, b \in DOMAIN f : a < b => f[a] < f[b]
        /\ list = [k \in DOMAIN f |-> certs[f[k]]]
  BY DEF ListOf
<1>3. \A k \in 1 .. n : f[k] \in places /\ list[k] = certs[f[k]] /\ certs[f[k]] \in Objects
  BY <1>2
<1>4. DOMAIN list = 1 .. n /\ list \in Seq(Objects)
  <2> HIDE DEF n
  <2>1. list \in [1 .. n -> Objects]
    BY <1>2, <1>3
  <2> QED BY <1>1, <2>1
<1>5. ASSUME Distinct(certs) PROVE Distinct(list)
  <2> SUFFICES ASSUME NEW a \in 1 .. n, NEW b \in 1 .. n, list[a].id = list[b].id, a < b
               PROVE  FALSE
    BY <1>1, <1>4 DEF Distinct
  <2>1. f[a] = f[b]
    BY <1>3, <1>5 DEF Distinct
  <2>2. f[a] < f[b] /\ f[a] \in Nat
    BY <1>2, <1>3
  <2> QED BY <2>1, <2>2
<1> QED BY <1>3, <1>4, <1>5

\* An object put before the others.
LEMMA ListsGrow ==
  ASSUME certs \in Seq(Objects), NEW o \in Objects, Insert(o)
  PROVE  /\ certs' \in Seq(Objects)
         /\ \A k \in DOMAIN certs' : \/ certs'[k] = o
                                     \/ \E i \in DOMAIN certs : certs'[k] = certs[i]
         /\ Distinct(certs) => Distinct(certs')
<1>1. /\ certs' = <<o>> \o certs /\ <<o>> \in Seq(Objects)
      /\ \A i \in DOMAIN certs : certs[i].id # o.id
  BY DEF Insert, Unused
<1>2. /\ certs' \in Seq(Objects) /\ Len(certs') = 1 + Len(certs)
      /\ certs'[1] = o /\ \A k \in 2 .. Len(certs') : certs'[k] = certs[k - 1]
  BY <1>1
<1>3. \A k \in DOMAIN certs' : k # 1 => k - 1 \in DOMAIN certs /\ certs'[k] = certs[k - 1]
  <2>1. /\ DOMAIN certs = 1 .. Len(certs) /\ Len(certs) \in Nat
        /\ DOMAIN certs' = 1 .. Len(certs')
    BY <1>2
  <2>2. ASSUME NEW k \in 1 .. Len(certs'), k # 1
        PROVE  k \in 2 .. Len(certs') /\ k - 1 \in 1 .. Len(certs)
    BY <1>2, <2>1, <2>2
  <2> QED BY <1>2, <2>1, <2>2
<1>4. ASSUME Distinct(certs) PROVE Distinct(certs')
  <2> SUFFICES ASSUME NEW a \in DOMAIN certs', NEW b \in DOMAIN certs',
                      certs'[a].id = certs'[b].id
               PROVE  a = b
    BY DEF Distinct
  <2>1. CASE a = 1 /\ b = 1
    BY <2>1
  <2>2. CASE a = 1 /\ b # 1
    BY <1>1, <1>2, <1>3, <2>2
  <2>3. CASE a # 1 /\ b = 1
    BY <1>1, <1>2, <1>3, <2>3
  <2>4. CASE a # 1 /\ b # 1
    <3>1. a - 1 = b - 1
      BY <1>3, <1>4, <2>4 DEF Distinct
    <3> QED BY <1>2, <3>1
  <2> QED BY <2>1, <2>2, <2>3, <2>4
<1> QED BY <1>2, <1>3, <1>4

----------------------------------------------------------------------------
(* Steps of the local cards.                                                *)

USE AttemptsAssumption

LEMMA CardTypes ==
  TypeOK <=> /\ user \in [Users -> UserRows] /\ row \in [Cards -> Rows]
             /\ certs \in Seq(Objects) /\ Distinct(certs)
             /\ slot \in [Cards -> Slots]
             /\ \A c \in Cards : ~slot[c].open => slot[c].objects = <<>> /\ slot[c].mk = NoCard
             /\ job \in [Requests -> Jobs]
BY DEF TypeOK, Distinct

LEMMA CardTypesNext ==
  ASSUME user' \in [Users -> UserRows], row' \in [Cards -> Rows],
         certs' \in Seq(Objects), Distinct(certs'), slot' \in [Cards -> Slots],
         \A c \in Cards : ~slot'[c].open => slot'[c].objects = <<>> /\ slot'[c].mk = NoCard,
         job' \in [Requests -> Jobs]
  PROVE  TypeOK'
BY DEF TypeOK, Distinct

LEMMA NoEntryTyped == NoEntry \in Entries /\ NoCredentials \in Credentials
BY DEF NoEntry, Entries, NoCredentials, Credentials, MasterKeys

LEMMA IdleJob == Idle \in Jobs /\ JobOK(Idle)
<1>1. Idle \in Jobs
  BY NoEntryTyped DEF Idle, Jobs, NoObject, Objects, MasterKeys
<1> QED BY <1>1 DEF Idle, JobOK, CarriesKeys, AtItsStep, HasMaster, SignsRightly

\* What changes is well formed, and each request was left or is at a good step.
LEMMA StoreMoves ==
  ASSUME CardsInv, user' \in [Users -> UserRows], row' \in [Cards -> Rows], RowsOK',
         certs' \in Seq(Objects), Distinct(certs'), CertsOK', UNCHANGED slot,
         job' \in [Requests -> Jobs], \A k \in Requests : job'[k] = job[k] \/ JobOK(job'[k])
  PROVE  CardsInv'
<1>1. TypeOK'
  BY CardTypes, CardTypesNext DEF CardsInv
<1>2. SlotsOK'
  BY DEF CardsInv, SlotsOK
<1>3. \A k \in Requests : JobOK(job'[k])
  BY DEF CardsInv, JobsOK
<1>4. JobsOK'
  BY <1>3 DEF JobsOK, JobOK, SignsRightly
<1> QED BY <1>1, <1>2, <1>4 DEF CardsInv

\* A request moves and nothing else changes.
LEMMA JobMoves ==
  ASSUME CardsInv, NEW r \in Requests, NEW j \in Jobs, JobOK(j),
         job' = [job EXCEPT ![r] = j], UNCHANGED <<user, row, certs, slot>>
  PROVE  CardsInv'
<1>1. RowsOK' /\ CertsOK'
  BY DEF CardsInv, RowsOK, CertsOK, There
<1>2. /\ \A k \in Requests : job'[k] = job[k] \/ JobOK(job'[k])
      /\ job' \in [Requests -> Jobs]
  BY CardTypes DEF CardsInv
<1> QED BY <1>1, <1>2, CardTypes, StoreMoves DEF CardsInv

\* A request is over and nothing else changes.
LEMMA JobEnds ==
  ASSUME CardsInv, NEW r \in Requests, job' = End(r), UNCHANGED <<user, row, certs, slot>>
  PROVE  CardsInv'
BY IdleJob, JobMoves DEF End

\* A row is written by a request that goes on or ends.
LEMMA RowMoves ==
  ASSUME CardsInv, NEW r \in Requests, NEW j \in Jobs, JobOK(j),
         job' = [job EXCEPT ![r] = j], UNCHANGED <<user, certs, slot>>,
         NEW c \in Cards, NEW w \in Rows, row' = [row EXCEPT ![c] = w],
         w.is = "there" => Of(w.keys, c) /\ Mended(w.keys)
  PROVE  CardsInv'
<1>1. row' \in [Cards -> Rows] /\ RowsOK'
  BY CardTypes DEF CardsInv, RowsOK, There
<1>2. CertsOK'
  BY DEF CardsInv, CertsOK
<1>3. /\ \A k \in Requests : job'[k] = job[k] \/ JobOK(job'[k])
      /\ job' \in [Requests -> Jobs]
  BY CardTypes DEF CardsInv
<1> QED BY <1>1, <1>2, <1>3, CardTypes, StoreMoves DEF CardsInv

(* Users.                                                                   *)

LEMMA CreateUserKeeps ==
  ASSUME CardsInv, NEW u \in Users, NEW p \in Secrets \cup {NoSecret}, CreateUser(u, p)
  PROVE  CardsInv'
<1>1. user' \in [Users -> UserRows]
  BY CardTypes DEF CreateUser, CardsInv, UserRows
<1>2. RowsOK' /\ CertsOK' /\ UNCHANGED <<row, certs, slot, job>>
  BY DEF CreateUser, CardsInv, RowsOK, CertsOK, There
<1> QED BY <1>1, <1>2, CardTypes, StoreMoves DEF CardsInv

LEMMA ReadUserKeeps ==
  ASSUME CardsInv, NEW r \in Requests, NEW u \in Users, NEW new \in Secrets \cup {NoSecret},
         ReadUser(r, u, new)
  PROVE  CardsInv'
<1> DEFINE j == [Idle EXCEPT !.pc = "write", !.op = "user", !.user = u,
                             !.secret = user[u].password, !.new = new]
<1>1. user[u].password \in Secrets \cup {NoSecret}
  BY CardTypes DEF CardsInv, UserRows
<1>2. j \in Jobs
  BY <1>1, IdleJob DEF Jobs
<1>3. JobOK(j)
  BY DEF Idle, JobOK, CarriesKeys, AtItsStep, HasMaster, SignsRightly
<1> QED BY <1>2, <1>3, JobMoves DEF ReadUser, Begin

LEMMA WriteUserKeeps ==
  ASSUME CardsInv, NEW r \in Requests, WriteUser(r) PROVE CardsInv'
<1>1. job[r] \in Jobs /\ job[r].user \in Users
  BY CardTypes DEF CardsInv, WriteUser, JobsOK, JobOK, AtItsStep
<1>2. user' \in [Users -> UserRows]
  <2> DEFINE p == IF job[r].new = NoSecret THEN job[r].secret ELSE job[r].new
  <2>1. p \in Secrets \cup {NoSecret}
    BY <1>1 DEF Jobs
  <2>2. user' = user \/ user' = [user EXCEPT ![job[r].user].password = p]
    BY DEF WriteUser
  <2>3. user \in [Users -> UserRows]
    BY CardTypes DEF CardsInv
  <2> HIDE DEF p
  <2> QED BY <1>1, <2>1, <2>2, <2>3 DEF UserRows
<1>3. RowsOK' /\ CertsOK' /\ UNCHANGED <<row, certs, slot>>
  BY DEF WriteUser, CardsInv, RowsOK, CertsOK, There
<1>4. /\ \A k \in Requests : job'[k] = job[k] \/ JobOK(job'[k])
      /\ job' \in [Requests -> Jobs]
  BY CardTypes, IdleJob DEF CardsInv, WriteUser, End
<1> QED BY <1>2, <1>3, <1>4, CardTypes, StoreMoves DEF CardsInv

(* Certificates that are left when others are deleted.                      *)

LEMMA LeavesCerts ==
  ASSUME CardsInv, NEW places \in SUBSET DOMAIN certs, certs' \in ListOf(places)
  PROVE  certs' \in Seq(Objects) /\ Distinct(certs') /\ CertsOK'
<1>1. certs \in Seq(Objects) /\ Distinct(certs)
  BY CardTypes DEF CardsInv
<1>2. /\ certs' \in Seq(Objects) /\ Distinct(certs')
      /\ \A k \in DOMAIN certs' : \E i \in places : certs'[k] = certs[i]
  BY <1>1, ListsLeft
<1> QED BY <1>2 DEF CertsOK, CardsInv

LEMMA DeleteUserKeeps ==
  ASSUME CardsInv, NEW u \in Users, DeleteUser(u) PROVE CardsInv'
<1>1. certs' \in Seq(Objects) /\ Distinct(certs') /\ CertsOK'
  BY LeavesCerts DEF DeleteUser, Without
<1>2. user' \in [Users -> UserRows]
  BY CardTypes DEF DeleteUser, CardsInv, UserRows
<1>3. row' \in [Cards -> Rows] /\ RowsOK'
  <2>1. [NoRow EXCEPT !.is = "gone"] \in Rows
    BY NoEntryTyped DEF NoRow, Rows
  <2>2. \A c \in Cards : row'[c] = [NoRow EXCEPT !.is = "gone"] \/ row'[c] = row[c]
    BY DEF DeleteUser
  <2>3. row' = [c \in Cards |-> row'[c]]
    BY DEF DeleteUser
  <2> QED BY <2>1, <2>2, <2>3, CardTypes DEF CardsInv, RowsOK, There, NoRow
<1> QED BY <1>1, <1>2, <1>3, CardTypes, StoreMoves DEF DeleteUser, CardsInv

(* Cards.                                                                   *)

LEMMA SealedOK ==
  ASSUME NEW c \in Cards, NEW f \in Forms
  PROVE  Sealed(c, f) \in Credentials /\ Of(Sealed(c, f), c) /\ Mended(Sealed(c, f))
<1>1. /\ f \in [Types -> Secrets \cup {NoSecret}] /\ f["user"] # NoSecret
      /\ f["puk"] # NoSecret /\ f["admin"] # NoSecret /\ c # NoCard
  BY FormsAssumption, NullAssumption
<1>2. \A t \in Types : Sealed(c, f)[t] = IF f[t] = NoSecret THEN NoEntry
                                         ELSE [secret |-> f[t], mk |-> c, attempts |-> 0]
  BY DEF Sealed
<1>3. Sealed(c, f) \in Credentials
  BY <1>1, NoEntryTyped DEF Sealed, Credentials, Entries, MasterKeys
<1> QED BY <1>1, <1>2, <1>3 DEF Of, Mended, Types, NoEntry

LEMMA CreateCardKeeps ==
  ASSUME CardsInv, NEW r \in Requests, NEW c \in Cards, NEW u \in Users, NEW f \in Forms,
         CreateCard(r, c, u, f)
  PROVE  CardsInv'
<1> DEFINE j == [Idle EXCEPT !.pc = "insert", !.op = "card", !.card = c, !.user = u,
                             !.keys = Sealed(c, f)]
<1>1. j \in Jobs
  BY SealedOK, IdleJob DEF Jobs
<1>2. JobOK(j)
  BY SealedOK DEF Idle, JobOK, CarriesKeys, AtItsStep, HasMaster, SignsRightly
<1> QED BY <1>1, <1>2, JobMoves DEF CreateCard, Begin

LEMMA InsertCardKeeps ==
  ASSUME CardsInv, NEW r \in Requests, InsertCard(r) PROVE CardsInv'
<1> DEFINE w == [is |-> "there", user |-> job[r].user, keys |-> job[r].keys]
<1>1. /\ job[r] \in Jobs /\ job[r].op = "card" /\ job[r].pc = "insert"
      /\ JobOK(job[r]) /\ job[r].card \in Cards
      /\ Of(job[r].keys, job[r].card) /\ Mended(job[r].keys)
  BY CardTypes DEF CardsInv, InsertCard, JobsOK, JobOK, CarriesKeys
<1>2. w \in Rows
  BY <1>1 DEF Jobs, Rows
<1>3. PICK expires \in BOOLEAN : job' = IF expires THEN Step(r, "expiry") ELSE End(r)
  BY DEF InsertCard
<1>4. PICK j \in Jobs : JobOK(j) /\ job' = [job EXCEPT ![r] = j]
  <2> DEFINE k == [job[r] EXCEPT !.pc = "expiry"]
  <2>1. k \in Jobs
    BY <1>1 DEF Jobs
  <2>2. JobOK(k)
    BY <1>1 DEF Jobs, JobOK, CarriesKeys, AtItsStep, HasMaster, SignsRightly
  <2>3. Step(r, "expiry") = [job EXCEPT ![r] = k]
    BY CardTypes DEF Step, CardsInv
  <2> QED BY <1>3, <2>1, <2>2, <2>3, IdleJob DEF End
<1> QED BY <1>1, <1>2, <1>4, RowMoves DEF InsertCard

\* CardRepo.Update, as a request ends.
LEMMA UpdateKeeps ==
  ASSUME CardsInv, NEW r \in Requests, NEW c \in Cards, NEW keys \in Credentials,
         Of(keys, c), Mended(keys), Update(c, keys), job' = End(r),
         UNCHANGED <<user, certs, slot>>
  PROVE  CardsInv'
<1>1. CASE ~There(c)
  BY <1>1, JobEnds DEF Update
<1>2. CASE There(c)
  <2> DEFINE w == [row[c] EXCEPT !.keys = keys]
  <2>1. row[c] \in Rows /\ row \in [Cards -> Rows]
    BY CardTypes DEF CardsInv
  <2>2. w \in Rows /\ w.keys = keys
    BY <2>1 DEF Rows
  <2>3. row' = [row EXCEPT ![c] = w]
    BY <1>2, <2>1 DEF Update
  <2> HIDE DEF w
  <2> QED BY <2>2, <2>3, IdleJob, RowMoves DEF End
<1> QED BY <1>1, <1>2

LEMMA WriteExpiryKeeps ==
  ASSUME CardsInv, NEW r \in Requests, WriteExpiry(r) PROVE CardsInv'
<1>1. /\ job[r] \in Jobs /\ job[r].card \in Cards
      /\ Of(job[r].keys, job[r].card) /\ Mended(job[r].keys)
  BY CardTypes DEF CardsInv, WriteExpiry, JobsOK, JobOK, CarriesKeys, AtItsStep
<1>2. job[r].keys \in Credentials
  BY <1>1 DEF Jobs
<1> QED BY <1>1, <1>2, UpdateKeeps DEF WriteExpiry

LEMMA DeleteCardKeeps ==
  ASSUME CardsInv, NEW c \in Cards, DeleteCard(c) PROVE CardsInv'
<1>1. certs' \in Seq(Objects) /\ Distinct(certs') /\ CertsOK'
  BY LeavesCerts DEF DeleteCard, Without
<1>2. [NoRow EXCEPT !.is = "gone"] \in Rows
  BY NoEntryTyped DEF NoRow, Rows
<1>3. row' \in [Cards -> Rows] /\ RowsOK'
  BY <1>2, CardTypes DEF DeleteCard, CardsInv, RowsOK, There, NoRow
<1> QED BY <1>1, <1>3, CardTypes, StoreMoves DEF DeleteCard, CardsInv

(* Changing a row.                                                          *)

LEMMA ReadCardKeeps ==
  ASSUME CardsInv, NEW r \in Requests, NEW c \in Cards,
         NEW op \in {"edit", "pin", "puk"}, NEW t \in Types \cup {""},
         NEW s \in Secrets \cup {NoSecret}, NEW new \in Secrets \cup {NoSecret},
         op = "pin" => t \in {"puk", "admin"}, op = "puk" => t = "admin",
         ReadCard(r, c, op, t, s, new)
  PROVE  CardsInv'
<1> DEFINE j == [Idle EXCEPT !.pc = "write", !.op = op, !.card = c, !.type = t,
                             !.secret = s, !.new = new, !.keys = row[c].keys]
<1>1. row[c].keys \in Credentials /\ Of(row[c].keys, c) /\ Mended(row[c].keys)
  BY CardTypes DEF CardsInv, RowsOK, ReadCard, Rows
<1>2. j \in Jobs
  BY <1>1, IdleJob, ZenonT(40) DEF Jobs
<1>3. JobOK(j)
  BY <1>1 DEF Idle, JobOK, CarriesKeys, AtItsStep, HasMaster, SignsRightly
<1> QED BY <1>2, <1>3, JobMoves DEF ReadCard, Begin

\* A reset, an edit and a failure leave the card its master key and its credentials.
LEMMA ChangedOK ==
  ASSUME NEW j \in Jobs, j.op \in {"edit", "pin", "puk"}, j.card \in Cards,
         Of(j.keys, j.card), Mended(j.keys),
         j.op = "pin" => j.type \in {"puk", "admin"}, j.op = "puk" => j.type = "admin"
  PROVE  Changed(j) \in Credentials /\ Of(Changed(j), j.card) /\ Mended(Changed(j))
<1>1. /\ j.keys \in Credentials /\ j.new \in Secrets \cup {NoSecret}
      /\ j.card # NoCard /\ j.card \in MasterKeys
  BY NullAssumption DEF Jobs, MasterKeys
<1>2. \A t \in Types : j.keys[t] \in Entries
  BY <1>1 DEF Credentials
<1>3. ASSUME NEW t \in Types
      PROVE  /\ Bumped(j.keys, t) \in Credentials
             /\ Of(Bumped(j.keys, t), j.card) /\ Mended(Bumped(j.keys, t))
  <2>1. CASE j.keys[t] = NoEntry \/ Locked(j.keys[t])
    BY <1>1, <2>1 DEF Bumped
  <2>2. CASE j.keys[t] # NoEntry /\ ~Locked(j.keys[t])
    <3> DEFINE e == [j.keys[t] EXCEPT !.attempts = @ + 1]
    <3>1. e \in Entries /\ e.mk = j.card /\ e # NoEntry
      BY <1>1, <1>2, <2>2 DEF Entries, Locked, Of, NoEntry
    <3>2. Bumped(j.keys, t) = [j.keys EXCEPT ![t] = e]
      BY <1>1, <2>2 DEF Bumped, Credentials
    <3> HIDE DEF e
    <3> QED BY <1>1, <3>1, <3>2 DEF Credentials, Of, Mended
  <2> QED BY <2>1, <2>2
<1>4. ASSUME NEW t \in Types, Verified(j.keys, t, j.secret)
      PROVE  /\ NewEntry(j.keys[t].mk, j.new) \in Entries
             /\ NewEntry(j.keys[t].mk, j.new).mk = j.card
             /\ NewEntry(j.keys[t].mk, j.new) # NoEntry
  BY <1>1, <1>2, <1>4 DEF Verified, NewEntry, Entries, Of, NoEntry
<1>5. ASSUME NEW t \in Types, Verified(j.keys, t, j.secret)
      PROVE  /\ WithPin(j.keys, t, j.new) \in Credentials
             /\ Of(WithPin(j.keys, t, j.new), j.card) /\ Mended(WithPin(j.keys, t, j.new))
  <2> DEFINE n == NewEntry(j.keys[t].mk, j.new)
             z(u) == [j.keys[u] EXCEPT !.attempts = 0]
  <2>1. n \in Entries /\ n.mk = j.card /\ n # NoEntry
    BY <1>4, <1>5
  <2>2. \A u \in Types : /\ z(u) \in Entries /\ z(u).mk = j.keys[u].mk
                         /\ j.keys[u] = NoEntry => z(u) = NoEntry
                         /\ j.keys[u] # NoEntry => z(u).mk = j.card /\ z(u) # NoEntry
    BY <1>1, <1>2 DEF Entries, NoEntry, Of
  <2>3. WithPin(j.keys, t, j.new) =
          [u \in Types |-> CASE u = "pin" -> n [] u = "admin" -> j.keys[u] [] OTHER -> z(u)]
    BY DEF WithPin
  <2> HIDE DEF n, z
  <2>4. \A u \in Types : WithPin(j.keys, t, j.new)[u] =
          IF u = "pin" THEN n ELSE IF u = "admin" THEN j.keys[u] ELSE z(u)
    BY <2>3
  <2>5. WithPin(j.keys, t, j.new) \in Credentials
    BY <1>2, <2>1, <2>2, <2>3 DEF Credentials
  <2> QED BY <2>1, <2>2, <2>4, <2>5 DEF Of, Mended, Types
<1>6. ASSUME Verified(j.keys, "admin", j.secret)
      PROVE  /\ WithPuk(j.keys, j.new) \in Credentials
             /\ Of(WithPuk(j.keys, j.new), j.card) /\ Mended(WithPuk(j.keys, j.new))
  <2> DEFINE n == NewEntry(j.keys["admin"].mk, j.new)
  <2>1. n \in Entries /\ n.mk = j.card /\ n # NoEntry
    BY <1>4, <1>6 DEF Types
  <2>2. WithPuk(j.keys, j.new) = [j.keys EXCEPT !["puk"] = n]
    BY DEF WithPuk
  <2> HIDE DEF n
  <2> QED BY <1>1, <2>1, <2>2 DEF Credentials, Of, Mended, Types
<1>7. CASE j.op = "edit"
  BY <1>1, <1>7 DEF Changed
<1>8. CASE j.op # "edit" /\ ~Verified(j.keys, j.type, j.secret)
  <2>1. Changed(j) = Bumped(j.keys, j.type) /\ j.type \in Types
    BY <1>8 DEF Changed, Types
  <2> QED BY <1>3, <2>1
<1>9. CASE j.op = "pin" /\ Verified(j.keys, j.type, j.secret)
  <2>1. Changed(j) = WithPin(j.keys, j.type, j.new) /\ j.type \in Types
    BY <1>9 DEF Changed, Types
  <2> QED BY <1>5, <1>9, <2>1
<1>10. CASE j.op = "puk" /\ Verified(j.keys, j.type, j.secret)
  <2>1. Changed(j) = WithPuk(j.keys, j.new) /\ j.type = "admin"
    BY <1>10 DEF Changed
  <2> QED BY <1>6, <1>10, <2>1
<1> QED BY <1>7, <1>8, <1>9, <1>10

LEMMA WriteCardKeeps ==
  ASSUME CardsInv, NEW r \in Requests, WriteCard(r) PROVE CardsInv'
<1>1. /\ job[r] \in Jobs /\ job[r].op \in {"edit", "pin", "puk"} /\ job[r].card \in Cards
      /\ Of(job[r].keys, job[r].card) /\ Mended(job[r].keys)
      /\ job[r].op = "pin" => job[r].type \in {"puk", "admin"}
      /\ job[r].op = "puk" => job[r].type = "admin"
  BY CardTypes DEF CardsInv, WriteCard, JobsOK, JobOK, CarriesKeys
<1>2. CASE row' = row
  BY <1>2, JobEnds DEF WriteCard
<1>3. CASE Update(job[r].card, Changed(job[r]))
  BY <1>1, <1>3, ChangedOK, UpdateKeeps DEF WriteCard
<1> QED BY <1>2, <1>3 DEF WriteCard

(* Keys and certificates.                                                   *)

\* Whatever opens the credentials of a card gives the card's master key.
LEMMA UnlockedIsOf ==
  ASSUME NEW keys, NEW c, Of(keys, c), NEW s, Opens(keys, s) # {}
  PROVE  Unlocked(keys, s) = c
<1>1. PICK t \in Types : t \in Opens(keys, s)
  BY DEF Opens
<1>2. (CHOOSE u \in Types : u \in Opens(keys, s)) \in Opens(keys, s)
  BY <1>1
<1> QED BY <1>2 DEF Unlocked, Opens, Of

LEMMA OpenForKeyKeeps ==
  ASSUME CardsInv, NEW r \in Requests, NEW c \in Cards, NEW op \in {"keygen", "deliver"},
         NEW s \in Secrets, OpenForKey(r, c, op, s)
  PROVE  CardsInv'
<1> DEFINE j == [Idle EXCEPT !.pc = "insert", !.op = op, !.card = c, !.mk = c]
<1>1. Unlocked(row[c].keys, s) = c
  BY UnlockedIsOf DEF CardsInv, RowsOK, OpenForKey
<1>2. j \in Jobs
  BY IdleJob DEF Jobs, MasterKeys
<1>3. JobOK(j)
  BY DEF Idle, JobOK, CarriesKeys, AtItsStep, HasMaster, SignsRightly
<1> QED BY <1>1, <1>2, <1>3, JobMoves DEF OpenForKey, Begin

\* A certificate is added by a request that goes on or ends, or by none.
LEMMA CertsGrow ==
  ASSUME CardsInv, NEW o \in Objects, Insert(o), ObjectOK(o),
         UNCHANGED <<user, row, slot>>,
         job' \in [Requests -> Jobs], \A k \in Requests : job'[k] = job[k] \/ JobOK(job'[k])
  PROVE  CardsInv'
<1>1. certs' \in Seq(Objects) /\ Distinct(certs') /\ CertsOK'
  <2>1. certs \in Seq(Objects) /\ Distinct(certs)
    BY CardTypes DEF CardsInv
  <2>2. /\ certs' \in Seq(Objects) /\ Distinct(certs')
        /\ \A k \in DOMAIN certs' : \/ certs'[k] = o
                                    \/ \E i \in DOMAIN certs : certs'[k] = certs[i]
    BY <2>1, ListsGrow
  <2> QED BY <2>2 DEF CertsOK, CardsInv
<1>2. RowsOK'
  BY DEF CardsInv, RowsOK, There
<1> QED BY <1>1, <1>2, CardTypes, StoreMoves DEF CardsInv

LEMMA InsertKeyKeeps ==
  ASSUME CardsInv, NEW r \in Requests, NEW id \in Certs, InsertKey(r, id) PROVE CardsInv'
<1> DEFINE o == [id |-> id, card |-> job[r].card, mk |-> job[r].mk]
           k == [job[r] EXCEPT !.pc = "public"]
<1>1. /\ job[r] \in Jobs /\ job[r].card \in Cards /\ job[r].mk = job[r].card
      /\ job[r].op \in {"keygen", "deliver"} /\ JobOK(job[r])
  BY CardTypes DEF CardsInv, InsertKey, JobsOK, JobOK, HasMaster
<1>2. o \in Objects /\ ObjectOK(o)
  BY <1>1 DEF Objects, ObjectOK, MasterKeys
<1>3. k \in Jobs
  BY <1>1 DEF Jobs
<1>4. JobOK(k)
  BY <1>1 DEF Jobs, JobOK, CarriesKeys, AtItsStep, HasMaster, SignsRightly
<1>5. job' = [job EXCEPT ![r] = k] \/ job' = End(r)
  BY CardTypes DEF InsertKey, Step, CardsInv
<1>6. job' \in [Requests -> Jobs] /\ \A q \in Requests : job'[q] = job[q] \/ JobOK(job'[q])
  BY <1>3, <1>4, <1>5, IdleJob, CardTypes DEF End, CardsInv
<1> QED BY <1>2, <1>6, CertsGrow DEF InsertKey

LEMMA PublicOK ==
  ASSUME NEW c \in Cards, NEW id \in Certs
  PROVE  Public(id, c) \in Objects /\ ObjectOK(Public(id, c))
BY DEF Public, Objects, ObjectOK, MasterKeys

LEMMA InsertPublicKeeps ==
  ASSUME CardsInv, NEW r \in Requests, NEW id \in Certs, InsertPublic(r, id)
  PROVE  CardsInv'
<1>1. job[r].card \in Cards
  BY DEF CardsInv, InsertPublic, JobsOK, JobOK, HasMaster
<1>2. job' \in [Requests -> Jobs] /\ \A q \in Requests : job'[q] = job[q] \/ JobOK(job'[q])
  BY IdleJob, CardTypes DEF InsertPublic, End, CardsInv
<1> QED BY <1>1, <1>2, PublicOK, CertsGrow DEF InsertPublic

LEMMA CreateCertKeeps ==
  ASSUME CardsInv, NEW c \in Cards, NEW id \in Certs, CreateCert(c, id) PROVE CardsInv'
BY PublicOK, CertsGrow, CardTypes DEF CreateCert, CardsInv

LEMMA DeleteCertKeeps ==
  ASSUME CardsInv, NEW id \in Certs, DeleteCert(id) PROVE CardsInv'
<1>1. certs' \in Seq(Objects) /\ Distinct(certs') /\ CertsOK'
  BY LeavesCerts DEF DeleteCert, Without
<1>2. RowsOK'
  BY DEF CardsInv, RowsOK, There, DeleteCert
<1> QED BY <1>1, <1>2, CardTypes, StoreMoves DEF DeleteCert, CardsInv

(* Slots.                                                                   *)

\* The slots change, and nothing that is stored.
LEMMA SlotsMove ==
  ASSUME CardsInv, UNCHANGED <<user, row, certs>>,
         slot' \in [Cards -> Slots], SlotsOK',
         \A c \in Cards : ~slot'[c].open => slot'[c].objects = <<>> /\ slot'[c].mk = NoCard,
         job' \in [Requests -> Jobs], JobsOK'
  PROVE  CardsInv'
<1>1. TypeOK'
  BY CardTypes, CardTypesNext DEF CardsInv, Distinct
<1>2. RowsOK' /\ CertsOK'
  BY DEF CardsInv, RowsOK, CertsOK, There
<1> QED BY <1>1, <1>2 DEF CardsInv

LEMMA NoSlotOK ==
  ASSUME NEW c
  PROVE  /\ NoSlot \in Slots /\ Of(NoCredentials, c)
         /\ NoSlot.keys = NoCredentials /\ ~NoSlot.open
         /\ NoSlot.objects = <<>> /\ NoSlot.mk = NoCard
BY NoEntryTyped DEF NoSlot, Slots, Of, NoCredentials, MasterKeys

LEMMA RestartKeeps ==
  ASSUME CardsInv, Restart PROVE CardsInv'
<1>1. \A c \in Cards : LET k == slot'[c] IN
        /\ k \in Slots /\ ~k.open /\ k.objects = <<>> /\ k.mk = NoCard /\ Of(k.keys, c)
  <2> TAKE c \in Cards
  <2>1. CASE There(c)
    <3>1. row[c].keys \in Credentials /\ Of(row[c].keys, c)
      BY <2>1, CardTypes DEF CardsInv, RowsOK, Rows
    <3>2. slot'[c] = [NoSlot EXCEPT !.is = TRUE, !.keys = row[c].keys]
      BY <2>1 DEF Restart
    <3> QED BY <3>1, <3>2, NoSlotOK DEF NoSlot, Slots
  <2>2. CASE ~There(c)
    BY <2>2, NoSlotOK DEF Restart
  <2> QED BY <2>1, <2>2
<1>2. slot' \in [Cards -> Slots] /\ SlotsOK'
  <2>1. slot' \in [Cards -> Slots]
    BY <1>1 DEF Restart
  <2>2. \A c \in Cards : /\ Of(slot'[c].keys, c) /\ ~slot'[c].open
                         /\ DOMAIN slot'[c].objects = {}
    BY <1>1
  <2> QED BY <2>1, <2>2 DEF SlotsOK
<1>3. job' \in [Requests -> Jobs] /\ JobsOK'
  <2>1. \A r \in Requests : job'[r] = Idle
    BY DEF Restart
  <2>2. JobOK(Idle)'
    BY DEF Idle, JobOK, CarriesKeys, AtItsStep, HasMaster, SignsRightly
  <2> QED BY <2>1, <2>2, IdleJob DEF Restart, JobsOK
<1> QED BY <1>1, <1>2, <1>3, SlotsMove DEF Restart

LEMMA LoginKeeps ==
  ASSUME CardsInv, NEW c \in Cards, NEW s \in Secrets, Login(c, s) PROVE CardsInv'
<1>1. /\ slot \in [Cards -> Slots] /\ slot[c] \in Slots /\ Of(slot[c].keys, c)
      /\ job \in [Requests -> Jobs] /\ certs \in Seq(Objects)
  BY CardTypes DEF CardsInv, SlotsOK
<1>2. Unlocked(slot[c].keys, s) = c
  BY <1>1, UnlockedIsOf DEF Login
<1>3. PICK list \in OnCard(c) :
        slot' = [slot EXCEPT ![c] = [slot[c] EXCEPT !.open = TRUE, !.mk = c,
                                                    !.objects = list]]
  BY <1>2 DEF Login
<1>4. /\ list \in Seq(Objects)
      /\ \A h \in DOMAIN list : list[h].card = c /\ ObjectOK(list[h])
  <2> DEFINE places == {i \in DOMAIN certs : certs[i].card = c}
  <2>1. list \in ListOf(places)
    BY DEF OnCard
  <2>2. list \in Seq(Objects) /\ \A k \in DOMAIN list : \E i \in places : list[k] = certs[i]
    BY <1>1, <2>1, ListsLeft
  <2> QED BY <2>2 DEF CardsInv, CertsOK
<1> DEFINE k == [slot[c] EXCEPT !.open = TRUE, !.mk = c, !.objects = list]
<1>5. k \in Slots /\ k.open /\ k.mk = c /\ k.objects = list /\ k.keys = slot[c].keys
  BY <1>1, <1>4 DEF Slots, MasterKeys
<1>6. slot' = [slot EXCEPT ![c] = k]
  BY <1>3
<1> HIDE DEF k
<1>7. /\ slot' \in [Cards -> Slots] /\ SlotsOK'
      /\ \A d \in Cards : ~slot'[d].open => slot'[d].objects = <<>> /\ slot'[d].mk = NoCard
  BY <1>1, <1>4, <1>5, <1>6, CardTypes DEF SlotsOK, CardsInv
<1>8. ASSUME NEW r \in Requests
      PROVE  job'[r] \in Jobs /\ JobOK(job[r])'
  <2>1. job[r] \in Jobs /\ JobOK(job[r])
    BY <1>1 DEF CardsInv, JobsOK
  <2>2. CASE SignsOn(r, c)
    <3>1. job'[r] = [job[r] EXCEPT !.again = TRUE]
      BY <2>2 DEF Login
    <3>2. /\ job'[r] \in Jobs /\ job'[r].again
          /\ job'[r].object = job[r].object /\ job'[r].found = job[r].found
          /\ job'[r].pc = job[r].pc /\ job'[r].op = job[r].op /\ job'[r].mk = job[r].mk
          /\ job'[r].card = job[r].card /\ job'[r].keys = job[r].keys
          /\ job'[r].user = job[r].user /\ job'[r].type = job[r].type
      BY <2>1, <3>1 DEF Jobs
    <3> QED BY <2>1, <3>2 DEF JobOK, CarriesKeys, AtItsStep, HasMaster, SignsRightly
  <2>3. CASE ~SignsOn(r, c)
    <3>1. job'[r] = job[r]
      BY <2>3 DEF Login
    <3>2. job[r].pc = "found" => job[r].card # c
      BY <2>1, <2>3 DEF SignsOn, JobOK, AtItsStep
    <3>3. job[r].pc = "found" => slot'[job[r].card] = slot[job[r].card]
      BY <1>1, <1>6, <2>1, <3>2 DEF JobOK, AtItsStep
    <3> QED BY <2>1, <3>1, <3>3 DEF JobOK, CarriesKeys, AtItsStep, HasMaster, SignsRightly
  <2> QED BY <2>2, <2>3
<1>9. job' \in [Requests -> Jobs] /\ JobsOK'
  BY <1>8 DEF Login, JobsOK
<1> QED BY <1>7, <1>9, SlotsMove DEF Login

LEMMA LogoutKeeps ==
  ASSUME CardsInv, NEW c \in Cards, Logout(c) PROVE CardsInv'
<1>1. /\ slot \in [Cards -> Slots] /\ slot[c] \in Slots /\ Of(slot[c].keys, c)
      /\ job \in [Requests -> Jobs]
  BY CardTypes DEF CardsInv, SlotsOK
<1> DEFINE k == [slot[c] EXCEPT !.open = FALSE, !.mk = NoCard, !.objects = <<>>]
<1>2. k \in Slots /\ ~k.open /\ k.mk = NoCard /\ k.objects = <<>> /\ k.keys = slot[c].keys
  <2>1. <<>> \in Seq(Objects)
    OBVIOUS
  <2> QED BY <1>1, <2>1 DEF Slots, MasterKeys
<1>3. slot' = [slot EXCEPT ![c] = k]
  BY <1>1 DEF Logout, Slots
<1> HIDE DEF k
<1>4. /\ slot' \in [Cards -> Slots] /\ SlotsOK'
      /\ \A d \in Cards : ~slot'[d].open => slot'[d].objects = <<>> /\ slot'[d].mk = NoCard
  BY <1>1, <1>2, <1>3, CardTypes DEF SlotsOK, CardsInv
<1>5. ASSUME NEW r \in Requests
      PROVE  job'[r] \in Jobs /\ JobOK(job[r])'
  <2>1. job[r] \in Jobs /\ JobOK(job[r])
    BY <1>1 DEF CardsInv, JobsOK
  <2>2. CASE SignsOn(r, c) /\ job[r].pc = "key"
    <3>1. job'[r] = [job[r] EXCEPT !.mk = Zero]
      BY <2>2 DEF Logout
    <3> QED BY <2>1, <2>2, <3>1
        DEF Jobs, MasterKeys, JobOK, CarriesKeys, AtItsStep, HasMaster, SignsRightly
  <2>3. CASE ~(SignsOn(r, c) /\ job[r].pc = "key")
    <3>1. job'[r] = job[r]
      BY <2>3 DEF Logout
    <3>2. job[r].pc = "found" => \/ slot'[job[r].card] = slot[job[r].card]
                                 \/ slot'[job[r].card].objects = <<>>
      BY <1>1, <1>2, <1>3, <2>1 DEF JobOK, AtItsStep
    <3> QED BY <2>1, <3>1, <3>2 DEF JobOK, CarriesKeys, AtItsStep, HasMaster, SignsRightly
  <2> QED BY <2>2, <2>3
<1>6. job' \in [Requests -> Jobs] /\ JobsOK'
  BY <1>5 DEF Logout, JobsOK
<1> QED BY <1>4, <1>6, SlotsMove DEF Logout

(* Signatures.                                                              *)

LEMMA FindKeeps ==
  ASSUME CardsInv, NEW r \in Requests, NEW c \in Cards, NEW h \in Nat, Find(r, c, h)
  PROVE  CardsInv'
<1> DEFINE j == [Idle EXCEPT !.pc = "found", !.op = "sign", !.card = c, !.handle = h,
                             !.found = slot[c].objects[h].id]
<1>1. slot[c] \in Slots /\ h \in DOMAIN slot[c].objects
  BY CardTypes DEF CardsInv, Find
<1>2. slot[c].objects[h].id \in Certs \cup {NoCert}
  <2>1. slot[c].objects \in Seq(Objects)
    BY <1>1 DEF Slots
  <2>2. slot[c].objects[h] \in Objects
    BY <1>1, <2>1
  <2> QED BY <2>2 DEF Objects
<1>3. j \in Jobs
  BY <1>2, IdleJob DEF Jobs
<1>4. JobOK(j)
  BY <1>1 DEF Idle, JobOK, CarriesKeys, AtItsStep, HasMaster, SignsRightly
<1> QED BY <1>3, <1>4, JobMoves DEF Find, Begin

LEMMA TakeKeyKeeps ==
  ASSUME CardsInv, NEW r \in Requests, TakeKey(r) PROVE CardsInv'
<1>1. CASE job[r].handle \notin DOMAIN slot[job[r].card].objects
  BY <1>1, JobEnds DEF TakeKey
<1>2. CASE job[r].handle \in DOMAIN slot[job[r].card].objects
  <2> DEFINE c == job[r].card
             o == slot[c].objects[job[r].handle]
             j == [job[r] EXCEPT !.pc = "key", !.object = o, !.mk = c]
  <2>1. /\ job[r] \in Jobs /\ JobOK(job[r]) /\ job[r].pc = "found" /\ job[r].op = "sign"
        /\ c \in Cards /\ slot[c] \in Slots
    BY CardTypes DEF CardsInv, TakeKey, JobsOK, JobOK, AtItsStep
  <2>2. slot[c].open
    BY <1>2, <2>1, CardTypes DEF CardsInv
  <2>3. slot[c].mk = c /\ o.card = c /\ ObjectOK(o) /\ o \in Objects
    BY <1>2, <2>1, <2>2 DEF CardsInv, SlotsOK, Slots
  <2>4. job' = [job EXCEPT ![r] = j]
    BY <1>2, <2>3, CardTypes, ZenonT(40) DEF TakeKey, Named, CardsInv
  <2>5. o.id = job[r].found \/ job[r].again
    BY <1>2, <2>1 DEF JobOK, SignsRightly, Jobs
  <2> HIDE DEF o
  <2>6. j \in Jobs
    BY <2>1, <2>3 DEF Jobs, MasterKeys
  <2>7. JobOK(j)
    BY <2>1, <2>3, <2>5 DEF Jobs, JobOK, CarriesKeys, AtItsStep, HasMaster, SignsRightly
  <2> QED BY <2>4, <2>6, <2>7, JobMoves DEF TakeKey
<1> QED BY <1>1, <1>2

LEMMA UseKeyKeeps ==
  ASSUME CardsInv, NEW r \in Requests, UseKey(r) PROVE CardsInv'
<1>1. CASE ~(job[r].mk = job[r].object.mk /\ job[r].mk # NoCard)
  BY <1>1, JobEnds DEF UseKey
<1>2. CASE job[r].mk = job[r].object.mk /\ job[r].mk # NoCard
  <2> DEFINE j == [job[r] EXCEPT !.pc = "done"]
  <2>1. job[r] \in Jobs /\ JobOK(job[r]) /\ job[r].pc = "key"
    BY CardTypes DEF CardsInv, UseKey, JobsOK
  <2>2. job[r].mk = job[r].card
    BY <1>2, <2>1, NullAssumption DEF JobOK, SignsRightly, AtItsStep, ObjectOK
  <2>3. job' = [job EXCEPT ![r] = j]
    BY <1>2, CardTypes DEF UseKey, Step, CardsInv
  <2>4. j \in Jobs
    BY <2>1 DEF Jobs
  <2>5. JobOK(j)
    BY <2>1, <2>2 DEF Jobs, JobOK, CarriesKeys, AtItsStep, HasMaster, SignsRightly
  <2> QED BY <2>3, <2>4, <2>5, JobMoves DEF UseKey
<1> QED BY <1>1, <1>2

----------------------------------------------------------------------------
(* The local cards, step by step.                                           *)

LEMMA CardsInit == StoreInit => CardsInv
<1> SUFFICES ASSUME StoreInit PROVE CardsInv
  OBVIOUS
<1>1. NoSlot \in Slots /\ ~NoSlot.open /\ NoSlot.objects = <<>> /\ NoSlot.mk = NoCard
  BY NoSlotOK
<1>2. \A c \in Cards : row[c] \in Rows /\ ~There(c)
  BY NoEntryTyped DEF StoreInit, Init, NoRow, Rows, There
<1>3. user \in [Users -> UserRows] /\ certs \in Seq(Objects) /\ DOMAIN certs = {}
  BY DEF StoreInit, Init, UserRows
<1>4. TypeOK
  BY <1>1, <1>2, <1>3, IdleJob, CardTypes DEF StoreInit, Init, Distinct
<1>5. RowsOK /\ CertsOK
  BY <1>2, <1>3 DEF RowsOK, CertsOK
<1>6. SlotsOK
  <2>1. \A c \in Cards : /\ Of(slot[c].keys, c) /\ ~slot[c].open
                         /\ DOMAIN slot[c].objects = {}
    BY <1>1, NoSlotOK DEF StoreInit, Init
  <2> QED BY <2>1 DEF SlotsOK
<1>7. JobsOK
  BY IdleJob DEF StoreInit, Init, JobsOK
<1> QED BY <1>4, <1>5, <1>6, <1>7 DEF CardsInv

LEMMA AdministerKeeps ==
  ASSUME CardsInv, Administer PROVE CardsInv'
BY CreateUserKeeps, DeleteUserKeeps, DeleteCardKeeps, CreateCertKeeps, DeleteCertKeeps
   DEF Administer

LEMMA FailKeeps ==
  ASSUME CardsInv, NEW r \in Requests, Fail(r) PROVE CardsInv'
BY JobEnds DEF Fail

LEMMA RequestKeeps ==
  ASSUME CardsInv, NEW r \in Requests, Request(r) PROVE CardsInv'
<1>1. CASE \E u \in Users, new \in Secrets \cup {NoSecret} : ReadUser(r, u, new)
  BY <1>1, ReadUserKeeps
<1>2. CASE \E c \in Cards, u \in Users, f \in Forms : CreateCard(r, c, u, f)
  BY <1>2, CreateCardKeeps
<1>3. CASE WriteUser(r) \/ InsertCard(r) \/ WriteExpiry(r) \/ WriteCard(r) \/ Fail(r)
  BY <1>3, WriteUserKeeps, InsertCardKeeps, WriteExpiryKeeps, WriteCardKeeps, FailKeeps
<1>4. ASSUME NEW c \in Cards, Edit(r, c) PROVE CardsInv'
  BY <1>4, ReadCardKeeps DEF Edit
<1>5. ASSUME NEW c \in Cards, NEW s \in Secrets, NEW new \in Secrets, ResetPuk(r, c, s, new)
      PROVE  CardsInv'
  BY <1>5, ReadCardKeeps DEF ResetPuk, Types
<1>6. ASSUME NEW c \in Cards, NEW s \in Secrets, NEW new \in Secrets,
             NEW t \in {"puk", "admin"}, ResetPin(r, c, t, s, new)
      PROVE  CardsInv'
  BY <1>6, ReadCardKeeps DEF ResetPin, Types
<1>7. CASE \E c \in Cards, op \in {"keygen", "deliver"}, s \in Secrets :
             OpenForKey(r, c, op, s)
  BY <1>7, OpenForKeyKeeps
<1>8. CASE \E id \in Certs : InsertKey(r, id) \/ InsertPublic(r, id)
  BY <1>8, InsertKeyKeeps, InsertPublicKeeps
<1> QED BY <1>1, <1>2, <1>3, <1>4, <1>5, <1>6, <1>7, <1>8 DEF Request

LEMMA SignKeeps ==
  ASSUME CardsInv, NEW r \in Requests, Sign(r) PROVE CardsInv'
<1>1. ASSUME NEW c \in Cards, NEW h \in 1 .. Cardinality(Certs), Find(r, c, h)
      PROVE  CardsInv'
  BY <1>1, FindKeeps
<1>2. CASE Answer(r)
  BY <1>2, JobEnds DEF Answer
<1> QED BY <1>1, <1>2, TakeKeyKeeps, UseKeyKeeps DEF Sign

LEMMA CardsStutter ==
  ASSUME CardsInv, UNCHANGED vars PROVE CardsInv'
BY DEF CardsInv, TypeOK, RowsOK, CertsOK, SlotsOK, JobsOK, JobOK, CarriesKeys, AtItsStep,
       HasMaster, SignsRightly, There, vars

LEMMA CardsNext == CardsInv /\ [StoreNext]_allVars => CardsInv'
<1> SUFFICES ASSUME CardsInv, [StoreNext]_allVars PROVE CardsInv'
  OBVIOUS
<1>1. CASE StartAgain
  BY <1>1, RestartKeeps DEF StartAgain
<1>2. CASE CardsStep
  BY <1>2, AdministerKeeps, LoginKeeps, LogoutKeeps, RequestKeeps, SignKeeps DEF CardsStep
<1>3. CASE ToolboxStep \/ UNCHANGED allVars
  BY <1>3, CardsStutter DEF ToolboxStep, allVars
<1> QED BY <1>1, <1>2, <1>3 DEF StoreNext

LEMMA CardsHold == StoreSpec => []CardsInv
BY CardsInit, CardsNext, PTL DEF StoreSpec

\* A signature is made with the certificate that the client was shown under its
\* handle, unless the card was logged in to again in between, and with the card's
\* master key (loadObjects, FindObjects, Sign, Logout).
THEOREM FoundAndSigned == StoreSpec => []SignsWithWhatItFound
<1>1. CardsInv => SignsWithWhatItFound
  BY DEF CardsInv, JobsOK, JobOK, SignsRightly, SignsWithWhatItFound
<1> QED BY <1>1, CardsHold, PTL

\* Every credential of a card opens the master key that seals its private keys.
LEMMA CardsOpen == CardsInv => KeysOpen
<1> SUFFICES ASSUME CardsInv PROVE KeysOpen
  OBVIOUS
<1>1. \A i \in DOMAIN certs : certs[i].mk # NoCard =>
        certs[i].card \in Cards /\ certs[i].mk = certs[i].card
  BY DEF CardsInv, CertsOK, ObjectOK
<1>2. \A c \in Cards, t \in Types :
        /\ There(c) => row[c].keys[t] = NoEntry \/ row[c].keys[t].mk = c
        /\ slot[c].keys[t] = NoEntry \/ slot[c].keys[t].mk = c
        /\ slot[c].open => slot[c].mk = c
  BY DEF CardsInv, RowsOK, SlotsOK, Of
<1>3. \A c \in Cards, t \in {"user", "puk", "admin"} : There(c) => row[c].keys[t] # NoEntry
  BY DEF CardsInv, RowsOK, Mended
<1> QED BY <1>1, <1>2, <1>3 DEF KeysOpen

----------------------------------------------------------------------------
(* The credentials of a card change by their rules.                         *)

\* A request ends that wrote an old copy, or that had the right to reset.
ResetBy(c, resets) == \E r \in Requests :
    /\ job[r].card = c /\ job'[r] = Idle
    /\ \/ job[r].keys # row[c].keys
       \/ /\ <<job[r].op, job[r].type>> \in resets
          /\ row[c].keys[job[r].type].attempts < MaxAttempts

PinResets == {<<"pin", "puk">>, <<"pin", "admin">>}
PukResets == {<<"puk", "admin">>}

RuleFor(c, t) ==
    There(c) /\ row'[c].is = "there" =>
      /\ row'[c].keys[t].secret # row[c].keys[t].secret =>
           \/ t = "pin" /\ ResetBy(c, PinResets)
           \/ t = "puk" /\ ResetBy(c, PukResets)
           \/ ResetBy(c, {})
      /\ row'[c].keys[t].attempts < row[c].keys[t].attempts =>
           \/ t # "admin" /\ ResetBy(c, PinResets \cup PukResets)
           \/ ResetBy(c, {})

LEMMA RulesAreFollowed == (\A c \in Cards, t \in Types : RuleFor(c, t)) => CredentialRules
<1> SUFFICES ASSUME \A c \in Cards, t \in Types : RuleFor(c, t) PROVE CredentialRules
  OBVIOUS
<1>1. \A c : ResetBy(c, {}) => /\ ResetBy(c, PinResets) /\ ResetBy(c, PukResets)
                               /\ ResetBy(c, PinResets \cup PukResets)
  BY DEF ResetBy
<1> QED BY <1>1 DEF RuleFor, ResetBy, CredentialRules, PinResets, PukResets

LEMMA RowKept ==
  ASSUME CardsInv, NEW c \in Cards, NEW t \in Types, row'[c].keys = row[c].keys
  PROVE  RuleFor(c, t)
<1>1. row[c].keys[t].attempts \in Nat
  BY CardTypes DEF CardsInv, Rows, Credentials, Entries
<1> QED BY <1>1 DEF RuleFor

\* A row that is written from a copy that was not old.
LEMMA WriteCardRules ==
  ASSUME CardsInv, NEW r \in Requests, WriteCard(r), NEW t \in Types,
         job[r].keys = row[job[r].card].keys
  PROVE  RuleFor(job[r].card, t)
<1> DEFINE j == job[r]
           c == job[r].card
<1>1. /\ j \in Jobs /\ c \in Cards /\ row[c] \in Rows
      /\ j.op \in {"edit", "pin", "puk"}
      /\ j.op = "pin" => j.type \in {"puk", "admin"}
      /\ j.op = "puk" => j.type = "admin"
  BY CardTypes DEF CardsInv, WriteCard, JobsOK, JobOK, CarriesKeys
<1>2. \A u \in Types : j.keys[u] \in Entries /\ j.keys[u].attempts \in 0 .. MaxAttempts
  <2>1. j.keys \in Credentials
    BY <1>1 DEF Jobs
  <2> QED BY <2>1 DEF Credentials, Entries
<1>3. job'[r] = Idle
  BY CardTypes DEF WriteCard, End, CardsInv
<1>4. row'[c].keys \in {row[c].keys, Changed(j)}
  BY <1>1, CardTypes DEF WriteCard, Update, CardsInv, Rows
<1>5. CASE row'[c].keys = row[c].keys
  BY <1>1, <1>5, RowKept
<1>6. CASE row'[c].keys = Changed(j) /\ j.op # "edit"
           /\ ~Verified(j.keys, j.type, j.secret)
  <2>1. j.type \in Types /\ row'[c].keys = Bumped(j.keys, j.type)
    BY <1>1, <1>6 DEF Changed, Types
  <2>2. /\ row'[c].keys[t].secret = row[c].keys[t].secret
        /\ \/ row'[c].keys[t].attempts = row[c].keys[t].attempts
           \/ row'[c].keys[t].attempts = row[c].keys[t].attempts + 1
    <3>1. j.keys \in Credentials /\ j.keys[t] \in Entries
      BY <1>1, <1>2 DEF Jobs
    <3>2. CASE j.keys[j.type] = NoEntry \/ Locked(j.keys[j.type]) \/ t # j.type
      BY <2>1, <3>1, <3>2 DEF Bumped, Credentials
    <3>3. CASE ~(j.keys[t] = NoEntry \/ Locked(j.keys[t])) /\ t = j.type
      <4>1. row'[c].keys = [j.keys EXCEPT ![t] = [j.keys[t] EXCEPT !.attempts = @ + 1]]
        BY <2>1, <3>1, <3>3, ZenonT(40) DEF Bumped, Credentials
      <4>2. row'[c].keys[t] = [j.keys[t] EXCEPT !.attempts = @ + 1]
        BY <3>1, <4>1 DEF Credentials
      <4> QED BY <3>1, <4>2 DEF Entries
    <3> QED BY <3>2, <3>3
  <2>3. ~(row'[c].keys[t].attempts < row[c].keys[t].attempts)
    <3>1. row[c].keys[t].attempts \in Nat
      BY <1>2
    <3> QED BY <2>2, <3>1
  <2> QED BY <2>1, <2>2, <2>3 DEF RuleFor
<1>7. ASSUME Verified(j.keys, j.type, j.secret), j.op \in {"pin", "puk"}
      PROVE  row[c].keys[j.type].attempts < MaxAttempts
  BY <1>1, <1>2, <1>7, AttemptsAssumption, SMTT(20) DEF Verified, Locked, Types
<1>8. CASE row'[c].keys = Changed(j) /\ j.op = "pin"
           /\ Verified(j.keys, j.type, j.secret)
  <2>1. row'[c].keys = WithPin(j.keys, j.type, j.new)
    BY <1>8 DEF Changed
  <2>2. /\ t = "admin" => row'[c].keys[t] = row[c].keys[t]
        /\ t # "pin" => row'[c].keys[t].secret = row[c].keys[t].secret
    <3>1. t # "pin" => row'[c].keys[t] = IF t = "admin" THEN j.keys[t]
                                         ELSE [j.keys[t] EXCEPT !.attempts = 0]
      BY <2>1, SMTT(20) DEF WithPin
    <3>2. [j.keys[t] EXCEPT !.attempts = 0].secret = j.keys[t].secret
      BY <1>2 DEF Entries
    <3> QED BY <3>1, <3>2
  <2>3. ResetBy(c, PinResets) /\ ResetBy(c, PinResets \cup PukResets)
    BY <1>1, <1>3, <1>7, <1>8, ZenonT(40) DEF ResetBy, PinResets
  <2>4. t = "admin" => ~(row'[c].keys[t].attempts < row[c].keys[t].attempts)
    BY <1>2, <2>2
  <2> QED BY <2>2, <2>3, <2>4 DEF RuleFor
<1>9. CASE row'[c].keys = Changed(j) /\ j.op = "puk"
           /\ Verified(j.keys, j.type, j.secret)
  <2>1. row'[c].keys = WithPuk(j.keys, j.new)
    BY <1>9 DEF Changed
  <2>2. t # "puk" => row'[c].keys[t] = row[c].keys[t]
    <3>1. j.keys \in Credentials
      BY <1>1 DEF Jobs
    <3> QED BY <2>1, <3>1 DEF WithPuk, Credentials
  <2>3. ResetBy(c, PukResets) /\ ResetBy(c, PinResets \cup PukResets)
    BY <1>1, <1>3, <1>7, <1>9, ZenonT(40) DEF ResetBy, PukResets
  <2>4. t # "puk" => ~(row'[c].keys[t].attempts < row[c].keys[t].attempts)
    BY <1>2, <2>2
  <2> QED BY <2>2, <2>3, <2>4 DEF RuleFor
<1>10. CASE row'[c].keys = Changed(j) /\ j.op = "edit"
  BY <1>1, <1>10, RowKept DEF Changed
<1> QED BY <1>1, <1>4, <1>5, <1>6, <1>8, <1>9, <1>10

\* A request that writes an old copy, of its card, as it ends.
LEMMA OldCopy ==
  ASSUME NEW r \in Requests, NEW t \in Types, job'[r] = Idle,
         job[r].keys # row[job[r].card].keys
  PROVE  RuleFor(job[r].card, t)
BY ZenonT(40) DEF RuleFor, ResetBy

LEMMA CardsRules ==
  ASSUME CardsInv, CardsStep, NEW c \in Cards, NEW t \in Types PROVE RuleFor(c, t)
<1>1. row \in [Cards -> Rows] /\ job \in [Requests -> Jobs]
  BY CardTypes DEF CardsInv
<1>2. CASE UNCHANGED row
  BY <1>2, RowKept
<1>3. ASSUME NEW u \in Users, DeleteUser(u) PROVE RuleFor(c, t)
  <2>1. row'[c] = row[c] \/ row'[c].is = "gone"
    BY <1>3 DEF DeleteUser, NoRow
  <2> QED BY <2>1, RowKept DEF RuleFor
<1>4. ASSUME NEW d \in Cards, DeleteCard(d) PROVE RuleFor(c, t)
  <2>1. row'[c] = row[c] \/ row'[c].is = "gone"
    BY <1>1, <1>4 DEF DeleteCard, NoRow
  <2> QED BY <2>1, RowKept DEF RuleFor
<1>5. ASSUME NEW r \in Requests, InsertCard(r) PROVE RuleFor(c, t)
  <2>1. row'[c] = row[c] \/ ~There(c)
    BY <1>1, <1>5 DEF InsertCard, There
  <2> QED BY <2>1, RowKept DEF RuleFor
<1>6. ASSUME NEW r \in Requests, WriteExpiry(r) PROVE RuleFor(c, t)
  <2>1. job'[r] = Idle
    BY <1>1, <1>6 DEF WriteExpiry, End
  <2>2. CASE c # job[r].card
    <3>1. row'[c] = row[c]
      BY <1>1, <1>6, <2>2 DEF WriteExpiry, Update
    <3> QED BY <3>1, RowKept
  <2>3. CASE c = job[r].card /\ job[r].keys = row[c].keys
    <3>1. row'[c].keys = row[c].keys
      BY <1>1, <1>6, <2>3 DEF WriteExpiry, Update, Rows
    <3> QED BY <3>1, RowKept
  <2>4. CASE c = job[r].card /\ job[r].keys # row[c].keys
    BY <2>1, <2>4, OldCopy
  <2> QED BY <2>2, <2>3, <2>4
<1>7. ASSUME NEW r \in Requests, WriteCard(r) PROVE RuleFor(c, t)
  <2>1. job'[r] = Idle
    BY <1>1, <1>7 DEF WriteCard, End
  <2>2. CASE c # job[r].card
    <3>1. row'[c] = row[c]
      BY <1>1, <1>7, <2>2 DEF WriteCard, Update
    <3> QED BY <3>1, RowKept
  <2>3. CASE c = job[r].card /\ job[r].keys = row[c].keys
    BY <1>7, <2>3, WriteCardRules
  <2>4. CASE c = job[r].card /\ job[r].keys # row[c].keys
    BY <2>1, <2>4, OldCopy
  <2> QED BY <2>2, <2>3, <2>4
<1>8. CASE Administer
  BY <1>2, <1>3, <1>4, <1>8 DEF Administer, CreateUser, CreateCert, DeleteCert
<1>9. CASE \E d \in Cards : (\E s \in Secrets : Login(d, s)) \/ Logout(d)
  BY <1>2, <1>9 DEF Login, Logout
<1>10. ASSUME NEW r \in Requests, Request(r) PROVE RuleFor(c, t)
  BY <1>2, <1>5, <1>6, <1>7, <1>10
     DEF Request, ReadUser, WriteUser, CreateCard, Edit, ResetPuk, ResetPin, ReadCard,
         OpenForKey, InsertKey, InsertPublic, Fail
<1>11. ASSUME NEW r \in Requests, Sign(r) PROVE RuleFor(c, t)
  BY <1>2, <1>11 DEF Sign, Find, TakeKey, UseKey, Answer
<1> QED BY <1>8, <1>9, <1>10, <1>11 DEF CardsStep

LEMMA CredentialsKept == CardsInv /\ [StoreNext]_allVars => CredentialRules
<1> SUFFICES ASSUME CardsInv, [StoreNext]_allVars, NEW c \in Cards, NEW t \in Types
             PROVE  RuleFor(c, t)
  BY RulesAreFollowed
<1>1. CASE CardsStep
  BY <1>1, CardsRules
<1>2. CASE StartAgain \/ ToolboxStep \/ UNCHANGED allVars
  <2>1. UNCHANGED row
    BY <1>2 DEF StartAgain, Restart, ToolboxStep, allVars, vars
  <2> QED BY <2>1, RowKept
<1> QED BY <1>1, <1>2 DEF StoreNext

----------------------------------------------------------------------------
(* The certificate toolbox.                                                 *)

\* A private key beside a certificate is the certificate's, unless both came
\* together or there is no certificate.
Proper(c) == c.pair \/ c.for = NoKey \/ c.key \in {NoKey, c.for}

ToolboxTypes ==
    /\ csr \in [Csrs -> Toolbox!CsrRows]
    /\ ca \in [CAs -> Toolbox!CARows]
    /\ cert \in [Ids -> Toolbox!CertRows]
    /\ work \in [Requests -> Toolbox!Works]

\* A certificate that takes over a private key has it already, and the row it came
\* from is there with that key, was cleared or is gone.
TakesOver(w) ==
    w.pc = "take" =>
        /\ w.orphan \in Ids /\ cert[w.orphan].is # "none"
        /\ w.new.key \in Keys
        /\ cert[w.orphan].is = "there" => cert[w.orphan].key \in {NoKey, w.new.key}

ToolboxInv ==
    /\ ToolboxTypes
    /\ \A i \in Ids : Proper(cert[i])
    /\ \A r \in Requests : Proper(work[r].new) /\ TakesOver(work[r])

LEMMA NoCertRowOK ==
  /\ Toolbox!NoCertRow \in Toolbox!CertRows /\ Proper(Toolbox!NoCertRow)
  /\ Toolbox!Idle \in Toolbox!Works /\ Proper(Toolbox!Idle.new) /\ TakesOver(Toolbox!Idle)
  /\ Toolbox!Idle.pc = "idle"
BY DEF Toolbox!NoCertRow, Toolbox!CertRows, Proper, Toolbox!Idle, Toolbox!Works, TakesOver

\* A request moves and nothing else changes.
LEMMA WorkMoves ==
  ASSUME ToolboxInv, NEW r \in Requests, NEW w \in Toolbox!Works,
         Proper(w.new), TakesOver(w), work' = [work EXCEPT ![r] = w],
         UNCHANGED <<ca, csr, cert>>
  PROVE  ToolboxInv'
BY DEF ToolboxInv, ToolboxTypes, TakesOver

\* A row changes that no request is about to take a key from, or loses its key.
LEMMA CertMoves ==
  ASSUME ToolboxInv, NEW i \in Ids, NEW c \in Toolbox!CertRows, Proper(c),
         cert' = [cert EXCEPT ![i] = c], UNCHANGED <<ca, csr>>,
         \/ cert[i].is = "none"
         \/ /\ c.is # "none"
            /\ c.is = "there" => cert[i].is = "there" /\ c.key \in {NoKey, cert[i].key},
         work' \in [Requests -> Toolbox!Works],
         \A r \in Requests : \/ work'[r] = work[r]
                             \/ work'[r].pc # "take" /\ Proper(work'[r].new)
  PROVE  ToolboxInv'
<1>1. ToolboxTypes' /\ \A k \in Ids : Proper(cert'[k])
  BY DEF ToolboxInv, ToolboxTypes
<1>2. \A r \in Requests : Proper(work'[r].new)
  BY DEF ToolboxInv
<1>3. ASSUME NEW r \in Requests, work'[r].pc = "take" PROVE TakesOver(work[r])'
  <2>1. work'[r] = work[r] /\ TakesOver(work[r])
    BY <1>3 DEF ToolboxInv
  <2>2. cert \in [Ids -> Toolbox!CertRows]
    BY DEF ToolboxInv, ToolboxTypes
  <2> QED BY <1>3, <2>1, <2>2 DEF TakesOver
<1>4. \A r \in Requests : TakesOver(work[r])'
  BY <1>3 DEF TakesOver
<1> QED BY <1>1, <1>2, <1>4 DEF ToolboxInv

LEMMA WorkEnds ==
  ASSUME ToolboxInv, NEW r \in Requests, work' = Toolbox!End(r), UNCHANGED <<ca, csr, cert>>
  PROVE  ToolboxInv'
BY WorkMoves, NoCertRowOK DEF Toolbox!End

LEMMA FromCsrOK ==
  ASSUME ToolboxInv, NEW c \in Csrs, NEW a \in CAs \cup {NoCA}
  PROVE  Toolbox!FromCsr(c, a) \in Toolbox!CertRows /\ Proper(Toolbox!FromCsr(c, a))
BY NoCertRowOK DEF ToolboxInv, ToolboxTypes, Toolbox!FromCsr, Toolbox!CsrRows,
   Toolbox!CertRows, Toolbox!NoCertRow, Proper

LEMMA IssueKeeps ==
  ASSUME ToolboxInv, NEW r \in Requests, Toolbox!Issue(r) PROVE ToolboxInv'
<1>1. work \in [Requests -> Toolbox!Works] /\ work[r] \in Toolbox!Works
  BY DEF ToolboxInv, ToolboxTypes
<1>2. ASSUME NEW c \in Csrs, Toolbox!SelfSign(r, c) PROVE ToolboxInv'
  <2> DEFINE w == [Toolbox!Idle EXCEPT !.pc = "insert", !.new = Toolbox!FromCsr(c, NoCA)]
  <2>1. w \in Toolbox!Works /\ w.new = Toolbox!FromCsr(c, NoCA) /\ w.pc # "take"
    BY FromCsrOK, NoCertRowOK DEF Toolbox!Idle, Toolbox!Works
  <2>2. work' = [work EXCEPT ![r] = w] /\ UNCHANGED <<ca, csr, cert>>
    BY <1>2 DEF Toolbox!SelfSign, Toolbox!Begin
  <2> HIDE DEF w
  <2> QED BY <2>1, <2>2, FromCsrOK, WorkMoves DEF TakesOver
<1>3. ASSUME NEW c \in Csrs, NEW a \in CAs, Toolbox!ReadCsr(r, c, a) PROVE ToolboxInv'
  <2> DEFINE w == [Toolbox!Idle EXCEPT !.pc = "ca", !.new = Toolbox!FromCsr(c, a), !.ca = a]
  <2>1. w \in Toolbox!Works /\ w.new = Toolbox!FromCsr(c, a) /\ w.pc # "take"
    BY FromCsrOK, NoCertRowOK DEF Toolbox!Idle, Toolbox!Works
  <2>2. work' = [work EXCEPT ![r] = w] /\ UNCHANGED <<ca, csr, cert>>
    BY <1>3 DEF Toolbox!ReadCsr, Toolbox!Begin
  <2> HIDE DEF w
  <2> QED BY <2>1, <2>2, FromCsrOK, WorkMoves DEF TakesOver
<1>4. CASE Toolbox!ReadCA(r)
  <2> DEFINE w == [work[r] EXCEPT !.pc = "insert"]
  <2>1. w \in Toolbox!Works /\ w.new = work[r].new /\ w.pc # "take"
    BY <1>1 DEF Toolbox!Works
  <2>2. work' = [work EXCEPT ![r] = w] /\ UNCHANGED <<ca, csr, cert>>
    BY <1>1, <1>4 DEF Toolbox!ReadCA, Toolbox!Step
  <2>3. Proper(work[r].new)
    BY DEF ToolboxInv
  <2> HIDE DEF w
  <2> QED BY <2>1, <2>2, <2>3, WorkMoves DEF TakesOver
<1>5. ASSUME NEW i \in Ids, Toolbox!Insert(r, i) PROVE ToolboxInv'
  <2> DEFINE w == [work[r] EXCEPT !.pc = "count", !.new = Toolbox!NoCertRow]
  <2>1. w \in Toolbox!Works /\ w.new = Toolbox!NoCertRow /\ w.pc # "take"
    BY <1>1, NoCertRowOK DEF Toolbox!Works
  <2>2. \/ work' = [work EXCEPT ![r] = w]
        \/ work' = [work EXCEPT ![r] = Toolbox!Idle]
    BY <1>1, <1>5 DEF Toolbox!Insert, Toolbox!End
  <2>3. /\ work[r].new \in Toolbox!CertRows /\ Proper(work[r].new)
        /\ cert' = [cert EXCEPT ![i] = work[r].new] /\ cert[i].is = "none"
        /\ UNCHANGED <<ca, csr>>
    BY <1>1, <1>5 DEF ToolboxInv, Toolbox!Insert, Toolbox!Works
  <2>4. /\ work' \in [Requests -> Toolbox!Works]
        /\ \A q \in Requests : \/ work'[q] = work[q]
                               \/ work'[q].pc # "take" /\ Proper(work'[q].new)
    <3> HIDE DEF w
    <3> QED BY <1>1, <2>1, <2>2, NoCertRowOK
  <2> QED BY <2>3, <2>4, CertMoves
<1>6. CASE Toolbox!Count(r)
  <2>1. ca' \in [CAs -> Toolbox!CARows]
    <3>1. ca \in [CAs -> Toolbox!CARows]
      BY DEF ToolboxInv, ToolboxTypes
    <3>2. CASE work[r].ca \in CAs
      BY <1>6, <3>1, <3>2, ToolboxAssumption DEF Toolbox!Count, Toolbox!CARows
    <3>3. CASE work[r].ca \notin CAs
      BY <1>6, <3>1, <3>3 DEF Toolbox!Count
    <3> QED BY <3>2, <3>3
  <2>2. /\ work' \in [Requests -> Toolbox!Works] /\ UNCHANGED <<csr, cert>>
        /\ \A q \in Requests : work'[q] = work[q] \/ work'[q] = Toolbox!Idle
    BY <1>1, <1>6, NoCertRowOK DEF Toolbox!Count, Toolbox!End
  <2>3. \A q \in Requests : Proper(work'[q].new) /\ TakesOver(work[q])'
    BY <2>2, NoCertRowOK DEF ToolboxInv, TakesOver
  <2> QED BY <2>1, <2>2, <2>3 DEF ToolboxInv, ToolboxTypes
<1> QED BY <1>2, <1>3, <1>4, <1>5, <1>6 DEF Toolbox!Issue

LEMMA ImportKeeps ==
  ASSUME ToolboxInv, NEW r \in Requests, Toolbox!Import(r) PROVE ToolboxInv'
<1>1. /\ work \in [Requests -> Toolbox!Works] /\ work[r] \in Toolbox!Works
      /\ cert \in [Ids -> Toolbox!CertRows]
  BY DEF ToolboxInv, ToolboxTypes
<1>2. ASSUME NEW w \in Toolbox!Works, Proper(w.new), TakesOver(w), Toolbox!Begin(r, w),
             UNCHANGED <<csr, ca, cert>>
      PROVE  ToolboxInv'
  BY <1>2, WorkMoves DEF Toolbox!Begin
<1>3. ASSUME NEW for \in Keys, NEW key \in Keys, NEW sealed \in BOOLEAN,
             Toolbox!Bring(r, for, key, sealed)
      PROVE  ToolboxInv'
  <2> DEFINE c == [Toolbox!NoCertRow EXCEPT !.is = "there", !.for = for, !.key = key,
                                            !.pair = TRUE, !.sealed = sealed]
             w == [Toolbox!Idle EXCEPT !.pc = "insert", !.new = c]
  <2>1. c \in Toolbox!CertRows /\ c.pair
    BY DEF Toolbox!NoCertRow, Toolbox!CertRows
  <2>2. Toolbox!Begin(r, w) /\ UNCHANGED <<csr, ca, cert>>
    BY <1>3 DEF Toolbox!Bring
  <2> HIDE DEF c
  <2>3. w \in Toolbox!Works /\ w.new = c /\ w.pc # "take"
    BY <2>1, NoCertRowOK DEF Toolbox!Works, Toolbox!Idle
  <2> HIDE DEF w
  <2> QED BY <1>2, <2>1, <2>2, <2>3 DEF Proper, TakesOver
<1>4. ASSUME NEW key \in Keys, Toolbox!ImportKey(r, key) PROVE ToolboxInv'
  <2> DEFINE c == [Toolbox!NoCertRow EXCEPT !.is = "there", !.key = key]
             w == [Toolbox!Idle EXCEPT !.pc = "insert", !.new = c]
  <2>1. c \in Toolbox!CertRows /\ c.for = NoKey
    BY DEF Toolbox!NoCertRow, Toolbox!CertRows
  <2>2. Toolbox!Begin(r, w) /\ UNCHANGED <<csr, ca, cert>>
    BY <1>4 DEF Toolbox!ImportKey
  <2> HIDE DEF c
  <2>3. w \in Toolbox!Works /\ w.new = c /\ w.pc # "take"
    BY <2>1, NoCertRowOK DEF Toolbox!Works, Toolbox!Idle
  <2> HIDE DEF w
  <2> QED BY <1>2, <2>1, <2>2, <2>3 DEF Proper, TakesOver
<1>5. ASSUME NEW for \in Keys, Toolbox!ImportCert(r, for) PROVE ToolboxInv'
  <2> DEFINE new == [Toolbox!NoCertRow EXCEPT !.is = "there", !.for = for]
             full == [new EXCEPT !.key = for]
             wait == [Toolbox!Idle EXCEPT !.pc = "insert", !.new = new]
             take(i) == [Toolbox!Idle EXCEPT !.pc = "take", !.orphan = i, !.new = full]
  <2>1. /\ new \in Toolbox!CertRows /\ new.key = NoKey
        /\ full \in Toolbox!CertRows /\ full.key = for /\ full.for = for
    BY DEF Toolbox!NoCertRow, Toolbox!CertRows
  <2>2. UNCHANGED <<csr, ca, cert>>
    BY <1>5 DEF Toolbox!ImportCert
  <2>3. \/ Toolbox!Begin(r, wait)
        \/ \E i \in Ids : /\ cert[i].is = "there" /\ cert[i].key = for
                          /\ Toolbox!Begin(r, take(i))
    BY <1>5 DEF Toolbox!ImportCert, Toolbox!Orphans, Toolbox!Matches
  <2> HIDE DEF new, full
  <2>4. wait \in Toolbox!Works /\ wait.new = new /\ wait.pc # "take"
    BY <2>1, NoCertRowOK DEF Toolbox!Works, Toolbox!Idle
  <2>5. \A i \in Ids : /\ take(i) \in Toolbox!Works /\ take(i).new = full
                       /\ take(i).orphan = i
    BY <2>1, NoCertRowOK DEF Toolbox!Works, Toolbox!Idle
  <2> HIDE DEF wait, take
  <2>6. CASE Toolbox!Begin(r, wait)
    BY <1>2, <2>1, <2>2, <2>4, <2>6 DEF Proper, TakesOver
  <2>7. ASSUME NEW i \in Ids, cert[i].is = "there", cert[i].key = for,
               Toolbox!Begin(r, take(i))
        PROVE  ToolboxInv'
    <3>1. Proper(take(i).new) /\ TakesOver(take(i))
      BY <2>1, <2>5, <2>7 DEF Proper, TakesOver
    <3> QED BY <1>2, <2>2, <2>5, <2>7, <3>1
  <2> QED BY <2>3, <2>6, <2>7
<1>6. CASE Toolbox!TakeOver(r)
  <2> DEFINE i == work[r].orphan
             w == [work[r] EXCEPT !.pc = "insert"]
  <2>1. /\ i \in Ids /\ cert[i] \in Toolbox!CertRows /\ Proper(work[r].new)
        /\ work' = [work EXCEPT ![r] = w] /\ UNCHANGED <<csr, ca>>
    BY <1>1, <1>6 DEF ToolboxInv, TakesOver, Toolbox!TakeOver, Toolbox!Step
  <2>2. w \in Toolbox!Works /\ w.new = work[r].new /\ w.pc # "take"
    BY <1>1 DEF Toolbox!Works
  <2>3. /\ Toolbox!Gone(i) \in Toolbox!CertRows /\ Toolbox!Gone(i).is = "gone"
        /\ Proper(Toolbox!Gone(i))
    BY <2>1 DEF Toolbox!Gone, Toolbox!CertRows, Toolbox!NoCertRow, Proper
  <2>4. cert' = cert \/ cert' = [cert EXCEPT ![i] = Toolbox!Gone(i)]
    BY <1>6 DEF Toolbox!TakeOver
  <2> HIDE DEF w, i
  <2>5. /\ work' \in [Requests -> Toolbox!Works]
        /\ \A q \in Requests : \/ work'[q] = work[q]
                               \/ work'[q].pc # "take" /\ Proper(work'[q].new)
    BY <1>1, <2>1, <2>2
  <2>6. CASE cert' = cert
    BY <2>1, <2>2, <2>6, WorkMoves DEF TakesOver
  <2>7. CASE cert' = [cert EXCEPT ![i] = Toolbox!Gone(i)]
    BY <2>1, <2>3, <2>5, <2>7, CertMoves
  <2> QED BY <2>4, <2>6, <2>7
<1> QED BY <1>3, <1>4, <1>5, <1>6 DEF Toolbox!Import, Toolbox!ImportPair, Toolbox!Deliver

LEMMA AdministerToolboxKeeps ==
  ASSUME ToolboxInv, Toolbox!Administer PROVE ToolboxInv'
<1>1. /\ cert \in [Ids -> Toolbox!CertRows] /\ ca \in [CAs -> Toolbox!CARows]
      /\ csr \in [Csrs -> Toolbox!CsrRows] /\ work \in [Requests -> Toolbox!Works]
  BY DEF ToolboxInv, ToolboxTypes
<1>2. CASE Toolbox!AdministerCsrs
  <2>1. csr' \in [Csrs -> Toolbox!CsrRows]
    BY <1>1, <1>2 DEF Toolbox!AdministerCsrs, Toolbox!CreateCsr, Toolbox!DeleteCsr,
                      Toolbox!CsrRows
  <2>2. UNCHANGED <<ca, cert, work>>
    BY <1>2 DEF Toolbox!AdministerCsrs, Toolbox!CreateCsr, Toolbox!DeleteCsr
  <2> QED BY <2>1, <2>2 DEF ToolboxInv, ToolboxTypes, TakesOver
<1>3. CASE Toolbox!AdministerCAs
  <2>1. ca' \in [CAs -> Toolbox!CARows]
    <3>1. ASSUME NEW a \in CAs, NEW key \in {"own", "other", "none"}, Toolbox!CreateCA(a, key)
          PROVE  ca' \in [CAs -> Toolbox!CARows]
      <4>1. [Toolbox!NoCARow EXCEPT !.is = "there", !.key = key] \in Toolbox!CARows
        <5>1. Toolbox!NoCARow \in Toolbox!CARows
          BY ToolboxAssumption DEF Toolbox!CARows, Toolbox!NoCARow
        <5> QED BY <5>1 DEF Toolbox!CARows
      <4> QED BY <1>1, <3>1, <4>1 DEF Toolbox!CreateCA
    <3>2. ASSUME NEW a \in CAs, Toolbox!RevokeCA(a) PROVE ca' \in [CAs -> Toolbox!CARows]
      BY <1>1, <3>2 DEF Toolbox!RevokeCA, Toolbox!CARows
    <3>3. ASSUME NEW a \in CAs, Toolbox!DeleteCA(a) PROVE ca' \in [CAs -> Toolbox!CARows]
      BY <1>1, <3>3 DEF Toolbox!DeleteCA, Toolbox!CARows
    <3> QED BY <1>3, <3>1, <3>2, <3>3 DEF Toolbox!AdministerCAs
  <2>2. UNCHANGED <<csr, cert, work>>
    BY <1>3 DEF Toolbox!AdministerCAs, Toolbox!CreateCA, Toolbox!RevokeCA, Toolbox!DeleteCA
  <2> QED BY <2>1, <2>2 DEF ToolboxInv, ToolboxTypes, TakesOver
<1>4. ASSUME NEW i \in Ids, cert[i].is = "there", UNCHANGED <<csr, ca, work>>,
             NEW c \in {[cert[i] EXCEPT !.revoked = TRUE], Toolbox!Gone(i),
                        [cert[i] EXCEPT !.key = NoKey]},
             cert' = [cert EXCEPT ![i] = c]
      PROVE  ToolboxInv'
  <2>1. cert[i] \in Toolbox!CertRows /\ Proper(cert[i])
    BY <1>1 DEF ToolboxInv
  <2>2. /\ c \in Toolbox!CertRows /\ Proper(c) /\ c.is # "none"
        /\ c.is = "there" => c.key \in {NoKey, cert[i].key}
    BY <1>4, <2>1 DEF Toolbox!CertRows, Proper, Toolbox!Gone, Toolbox!NoCertRow
  <2> QED BY <1>1, <1>4, <2>2, CertMoves
<1>5. CASE Toolbox!AdministerCerts
  BY <1>1, <1>4, <1>5 DEF Toolbox!AdministerCerts, Toolbox!RevokeCert, Toolbox!DeleteCert,
                     Toolbox!DeletePrivateKey
<1> QED BY <1>2, <1>3, <1>5 DEF Toolbox!Administer

LEMMA ToolboxInit == StoreInit => ToolboxInv
BY NoCertRowOK, ToolboxAssumption
   DEF StoreInit, Toolbox!Init, ToolboxInv, ToolboxTypes, Toolbox!NoCsrRow, Toolbox!CsrRows,
       Toolbox!NoCARow, Toolbox!CARows

LEMMA ToolboxNext == ToolboxInv /\ [StoreNext]_allVars => ToolboxInv'
<1> SUFFICES ASSUME ToolboxInv, [StoreNext]_allVars PROVE ToolboxInv'
  OBVIOUS
<1>1. CASE StartAgain
  BY <1>1, NoCertRowOK
     DEF StartAgain, Toolbox!Restart, ToolboxInv, ToolboxTypes, TakesOver
<1>2. CASE ToolboxStep
  BY <1>2, AdministerToolboxKeeps, IssueKeeps, ImportKeeps, WorkEnds
     DEF ToolboxStep, Toolbox!Handler, Toolbox!Fail
<1>3. CASE CardsStep \/ UNCHANGED allVars
  BY <1>3 DEF CardsStep, allVars, ToolboxInv, ToolboxTypes, TakesOver
<1> QED BY <1>1, <1>2, <1>3 DEF StoreNext

LEMMA ToolboxHolds == StoreSpec => []ToolboxInv
BY ToolboxInit, ToolboxNext, PTL DEF StoreSpec

\* Every credential of a card opens the master key that seals its private keys,
\* in its row and in the slot that works on an old copy of it (ResetPIN, ResetPUK,
\* encryptAndStoreCert); and the private key exported with a certificate is its own
\* (importCertOnly, ExportCert).
THEOREM KeysFitTogether == StoreSpec => []KeysFit
<1>1. ToolboxInv => ExportsItsKey
  BY DEF ToolboxInv, ExportsItsKey, Toolbox!ExportsItsKey, Toolbox!Exports, Proper
<1>2. CardsInv /\ ToolboxInv => KeysFit
  BY <1>1, CardsOpen DEF KeysFit
<1> QED BY <1>2, CardsHold, ToolboxHolds, PTL

(* Private keys that leave the toolbox.                                     *)

\* A key that is kept in a row that stays is kept.
LEMMA StillKept ==
  ASSUME NEW k, \/ \E c \in Csrs : Toolbox!InCsr(c, k) /\ csr'[c] = csr[c]
                \/ \E i \in Ids : /\ Toolbox!InCert(i, k)
                                  /\ cert'[i].is = "there" /\ cert'[i].key = cert[i].key
  PROVE  Toolbox!Kept(k)'
BY DEF Toolbox!Kept, Toolbox!InCsr, Toolbox!InCert

LEMMA ToolboxKeeps ==
  ASSUME ToolboxInv, ToolboxStep PROVE KeysKept
<1> SUFFICES ASSUME NEW k \in Keys, Toolbox!Kept(k), ~Toolbox!Kept(k)'
             PROVE  \/ \E c \in Csrs : /\ Toolbox!InCsr(c, k) /\ work' = work
                                       /\ csr'[c].is = "gone"
                    \/ \E i \in Ids : /\ Toolbox!InCert(i, k) /\ work' = work
                                      /\ \/ cert'[i].is = "gone"
                                         \/ cert'[i] = [cert[i] EXCEPT !.key = NoKey]
                    \/ \E r \in Requests : work'[r].pc = "insert" /\ work'[r].new.key = k
  BY DEF KeysKept, Toolbox!KeysKept
<1>1. /\ cert \in [Ids -> Toolbox!CertRows] /\ csr \in [Csrs -> Toolbox!CsrRows]
      /\ work \in [Requests -> Toolbox!Works]
  BY DEF ToolboxInv, ToolboxTypes
<1>2. CASE UNCHANGED <<csr, cert>>
  BY <1>2 DEF Toolbox!Kept, Toolbox!InCsr, Toolbox!InCert
<1>3. ASSUME NEW c \in Csrs, NEW q, NEW kept, Toolbox!CreateCsr(c, q, kept) PROVE FALSE
  <2>1. UNCHANGED cert /\ \A d \in Csrs : Toolbox!InCsr(d, k) => csr'[d] = csr[d]
    BY <1>1, <1>3 DEF Toolbox!CreateCsr, Toolbox!InCsr
  <2> QED BY <2>1, StillKept DEF Toolbox!Kept, Toolbox!InCert
<1>4. ASSUME NEW c \in Csrs, Toolbox!DeleteCsr(c)
      PROVE  Toolbox!InCsr(c, k) /\ csr'[c].is = "gone" /\ work' = work
  <2>1. /\ UNCHANGED <<cert, work>> /\ csr'[c].is = "gone"
        /\ \A d \in Csrs : d # c => csr'[d] = csr[d]
    BY <1>1, <1>4 DEF Toolbox!DeleteCsr, Toolbox!CsrRows
  <2> QED BY <2>1, StillKept DEF Toolbox!Kept, Toolbox!InCert
<1>5. ASSUME NEW i \in Ids, Toolbox!RevokeCert(i) PROVE FALSE
  <2>1. /\ UNCHANGED csr
        /\ \A d \in Ids : cert'[d].is = cert[d].is /\ cert'[d].key = cert[d].key
    BY <1>1, <1>5 DEF Toolbox!RevokeCert, Toolbox!CertRows
  <2> QED BY <2>1, StillKept DEF Toolbox!Kept, Toolbox!InCert
<1>6. ASSUME NEW i \in Ids, Toolbox!DeleteCert(i) \/ Toolbox!DeletePrivateKey(i)
      PROVE  /\ Toolbox!InCert(i, k) /\ work' = work
             /\ \/ cert'[i].is = "gone"
                \/ cert'[i] = [cert[i] EXCEPT !.key = NoKey]
  <2>1. /\ UNCHANGED <<csr, work>> /\ \A d \in Ids : d # i => cert'[d] = cert[d]
        /\ \/ cert'[i].is = "gone"
           \/ cert'[i] = [cert[i] EXCEPT !.key = NoKey]
    BY <1>1, <1>6 DEF Toolbox!DeleteCert, Toolbox!DeletePrivateKey, Toolbox!Gone,
                      Toolbox!NoCertRow
  <2> QED BY <2>1, StillKept DEF Toolbox!Kept, Toolbox!InCert
<1>7. ASSUME NEW r \in Requests, Toolbox!TakeOver(r)
      PROVE  work'[r].pc = "insert" /\ work'[r].new.key = k
  <2> DEFINE o == work[r].orphan
  <2>1. /\ work[r].pc = "take" /\ work[r] \in Toolbox!Works /\ o \in Ids
        /\ cert[o].is = "there" => cert[o].key \in {NoKey, work[r].new.key}
    BY <1>1, <1>7 DEF ToolboxInv, TakesOver, Toolbox!TakeOver
  <2>2. UNCHANGED csr /\ \A d \in Ids : d # o => cert'[d] = cert[d]
    BY <1>1, <1>7 DEF Toolbox!TakeOver
  <2>3. Toolbox!InCert(o, k)
    BY <2>2, StillKept DEF Toolbox!Kept, Toolbox!InCert
  <2>4. work[r].new.key = k
    BY <2>1, <2>3, ToolboxAssumption DEF Toolbox!InCert
  <2>5. work' = [work EXCEPT ![r].pc = "insert"]
    BY <1>7 DEF Toolbox!TakeOver, Toolbox!Step
  <2> QED BY <1>1, <2>1, <2>4, <2>5 DEF Toolbox!Works
<1>8. CASE Toolbox!Administer
  BY <1>2, <1>3, <1>4, <1>5, <1>6, <1>8
     DEF Toolbox!Administer, Toolbox!AdministerCsrs, Toolbox!AdministerCAs,
         Toolbox!AdministerCerts, Toolbox!CreateCA, Toolbox!RevokeCA, Toolbox!DeleteCA
<1>9. ASSUME NEW r \in Requests, Toolbox!Issue(r) PROVE FALSE
  <2>1. ASSUME NEW i \in Ids, Toolbox!Insert(r, i) PROVE FALSE
    <3>1. UNCHANGED csr /\ cert[i].is = "none" /\ cert' = [cert EXCEPT ![i] = work[r].new]
      BY <2>1 DEF Toolbox!Insert
    <3>2. \A d \in Ids : Toolbox!InCert(d, k) => cert'[d] = cert[d]
      BY <1>1, <3>1 DEF Toolbox!InCert
    <3> QED BY <3>1, <3>2, StillKept DEF Toolbox!Kept, Toolbox!InCert
  <2>2. UNCHANGED <<csr, cert>> \/ \E i \in Ids : Toolbox!Insert(r, i)
    BY <1>9 DEF Toolbox!Issue, Toolbox!SelfSign, Toolbox!ReadCsr, Toolbox!ReadCA, Toolbox!Count
  <2>3. ~UNCHANGED <<csr, cert>>
    BY DEF Toolbox!Kept, Toolbox!InCsr, Toolbox!InCert
  <2> QED BY <2>1, <2>2, <2>3
<1>10. ASSUME NEW r \in Requests, Toolbox!Import(r) \/ Toolbox!Fail(r)
       PROVE  UNCHANGED <<csr, cert>> \/ Toolbox!TakeOver(r)
  BY <1>10 DEF Toolbox!Import, Toolbox!ImportPair, Toolbox!Deliver, Toolbox!Bring,
               Toolbox!ImportKey, Toolbox!ImportCert, Toolbox!Fail
<1> QED BY <1>2, <1>7, <1>8, <1>9, <1>10 DEF ToolboxStep, Toolbox!Handler

LEMMA KeysStay == ToolboxInv /\ [StoreNext]_allVars => KeysKept
<1> SUFFICES ASSUME ToolboxInv, [StoreNext]_allVars PROVE KeysKept
  OBVIOUS
<1>1. CASE ToolboxStep
  BY <1>1, ToolboxKeeps
<1>2. CASE StartAgain \/ CardsStep \/ UNCHANGED allVars
  <2>1. UNCHANGED <<csr, cert>>
    BY <1>2 DEF StartAgain, Toolbox!Restart, CardsStep, allVars
  <2> QED BY <2>1 DEF KeysKept, Toolbox!KeysKept, Toolbox!Kept, Toolbox!InCsr, Toolbox!InCert
<1> QED BY <1>1, <1>2 DEF StoreNext

\* A credential of a card changes, a locked PUK works again and a count of failures
\* falls only by the reset that is meant to do so (ResetPIN, ResetPUK, bumpFailure),
\* or by a request that wrote an old copy; and a private key of the toolbox leaves
\* the database only where someone means it to (importCertOnly, handleDeleteCSR).
THEOREM SecretsAreKept == StoreSpec => SecretsKept
<1>1. CardsInv /\ ToolboxInv /\ [StoreNext]_allVars => [CredentialRules /\ KeysKept]_allVars
  BY CredentialsKept, KeysStay
<1> QED BY <1>1, CardsHold, ToolboxHolds, PTL DEF StoreSpec, SecretsKept

(* What a certificate authority counts.                                     *)

SignedBy(a) == {i \in Ids : cert[i].ca = a}
Counting(a) == {r \in Requests : work[r].pc = "count" /\ work[r].ca = a}

\* A request signs for the CA it counts on, and a row that is not there is empty.
Ready(w) == w.pc \in {"ca", "insert", "take"} => w.new.ca = w.ca /\ w.new.is = "there"
SignsFor ==
    /\ \A r \in Requests : Ready(work[r])
    /\ \A i \in Ids : cert[i].is = "none" => cert[i].ca = NoCA

\* A CA has counted at most what it signed and does not wait for its count.
Counted(a) ==
    /\ IsFiniteSet(SignedBy(a)) /\ IsFiniteSet(Counting(a))
    /\ ca[a].issued + Cardinality(Counting(a)) <= Cardinality(SignedBy(a))

CountsInv == ToolboxInv /\ SignsFor /\ \A a \in CAs : Counted(a)

\* Nothing that is counted changes, but that some who count give up.
LEMMA LessCounting ==
  ASSUME ToolboxInv, NEW a \in CAs, Counted(a), SignedBy(a)' = SignedBy(a),
         Counting(a)' \subseteq Counting(a),
         ca'[a].issued \in Nat, ca'[a].issued <= ca[a].issued
  PROVE  Counted(a)'
<1>1. /\ IsFiniteSet(Counting(a)') /\ Cardinality(Counting(a)') <= Cardinality(Counting(a))
      /\ Cardinality(Counting(a)') \in Nat /\ Cardinality(Counting(a)) \in Nat
      /\ Cardinality(SignedBy(a)) \in Nat
  BY FS_Subset, FS_CardinalityType DEF Counted
<1>2. ca[a].issued \in Nat
  BY ToolboxAssumption DEF ToolboxInv, ToolboxTypes, Toolbox!CARows
<1> QED BY <1>1, <1>2 DEF Counted

\* Neither a certificate nor a count.
LEMMA CountsStay ==
  ASSUME CountsInv, ToolboxInv', SignsFor',
         \A i \in Ids : cert'[i].ca = cert[i].ca,
         \A r \in Requests : \/ work'[r] = work[r] \/ work'[r].pc # "count",
         \A a \in CAs : ca'[a].issued <= ca[a].issued
  PROVE  CountsInv'
<1> SUFFICES ASSUME NEW a \in CAs PROVE Counted(a)'
  BY DEF CountsInv
<1>1. SignedBy(a)' = SignedBy(a) /\ Counting(a)' \subseteq Counting(a)
  BY DEF SignedBy, Counting
<1>2. ca'[a].issued \in Nat
  BY ToolboxAssumption DEF ToolboxInv, ToolboxTypes, Toolbox!CARows
<1> QED BY <1>1, <1>2, LessCounting DEF CountsInv

\* The steps that do not sign.
LEMMA OthersCount ==
  ASSUME CountsInv, ToolboxInv', ToolboxStep,
         ~ \E r \in Requests : Toolbox!Count(r) \/ \E i \in Ids : Toolbox!Insert(r, i)
  PROVE  CountsInv'
<1>1. /\ cert \in [Ids -> Toolbox!CertRows] /\ ca \in [CAs -> Toolbox!CARows]
      /\ work \in [Requests -> Toolbox!Works] /\ SignsFor
  BY DEF CountsInv, ToolboxInv, ToolboxTypes
<1>2. \A a \in CAs : ca[a].issued \in Nat
  BY <1>1, ToolboxAssumption DEF Toolbox!CARows
<1>3. CASE UNCHANGED <<ca, cert, work>>
  BY <1>1, <1>2, <1>3, CountsStay DEF SignsFor
<1>4. CASE Toolbox!AdministerCAs
  <2>1. UNCHANGED <<cert, work>>
    BY <1>4 DEF Toolbox!AdministerCAs, Toolbox!CreateCA, Toolbox!RevokeCA, Toolbox!DeleteCA
  <2>2. \A a \in CAs : ca'[a].issued <= ca[a].issued
    <3>1. ASSUME NEW b \in CAs, NEW key, Toolbox!CreateCA(b, key)
          PROVE  \A a \in CAs : ca'[a].issued \in {0, ca[a].issued}
      BY <1>1, <3>1 DEF Toolbox!CreateCA, Toolbox!NoCARow
    <3>2. ASSUME NEW b \in CAs, Toolbox!RevokeCA(b) \/ Toolbox!DeleteCA(b)
          PROVE  \A a \in CAs : ca'[a].issued = ca[a].issued
      BY <1>1, <3>2 DEF Toolbox!RevokeCA, Toolbox!DeleteCA, Toolbox!CARows
    <3>3. \A a \in CAs : ca'[a].issued \in {0, ca[a].issued}
      BY <1>4, <3>1, <3>2 DEF Toolbox!AdministerCAs
    <3> QED BY <1>2, <3>3
  <2> QED BY <1>1, <2>1, <2>2, CountsStay DEF SignsFor
<1>5. CASE Toolbox!AdministerCerts
  <2>1. ASSUME NEW i \in Ids, cert[i].is = "there",
               NEW c \in {[cert[i] EXCEPT !.revoked = TRUE], Toolbox!Gone(i),
                          [cert[i] EXCEPT !.key = NoKey]},
               cert' = [cert EXCEPT ![i] = c]
        PROVE  \A k \in Ids : /\ cert'[k].ca = cert[k].ca
                              /\ cert'[k].is = "none" => cert[k].is = "none"
    <3>1. c.ca = cert[i].ca /\ c.is # "none"
      BY <1>1, <2>1 DEF Toolbox!CertRows, Toolbox!Gone, Toolbox!NoCertRow
    <3> QED BY <1>1, <2>1, <3>1
  <2>2. /\ \A k \in Ids : /\ cert'[k].ca = cert[k].ca
                          /\ cert'[k].is = "none" => cert[k].is = "none"
        /\ UNCHANGED <<ca, work>>
    BY <1>1, <1>5, <2>1 DEF Toolbox!AdministerCerts, Toolbox!RevokeCert, Toolbox!DeleteCert,
                            Toolbox!DeletePrivateKey
  <2> QED BY <1>1, <1>2, <2>2, CountsStay DEF SignsFor
<1>6. ASSUME NEW r \in Requests, NEW w, w.pc # "count", Ready(w),
             work' = [work EXCEPT ![r] = w], UNCHANGED <<ca, cert>>
      PROVE  CountsInv'
  <2>1. SignsFor' /\ \A q \in Requests : work'[q] = work[q] \/ work'[q].pc # "count"
    BY <1>1, <1>6 DEF SignsFor
  <2> QED BY <1>2, <1>6, <2>1, CountsStay
<1>7. ASSUME NEW r \in Requests, Toolbox!Handler(r),
             ~ (Toolbox!Count(r) \/ \E i \in Ids : Toolbox!Insert(r, i))
      PROVE  CountsInv'
  <2>1. Toolbox!Idle \in Toolbox!Works /\ Toolbox!Idle.new.ca = NoCA
        /\ Toolbox!Idle.ca = NoCA /\ Toolbox!Idle.pc = "idle"
    BY NoCertRowOK DEF Toolbox!Idle, Toolbox!NoCertRow
  <2>2. CASE Toolbox!Fail(r)
    BY <1>6, <2>1, <2>2 DEF Toolbox!Fail, Toolbox!End, Ready
  <2>3. CASE Toolbox!ReadCA(r)
    <3> DEFINE w == [work[r] EXCEPT !.pc = "insert"]
    <3>1. w.pc = "insert" /\ w.new = work[r].new /\ w.ca = work[r].ca
      BY <1>1 DEF Toolbox!Works
    <3>2. work[r].new.ca = work[r].ca /\ work[r].new.is = "there"
      BY <1>1, <2>3 DEF SignsFor, Ready, Toolbox!ReadCA
    <3>3. work' = [work EXCEPT ![r] = w] /\ UNCHANGED <<ca, cert>>
      BY <1>1, <2>3 DEF Toolbox!ReadCA, Toolbox!Step
    <3> HIDE DEF w
    <3> QED BY <1>6, <3>1, <3>2, <3>3 DEF Ready
  <2>4. CASE Toolbox!TakeOver(r)
    <3> DEFINE w == [work[r] EXCEPT !.pc = "insert"]
               i == work[r].orphan
    <3>1. w.pc = "insert" /\ w.new = work[r].new /\ w.ca = work[r].ca
      BY <1>1 DEF Toolbox!Works
    <3>2. work[r].new.ca = work[r].ca /\ work[r].new.is = "there"
      BY <1>1, <2>4 DEF SignsFor, Ready, Toolbox!TakeOver
    <3>3. work' = [work EXCEPT ![r] = w] /\ UNCHANGED ca
          /\ (cert' = cert \/ cert' = [cert EXCEPT ![i] = Toolbox!Gone(i)])
      BY <1>1, <2>4 DEF Toolbox!TakeOver, Toolbox!Step
    <3>4. Toolbox!Gone(i).ca = cert[i].ca /\ Toolbox!Gone(i).is = "gone"
      BY DEF Toolbox!Gone, Toolbox!NoCertRow
    <3> HIDE DEF w, i
    <3>5. \A k \in Ids : /\ cert'[k].ca = cert[k].ca
                         /\ cert'[k].is = "none" => cert[k].is = "none"
      BY <1>1, <3>3, <3>4
    <3>6. SignsFor' /\ \A q \in Requests : work'[q] = work[q] \/ work'[q].pc # "count"
      BY <1>1, <3>1, <3>2, <3>3, <3>5 DEF SignsFor, Ready
    <3> QED BY <1>2, <3>3, <3>5, <3>6, CountsStay
  <2>5. ASSUME NEW c, NEW a, Toolbox!FromCsr(c, a).ca = a,
               Toolbox!FromCsr(c, a).is = "there",
               \/ Toolbox!SelfSign(r, c) /\ a = NoCA
               \/ Toolbox!ReadCsr(r, c, a)
        PROVE  CountsInv'
    <3> DEFINE v == [Toolbox!Idle EXCEPT !.pc = "insert", !.new = Toolbox!FromCsr(c, a)]
               w == [Toolbox!Idle EXCEPT !.pc = "ca", !.new = Toolbox!FromCsr(c, a), !.ca = a]
    <3>1. /\ v.pc = "insert" /\ v.new = Toolbox!FromCsr(c, a) /\ v.ca = NoCA
          /\ w.pc = "ca" /\ w.new = Toolbox!FromCsr(c, a) /\ w.ca = a
      BY DEF Toolbox!Idle
    <3>2. /\ \/ work' = [work EXCEPT ![r] = v] /\ a = NoCA
             \/ work' = [work EXCEPT ![r] = w]
          /\ UNCHANGED <<ca, cert>>
      BY <2>5 DEF Toolbox!SelfSign, Toolbox!ReadCsr, Toolbox!Begin
    <3> HIDE DEF v, w
    <3> QED BY <1>6, <2>5, <3>1, <3>2 DEF Ready
  <2>6. \A c, a : Toolbox!FromCsr(c, a).ca = a /\ Toolbox!FromCsr(c, a).is = "there"
    BY DEF Toolbox!FromCsr, Toolbox!NoCertRow
  <2>7. ASSUME NEW w, w.pc # "count", Ready(w), Toolbox!Begin(r, w),
               UNCHANGED <<ca, cert>>
        PROVE  CountsInv'
    BY <1>6, <2>7 DEF Toolbox!Begin
  <2>8. ASSUME NEW for, NEW key, NEW sealed, Toolbox!Bring(r, for, key, sealed)
        PROVE  CountsInv'
    BY <2>7, <2>8 DEF Ready, Toolbox!Bring, Toolbox!Idle, Toolbox!NoCertRow
  <2>9. ASSUME NEW key, Toolbox!ImportKey(r, key) PROVE CountsInv'
    BY <2>7, <2>9 DEF Ready, Toolbox!ImportKey, Toolbox!Idle, Toolbox!NoCertRow
  <2>10. ASSUME NEW for, Toolbox!ImportCert(r, for) PROVE CountsInv'
    BY <2>7, <2>10 DEF Ready, Toolbox!ImportCert, Toolbox!Idle, Toolbox!NoCertRow
  <2>11. Toolbox!Issue(r) => \/ Toolbox!ReadCA(r)
                             \/ \E c \in Csrs, a \in CAs \cup {NoCA} :
                                  \/ Toolbox!SelfSign(r, c) /\ a = NoCA
                                  \/ Toolbox!ReadCsr(r, c, a)
    BY <1>7 DEF Toolbox!Issue
  <2>12. Toolbox!Import(r) => \/ Toolbox!TakeOver(r)
                              \/ \E for, key, sealed : Toolbox!Bring(r, for, key, sealed)
                              \/ \E key : Toolbox!ImportKey(r, key) \/ Toolbox!ImportCert(r, key)
    BY DEF Toolbox!Import, Toolbox!ImportPair, Toolbox!Deliver
  <2> QED BY <1>7, <2>2, <2>3, <2>4, <2>5, <2>6, <2>8, <2>9, <2>10, <2>11, <2>12
          DEF Toolbox!Handler
<1>8. Toolbox!AdministerCsrs => UNCHANGED <<ca, cert, work>>
  BY DEF Toolbox!AdministerCsrs, Toolbox!CreateCsr, Toolbox!DeleteCsr
<1> QED BY <1>3, <1>4, <1>5, <1>7, <1>8 DEF ToolboxStep, Toolbox!Administer

\* A certificate is signed, and its CA has yet to count it.
LEMMA InsertCounts ==
  ASSUME CountsInv, ToolboxInv', NEW r \in Requests, NEW i \in Ids, Toolbox!Insert(r, i)
  PROVE  CountsInv'
<1> DEFINE b == work[r].ca
<1>1. /\ cert \in [Ids -> Toolbox!CertRows] /\ work \in [Requests -> Toolbox!Works]
      /\ work[r] \in Toolbox!Works /\ SignsFor
  BY DEF CountsInv, ToolboxInv, ToolboxTypes
<1>2. /\ cert' = [cert EXCEPT ![i] = work[r].new] /\ work[r].new.ca = b
      /\ cert[i].ca = NoCA /\ work[r].pc = "insert" /\ UNCHANGED ca
  BY <1>1 DEF SignsFor, Ready, Toolbox!Insert
<1>3. /\ \A q \in Requests : q # r => work'[q] = work[q]
      /\ b = NoCA => work'[r].pc = "idle"
      /\ b # NoCA => work'[r].pc = "count" /\ work'[r].ca = b
  <2>1. [work[r] EXCEPT !.pc = "count", !.new = Toolbox!NoCertRow].pc = "count"
        /\ [work[r] EXCEPT !.pc = "count", !.new = Toolbox!NoCertRow].ca = b
    BY <1>1 DEF Toolbox!Works
  <2> QED BY <1>1, <2>1, NoCertRowOK DEF Toolbox!Insert, Toolbox!End
<1>4. SignsFor'
  <2>1. work[r].new.is = "there"
    BY <1>1, <1>2 DEF SignsFor, Ready
  <2>2. \A k \in Ids : cert'[k].is = "none" => cert'[k].ca = NoCA
    BY <1>1, <1>2, <2>1 DEF SignsFor
  <2>3. \A q \in Requests : Ready(work'[q])
    BY <1>1, <1>3 DEF SignsFor, Ready
  <2> QED BY <2>2, <2>3 DEF SignsFor, Ready
<1>5. ASSUME NEW a \in CAs PROVE Counted(a)'
  <2>1. /\ Counted(a) /\ IsFiniteSet(SignedBy(a)) /\ IsFiniteSet(Counting(a))
        /\ ca[a].issued + Cardinality(Counting(a)) <= Cardinality(SignedBy(a))
        /\ ca[a].issued \in Nat
    BY ToolboxAssumption DEF CountsInv, Counted, ToolboxInv, ToolboxTypes, Toolbox!CARows
  <2>2. CASE a = b
    <3>1. SignedBy(a)' = SignedBy(a) \cup {i} /\ i \notin SignedBy(a)
      BY <1>1, <1>2, <2>2, ToolboxAssumption DEF SignedBy
    <3>2. Counting(a)' = Counting(a) \cup {r} /\ r \notin Counting(a)
      BY <1>1, <1>2, <1>3, <2>2, ToolboxAssumption DEF Counting
    <3>3. /\ IsFiniteSet(SignedBy(a)') /\ IsFiniteSet(Counting(a)')
          /\ Cardinality(SignedBy(a)') = Cardinality(SignedBy(a)) + 1
          /\ Cardinality(Counting(a)') = Cardinality(Counting(a)) + 1
      BY <2>1, <3>1, <3>2, FS_AddElement
    <3>4. Cardinality(SignedBy(a)) \in Nat /\ Cardinality(Counting(a)) \in Nat
      BY <2>1, FS_CardinalityType
    <3> QED BY <1>2, <2>1, <3>3, <3>4 DEF Counted
  <2>3. CASE a # b
    <3>1. SignedBy(a)' = SignedBy(a)
      BY <1>1, <1>2, <2>3, ToolboxAssumption DEF SignedBy
    <3>2. Counting(a)' \subseteq Counting(a)
      BY <1>1, <1>2, <1>3, <2>3 DEF Counting
    <3> QED BY <1>2, <2>1, <3>1, <3>2, LessCounting DEF CountsInv
  <2> QED BY <2>2, <2>3
<1> QED BY <1>4, <1>5 DEF CountsInv

\* A CA counts a certificate, or is gone and does not.
LEMMA CountCounts ==
  ASSUME CountsInv, ToolboxInv', NEW r \in Requests, Toolbox!Count(r)
  PROVE  CountsInv'
<1> DEFINE b == work[r].ca
<1>1. /\ cert \in [Ids -> Toolbox!CertRows] /\ work \in [Requests -> Toolbox!Works]
      /\ ca \in [CAs -> Toolbox!CARows] /\ SignsFor
  BY DEF CountsInv, ToolboxInv, ToolboxTypes
<1>2. /\ work[r].pc = "count" /\ UNCHANGED cert
      /\ \A q \in Requests : q # r => work'[q] = work[q]
      /\ work'[r].pc = "idle"
  BY <1>1, NoCertRowOK DEF Toolbox!Count, Toolbox!End
<1>3. SignsFor'
  BY <1>1, <1>2 DEF SignsFor, Ready
<1>4. ASSUME NEW a \in CAs PROVE Counted(a)'
  <2>1. /\ Counted(a) /\ IsFiniteSet(SignedBy(a)) /\ IsFiniteSet(Counting(a))
        /\ ca[a].issued + Cardinality(Counting(a)) <= Cardinality(SignedBy(a))
        /\ ca[a].issued \in Nat
    BY <1>1, ToolboxAssumption DEF CountsInv, Counted, Toolbox!CARows
  <2>2. SignedBy(a)' = SignedBy(a) /\ Counting(a)' = Counting(a) \ {r}
    BY <1>1, <1>2 DEF SignedBy, Counting
  <2>3. CASE a = b
    <3>1. r \in Counting(a)
      BY <1>2, <2>3 DEF Counting
    <3>2. ca'[a].issued \in {ca[a].issued, ca[a].issued + 1}
      BY <1>1, <2>3 DEF Toolbox!Count, Toolbox!CARows
    <3>3. IsFiniteSet(Counting(a)') /\ Cardinality(Counting(a)') = Cardinality(Counting(a)) - 1
      BY <2>1, <2>2, <3>1, FS_RemoveElement
    <3>4. Cardinality(SignedBy(a)) \in Nat /\ Cardinality(Counting(a)) \in Nat
      BY <2>1, FS_CardinalityType
    <3> QED BY <2>1, <2>2, <3>2, <3>3, <3>4 DEF Counted
  <2>4. CASE a # b
    <3>1. ca'[a] = ca[a]
      BY <1>1, <2>4 DEF Toolbox!Count
    <3> QED BY <2>1, <2>2, <3>1, LessCounting DEF CountsInv
  <2> QED BY <2>3, <2>4
<1> QED BY <1>3, <1>4 DEF CountsInv

LEMMA CountsStart == StoreInit => CountsInv
<1> SUFFICES ASSUME StoreInit PROVE CountsInv
  OBVIOUS
<1>1. SignsFor
  BY DEF StoreInit, Toolbox!Init, SignsFor, Ready, Toolbox!Idle, Toolbox!NoCertRow
<1>2. ASSUME NEW a \in CAs PROVE Counted(a)
  <2>1. SignedBy(a) = {} /\ Counting(a) = {} /\ ca[a].issued = 0
    BY ToolboxAssumption
       DEF StoreInit, Toolbox!Init, SignedBy, Counting, Toolbox!Idle, Toolbox!NoCertRow,
           Toolbox!NoCARow
  <2> QED BY <2>1, FS_EmptySet DEF Counted
<1> QED BY <1>1, <1>2, ToolboxInit DEF CountsInv

LEMMA CountsNext == CountsInv /\ [StoreNext]_allVars => CountsInv'
<1> SUFFICES ASSUME CountsInv, [StoreNext]_allVars PROVE CountsInv'
  OBVIOUS
<1>1. ToolboxInv'
  BY ToolboxNext DEF CountsInv
<1>2. CASE ToolboxStep
  <2>1. CASE \E r \in Requests : Toolbox!Count(r) \/ \E i \in Ids : Toolbox!Insert(r, i)
    BY <1>1, <2>1, InsertCounts, CountCounts
  <2> QED BY <1>1, <1>2, <2>1, OthersCount
<1>3. CASE StartAgain
  <2>1. UNCHANGED <<ca, cert>> /\ \A r \in Requests : work'[r] = Toolbox!Idle
    BY <1>3 DEF StartAgain, Toolbox!Restart
  <2>2. SignsFor' /\ \A r \in Requests : work'[r].pc # "count"
    BY <2>1, NoCertRowOK DEF CountsInv, SignsFor, Ready
  <2>3. \A a \in CAs : ca[a].issued \in Nat
    BY ToolboxAssumption DEF CountsInv, ToolboxInv, ToolboxTypes, Toolbox!CARows
  <2> QED BY <1>1, <2>1, <2>2, <2>3, CountsStay
<1>4. CASE CardsStep \/ UNCHANGED allVars
  <2>1. UNCHANGED <<ca, cert, work>>
    BY <1>4 DEF CardsStep, allVars
  <2>2. SignsFor'
    BY <2>1 DEF CountsInv, SignsFor
  <2>3. \A a \in CAs : ca[a].issued \in Nat
    BY ToolboxAssumption DEF CountsInv, ToolboxInv, ToolboxTypes, Toolbox!CARows
  <2> QED BY <1>1, <2>1, <2>2, <2>3, CountsStay
<1> QED BY <1>2, <1>3, <1>4 DEF StoreNext

\* Types of the local cards and of the toolbox; a slot has a master key and objects
\* exactly while it is open or has none (Logout), and a CA counts at most the
\* certificates it signed (IncrIssuedCount).
THEOREM StoreTypesCorrect == StoreSpec => []StoreTypeOK
<1>1. CountsInv => ToolboxTypeOK
  <2> SUFFICES ASSUME CountsInv PROVE ToolboxTypeOK
    OBVIOUS
  <2>1. ASSUME NEW a \in CAs
        PROVE  ca[a].issued <= Cardinality({i \in Ids : cert[i].ca = a})
    <3>1. Counted(a) /\ ca[a].issued \in Nat
      BY ToolboxAssumption DEF CountsInv, ToolboxInv, ToolboxTypes, Toolbox!CARows
    <3>2. Cardinality(Counting(a)) \in Nat /\ Cardinality(SignedBy(a)) \in Nat
      BY <3>1, FS_CardinalityType DEF Counted
    <3> QED BY <3>1, <3>2 DEF Counted, SignedBy
  <2>2. /\ csr \in [Csrs -> Toolbox!CsrRows] /\ ca \in [CAs -> Toolbox!CARows]
        /\ cert \in [Ids -> Toolbox!CertRows] /\ work \in [Requests -> Toolbox!Works]
    BY DEF CountsInv, ToolboxInv, ToolboxTypes
  <2>3. \A S : Toolbox!Cardinality(S) = Cardinality(S)
    BY Zenon DEF Toolbox!Cardinality, Cardinality
  <2> QED BY <2>1, <2>2, <2>3, Zenon DEF ToolboxTypeOK, Toolbox!TypeOK
<1>2. StoreSpec => []CountsInv
  BY CountsStart, CountsNext, PTL DEF StoreSpec
<1>3. CardsInv /\ CountsInv => StoreTypeOK
  BY <1>1 DEF StoreTypeOK, CardsInv
<1> QED BY <1>2, <1>3, CardsHold, PTL

----------------------------------------------------------------------------
(* The cloud slot.                                                          *)

Issued(t) == t # NoToken => t \in Tokens /\ jwt[t].is # "none"

UserOf(t) == jwt[t].user

\* The slot shows its cached list or nothing, and a user while one is logged in.
SlotShows ==
    /\ cloud.objects \in {<<>>, cloud.cached}
    /\ ~cloud.in => cloud.user = NoAccount /\ ~cloud.loading
    /\ ~cloud.in /\ cloud.objects # <<>> => http.token # NoToken
    /\ ~cloud.in /\ http.token # NoToken => http.left \/ http.mixed

CloudTypes ==
    /\ remote \in Lists
    /\ jwt \in [Tokens -> JWTs]
    /\ http \in Clients
    /\ cloud \in CloudSlots
    /\ call \in [Callers -> Calls]

Active == {"found", "ensure", "refresh", "post", "posted", "done"}

\* What a signature knows of the slot, as long as no login, logout or list came in
\* between: for whom it is, and which certificate its handle names.
KnowsTheSlot(c) ==
    ~c.again =>
      /\ c.pc \in Active => c.user = cloud.user
      /\ c.pc = "found" /\ c.handle \in DOMAIN cloud.objects => cloud.objects[c.handle] = c.found
      /\ c.pc \in Active \ {"found"} => c.cert = c.found

\* The token a signature sends: what refreshes it began under the login there is, or
\* was left over when there is none.
SendsToken(c) ==
    /\ Issued(c.sent)
    /\ c.pc = "refresh" /\ ~c.mixed /\ ~c.late /\ c.sent # NoToken /\ cloud.in =>
         UserOf(c.sent) = cloud.user
    /\ c.pc = "refresh" /\ c.sent # NoToken /\ ~cloud.in => c.mixed \/ c.late \/ http.left
    /\ c.pc \in {"posted", "done"} /\ ~c.again /\ ~c.mixed /\ c.sent # NoToken =>
         c.user \in {NoAccount, UserOf(c.sent)}
    /\ c.pc = "done" => c.sent # NoToken /\ UserOf(c.sent) = Owner

CloudInv ==
    /\ CloudTypes /\ SlotShows
    /\ Issued(http.token) /\ TokenFollowsLogin
    /\ \A r \in Callers : KnowsTheSlot(call[r]) /\ SendsToken(call[r])

(* The list of certificates.                                                *)

LEMMA EmptyList == <<>> \in Lists /\ DOMAIN <<>> = {}
BY DEF Lists, IsInjective

LEMMA ListAdded ==
  ASSUME NEW l \in Lists, NEW c \in RemoteCerts, c \notin Range(l)
  PROVE  <<c>> \o l \in Lists
<1>1. l \in Seq(RemoteCerts) /\ IsInjective(l) /\ <<c>> \in Seq(RemoteCerts)
  BY DEF Lists
<1> DEFINE m == <<c>> \o l
<1>2. /\ m \in Seq(RemoteCerts) /\ Len(m) = 1 + Len(l) /\ m[1] = c
      /\ \A k \in 2 .. Len(m) : k - 1 \in 1 .. Len(l) /\ m[k] = l[k - 1]
  <2>1. /\ m \in Seq(RemoteCerts) /\ Len(m) = 1 + Len(l) /\ m[1] = c
        /\ \A k \in 2 .. Len(m) : m[k] = l[k - 1]
    BY <1>1
  <2>2. Len(l) \in Nat
    BY <1>1
  <2> QED BY <2>1, <2>2
<1>3. \A k \in 1 .. Len(l) : l[k] # c
  BY <1>1 DEF Range
<1> HIDE DEF m
<1>4. ASSUME NEW a \in DOMAIN m, NEW b \in DOMAIN m, m[a] = m[b] PROVE a = b
  <2>1. a \in 1 .. Len(m) /\ b \in 1 .. Len(m)
    BY <1>2
  <2>2. CASE a = 1 \/ b = 1
    BY <1>2, <1>3, <1>4, <2>1, <2>2
  <2>3. CASE a # 1 /\ b # 1
    <3>1. /\ a - 1 \in 1 .. Len(l) /\ b - 1 \in 1 .. Len(l)
          /\ l[a - 1] = l[b - 1]
      BY <1>2, <1>4, <2>1, <2>3
    <3>2. a - 1 = b - 1
      BY <1>1, <3>1 DEF IsInjective
    <3> QED BY <2>1, <3>2
  <2> QED BY <2>2, <2>3
<1> QED BY <1>2, <1>4 DEF Lists, IsInjective, m

LEMMA ListRemoved ==
  ASSUME NEW l \in Lists, NEW i \in DOMAIN l
  PROVE  RemoveAt(l, i) \in Lists
<1>1. l \in Seq(RemoteCerts) /\ IsInjective(l) /\ i \in 1 .. Len(l) /\ Len(l) \in Nat
  BY DEF Lists
<1> DEFINE a == SubSeq(l, 1, i - 1)
           b == SubSeq(l, i + 1, Len(l))
           m == a \o b
<1>2. /\ a \in Seq(RemoteCerts) /\ Len(a) = i - 1
      /\ \A k \in 1 .. i - 1 : a[k] = l[k]
  <2>1. \A k \in 1 .. i - 1 : l[k] \in RemoteCerts
    BY <1>1
  <2>2. 1 \in Int /\ i - 1 \in Int
    BY <1>1
  <2>3. /\ a \in Seq(RemoteCerts) /\ Len(a) = IF 1 <= i - 1 THEN (i - 1) - 1 + 1 ELSE 0
        /\ \A k \in 1 .. (i - 1) - 1 + 1 : a[k] = l[1 + k - 1]
    BY <2>1, <2>2, SubSeqProperties
  <2> QED BY <1>1, <2>3
<1>3. /\ b \in Seq(RemoteCerts) /\ Len(b) = Len(l) - i
      /\ \A k \in 1 .. Len(l) - i : b[k] = l[k + i]
  <2>1. \A k \in i + 1 .. Len(l) : l[k] \in RemoteCerts
    BY <1>1
  <2>2. i + 1 \in Int /\ Len(l) \in Int
    BY <1>1
  <2>3. /\ b \in Seq(RemoteCerts)
        /\ Len(b) = IF i + 1 <= Len(l) THEN Len(l) - (i + 1) + 1 ELSE 0
        /\ \A k \in 1 .. Len(l) - (i + 1) + 1 : b[k] = l[(i + 1) + k - 1]
    BY <2>1, <2>2, SubSeqProperties
  <2> QED BY <1>1, <2>3
<1> HIDE DEF a, b
<1>4. /\ m \in Seq(RemoteCerts) /\ Len(m) = Len(l) - 1
      /\ \A k \in 1 .. Len(m) : m[k] = IF k < i THEN l[k] ELSE l[k + 1]
  <2>1. /\ m \in Seq(RemoteCerts) /\ Len(m) = Len(a) + Len(b)
        /\ \A k \in 1 .. Len(m) : m[k] = IF k <= Len(a) THEN a[k] ELSE b[k - Len(a)]
    <3>1. a \in Seq(RemoteCerts) /\ b \in Seq(RemoteCerts)
      BY <1>2, <1>3
    <3>2. /\ a \o b \in Seq(RemoteCerts) /\ Len(a \o b) = Len(a) + Len(b)
          /\ \A k \in 1 .. Len(a) + Len(b) :
               (a \o b)[k] = IF k <= Len(a) THEN a[k] ELSE b[k - Len(a)]
      BY <3>1, ConcatProperties
    <3> QED BY <3>2
  <2>2. Len(m) = Len(l) - 1
    BY <1>1, <1>2, <1>3, <2>1
  <2>3. ASSUME NEW k \in 1 .. Len(m) PROVE m[k] = IF k < i THEN l[k] ELSE l[k + 1]
    <3>1. CASE k < i
      BY <1>1, <1>2, <2>1, <2>2, <3>1
    <3>2. CASE ~(k < i)
      <4>1. m[k] = b[k - (i - 1)] /\ k - (i - 1) \in 1 .. Len(l) - i
        BY <1>1, <1>2, <2>1, <2>2, <3>2
      <4>2. b[k - (i - 1)] = l[k - (i - 1) + i]
        BY <1>3, <4>1
      <4>3. k - (i - 1) + i = k + 1
        BY <1>1
      <4> QED BY <3>2, <4>1, <4>2, <4>3
    <3> QED BY <3>1, <3>2
  <2> QED BY <2>1, <2>2, <2>3
<1> HIDE DEF m
<1>5. ASSUME NEW x \in DOMAIN m, NEW y \in DOMAIN m, m[x] = m[y] PROVE x = y
  <2> DEFINE at(k) == IF k < i THEN k ELSE k + 1
  <2>1. x \in 1 .. Len(m) /\ y \in 1 .. Len(m)
    BY <1>4
  <2>2. /\ at(x) \in 1 .. Len(l) /\ at(y) \in 1 .. Len(l)
        /\ l[at(x)] = l[at(y)]
    BY <1>1, <1>4, <1>5, <2>1
  <2>3. at(x) = at(y)
    <3> HIDE DEF at
    <3> QED BY <1>1, <2>2 DEF IsInjective
  <2> QED BY <1>1, <2>1, <2>3
<1>6. m \in Lists
  BY <1>4, <1>5 DEF Lists, IsInjective
<1> QED BY <1>6 DEF m, a, b, RemoveAt

(* Steps of the cloud slot.                                                 *)

\* Tokens are not taken back, nor given to another.
KeepsTokens ==
    \A t \in Tokens : jwt[t].is # "none" => jwt'[t].is # "none" /\ jwt'[t].user = jwt[t].user

SameList == /\ cloud'.objects = cloud.objects /\ cloud'.cached = cloud.cached
            /\ cloud'.in = cloud.in /\ cloud'.user = cloud.user
            /\ cloud'.loading = cloud.loading
SameToken == /\ http'.token = http.token /\ http'.mixed = http.mixed
             /\ http'.left = http.left

LEMMA NoCallOK ==
  ASSUME NEW pc \in {"idle", "down"}
  PROVE  /\ [NoCall EXCEPT !.pc = pc] \in Calls
         /\ KnowsTheSlot([NoCall EXCEPT !.pc = pc])
         /\ SendsToken([NoCall EXCEPT !.pc = pc])
BY DEF NoCall, Calls, KnowsTheSlot, Active, SendsToken, Issued

\* What changes is well formed, and each signature was left with the slot as it was
\* or is right as it is now.
LEMMA CloudMoves ==
  ASSUME CloudInv, CloudTypes', KeepsTokens, SlotShows',
         Issued(http.token)', TokenFollowsLogin',
         \A r \in Callers : \/ call'[r] = call[r] /\ SameList /\ http'.left = http.left
                            \/ KnowsTheSlot(call[r])' /\ SendsToken(call[r])'
  PROVE  CloudInv'
<1>1. ASSUME NEW r \in Callers, call'[r] = call[r], SameList, http'.left = http.left
      PROVE  KnowsTheSlot(call[r])' /\ SendsToken(call[r])'
  <2>1. KnowsTheSlot(call[r]) /\ SendsToken(call[r])
    BY DEF CloudInv
  <2>2. KnowsTheSlot(call[r])'
    BY <1>1, <2>1 DEF KnowsTheSlot, SameList
  <2>3. Issued(call[r].sent)' /\ (call[r].sent # NoToken =>
                                    call[r].sent \in Tokens /\ UserOf(call[r].sent)' = UserOf(call[r].sent))
    BY <1>1, <2>1 DEF SendsToken, Issued, KeepsTokens, UserOf
  <2>4. SendsToken(call[r])'
    BY <1>1, <2>1, <2>3 DEF SendsToken, SameList
  <2> QED BY <2>2, <2>4
<1> QED BY <1>1 DEF CloudInv

\* The token and the login stay.
LEMMA TokenStays ==
  ASSUME CloudInv, KeepsTokens, SameList, SameToken
  PROVE  SlotShows' /\ Issued(http.token)' /\ TokenFollowsLogin'
BY DEF CloudInv, KeepsTokens, SameList, SameToken, SlotShows, Issued, TokenFollowsLogin

\* A signature moves and nothing else changes but what the slot takes the network,
\* its list and its token for.
LEMMA CallMoves ==
  ASSUME CloudInv, CloudTypes', KeepsTokens, SameList, SameToken,
         \A r \in Callers : \/ call'[r] = call[r]
                            \/ KnowsTheSlot(call[r])' /\ SendsToken(call[r])'
  PROVE  CloudInv'
BY CloudMoves, TokenStays DEF SameToken

LEMMA CallSet ==
  ASSUME CloudInv, NEW r \in Callers, NEW c \in Calls, KnowsTheSlot(c), SendsToken(c),
         call' = [call EXCEPT ![r] = c], UNCHANGED <<remote, jwt, http, cloud>>
  PROVE  CloudInv'
<1>1. CloudTypes' /\ KeepsTokens /\ SameList /\ SameToken
  BY DEF CloudInv, CloudTypes, KeepsTokens, SameList, SameToken
<1>2. KnowsTheSlot(c)' /\ SendsToken(c)'
  BY DEF KnowsTheSlot, SendsToken, Issued, UserOf
<1>3. \A q \in Callers : \/ call'[q] = call[q]
                         \/ KnowsTheSlot(call[q])' /\ SendsToken(call[q])'
  <2>1. \A q \in Callers : call'[q] = call[q] \/ call'[q] = c
    BY DEF CloudInv, CloudTypes
  <2> QED BY <1>2, <2>1 DEF KnowsTheSlot, SendsToken
<1> QED BY <1>1, <1>3, CallMoves

LEMMA CallOver ==
  ASSUME CloudInv, NEW r \in Callers, call' \in {EndCall(r), Down(r)},
         UNCHANGED <<remote, jwt, http, cloud>>
  PROVE  CloudInv'
<1>1. NoCall = [NoCall EXCEPT !.pc = "idle"]
  <2> DEFINE c == [NoCall EXCEPT !.pc = "idle"]
  <2>1. NoCall.pc = "idle"
    BY DEF NoCall
  <2>2. NoCall = [NoCall EXCEPT !.pc = NoCall.pc]
    BY DEF NoCall
  <2> QED BY <2>1, <2>2
<1> QED BY <1>1, NoCallOK, CallSet DEF EndCall, Down

LEMMA ServerKeeps ==
  ASSUME CloudInv, Server PROVE CloudInv'
<1>1. ASSUME remote' \in Lists, UNCHANGED <<jwt, http, cloud, call>> PROVE CloudInv'
  BY <1>1, CallMoves DEF CloudInv, CloudTypes, KeepsTokens, SameList, SameToken
<1>2. ASSUME NEW c \in RemoteCerts, AddRemote(c) PROVE CloudInv'
  <2>1. remote \in Lists /\ c \notin Range(remote)
    BY <1>2 DEF CloudInv, CloudTypes, AddRemote
  <2> QED BY <1>1, <1>2, <2>1, ListAdded DEF AddRemote
<1>3. ASSUME NEW c \in RemoteCerts, DeleteRemote(c) PROVE CloudInv'
  <2>1. remote \in Lists
    BY DEF CloudInv, CloudTypes
  <2> QED BY <1>1, <1>3, <2>1, ListRemoved DEF DeleteRemote
<1>4. ASSUME NEW t \in Tokens, TokenDies(t) PROVE CloudInv'
  <2>1. jwt' \in [Tokens -> JWTs] /\ KeepsTokens
    BY <1>4 DEF CloudInv, CloudTypes, TokenDies, JWTs, KeepsTokens
  <2> QED BY <1>4, <2>1, CallMoves DEF TokenDies, CloudInv, CloudTypes, SameList, SameToken
<1> QED BY <1>2, <1>3, <1>4 DEF Server

(* Logging in and out.                                                      *)

\* What a login or a logout crosses may no longer know the slot.
LEMMA CrossedOK ==
  ASSUME CloudInv, KeepsTokens, call' = Crossed
  PROVE  /\ call' \in [Callers -> Calls]
         /\ \A r \in Callers : KnowsTheSlot(call[r])' /\ SendsToken(call[r])'
<1>1. ASSUME NEW r \in Callers
      PROVE  call'[r] \in Calls /\ KnowsTheSlot(call[r])' /\ SendsToken(call[r])'
  <2>1. call[r] \in Calls /\ SendsToken(call[r])
    BY DEF CloudInv, CloudTypes
  <2>2. Issued(call[r].sent) /\ (call[r].sent # NoToken =>
          call[r].sent \in Tokens /\ jwt'[call[r].sent].is # "none"
          /\ jwt'[call[r].sent].user = jwt[call[r].sent].user)
    BY <2>1 DEF SendsToken, Issued, KeepsTokens
  <2>3. CASE call[r].pc \in {"idle", "down"}
    <3>1. call'[r] = call[r]
      BY <2>3 DEF Crossed
    <3> QED BY <2>1, <2>2, <2>3, <3>1 DEF KnowsTheSlot, SendsToken, Active, Issued
  <2>4. CASE call[r].pc \notin {"idle", "down"}
    <3> DEFINE c == [call[r] EXCEPT !.again = TRUE, !.late = call[r].pc = "refresh"]
    <3>1. call'[r] = c
      BY <2>4 DEF Crossed
    <3>2. /\ c \in Calls /\ c.again /\ c.pc = call[r].pc /\ c.sent = call[r].sent
          /\ c.pc = "refresh" => c.late
      BY <2>1 DEF Calls
    <3> HIDE DEF c
    <3> QED BY <2>1, <2>2, <3>1, <3>2 DEF KnowsTheSlot, SendsToken, Issued, UserOf
  <2> QED BY <2>3, <2>4
<1>2. call' = [r \in Callers |-> call'[r]]
  BY DEF Crossed
<1> QED BY <1>1, <1>2

\* Where the login ends, the token was left by it; where there was none it stays so.
KeepsLeft == ~cloud'.in /\ ~http'.left => ~cloud.in /\ ~http.left

\* A new list is shown by the slot of the same login, or by none.
LEMMA RelistedOK ==
  ASSUME CloudInv, call' = Relisted, UNCHANGED jwt,
         cloud'.in => cloud.in /\ cloud'.user = cloud.user, KeepsLeft
  PROVE  /\ call' \in [Callers -> Calls]
         /\ \A r \in Callers : KnowsTheSlot(call[r])' /\ SendsToken(call[r])'
<1>1. ASSUME NEW r \in Callers
      PROVE  call'[r] \in Calls /\ KnowsTheSlot(call[r])' /\ SendsToken(call[r])'
  <2>1. call[r] \in Calls /\ SendsToken(call[r])
    BY DEF CloudInv, CloudTypes
  <2>2. CASE call[r].pc \in {"idle", "down"}
    <3>1. call'[r] = call[r]
      BY <2>2 DEF Relisted
    <3> QED BY <2>1, <2>2, <3>1 DEF KnowsTheSlot, SendsToken, Active, Issued
  <2>3. CASE call[r].pc \notin {"idle", "down"}
    <3> DEFINE c == [call[r] EXCEPT !.again = TRUE]
    <3>1. call'[r] = c
      BY <2>3 DEF Relisted
    <3>2. /\ c \in Calls /\ c.again /\ c.pc = call[r].pc /\ c.sent = call[r].sent
          /\ c.late = call[r].late /\ c.mixed = call[r].mixed
      BY <2>1 DEF Calls
    <3> HIDE DEF c
    <3> QED BY <2>1, <3>1, <3>2 DEF KnowsTheSlot, SendsToken, Issued, UserOf, KeepsLeft
  <2> QED BY <2>2, <2>3
<1>2. call' = [r \in Callers |-> call'[r]]
  BY DEF Relisted
<1> QED BY <1>1, <1>2

LEMMA NewToken ==
  ASSUME CloudInv, NEW t \in Tokens, jwt[t].is = "none", NEW u \in Accounts \cup {NoAccount},
         jwt' = New(t, u)
  PROVE  jwt' \in [Tokens -> JWTs] /\ KeepsTokens /\ jwt'[t] = [is |-> "live", user |-> u]
BY DEF CloudInv, CloudTypes, New, JWTs, KeepsTokens

LEMMA CloudLoginKeeps ==
  ASSUME CloudInv, NEW u \in Accounts, NEW t \in Tokens, CloudLogin(u, t) PROVE CloudInv'
<1>1. PICK who \in {u, NoAccount} :
        /\ jwt' = IF who = u THEN New(t, u) ELSE jwt
        /\ http' = [http EXCEPT !.token = IF who = u THEN t ELSE NoToken,
                                !.mixed = FALSE, !.left = FALSE]
        /\ cloud' = [cloud EXCEPT !.in = TRUE, !.user = who, !.net = TRUE, !.loading = TRUE]
  BY DEF CloudLogin
<1>2. /\ jwt' \in [Tokens -> JWTs] /\ KeepsTokens
      /\ who = u => jwt'[t] = [is |-> "live", user |-> u]
  <2>1. CASE who = u
    BY <1>1, <2>1, NewToken DEF CloudLogin
  <2>2. CASE who # u
    BY <1>1, <2>2 DEF CloudInv, CloudTypes, KeepsTokens
  <2> QED BY <2>1, <2>2
<1>3. /\ http' \in Clients /\ http'.token = IF who = u THEN t ELSE NoToken
      /\ t # NoToken
  BY <1>1, CloudNullAssumption DEF CloudInv, CloudTypes, Clients
<1>4. /\ cloud' \in CloudSlots /\ cloud'.in /\ cloud'.user = who
      /\ cloud'.objects = cloud.objects /\ cloud'.cached = cloud.cached
  BY <1>1 DEF CloudInv, CloudTypes, CloudSlots
<1>5. call' = Crossed /\ UNCHANGED remote
  BY DEF CloudLogin
<1>6. SlotShows'
  BY <1>4 DEF SlotShows, CloudInv
<1>7. Issued(http.token)' /\ TokenFollowsLogin'
  BY <1>2, <1>3, <1>4 DEF Issued, TokenFollowsLogin
<1>8. CloudTypes'
  BY <1>2, <1>3, <1>4, <1>5, CrossedOK DEF CloudTypes, CloudInv
<1> QED BY <1>2, <1>5, <1>6, <1>7, <1>8, CrossedOK, CloudMoves

LEMMA CloudLogoutKeeps ==
  ASSUME CloudInv, CloudLogout PROVE CloudInv'
<1>1. http' \in Clients /\ http'.token = NoToken
  BY DEF CloudLogout, Clients
<1>2. /\ cloud' \in CloudSlots /\ ~cloud'.in /\ cloud'.user = NoAccount
      /\ cloud'.objects = <<>> /\ ~cloud'.loading
  BY EmptyList DEF CloudLogout, CloudUnlocked, CloudInv, CloudTypes, CloudSlots
<1>3. call' = Crossed /\ UNCHANGED <<remote, jwt>> /\ KeepsTokens
  BY DEF CloudLogout, KeepsTokens
<1>4. SlotShows' /\ Issued(http.token)' /\ TokenFollowsLogin'
  BY <1>1, <1>2 DEF SlotShows, Issued, TokenFollowsLogin
<1>5. CloudTypes'
  BY <1>1, <1>2, <1>3, CrossedOK DEF CloudTypes, CloudInv
<1> QED BY <1>3, <1>4, <1>5, CrossedOK, CloudMoves

\* The list comes from the server, from the cache, or not at all.
LEMMA ListMoves ==
  ASSUME CloudInv, UNCHANGED <<remote, jwt>>, call' = Relisted,
         http' \in Clients, http'.token = http.token, http'.mixed = http.mixed, KeepsLeft,
         cloud' \in CloudSlots, cloud'.in => cloud.in /\ cloud'.user = cloud.user, SlotShows'
  PROVE  CloudInv'
<1>1. Issued(http.token)' /\ TokenFollowsLogin' /\ KeepsTokens
  BY DEF CloudInv, Issued, TokenFollowsLogin, KeepsTokens
<1>2. CloudTypes'
  BY RelistedOK DEF CloudTypes, CloudInv
<1> QED BY <1>1, <1>2, RelistedOK, CloudMoves

LEMMA LoadedOK ==
  ASSUME CloudInv, NEW s \in CloudSlots, s.in = cloud.in, s.user = cloud.user,
         s.loading => cloud.loading, Owned(http.token), UNCHANGED http,
         cloud' = Loaded(s, remote)
  PROVE  /\ cloud' \in CloudSlots /\ SlotShows'
         /\ cloud'.in = cloud.in /\ cloud'.user = cloud.user
<1>1. remote \in Lists /\ http.token # NoToken
  BY DEF CloudInv, CloudTypes, Owned, Live
<1>2. /\ cloud' \in CloudSlots /\ cloud'.objects = remote /\ cloud'.cached = remote
      /\ cloud'.in = cloud.in /\ cloud'.user = cloud.user
      /\ cloud'.loading => cloud.loading
  BY <1>1 DEF Loaded, CloudSlots
<1> QED BY <1>1, <1>2 DEF SlotShows, CloudInv

LEMMA LoginLoadKeeps ==
  ASSUME CloudInv, LoginLoad PROVE CloudInv'
<1> DEFINE s == [cloud EXCEPT !.loading = FALSE]
<1>1. /\ s \in CloudSlots /\ s.in = cloud.in /\ s.user = cloud.user /\ ~s.loading
      /\ s.objects = cloud.objects /\ s.cached = cloud.cached
  BY DEF CloudInv, CloudTypes, CloudSlots
<1>2. /\ UNCHANGED <<remote, jwt>> /\ call' = Relisted
      /\ \/ Owned(http.token) /\ cloud' = Loaded(s, remote) /\ UNCHANGED http
         \/ /\ \E u \in Unloaded(s) : cloud' = FromCache(u)
            /\ http' = [http EXCEPT !.left = ~cloud'.in]
      /\ http \in Clients
  BY DEF LoginLoad, CloudInv, CloudTypes
<1> HIDE DEF s
<1>3. CASE Owned(http.token) /\ cloud' = Loaded(s, remote) /\ UNCHANGED http
  BY <1>1, <1>2, <1>3, LoadedOK, ListMoves DEF KeepsLeft
<1>4. ASSUME NEW u \in Unloaded(s), cloud' = FromCache(u),
             http' = [http EXCEPT !.left = ~cloud'.in]
      PROVE  CloudInv'
  <2>1. /\ u \in CloudSlots /\ u.in = cloud.in /\ u.user = cloud.user /\ ~u.loading
        /\ u.objects = cloud.objects /\ u.cached = cloud.cached
    BY <1>1, <1>4 DEF Unloaded, CloudSlots
  <2>2. SlotShows /\ cloud.in
    BY DEF CloudInv, SlotShows, LoginLoad
  <2>5. ASSUME cloud'.in \in BOOLEAN
        PROVE  /\ http' \in Clients /\ http'.token = http.token /\ http'.mixed = http.mixed
               /\ http'.left = ~cloud'.in
    BY <1>2, <1>4, <2>5 DEF Clients
  <2>3. CASE u.cached # <<>>
    <3>1. /\ cloud' \in CloudSlots /\ cloud'.objects = u.cached /\ cloud'.cached = u.cached
          /\ cloud'.in = u.in /\ cloud'.user = u.user /\ ~cloud'.loading
      BY <1>4, <2>1, <2>3 DEF FromCache, CloudSlots
    <3>2. http' \in Clients /\ http'.token = http.token /\ http'.mixed = http.mixed
      BY <2>1, <2>2, <2>5, <3>1
    <3> QED BY <1>2, <2>1, <2>2, <3>1, <3>2, ListMoves DEF SlotShows, KeepsLeft
  <2>4. CASE u.cached = <<>>
    <3>1. /\ cloud' \in CloudSlots /\ cloud'.objects = u.objects /\ cloud'.cached = u.cached
          /\ ~cloud'.in /\ cloud'.user = NoAccount /\ ~cloud'.loading
      BY <1>4, <2>1, <2>4 DEF FromCache, CloudSlots
    <3>2. /\ http' \in Clients /\ http'.token = http.token /\ http'.mixed = http.mixed
          /\ http'.left
      <4>1. cloud'.in \in BOOLEAN /\ ~cloud'.in
        BY <3>1 DEF CloudSlots
      <4> QED BY <2>5, <4>1, Zenon
    <3> QED BY <1>2, <2>1, <2>2, <2>4, <3>1, <3>2, ListMoves DEF SlotShows, KeepsLeft
  <2> QED BY <2>3, <2>4
<1> QED BY <1>2, <1>3, <1>4

\* The slot's view of the network, the age of its list and its refreshes change.
LEMMA SlotMoves ==
  ASSUME CloudInv, cloud' \in CloudSlots, SameList, UNCHANGED <<remote, jwt, http>>,
         call' \in [Callers -> Calls],
         \A r \in Callers : \/ call'[r] = call[r]
                            \/ KnowsTheSlot(call[r])' /\ SendsToken(call[r])'
  PROVE  CloudInv'
<1>1. CloudTypes' /\ KeepsTokens /\ SameToken
  BY DEF CloudInv, CloudTypes, KeepsTokens, SameToken
<1> QED BY <1>1, CallMoves

LEMMA RefreshListKeeps ==
  ASSUME CloudInv, RefreshList PROVE CloudInv'
<1> DEFINE s == [cloud EXCEPT !.waiting = @ - 1]
<1>1. /\ s \in CloudSlots /\ s.in = cloud.in /\ s.user = cloud.user
      /\ s.loading = cloud.loading
      /\ s.objects = cloud.objects /\ s.cached = cloud.cached
  <2>1. cloud \in CloudSlots /\ cloud.waiting - 1 \in 0 .. MaxRefreshes
    BY RefreshesAssumption DEF CloudInv, CloudTypes, CloudSlots, RefreshList
  <2> QED BY <2>1 DEF CloudSlots
<1>2. /\ UNCHANGED <<remote, jwt, http>>
      /\ \/ Owned(http.token) /\ cloud' = Loaded(s, remote) /\ call' = Relisted
         \/ cloud' \in Unloaded(s) /\ UNCHANGED call
  BY DEF RefreshList
<1> HIDE DEF s
<1>3. CASE Owned(http.token) /\ cloud' = Loaded(s, remote) /\ call' = Relisted
  BY <1>1, <1>2, <1>3, LoadedOK, ListMoves DEF KeepsLeft, CloudInv, CloudTypes
<1>4. CASE cloud' \in Unloaded(s) /\ UNCHANGED call
  <2>1. cloud' \in CloudSlots /\ SameList
    BY <1>1, <1>4 DEF Unloaded, CloudSlots, SameList
  <2> QED BY <1>2, <1>4, <2>1, SlotMoves DEF CloudInv, CloudTypes
<1> QED BY <1>2, <1>3, <1>4

LEMMA SlotStepKeeps ==
  ASSUME CloudInv, SlotStep PROVE CloudInv'
<1>1. cloud \in CloudSlots /\ call \in [Callers -> Calls] /\ http \in Clients
  BY DEF CloudInv, CloudTypes
<1>2. CASE LoginLost \/ CacheExpires
  <2>1. cloud' \in CloudSlots /\ SameList /\ UNCHANGED <<remote, jwt, http, call>>
    BY <1>1, <1>2 DEF LoginLost, CacheExpires, CloudSlots, SameList
  <2> QED BY <1>1, <2>1, SlotMoves
<1>3. CASE CloudFindObjects
  <2>1. cloud.waiting + 1 \in 0 .. MaxRefreshes
    BY <1>1, <1>3, RefreshesAssumption DEF CloudFindObjects, CloudSlots
  <2>2. cloud' \in CloudSlots /\ SameList /\ UNCHANGED <<remote, jwt, http, call>>
    BY <1>1, <1>3, <2>1 DEF CloudFindObjects, CloudSlots, SameList
  <2> QED BY <1>1, <2>2, SlotMoves
<1>4. CASE ExpiryNears
  <2>1. http' \in Clients /\ SameToken /\ UNCHANGED <<remote, jwt, cloud, call>>
    BY <1>1, <1>4 DEF ExpiryNears, Clients, SameToken
  <2> QED BY <2>1, CallMoves DEF CloudInv, CloudTypes, KeepsTokens, SameList
<1> QED BY <1>2, <1>3, <1>4, CloudLoginKeeps, CloudLogoutKeeps, LoginLoadKeeps, RefreshListKeeps
        DEF SlotStep

(* Signing.                                                                 *)

LEMMA GetAttributesKeeps ==
  ASSUME CloudInv, NEW r \in Callers, NEW h \in Nat, GetAttributes(r, h) PROVE CloudInv'
<1> DEFINE c == [NoCall EXCEPT !.pc = "found", !.handle = h,
                               !.found = cloud.objects[h], !.user = cloud.user]
<1>1. /\ cloud \in CloudSlots /\ cloud.objects \in Lists /\ h \in DOMAIN cloud.objects
      /\ cloud.user \in Accounts \cup {NoAccount}
  BY DEF CloudInv, CloudTypes, CloudSlots, GetAttributes
<1>2. cloud.objects[h] \in RemoteCerts
  BY <1>1 DEF Lists
<1>3. c \in Calls
  BY <1>1, <1>2 DEF NoCall, Calls
<1>4. KnowsTheSlot(c) /\ SendsToken(c)
  BY <1>1 DEF NoCall, KnowsTheSlot, SendsToken, Active, Issued
<1> QED BY <1>3, <1>4, CallSet DEF GetAttributes

LEMMA SignBeginKeeps ==
  ASSUME CloudInv, NEW r \in Callers, SignBegin(r) PROVE CloudInv'
<1> DEFINE h == call[r].handle
           c == [call[r] EXCEPT !.pc = "ensure", !.handle = 0, !.cert = NamedRemote(r)]
<1>1. \/ call' = EndCall(r)
      \/ h \in DOMAIN cloud.objects /\ call' = [call EXCEPT ![r] = c]
  BY DEF SignBegin, CloudInv, CloudTypes
<1>2. CASE h \in DOMAIN cloud.objects /\ call' = [call EXCEPT ![r] = c]
  <2>1. /\ call[r] \in Calls /\ call[r].pc = "found"
        /\ KnowsTheSlot(call[r]) /\ SendsToken(call[r])
    BY DEF CloudInv, CloudTypes, SignBegin
  <2>2. NamedRemote(r) \in RemoteCerts /\ NamedRemote(r) = cloud.objects[h]
    <3>1. cloud.objects \in Seq(RemoteCerts)
      BY DEF CloudInv, CloudTypes, CloudSlots, Lists
    <3> QED BY <1>2, <3>1 DEF NamedRemote
  <2>3. /\ c \in Calls /\ c.pc = "ensure" /\ c.again = call[r].again
        /\ c.user = call[r].user /\ c.found = call[r].found /\ c.cert = NamedRemote(r)
        /\ c.sent = call[r].sent
    BY <2>1, <2>2 DEF Calls
  <2> HIDE DEF c
  <2>4. KnowsTheSlot(c) /\ SendsToken(c)
    BY <1>2, <2>1, <2>2, <2>3 DEF KnowsTheSlot, SendsToken, Active
  <2> QED BY <1>2, <2>3, <2>4, CallSet DEF SignBegin
<1> QED BY <1>1, <1>2, CallOver DEF SignBegin

LEMMA EnsureTokenKeeps ==
  ASSUME CloudInv, NEW r \in Callers, EnsureToken(r) PROVE CloudInv'
<1> DEFINE c == [call[r] EXCEPT !.pc = "post"]
           d == [call[r] EXCEPT !.pc = "refresh", !.sent = http.token, !.mixed = http.mixed]
<1>1. /\ call[r] \in Calls /\ call[r].pc = "ensure"
      /\ KnowsTheSlot(call[r]) /\ SendsToken(call[r])
      /\ http \in Clients /\ Issued(http.token) /\ TokenFollowsLogin /\ SlotShows
  BY DEF CloudInv, CloudTypes, EnsureToken
<1>2. call' = [call EXCEPT ![r] = c] \/ call' = [call EXCEPT ![r] = d]
  BY DEF EnsureToken, CallAt, CloudInv, CloudTypes
<1>3. /\ c \in Calls /\ c.pc = "post" /\ c.again = call[r].again
      /\ c.user = call[r].user /\ c.found = call[r].found /\ c.cert = call[r].cert
      /\ c.sent = call[r].sent
  BY <1>1 DEF Calls
<1>4. /\ d \in Calls /\ d.pc = "refresh" /\ d.again = call[r].again
      /\ d.user = call[r].user /\ d.found = call[r].found /\ d.cert = call[r].cert
      /\ d.sent = http.token /\ d.mixed = http.mixed
  BY <1>1 DEF Calls, Clients
<1> HIDE DEF c, d
<1>5. KnowsTheSlot(c) /\ SendsToken(c) /\ KnowsTheSlot(d) /\ SendsToken(d)
  BY <1>1, <1>3, <1>4 DEF KnowsTheSlot, SendsToken, Active, TokenFollowsLogin, UserOf, SlotShows
<1> QED BY <1>2, <1>3, <1>4, <1>5, CallSet DEF EnsureToken

LEMMA PostKeeps ==
  ASSUME CloudInv, NEW r \in Callers, Post(r) PROVE CloudInv'
<1> DEFINE c == [call[r] EXCEPT !.pc = "posted", !.sent = http.token, !.mixed = http.mixed]
<1>1. /\ call[r] \in Calls /\ call[r].pc = "post"
      /\ KnowsTheSlot(call[r]) /\ SlotShows
      /\ http \in Clients /\ Issued(http.token) /\ TokenFollowsLogin
  BY DEF CloudInv, CloudTypes, Post
<1>2. /\ c \in Calls /\ c.pc = "posted" /\ c.again = call[r].again
      /\ c.user = call[r].user /\ c.found = call[r].found /\ c.cert = call[r].cert
      /\ c.sent = http.token /\ c.mixed = http.mixed
  BY <1>1 DEF Calls, Clients
<1>3. call' = [call EXCEPT ![r] = c]
  BY DEF Post, CloudInv, CloudTypes
<1> HIDE DEF c
<1>4. KnowsTheSlot(c) /\ SendsToken(c)
  BY <1>1, <1>2 DEF KnowsTheSlot, SendsToken, Active, TokenFollowsLogin, UserOf, SlotShows
<1> QED BY <1>2, <1>3, <1>4, CallSet DEF Post

LEMMA SignedKeeps ==
  ASSUME CloudInv, NEW r \in Callers, Signed(r) PROVE CloudInv'
<1> DEFINE c == [call[r] EXCEPT !.pc = "done"]
<1>1. /\ call[r] \in Calls /\ call[r].pc = "posted"
      /\ KnowsTheSlot(call[r]) /\ SendsToken(call[r])
      /\ call[r].sent # NoToken /\ UserOf(call[r].sent) = Owner
  BY DEF CloudInv, CloudTypes, Signed, Serves, Owned, Live, UserOf
<1>2. /\ c \in Calls /\ c.pc = "done" /\ c.again = call[r].again
      /\ c.user = call[r].user /\ c.found = call[r].found /\ c.cert = call[r].cert
      /\ c.sent = call[r].sent /\ c.mixed = call[r].mixed
  BY <1>1 DEF Calls
<1>3. call' = [call EXCEPT ![r] = c]
  BY DEF Signed, CallAt, CloudInv, CloudTypes
<1> HIDE DEF c
<1>4. KnowsTheSlot(c) /\ SendsToken(c)
  BY <1>1, <1>2 DEF KnowsTheSlot, SendsToken, Active
<1> QED BY <1>2, <1>3, <1>4, CallSet DEF Signed

LEMMA RefreshKeeps ==
  ASSUME CloudInv, NEW r \in Callers, NEW t \in Tokens, Refresh(r, t) PROVE CloudInv'
<1> DEFINE sent == call[r].sent
           u == jwt[sent].user
           m == call[r].mixed \/ call[r].late
           c == [call[r] EXCEPT !.pc = "post", !.sent = NoToken, !.late = FALSE, !.mixed = FALSE]
<1>1. /\ call[r] \in Calls /\ call[r].pc = "refresh"
      /\ KnowsTheSlot(call[r]) /\ SendsToken(call[r])
      /\ sent \in Tokens /\ sent # NoToken /\ jwt[sent].is = "live" /\ jwt[t].is = "none"
      /\ jwt \in [Tokens -> JWTs] /\ http \in Clients /\ t # NoToken
  BY CloudNullAssumption DEF CloudInv, CloudTypes, Refresh, Live, SendsToken, Issued
<1>2. /\ jwt' \in [Tokens -> JWTs] /\ KeepsTokens
      /\ jwt'[t].is = "live" /\ jwt'[t].user = u
  <2>1. t # sent /\ u \in Accounts \cup {NoAccount}
    BY <1>1 DEF JWTs
  <2>2. jwt' = [[jwt EXCEPT ![t] = [is |-> "live", user |-> u]] EXCEPT ![sent].is = "dead"]
    BY DEF Refresh, New
  <2> QED BY <1>1, <2>1, <2>2 DEF JWTs, KeepsTokens
<1>3. /\ http' \in Clients /\ http'.token = t /\ http'.mixed = m /\ http'.left = http.left
  BY <1>1, ZenonT(40) DEF Refresh, Refreshed, Clients, Calls
<1>4. /\ c \in Calls /\ c.pc = "post" /\ c.again = call[r].again
      /\ c.user = call[r].user /\ c.found = call[r].found /\ c.cert = call[r].cert
      /\ c.sent = NoToken
  BY <1>1 DEF Calls
<1>5. call' = [call EXCEPT ![r] = c] /\ UNCHANGED <<remote, cloud>>
  BY DEF Refresh, CloudInv, CloudTypes
<1> HIDE DEF c
<1>6. CloudTypes'
  BY <1>2, <1>3, <1>4, <1>5 DEF CloudInv, CloudTypes
<1>7. SlotShows' /\ Issued(http.token)'
  BY <1>1, <1>2, <1>3, <1>5 DEF CloudInv, SlotShows, SendsToken, Issued
<1>8. TokenFollowsLogin'
  BY <1>1, <1>2, <1>3, <1>5 DEF TokenFollowsLogin, SendsToken, UserOf
<1>9. ASSUME NEW q \in Callers
      PROVE  \/ call'[q] = call[q] /\ SameList /\ http'.left = http.left
             \/ KnowsTheSlot(call[q])' /\ SendsToken(call[q])'
  <2>1. CASE q # r
    BY <1>3, <1>5, <2>1 DEF CloudInv, CloudTypes, SameList
  <2>2. CASE q = r
    <3>1. call'[q] = c
      BY <1>5, <2>2 DEF CloudInv, CloudTypes
    <3> QED BY <1>1, <1>4, <1>5, <3>1 DEF KnowsTheSlot, SendsToken, Active, Issued
  <2> QED BY <2>1, <2>2
<1> QED BY <1>2, <1>6, <1>7, <1>8, <1>9, CloudMoves

LEMMA MarkDownKeeps ==
  ASSUME CloudInv, NEW r \in Callers, MarkDown(r) PROVE CloudInv'
<1>1. cloud' \in CloudSlots /\ SameList /\ UNCHANGED <<remote, jwt, http>>
  BY DEF MarkDown, CloudInv, CloudTypes, CloudSlots, SameList
<1>2. /\ call' \in [Callers -> Calls]
      /\ \A q \in Callers : call'[q] \in {call[q], NoCall}
  BY DEF MarkDown, EndCall, CloudInv, CloudTypes, NoCall, Calls
<1>3. KnowsTheSlot(NoCall)' /\ SendsToken(NoCall)'
  BY DEF NoCall, KnowsTheSlot, SendsToken, Active, Issued
<1>4. \A q \in Callers : \/ call'[q] = call[q]
                         \/ KnowsTheSlot(call[q])' /\ SendsToken(call[q])'
  BY <1>2, <1>3 DEF KnowsTheSlot, SendsToken
<1> QED BY <1>1, <1>2, <1>4, SlotMoves

LEMMA CloudSignKeeps ==
  ASSUME CloudInv, NEW r \in Callers, CloudSign(r) PROVE CloudInv'
<1>1. ASSUME NEW h \in 1 .. Cardinality(RemoteCerts), GetAttributes(r, h) PROVE CloudInv'
  BY <1>1, GetAttributesKeeps
<1>2. CASE RefreshFails(r) \/ SignFails(r) \/ Return(r)
  BY <1>2, CallOver DEF RefreshFails, SignFails, Return
<1> QED BY <1>1, <1>2, SignBeginKeeps, EnsureTokenKeeps, RefreshKeeps, PostKeeps, SignedKeeps,
           MarkDownKeeps DEF CloudSign

LEMMA CloudNextKeeps == CloudInv /\ [CloudNext]_cloudVars => CloudInv'
<1> SUFFICES ASSUME CloudInv, [CloudNext]_cloudVars PROVE CloudInv'
  OBVIOUS
<1>1. CASE UNCHANGED cloudVars
  BY <1>1, CallMoves DEF cloudVars, CloudInv, CloudTypes, KeepsTokens, SameList, SameToken
<1> QED BY <1>1, ServerKeeps, SlotStepKeeps, CloudSignKeeps DEF CloudNext

LEMMA CloudStarts == CloudInit => CloudInv
<1> SUFFICES ASSUME CloudInit PROVE CloudInv
  OBVIOUS
<1>1. remote \in Lists
  <2>1. \A c \in RemoteCerts : <<c>> \in Lists
    BY DEF Lists, IsInjective
  <2> QED BY <2>1, EmptyList DEF CloudInit
<1>2. CloudTypes
  BY <1>1, EmptyList, RefreshesAssumption
     DEF CloudInit, CloudTypes, JWTs, Clients, CloudSlots, NoCall, Calls
<1>3. SlotShows /\ Issued(http.token) /\ TokenFollowsLogin
  BY DEF CloudInit, SlotShows, Issued, TokenFollowsLogin
<1>4. \A r \in Callers : KnowsTheSlot(call[r]) /\ SendsToken(call[r])
  BY DEF CloudInit, NoCall, KnowsTheSlot, SendsToken, Active, Issued
<1> QED BY <1>2, <1>3, <1>4 DEF CloudInv

LEMMA CloudHolds == CloudSpec => []CloudInv
BY CloudStarts, CloudNextKeeps, PTL DEF CloudSpec

\* Types; and a slot that nobody is logged in to has no objects, unless a failed
\* login, or a refresh answered after a logout, left a token to list them with.
THEOREM CloudTypeCorrect == CloudSpec => []CloudTypeOK
<1>1. CloudInv => CloudTypeOK
  BY DEF CloudInv, CloudTypes, SlotShows, CloudTypeOK
<1> QED BY <1>1, CloudHolds, PTL

\* The cloud slot asks with the token of the user it shows, and signs what it showed
\* that user, or a refresh, a login or a new list came in between (Login, Logout,
\* EnsureToken, Sign, tryRefreshCache).
THEOREM CloudWorksForItsUser == CloudSpec => []WorksForItsUser
<1>1. CloudInv => SignsAsShown
  BY DEF CloudInv, KnowsTheSlot, SendsToken, UserOf, Active, SignsAsShown
<1>2. CloudInv => WorksForItsUser
  BY <1>1 DEF CloudInv, WorksForItsUser
<1> QED BY <1>2, CloudHolds, PTL

=============================================================================
