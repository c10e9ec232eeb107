------------------------------ MODULE LocalCards ------------------------------
(***************************************************************************)
(* The local cards of the client: their rows, credentials and keys in the    *)
(* database (clients/internal/storage/repo.go, cert_repo.go), the REST       *)
(* requests on them (api/user_card_handler.go, cert_handler.go, the delivery *)
(* of api/cloud_handler.go, card/local/keymgr.go) and the slots that PKCS#11 *)
(* clients log in to and sign with (card/local/slot.go).                     *)
(*                                                                         *)
(* A card has a master key; each of its credentials (the user's password, a  *)
(* card password, PIN, PUK, admin key) seals a copy of it, and it seals the  *)
(* card's private keys.  A master key goes by the name of its card.  A       *)
(* request reads a row, derives keys from what it read for a while, and      *)
(* writes the whole row back.  A slot works on the row as it was when the    *)
(* program started: nothing else registers slots.  Attempts are counted up   *)
(* to MaxAttempts, where an entry is locked.  Any statement may fail.        *)
(***************************************************************************)
EXTENDS Naturals, Sequences, FiniteSets

CONSTANTS
    Cards, Users, Certs,    \* UUIDs: never used again
    Secrets,                \* passwords, PINs, PUKs and admin keys
    Requests,
    Forms,                  \* bound on the credentials of a new card
    MaxAttempts,            \* failures that lock a PUK or an admin key (10)
    ForeignKeys,            \* whether the database enforces them
    NoSecret, NoCard, NoUser, NoCert,
    Zero                    \* a master key overwritten with zeros

Types == {"user", "card", "pin", "puk", "admin"}

ASSUME AttemptsAssumption == MaxAttempts \in Nat \ {0}
ASSUME ForeignKeysAssumption == ForeignKeys \in BOOLEAN
ASSUME NullAssumption ==
    /\ NoSecret \notin Secrets /\ NoUser \notin Users /\ NoCert \notin Certs
    /\ NoCard \notin Cards /\ Zero \notin Cards /\ NoCard # Zero
ASSUME FormsAssumption ==
    \A f \in Forms : /\ f \in [Types -> Secrets \cup {NoSecret}]
                     /\ f["user"] \in Secrets /\ f["puk"] \in Secrets
                     /\ f["admin"] \in Secrets

VARIABLES
    user,   \* users: the password of each
    row,    \* cards: the credentials of each (card_keys)
    certs,  \* certificates, the newest first
    slot,   \* the local.Slot of a card
    job     \* requests in progress

vars == <<user, row, certs, slot, job>>

MasterKeys == Cards \cup {Zero, NoCard}     \* NoCard: no private key
Entries == [secret : Secrets \cup {NoSecret}, mk : MasterKeys,
            attempts : 0 .. MaxAttempts]
NoEntry == [secret |-> NoSecret, mk |-> NoCard, attempts |-> 0]
Credentials == [Types -> Entries]
NoCredentials == [t \in Types |-> NoEntry]

UserRows == [is : {"none", "there", "gone"}, password : Secrets \cup {NoSecret}]
Rows == [is : {"none", "there", "gone"}, user : Users \cup {NoUser},
         keys : Credentials]
NoRow == [is |-> "none", user |-> NoUser, keys |-> NoCredentials]

Objects == [id : Certs \cup {NoCert}, card : Cards \cup {NoCard}, mk : MasterKeys]
NoObject == [id |-> NoCert, card |-> NoCard, mk |-> NoCard]

Slots == [is : BOOLEAN, keys : Credentials, open : BOOLEAN, mk : MasterKeys,
          objects : Seq(Objects)]
NoSlot == [is |-> FALSE, keys |-> NoCredentials, open |-> FALSE, mk |-> NoCard,
           objects |-> <<>>]

\* again: the card was logged in to anew since a sign request chose its handle.
Jobs == [pc : {"idle", "write", "insert", "expiry", "public", "found", "key", "done"},
         op : {"", "user", "card", "edit", "pin", "puk", "keygen", "deliver", "sign"},
         user : Users \cup {NoUser}, card : Cards \cup {NoCard},
         keys : Credentials, type : Types \cup {""},
         secret : Secrets \cup {NoSecret}, new : Secrets \cup {NoSecret},
         handle : Nat, found : Certs \cup {NoCert}, object : Objects,
         mk : MasterKeys, again : BOOLEAN]
Idle == [pc |-> "idle", op |-> "", user |-> NoUser, card |-> NoCard,
         keys |-> NoCredentials, type |-> "", secret |-> NoSecret,
         new |-> NoSecret, handle |-> 0, found |-> NoCert, object |-> NoObject,
         mk |-> NoCard, again |-> FALSE]

\* Types; a slot has a master key and objects exactly while it is open or has none,
\* and no certificate is listed twice.
TypeOK ==
    /\ user \in [Users -> UserRows]
    /\ row \in [Cards -> Rows]
    /\ certs \in Seq(Objects)
    /\ \A i, k \in DOMAIN certs : certs[i].id = certs[k].id => i = k
    /\ slot \in [Cards -> Slots]
    /\ \A c \in Cards : ~slot[c].open => slot[c].objects = <<>> /\ slot[c].mk = NoCard
    /\ job \in [Requests -> Jobs]

Init ==
    /\ user = [u \in Users |-> [is |-> "none", password |-> NoSecret]]
    /\ row = [c \in Cards |-> NoRow]
    /\ certs = <<>>
    /\ slot = [c \in Cards |-> NoSlot]
    /\ job = [r \in Requests |-> Idle]

-----------------------------------------------------------------------------
(* Requests and statements.                                                 *)

There(c) == row[c].is = "there"
UserThere(u) == user[u].is = "there"

Begin(r, j) == job[r] = Idle /\ job' = [job EXCEPT ![r] = j]
Step(r, pc) == [job EXCEPT ![r].pc = pc]
End(r) == [job EXCEPT ![r] = Idle]

\* CardRepo.Update writes every column; a row that is gone is not made again.
Update(c, keys) == row' = IF There(c) THEN [row EXCEPT ![c].keys = keys] ELSE row

\* A UUID is new: nothing refers to it, not even a slot or a request.
Unused(id) ==
    /\ \A i \in DOMAIN certs : certs[i].id # id
    /\ \A c \in Cards : \A h \in DOMAIN slot[c].objects : slot[c].objects[h].id # id
    /\ \A r \in Requests : job[r].found # id /\ job[r].object.id # id
\* CertRepo.Create.
Insert(o) == /\ Unused(o.id)
             /\ ForeignKeys => There(o.card)
             /\ certs' = <<o>> \o certs

\* The rows at these places of the list, in its order: there is one such list.
ListOf(places) ==
    LET Ordered(f) == \A a, b \in DOMAIN f : a < b => f[a] < f[b]
        Orders == {f \in [1 .. Cardinality(places) -> places] : Ordered(f)}
    IN  {[k \in DOMAIN f |-> certs[f[k]]] : f \in Orders}
Without(lost) == ListOf(DOMAIN certs \ lost)

\* A statement fails, and the request with it.
Fail(r) ==
    /\ job[r].pc \in {"write", "insert", "expiry", "public"}
    /\ job' = End(r)
    /\ UNCHANGED <<user, row, certs, slot>>

-----------------------------------------------------------------------------
(* Users (handleCreateUser, handleUpdateUser, handleDeleteUser).            *)

\* Only a local user has a password.
CreateUser(u, p) ==
    /\ user[u].is = "none"
    /\ user' = [user EXCEPT ![u] = [is |-> "there", password |-> p]]
    /\ UNCHANGED <<row, certs, slot, job>>

\* The whole row is read; new is NoSecret where the request has no password.
ReadUser(r, u, new) ==
    /\ UserThere(u)
    /\ Begin(r, [Idle EXCEPT !.pc = "write", !.op = "user", !.user = u,
                             !.secret = user[u].password, !.new = new])
    /\ UNCHANGED <<user, row, certs, slot>>

WriteUser(r) ==
    LET j == job[r] IN
    /\ j.pc = "write" /\ j.op = "user"
    /\ user' = IF UserThere(j.user)
               THEN [user EXCEPT ![j.user].password =
                       IF j.new = NoSecret THEN j.secret ELSE j.new]
               ELSE user
    /\ job' = End(r)
    /\ UNCHANGED <<row, certs, slot>>

\* ON DELETE CASCADE reaches cards and certificates where it is enforced.
DeleteUser(u) ==
    LET Owned(c) == ForeignKeys /\ There(c) /\ row[c].user = u
        lost == {i \in DOMAIN certs : Owned(certs[i].card)} IN
    /\ UserThere(u)
    /\ user' = [user EXCEPT ![u] = [is |-> "gone", password |-> NoSecret]]
    /\ row' = [c \in Cards |-> IF Owned(c) THEN [NoRow EXCEPT !.is = "gone"] ELSE row[c]]
    /\ certs' \in Without(lost)
    /\ UNCHANGED <<slot, job>>

-----------------------------------------------------------------------------
(* Cards (handleCreateCard, handleUpdateCard, handleDeleteCard).            *)

\* CreateCardWithCreds: every credential seals the same new master key.
Sealed(c, f) ==
    [t \in Types |-> IF f[t] = NoSecret THEN NoEntry
                     ELSE [secret |-> f[t], mk |-> c, attempts |-> 0]]

\* The user is there and the password is the user's.
CreateCard(r, c, u, f) ==
    /\ UserThere(u)
    /\ user[u].password = f["user"]
    /\ Begin(r, [Idle EXCEPT !.pc = "insert", !.op = "card", !.card = c, !.user = u,
                             !.keys = Sealed(c, f)])
    /\ UNCHANGED <<user, row, certs, slot>>

\* With expires_at, the row just made is written a second time.
InsertCard(r) ==
    LET j == job[r] IN
    /\ j.pc = "insert" /\ j.op = "card"
    /\ row[j.card].is = "none"
    /\ ForeignKeys => UserThere(j.user)
    /\ row' = [row EXCEPT ![j.card] = [is |-> "there", user |-> j.user, keys |-> j.keys]]
    /\ \E expires \in BOOLEAN : job' = IF expires THEN Step(r, "expiry") ELSE End(r)
    /\ UNCHANGED <<user, certs, slot>>

WriteExpiry(r) ==
    /\ job[r].pc = "expiry"
    /\ Update(job[r].card, job[r].keys)
    /\ job' = End(r)
    /\ UNCHANGED <<user, certs, slot>>

DeleteCard(c) ==
    LET lost == {i \in DOMAIN certs : ForeignKeys /\ certs[i].card = c} IN
    /\ There(c)
    /\ row' = [row EXCEPT ![c] = [NoRow EXCEPT !.is = "gone"]]
    /\ certs' \in Without(lost)
    /\ UNCHANGED <<user, slot, job>>

-----------------------------------------------------------------------------
(* Changing a row: its name or date, the PIN, the PUK.                      *)

Locked(e) == e.attempts = MaxAttempts

\* tryUnlockByType: a locked entry is not tried.
Verified(keys, t, s) == keys[t] # NoEntry /\ ~Locked(keys[t]) /\ keys[t].secret = s

Bumped(keys, t) ==
    IF keys[t] = NoEntry \/ Locked(keys[t]) THEN keys
    ELSE [keys EXCEPT ![t].attempts = @ + 1]

NewEntry(mk, s) == [secret |-> s, mk |-> mk, attempts |-> 0]

\* Mutant: the new PIN seals the master key after it was overwritten.
WithPinLate(keys, t, s) ==
    [u \in Types |-> CASE u = "pin"   -> NewEntry(Zero, s)
                       [] u = "admin" -> keys[u]
                       [] OTHER       -> [keys[u] EXCEPT !.attempts = 0]]

\* ResetPIN: everything but the admin key counts from zero again.
WithPin(keys, t, s) ==
    [u \in Types |-> CASE u = "pin"   -> NewEntry(keys[t].mk, s)
                       [] u = "admin" -> keys[u]
                       [] OTHER       -> [keys[u] EXCEPT !.attempts = 0]]

\* ResetPUK.
WithPuk(keys, s) == [keys EXCEPT !["puk"] = NewEntry(keys["admin"].mk, s)]

ReadCard(r, c, op, t, s, new) ==
    /\ There(c)
    /\ Begin(r, [Idle EXCEPT !.pc = "write", !.op = op, !.card = c, !.type = t,
                             !.secret = s, !.new = new, !.keys = row[c].keys])
    /\ UNCHANGED <<user, row, certs, slot>>

\* handleUpdateCard; handleResetPIN, with PUK or admin key; handleResetPUK.
Edit(r, c) == ReadCard(r, c, "edit", "", NoSecret, NoSecret)
ResetPin(r, c, t, s, new) == ReadCard(r, c, "pin", t, s, new)
ResetPuk(r, c, s, new) == ReadCard(r, c, "puk", "admin", s, new)

\* The row the request writes, from its copy.
Changed(j) ==
    IF j.op = "edit" THEN j.keys
    ELSE IF ~Verified(j.keys, j.type, j.secret) THEN Bumped(j.keys, j.type)
    ELSE IF j.op = "pin" THEN WithPin(j.keys, j.type, j.new)
    ELSE WithPuk(j.keys, j.new)

\* Where there is no entry to count on, bumpFailure writes nothing.
WriteCard(r) ==
    LET j == job[r] IN
    /\ j.pc = "write" /\ j.op \in {"edit", "pin", "puk"}
    /\ IF j.op # "edit" /\ j.keys[j.type] = NoEntry THEN row' = row
       ELSE Update(j.card, Changed(j))
    /\ job' = End(r)
    /\ UNCHANGED <<user, certs, slot>>

-----------------------------------------------------------------------------
(* Keys and certificates.                                                   *)

\* unlockMasterKey tries every entry, of any type, locked or not.
Opens(keys, s) == {t \in Types : keys[t] # NoEntry /\ keys[t].secret = s}
Unlocked(keys, s) == keys[CHOOSE t \in Types : t \in Opens(keys, s)].mk

\* handleKeyGen, deliverToCard: a slot made from the row for this request alone
\* opens the master key, of which the request keeps a copy.
OpenForKey(r, c, op, s) ==
    /\ There(c) /\ Opens(row[c].keys, s) # {}
    /\ Begin(r, [Idle EXCEPT !.pc = "insert", !.op = op, !.card = c,
                             !.mk = Unlocked(row[c].keys, s)])
    /\ UNCHANGED <<user, row, certs, slot>>

\* encryptAndStoreCert.
InsertKey(r, id) ==
    LET j == job[r] IN
    /\ j.pc = "insert" /\ j.op \in {"keygen", "deliver"}
    /\ Insert([id |-> id, card |-> j.card, mk |-> j.mk])
    /\ job' = IF j.op = "deliver" THEN Step(r, "public") ELSE End(r)
    /\ UNCHANGED <<user, row, slot>>

Public(id, c) == [id |-> id, card |-> c, mk |-> NoCard]

\* deliverToCard adds the certificate to the key, and ignores a failure.
InsertPublic(r, id) ==
    /\ job[r].pc = "public"
    /\ Insert(Public(id, job[r].card))
    /\ job' = End(r)
    /\ UNCHANGED <<user, row, slot>>

\* handleCreateCert (ImportCertificate) does not look for the card.
CreateCert(c, id) ==
    /\ row[c].is # "none"
    /\ Insert(Public(id, c))
    /\ UNCHANGED <<user, row, slot, job>>

DeleteCert(id) ==
    LET lost == {i \in DOMAIN certs : certs[i].id = id} IN
    /\ lost # {}
    /\ certs' \in Without(lost)
    /\ UNCHANGED <<user, row, slot, job>>

-----------------------------------------------------------------------------
(* Slots.                                                                   *)

\* loadLocalSlots, when the program starts; what it had in memory is lost.
Restart ==
    /\ slot' = [c \in Cards |-> IF There(c)
                                THEN [NoSlot EXCEPT !.is = TRUE, !.keys = row[c].keys]
                                ELSE NoSlot]
    /\ job' = [r \in Requests |-> Idle]
    /\ UNCHANGED <<user, row, certs>>

\* ListByCard; a handle is the position in the list.
OnCard(c) == ListOf({i \in DOMAIN certs : certs[i].card = c})

SignsOn(r, c) == job[r].op = "sign" /\ job[r].card = c

\* A login that fails changes nothing: the slots of the program have no CardRepo
\* to count with.
Login(c, s) ==
    LET k == slot[c] IN
    /\ k.is /\ ~k.open
    /\ Opens(k.keys, s) # {}
    /\ \E list \in OnCard(c) :
         slot' = [slot EXCEPT ![c] = [k EXCEPT !.open = TRUE, !.mk = Unlocked(k.keys, s),
                                               !.objects = list]]
    /\ job' = [r \in Requests |-> IF SignsOn(r, c) THEN [job[r] EXCEPT !.again = TRUE]
                                  ELSE job[r]]
    /\ UNCHANGED <<user, row, certs>>

\* Mutant: the objects outlive the login.
LogoutKeepsObjects(c) ==
    /\ slot[c].open
    /\ slot' = [slot EXCEPT ![c].open = FALSE, ![c].mk = NoCard]
    /\ job' = [r \in Requests |-> IF SignsOn(r, c) /\ job[r].pc = "key"
                                  THEN [job[r] EXCEPT !.mk = Zero] ELSE job[r]]
    /\ UNCHANGED <<user, row, certs>>

\* The master key is overwritten where it lies, under the eyes of the requests
\* that took a reference to it.
Logout(c) ==
    /\ slot[c].open
    /\ slot' = [slot EXCEPT ![c].open = FALSE, ![c].mk = NoCard, ![c].objects = <<>>]
    /\ job' = [r \in Requests |-> IF SignsOn(r, c) /\ job[r].pc = "key"
                                  THEN [job[r] EXCEPT !.mk = Zero] ELSE job[r]]
    /\ UNCHANGED <<user, row, certs>>

\* FindObjects and GetAttributes: the client learns what a handle names.
Find(r, c, h) ==
    /\ slot[c].open /\ h \in DOMAIN slot[c].objects
    /\ Begin(r, [Idle EXCEPT !.pc = "found", !.op = "sign", !.card = c, !.handle = h,
                             !.found = slot[c].objects[h].id])
    /\ UNCHANGED <<user, row, certs, slot>>

\* Mutant: a handle is looked up in the certificates of the card as they are now.
NamedNow(j) ==
    LET now == CHOOSE list \in OnCard(j.card) : TRUE
    IN  IF j.handle \in DOMAIN now THEN now[j.handle] ELSE NoObject

Named(j) == slot[j.card].objects[j.handle]

\* Sign and Decrypt, under the lock.
TakeKey(r) ==
    LET j == job[r] IN
    /\ j.pc = "found"
    /\ job' = IF j.handle \in DOMAIN slot[j.card].objects
              THEN [job EXCEPT ![r].pc = "key", ![r].object = Named(j),
                               ![r].mk = slot[j.card].mk]
              ELSE End(r)
    /\ UNCHANGED <<user, row, certs, slot>>

\* decryptPrivateKey, without the lock: another master key opens nothing.
UseKey(r) ==
    LET j == job[r] IN
    /\ j.pc = "key"
    /\ job' = IF j.mk = j.object.mk /\ j.mk # NoCard THEN Step(r, "done") ELSE End(r)
    /\ UNCHANGED <<user, row, certs, slot>>

Answer(r) ==
    /\ job[r].pc = "done"
    /\ job' = End(r)
    /\ UNCHANGED <<user, row, certs, slot>>

-----------------------------------------------------------------------------

Administer ==
    \/ \E u \in Users : \/ \E p \in Secrets \cup {NoSecret} : CreateUser(u, p)
                        \/ DeleteUser(u)
    \/ \E c \in Cards : \/ DeleteCard(c)
                        \/ \E id \in Certs : CreateCert(c, id)
    \/ \E id \in Certs : DeleteCert(id)

Request(r) ==
    \/ \E u \in Users, new \in Secrets \cup {NoSecret} : ReadUser(r, u, new)
    \/ WriteUser(r)
    \/ \E c \in Cards, u \in Users, f \in Forms : CreateCard(r, c, u, f)
    \/ InsertCard(r)
    \/ WriteExpiry(r)
    \/ \E c \in Cards :
         \/ Edit(r, c)
         \/ \E s, new \in Secrets :
              \/ ResetPuk(r, c, s, new)
              \/ \E t \in {"puk", "admin"} : ResetPin(r, c, t, s, new)
    \/ WriteCard(r)
    \/ \E c \in Cards, op \in {"keygen", "deliver"}, s \in Secrets : OpenForKey(r, c, op, s)
    \/ \E id \in Certs : InsertKey(r, id) \/ InsertPublic(r, id)
    \/ Fail(r)

Sign(r) ==
    \/ \E c \in Cards, h \in 1 .. Cardinality(Certs) : Find(r, c, h)
    \/ TakeKey(r)
    \/ UseKey(r)
    \/ Answer(r)

Token ==
    \/ Restart
    \/ \E c \in Cards : (\E s \in Secrets : Login(c, s)) \/ Logout(c)

Next ==
    \/ Administer
    \/ Token
    \/ \E r \in Requests : Request(r) \/ Sign(r)

Spec == Init /\ [][Next]_vars

-----------------------------------------------------------------------------
(* Properties.                                                              *)

\* Whatever is reset, edited, failed or lost on the way, every private key on a
\* card is sealed with the master key that each credential of the card opens, in
\* its row and in the slot that still works on an old copy of the row, and a card
\* keeps the credentials it cannot be opened or mended without
\* (ResetPIN, ResetPUK, encryptAndStoreCert, decryptPrivateKey).
KeysOpen ==
    /\ \A i \in DOMAIN certs, t \in Types :
         LET o == certs[i]
             Sealing(e) == e = NoEntry \/ e.mk = o.mk
         IN  o.mk # NoCard => /\ There(o.card) => Sealing(row[o.card].keys[t])
                              /\ slot[o.card].is => Sealing(slot[o.card].keys[t])
                              /\ slot[o.card].open => slot[o.card].mk = o.mk
    /\ \A c \in Cards, t \in {"user", "puk", "admin"} :
         There(c) => row[c].keys[t] # NoEntry

\* A credential of a card changes, a locked PUK works again and a count of
\* failures falls only by the reset that is meant to do so, with a credential that
\* was not locked; the count of the admin key never falls.  The one exception is
\* a request that read the row before another one changed it and now writes it all
\* back (ResetPIN, ResetPUK, bumpFailure, handleUpdateCard, handleCreateCard).
CredentialRules ==
    \A c \in Cards, t \in Types :
        LET old == row[c].keys[t]
            new == row'[c].keys[t]
            By(resets) == \E r \in Requests :
                /\ job[r].card = c /\ job'[r] = Idle
                /\ \/ job[r].keys # row[c].keys
                   \/ /\ <<job[r].op, job[r].type>> \in resets
                      /\ row[c].keys[job[r].type].attempts < MaxAttempts
        IN  There(c) /\ row'[c].is = "there" =>
              /\ new.secret # old.secret =>
                   By(CASE t = "pin" -> {<<"pin", "puk">>, <<"pin", "admin">>}
                        [] t = "puk" -> {<<"puk", "admin">>}
                        [] OTHER     -> {})
              /\ new.attempts < old.attempts =>
                   By(IF t = "admin" THEN {}
                      ELSE {<<"pin", "puk">>, <<"pin", "admin">>, <<"puk", "admin">>})

\* A signature is made with the certificate that the client was shown under its
\* handle, whatever is created and deleted meanwhile, unless the card was logged in
\* to again in between: handles are positions in a list that a login makes anew.
\* It is made with the card's master key, not with what Logout left of it
\* (loadObjects, FindObjects, Sign, Logout).
SignsWithWhatItFound ==
    \A r \in Requests : job[r].pc = "done" =>
        /\ job[r].object.id = job[r].found \/ job[r].again
        /\ job[r].mk = job[r].card /\ job[r].object.card = job[r].card

=============================================================================
