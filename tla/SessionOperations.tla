------------------------- MODULE SessionOperations -------------------------
(***************************************************************************)
(* The operations a session keeps between two requests: searching, signing, *)
(* decrypting and encrypting (ipc/handler.go), over the objects and the     *)
(* master key of one local slot (card/local/slot.go).                       *)
(*                                                                         *)
(* A handler holds the session mutex from its first look at the session to  *)
(* its last, so each Init, each page of a search and the start of each Sign *)
(* is one step.  C_Sign, C_Decrypt and C_Encrypt copy their parameters,      *)
(* reset the flag and release the mutex before they enter the provider;     *)
(* the provider reads the object and a reference to the master key under    *)
(* its own lock and uses both after releasing it.  Login, logout and the     *)
(* REST API, which adds and removes certificates, run in between.            *)
(***************************************************************************)
EXTENDS Naturals, Sequences

CONSTANTS
    Workers,    \* connection goroutines
    Sessions,   \* open sessions of the slot
    Kinds,      \* the operations in use, of AllKinds
    Certs,      \* certificates the card may hold
    ObjectHandles,  \* object handles a client may name, 1 .. n
    MaxInits,   \* bound on the operations begun per session and kind
    MaxLogins,  \* bound on the logins
    NoCert      \* no object looked up

AllKinds == {"sign", "decrypt", "encrypt"}
PrivateKinds == {"sign", "decrypt"}     \* the ones that need the private key

ASSUME KindsAssumption == Kinds \subseteq AllKinds
ASSUME HandlesAssumption == ObjectHandles \subseteq Nat \ {0}
ASSUME BoundsAssumption == MaxInits \in Nat /\ MaxLogins \in Nat
ASSUME NoCertAssumption == NoCert \notin Certs

VARIABLES
    card,       \* the card's certificates in the database, newest first
    logins,     \* how many logins there have been
    login,      \* the number of the current login, 0 when logged out
    intact,     \* the logins whose master key buffer still holds the key
    objects,    \* Slot.objects: the handle of an object is its position
    active,     \* Session.SignActive, DecryptActive, EncryptActive
    opHandle,   \* Session.SignHandle, DecryptHandle, EncryptHandle
    finding,    \* Session.FindActive
    found,      \* Session.FindResults
    pos,        \* Session.FindPos
    stage,      \* where a thread's Sign, Decrypt or Encrypt is
    job,        \* its kind, the handle it copied, the object and the login
                \* whose key it refers to; history: the handle its Init named
    named,      \* history: the handle given to each Init of a session
    spent       \* history: how many of them went to the provider

slotVars == <<card, logins, login, intact, objects>>
opVars == <<active, opHandle, named, spent>>
findVars == <<finding, found, pos>>
sessionVars == <<card, logins, login, intact, objects, active, opHandle,
                 finding, found, pos, stage, job, named, spent>>

Positions(s) == {s[i] : i \in 1 .. Len(s)}
PerOp(S) == [Sessions -> [Kinds -> S]]
Jobs == [kind : Kinds \cup {"none"}, handle : ObjectHandles \cup {0},
         cert : Certs \cup {NoCert}, key : 0 .. MaxLogins, want : ObjectHandles \cup {0}]
NoJob == [kind |-> "none", handle |-> 0, cert |-> NoCert, key |-> 0, want |-> 0]

OpsTypeOK ==
    /\ card \in Seq(Certs)
    /\ logins \in 0 .. MaxLogins
    /\ login \in 0 .. logins
    /\ intact \subseteq 1 .. logins
    /\ objects \in Seq(Certs)
    /\ active \in PerOp(BOOLEAN)
    /\ opHandle \in PerOp(ObjectHandles \cup {0})
    /\ finding \in [Sessions -> BOOLEAN]
    /\ found \in [Sessions -> Seq(Nat)]
    /\ pos \in [Sessions -> Nat]
    /\ stage \in [Workers -> {"idle", "lookup", "unwrap", "compute"}]
    /\ job \in [Workers -> Jobs]
    /\ named \in PerOp(Seq(ObjectHandles))
    /\ spent \in PerOp(Nat)

OpsInit ==
    /\ card \in {<<>>} \cup {<<c>> : c \in Certs}
    /\ logins = 0 /\ login = 0 /\ intact = {} /\ objects = <<>>
    /\ active = [s \in Sessions |-> [k \in Kinds |-> FALSE]]
    /\ opHandle = [s \in Sessions |-> [k \in Kinds |-> 0]]
    /\ finding = [s \in Sessions |-> FALSE]
    /\ found = [s \in Sessions |-> <<>>]
    /\ pos = [s \in Sessions |-> 0]
    /\ stage = [t \in Workers |-> "idle"]
    /\ job = [t \in Workers |-> NoJob]
    /\ named = [s \in Sessions |-> [k \in Kinds |-> <<>>]]
    /\ spent = [s \in Sessions |-> [k \in Kinds |-> 0]]

----------------------------------------------------------------------------
(* The card and the token. *)

\* The REST API of the daemon writes the database only.
AddCert(c) ==
    /\ c \notin Positions(card)
    /\ card' = <<c>> \o card
    /\ UNCHANGED <<logins, login, intact, objects, opVars, findVars, stage, job>>

DeleteCert(c) ==
    /\ \E i \in 1 .. Len(card) :
         /\ card[i] = c
         /\ card' = SubSeq(card, 1, i - 1) \o SubSeq(card, i + 1, Len(card))
    /\ UNCHANGED <<logins, login, intact, objects, opVars, findVars, stage, job>>

\* Slot.Login that succeeds; one that fails leaves all of this as it was.
Login ==
    /\ login = 0 /\ logins < MaxLogins
    /\ logins' = logins + 1
    /\ login' = logins + 1
    /\ intact' = intact \cup {logins + 1}
    /\ objects' = card
    /\ UNCHANGED <<card, opVars, findVars, stage, job>>

\* A variant that drops the reference to the key and does not wipe it.
LogoutDropsKey ==
    /\ login # 0
    /\ login' = 0
    /\ objects' = <<>>
    /\ UNCHANGED <<card, logins, intact, opVars, findVars, stage, job>>

\* Slot.Logout zeroes the key in place, under every reference to it.
Logout ==
    /\ login # 0
    /\ login' = 0
    /\ intact' = intact \ {login}
    /\ objects' = <<>>
    /\ UNCHANGED <<card, logins, opVars, findVars, stage, job>>

----------------------------------------------------------------------------
(* Searching. *)

\* The results come out of a Go map: in any order, whatever they match.
FindObjectsInit(t, s) ==
    /\ stage[t] = "idle" /\ ~finding[s]
    /\ \E n \in 0 .. Len(objects) :
         \E r \in [1 .. n -> 1 .. Len(objects)] :
            /\ \A i, j \in 1 .. n : r[i] = r[j] => i = j
            /\ found' = [found EXCEPT ![s] = r]
    /\ pos' = [pos EXCEPT ![s] = 0]
    /\ finding' = [finding EXCEPT ![s] = TRUE]
    /\ UNCHANGED <<slotVars, opVars, stage, job>>

\* A variant that moves on by the page size asked for.
FindObjectsByMax(t, s, max) ==
    /\ stage[t] = "idle" /\ finding[s]
    /\ pos' = [pos EXCEPT ![s] = pos[s] + max]
    /\ UNCHANGED <<slotVars, opVars, finding, found, stage, job>>

FindObjects(t, s, max) ==
    /\ stage[t] = "idle" /\ finding[s]
    /\ LET left == Len(found[s]) - pos[s]
       IN  pos' = [pos EXCEPT ![s] = pos[s] + (IF max > left THEN left ELSE max)]
    /\ UNCHANGED <<slotVars, opVars, finding, found, stage, job>>

FindObjectsFinal(t, s) ==
    /\ stage[t] = "idle" /\ finding[s]
    /\ found' = [found EXCEPT ![s] = <<>>]
    /\ pos' = [pos EXCEPT ![s] = 0]
    /\ finding' = [finding EXCEPT ![s] = FALSE]
    /\ UNCHANGED <<slotVars, opVars, stage, job>>

----------------------------------------------------------------------------
(* Signing, decrypting and encrypting.  A refusal changes nothing: Init     *)
(* while the operation is active, the operation without its Init, and a     *)
(* private operation while the token is logged out, which leaves the flag.  *)

OperationInit(t, s, k, h) ==
    /\ stage[t] = "idle" /\ ~active[s][k]
    /\ Len(named[s][k]) < MaxInits
    /\ opHandle' = [opHandle EXCEPT ![s][k] = h]
    /\ active' = [active EXCEPT ![s][k] = TRUE]
    /\ named' = [named EXCEPT ![s][k] = Append(named[s][k], h)]
    /\ UNCHANGED <<slotVars, findVars, stage, job, spent>>

MayOperate(t, s, k) ==
    /\ stage[t] = "idle" /\ active[s][k]
    /\ k \in PrivateKinds => login # 0

Enter(t, s, k) ==
    /\ spent' = [spent EXCEPT ![s][k] = spent[s][k] + 1]
    /\ job' = [job EXCEPT ![t] =
                 [kind |-> k, handle |-> opHandle[s][k], cert |-> NoCert,
                  key |-> 0, want |-> named[s][k][spent[s][k] + 1]]]
    /\ stage' = [stage EXCEPT ![t] = "lookup"]
    /\ UNCHANGED <<slotVars, findVars, opHandle, named>>

Operation(t, s, k) ==
    /\ MayOperate(t, s, k)
    /\ active' = [active EXCEPT ![s][k] = FALSE]
    /\ Enter(t, s, k)

Answer(t) ==
    /\ stage' = [stage EXCEPT ![t] = "idle"]
    /\ job' = [job EXCEPT ![t] = NoJob]

\* A variant that reads the handle from the session again.
LookupReadsSession(t) ==
    /\ stage[t] = "lookup"
    /\ \E s \in Sessions :
         LET h == opHandle[s][job[t].kind] IN
         IF h \in 1 .. Len(objects)
         THEN /\ job' = [job EXCEPT ![t].cert = objects[h], ![t].key = login]
              /\ stage' = [stage EXCEPT ![t] = IF job[t].kind \in PrivateKinds
                                         THEN "unwrap" ELSE "compute"]
         ELSE Answer(t)
    /\ UNCHANGED <<slotVars, opVars, findVars>>

\* The object and a reference to the key, read under the slot's read lock.
Lookup(t) ==
    /\ stage[t] = "lookup"
    /\ IF job[t].handle \in 1 .. Len(objects)
       THEN /\ job' = [job EXCEPT ![t].cert = objects[job[t].handle],
                                  ![t].key = login]
            /\ stage' = [stage EXCEPT ![t] = IF job[t].kind \in PrivateKinds
                                       THEN "unwrap" ELSE "compute"]
       ELSE Answer(t)
    /\ UNCHANGED <<slotVars, opVars, findVars>>

\* decryptPrivateKey: a wiped key, or one half wiped, does not open the
\* temporary key; an object without private data has none.
Unwrap(t) ==
    /\ stage[t] = "unwrap"
    /\ \/ /\ job[t].key \in intact
          /\ stage' = [stage EXCEPT ![t] = "compute"]
          /\ job' = job
       \/ Answer(t)
    /\ UNCHANGED <<slotVars, opVars, findVars>>

\* The result, or a failure: the mechanism is not one of the key's.
Compute(t) ==
    /\ stage[t] = "compute"
    /\ Answer(t)
    /\ UNCHANGED <<slotVars, opVars, findVars>>

----------------------------------------------------------------------------
Card == \E c \in Certs : AddCert(c) \/ DeleteCert(c)
Token == Login \/ Logout
Search(t) == \E s \in Sessions :
    \/ FindObjectsInit(t, s)
    \/ \E max \in ObjectHandles : FindObjects(t, s, max)
    \/ FindObjectsFinal(t, s)
Begin(t) == \E s \in Sessions, k \in Kinds :
    \/ \E h \in ObjectHandles : OperationInit(t, s, k, h)
    \/ Operation(t, s, k)
Provide(t) == Lookup(t) \/ Unwrap(t) \/ Compute(t)

OpsNext == \/ Card \/ Token
        \/ \E t \in Workers : Search(t) \/ Begin(t) \/ Provide(t)

OpsSpec == OpsInit /\ [][OpsNext]_sessionVars

----------------------------------------------------------------------------
(* Properties. *)

\* C_FindObjects never slices past the end of the results, which would
\* panic and take the daemon down, in any order of searches, pages and
\* Finals of any threads (handler.go:313, pos is not checked there).
PagesStayInside ==
    \A s \in Sessions :
        /\ pos[s] <= Len(found[s])
        /\ ~finding[s] => found[s] = <<>>

\* Each Init pays for one operation: of any number of racing C_Sign requests
\* of a session exactly one goes to the provider, and none is lost.
OneOperationPerInit ==
    \A s \in Sessions, k \in Kinds :
        Len(named[s][k]) = spent[s][k] + (IF active[s][k] THEN 1 ELSE 0)

\* The object an operation works on is the one its own Init named, whatever
\* Inits other threads have made on the session since it let the mutex go
\* (handler.go:468-472).
WorksOnNamedObject ==
    \A t \in Workers :
        stage[t] = "lookup" /\ stage'[t] # "idle" /\ stage'[t] # stage[t] =>
            /\ job[t].want \in 1 .. Len(objects)
            /\ job'[t].cert = objects[job[t].want]

\* Every operation done is one that an Init asked for: each Init is spent once, on
\* the object it named, however threads race for the session's flag and handle
\* (handleSign, handleDecrypt, handleEncrypt).
OperatesAsTold == [][OneOperationPerInit' /\ WorksOnNamedObject]_sessionVars

\* A private key is opened only under the login its object was looked up in,
\* while that login lasts: a request that overlaps C_Logout fails if it
\* comes to the key too late, although it never looks at the login state.
KeyNeedsItsLogin ==
    [][\A t \in Workers :
         stage[t] = "unwrap" /\ stage'[t] = "compute" =>
            login # 0 /\ login = job[t].key]_sessionVars
=============================================================================
