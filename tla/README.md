# OpenCert Manager: TLA+ models and proofs

This directory specifies OpenCert Manager in TLA+, checks the specifications with
TLC and proves their main properties with TLAPS. Everything is translated from
the code under `src/`.

Contents: [the system](#1-the-system), [plan](#2-plan),
[the models](#3-the-models), [runs and bounds](#4-runs-and-bounds),
[fairness](#5-fairness), [proofs](#6-proofs),
[differences found](#7-differences-between-the-code-and-what-it-says),
[what is not modelled](#8-what-is-not-modelled).

## 1. The system

Three programs and two web front ends:

    application --C_ calls--> drivers/ (PKCS#11 DLL, C)
                                 |  IPC frames over a pipe or socket
                              clients/ (client-card, Go daemon)
                                 |  slots: local card | cloud card
                                 |                        | REST
                              servers/ (server-card, Go): cards, CA, orders, payment, CRL

| component | module | state | what is hard | correct if |
|---|---|---|---|---|
| driver and IPC server (`drivers/src/ipc_client.c`, `clients/internal/ipc/server.go`, `protocol.go`) | `IpcChannel` | one global connection of the library; tracked connections of the daemon; bytes under way | no lock in the library; pushed events beside answers; frames in two writes; shutdown | a call takes its own answer and returns; a drained daemon is quiet |
| session manager (`card/manager.go`) | `TokenSessions`, `SharedLogin` | sessions, handle counter, state and mutex of each | login state is kept in each session, in the slot and in the copies under way, under three locks | sessions and token agree; no deadlock; handles are not reused |
| session operations (`ipc/handler.go`) | `SessionOperations` | find results and position; operations in progress | the mutex is released before the provider works | one Init, one operation, on the object it named |
| local cards (`card/local`, the REST handlers of users, cards and certificates) | `LocalCards` | rows with five credentials each, private keys, the slots' copies of the rows | a row is read, worked on for a while, and written back whole; a slot never sees a new row | keys stay sealed with what opens them; who changes a credential may |
| certificate toolbox (`pki`) | `PkiToolbox` | CSRs, CAs, certificates, keys without a certificate | one statement of several fails | a key leaves only where someone means it to |
| the client's database | `ClientStore` | `LocalCards` and `PkiToolbox` | both lose their requests at a restart | both |
| cloud slot (`card/cloud`) | `CloudSlot` | token, list of certificates and its cache, network flag | refreshes in the background and without the lock | it asks as, and for, the user it shows |
| payment (`payment`, `api/handler_payment.go`) | `Payment` | recharge orders, refunds, balances | repeated and late callbacks; decisions in several commits | credited once; what is refunded was deducted |
| certificate orders (`workflow`) | `CertOrders` | orders, applications, balance | checks and writes are separate statements | the balance adds up; approvals stand |
| verification (`verification`) | `Verification` | subject infos, extension infos, templates | proofs are looked up between a read and a write | who is verified has proved it; limits hold |
| authorities and templates (`ca`, `issuance`) | `Authorities` | CAs, chains, counters, certificates, templates | everything is read, and later written | counters cover issues; issues follow templates; revocations reach the list |
| revocation (`revocation`) | `RevocationLists` | configurations, CRL cache, schedulers | refreshes overlap; schedulers are replaced | revoked numbers stay on the CRL; no goroutine is left over |
| cloud cards (`card`, `api/handler_card.go`) | `CloudCards` | cards with PIN, PUK and Admin Key, PIN sessions | counts are read and written back; a reset and the end of its sessions are two things | the lock is right; keys are used by their owner |
| accounts (`api/handler_auth.go`, `auth/jwt.go`) | `Accounts` | users, tokens and their blacklist, login sessions, codes | accounts change between the read and the token; the blacklist is cleaned | what has ended stays ended; a login acts on what it read |

Requests from applications go from a connection's goroutine through a handler and
the manager to a slot. The REST API of the client writes the database from other
goroutines; local slots read rows when the program starts and certificates at
each login. A cloud slot is a client of the server. Requests of the server run on
goroutines of their own and meet in the database (SQLite in WAL mode, a pool of
connections, foreign keys enforced, most statements outside a transaction) and in
a few maps under a mutex.

`PROJECT.json` lists the components with their files and the hazards, each at
its line with the properties that cover it.

## 2. Plan

Done, in this order: `TokenSessions` with `SharedLogin`, `SessionOperations`,
`Payment`, `CertOrders`, `CloudCards`, `RevocationLists`, `Authorities`,
`Accounts`, `LocalCards` and `PkiToolbox` with `ClientStore`, `CloudSlot`,
`Verification`, `IpcChannel`.

Proved: the safety properties of every module, with the refinement of
`SharedLogin` (section 6). Left: what section 6 lists as only model-checked.

Bounds stay at two or three actors over one or two objects, with the failures
enabled: the hazards of this code are between two goroutines, and a third adds an
observer. The modules are written without `RECURSIVE` so that they can be proved
about.

## 3. The models

What all have in common. A request is a record or a program counter with what it
has read; it is split wherever another request, goroutine or failure can come
between two of its steps, and every write, return and clean-up of a step is in
that step. A statement that the database may refuse may fail, and so may a read whose
error a handler passes over: it then goes on as if nothing had been found. The properties
say what such a read costs, under a name (`excused`, `unread`, `missed`), and nothing else
is excused by it. A read whose error ends the request is a request that does not begin, or
ends there. UUIDs, tokens and handles are never given twice. A word in a comment such as *bound* names every
limit that the code does not have. Variables marked *history* are read by
properties only, or by the bounds.

### `TokenSessions` and `SharedLogin`

| step | code |
|---|---|
| `OpenSession`, `CloseSession`, `CloseAllSessions` | one step each under `Manager.mu` |
| `GetSession` | the session pointer is taken; it outlives a close |
| `LoginRefused/Admitted`, `LogoutRefused/Admitted`, `Gate` | the session mutex is taken and the state looked at |
| `ProviderAccepts`, `ProviderRefuses`, `ProviderLogout` | `Slot.Login` and `Slot.Logout` under the slot's lock |
| `EnterUser`, `EnterSO`, `LeaveLoggedIn` | the caller's own session state |
| `ShareLogin`, `RevertSession`, `CopyDone` | the copy loops, one session at a time, in any order, without the sessions' mutexes |

`Manager.mu` is not a variable: its writers are single steps and wait for the
copy loops, its only readers that last. The PIN is one Boolean: does it unlock
the card.

`SerialSpec` is what one application gets: its driver sends a request when the
one before has been answered. Opens, closes and other requests still interleave
with the authentication, at each of its steps. Several applications that
authenticate at once can break `LoginIsShared`: the copy loop of one login, which
visits its own session too (`manager.go:264`), may undo another's logout. What
every interleaving keeps is in `ModeMatchesFlags`, `ClosedStaysClosed`,
`MutexDiscipline` and `EveryRequestAnswered`.

`ShareLogin` and `RevertSession` read and write a session's state in one step, although
the code reads it (`manager.go:267`, `:285`) and writes it (`:268`, `:287`) under no lock.
No property sees the difference: the write sets what the step sets whenever it comes, but
for a session that became the SO's in between.

`SharedLogin` is the promise: login and logout are single events that every
open session sees at once. It leaves open whether a session that is opened later shows the
login or not: `manager.go:255` says that it does, the code that it does not
(section 7). The refinement mapping puts the event where the caller's own session
changes, counts the copies still to be made as made, and reads the provider's flag
as it was before.

### `SessionOperations`

Sessions over the objects and the master key of one local slot. Handlers hold
the session mutex from their first look at the session to their last, so
`OperationInit`, `FindObjectsInit`, `FindObjects` and `FindObjectsFinal` are
steps; `Operation` ends where `C_Sign`, `C_Decrypt` or `C_Encrypt` lets go of
the mutex, and `Lookup`, `Unwrap` and `Compute` are the provider's work, with
the slot's lock held only in `Lookup`. `intact` is the set of logins whose key
buffer is not wiped: `Logout` zeroes in place, under every reference.
`Login` and `Logout` are single steps here; their parts are in `TokenSessions`.

### `IpcChannel`

The bytes of a direction are pieces: a frame is a head and a body, written one
after the other by a thread of the application, by the goroutine of a connection
or by the goroutine that pushes an event. A reader that meets another piece than
the one it reads has lost its place, and that direction is `torn` from then on:
what it reads afterwards may be taken for an answer or not. `Initialize`,
`BeginCall`, `Send`, `ReceiveHead`, `ReceiveRest` and `Finalize` are the library;
`Accept`, `Track`, `ReadFrame`, `CheckDone`, `Execute`, `Write`, `IdleTimeout`,
`Broadcast` and `PushFrame` the daemon; `Stop`, `Drain`, `ForceClose` and `Exit` its
shutdown. The library has no lock and ignores `pInitArgs`;
`ipc_check_heartbeat` (`ipc_client.c:371`), which would reconnect, has no caller
and is not modelled. The daemon closes a
connection that is idle for 60 seconds, and every call then fails until
`C_Finalize` and `C_Initialize`. Buffers are never full, which
also leaves out the write deadlines: the 2 seconds of a push and the 30 of an
answer set the same field. `C_Finalize` comes with no call under way.

### `LocalCards`, `PkiToolbox`, `ClientStore`

A card's master key goes by the name of the card, its credentials (`user`,
`card`, `pin`, `puk`, `admin`) are entries that seal it, and a private key is
sealed with it. A REST request reads a row (`ReadCard`, `ReadUser`), works, and
writes it back whole (`WriteCard`, `WriteUser`); `CreateCard` writes twice. A slot
has the row of the start (`Restart` registers the cards that are there); `Login` and
`Logout` change its master key, which `TakeKey` refers to and `UseKey` reads, so a
`Logout` in between leaves zeros. `ForeignKeys` says whether the database enforces
them: the DSN asks with `_foreign_keys=on` (`storage/db.go:52`), which the driver
does not know, so the run takes `FALSE`; the other value is for the theorems.

`PkiToolbox` keeps for each certificate which key pair it is for, which private
key lies with it, and whether the two were brought as a pair. An import with a key
that waits (`TakeOver`) deletes the waiting row before the new one is written.

### `CloudSlot`

The slot (`cloud`) and its HTTP client (`http`) with what they meet of the
server: tokens (`jwt`) and the card's certificates (`remote`). `Login` and the
refresh of the list hold the slot's lock; signatures and the refresh of the token
do not. A step that goes over the network is answered, refused or lost.
`left` (history) says that a login which failed has left a token behind.
`TokenFollowsLogin` and `SignsAsShown` say what the slot guarantees, and their
exceptions name every way it does not: a refresh that a login or logout overtook,
a list that changed between the search and the signature.

### `Payment`

Every SQL statement that commits by itself is a step. `HandleCallback` is a
deferred transaction: its SELECT takes a snapshot, and it can write only if
nothing has been committed since. `fresh` is the set of transactions for which
that holds; every commit empties it. `Fail` can end a request before any
statement. The provider is external: it repeats a callback until it has heard
"success", and the customer may pay at any time once the payment is open.
Balances are kept by lines, `credited[o]` and `deducted[r]`, so the properties
hold for every amount. No provider is registered by the server's `main`, so this
is the behaviour of an installation that adds one.

### `CertOrders`

The check, the freeze and the insert of `CreateOrder`; the read and the write of
`CancelOrder`; the read, the certificate, the mark, the order and the consumption
of `ApproveApplication`; the read, the conditional mark, the amount and the order
of `RejectApplication`. `Consume` and `Unfreeze` are the statements whose errors
the code drops. `auto` says whether the service was built with a CA, as the
server does, or without, as the tests do; with one, an approval ends in
`IssueCert`, because the certificate names no card. The balance is the row of one
user. `odd` is history: it remembers overlaps, failures and second applications,
so that `NoOverdraft` and `LedgerOfOrders` (both in `BalanceHolds`) can say under which
discipline they hold, beside `MoneyConserved` and `ApprovalsStand`, which every
interleaving keeps. `LedgerOfOrders` holds under failures too, in one direction: more
frozen and less consumed than the orders say. It leaves open whether a cancelled order
keeps its amount; what the code does with it is the run `cancelled_orders` (section 7).

### `Verification`

A request creates an info (`Create`, `CountRows`, `InsertRow`), or proves one:
`Look` asks the network, `ReadDays` and `MarkVerified` write. Mail is sent by a
goroutine that may be lost. `world` and `shown` are what a holder of a value
shows, `Controls` who holds it. `LimitOrOverlap` counts the verified and waiting
infos of a template against its limit, unless two requests counted before either
inserted. The reads of the template and of the counts may fail, and then limit nothing; the
read for the days may fail, and then gives the default. `excused` (history) remembers the
infos for which that happened, and the keys counted by two at once.

### `Authorities`

The statements of issuing (`ApplyCertExtTemplate`, `ValidateAgainstTemplate`,
`ReadAuthority`, `CountIssue`, `StoreIssued`), renewal, revocation, deletion
and import. A job is `stale` when another request has written what it read; a
property that a stale job may break says so. A template whose read fails adds no extensions
(`issuer.go:408`, `:425`) and forbids nothing (`:502`); `unread` remembers which of the two
was missed. The
last step of an issue is the row on a card, or the answer itself.

### `RevocationLists`

A CRL is the set of serial numbers on it. `GenerateCRL` reads the list,
`StoreCRL` puts the CRL into the cache; a job that another store has overtaken is
marked `overtaken`. A scheduler is a goroutine with a number; `SyncRead` and
`SyncApply` compare the schedulers with the configurations, `ExitScheduler` is
the end of a cancelled one, which may first finish its refresh.

### `CloudCards`

`VerifyPIN` reads the row and compares, `CountFailure` or `ClearFailures`
writes the counter from that copy, `IssueSession` stores the PIN session;
`UnlockWithPUK` and `ResetWithAdminKey` read and compare, `WritePIN` and
`WritePUK` commit, `RevokeByCard` drops the sessions; `CheckPIN`,
`VerifySession`, `GetCard` and one of `UseKey`, `StoreCert` and `DeleteCert` are
the four reads of a key operation. `AssignCert` is any other user's
request that moves a certificate. A secret is a Boolean, whether the one
presented is the one in the row that was read. `epoch` counts the PINs a
card has had, `passed` remembers verifications, `half` the resets that failed
after the PIN was written: these three are history.

### `Accounts`

Registration, login with password and second factor, tokens, password change and
reset, and administration, each as the reads and writes of its handler; a job is
`stale` when the account changed after it was read. A new account goes on
when its lookups find nothing or fail (`handler_auth.go:151`, `:157`, `:661`, `:665`); `missed` is
what a failed one would have found. `barred` is the entry that
ends all tokens of a user, `due` when its time has run out; time is a few actions.

### Variants

Operators named as variants (`OpenSessionRecycles`, `LogoutDropsKey`,
`CallbackReadsOutside`, ...) are plausible mistakes in the definition that
follows them. No specification uses them: each belongs to a property
that TLC finds violated when the variant takes the definition's place.

## 4. Runs and bounds

| run | instance | shows |
|---|---|---|
| `token_races` | 2 threads, 1 slot, 2 sessions | modes and handles under every race; every request is answered |
| `sessions` | manager: 2 threads, 1 slot, 3 sessions; operations: 2 threads on 1 session, sign and encrypt, 2 certificates, 2 Inits, 2 logins | the session states tell the truth, `SharedLogin` is implemented; pages, Inits, objects and keys |
| `ipc_channel` | 2 threads, 2 connections, 3 calls, 1 event | answers, shutdown, and that calls return |
| `client_store` | cards: 2 requests, 1 card, 1 user, 2 certificates, 2 secrets; toolbox: 1 CSR, 1 CA, 2 rows, 2 key pairs; cloud slot: 2 accounts, 3 tokens, 2 certificates, 2 clients, 1 waiting refresh | credentials, keys and what they sign |
| `payment` | 3 requests, 1 order, 2 refunds, 2 deductions per refund | credits, refunds and final states with every failure; pending orders end |
| `server_orders` | orders: 2 requests, 3 orders (one free), 2 applications, a deposit that pays for one; infos: 2 users, 2 administrators, 2 values, 3 infos, 1 template, 2 requests | money, approvals and the ledger; proofs and limits |
| `authorities` | 2 requests, 2 CAs, 2 certificates, 2 chains, 1 template | counters, templates, deletion, revocation |
| `revocation_lists` | 1 CA, 1 serial number, 1 request, 1 configuration, 2 intervals, 2 goroutines, 1 restart | CRLs and schedulers |
| `cloud_cards` | 2 requests, 1 user, 2 cards, 1 PIN session, 1 certificate, 2 failures lock, 1 change of a PIN | counters and locks, old sessions, key use |
| `accounts` | 2 users, 2 addresses, 2 passwords, 2 tokens, 2 sessions, 2 codes, 2 requests, 2 failures lock, 1 restart | what ends, and what logins act on |
| `ipc_events` | 1 thread, 1 connection, 2 calls, 1 event | an event is taken for an answer (section 7) |
| `cancelled_orders` | as `server_orders` | a cancelled order's amount stays frozen (section 7) |

Why these bounds are enough to meet the interesting cases: two threads or requests
suffice for every pair of overlapping handlers; the third session in
`sessions` is the bystander a copy loop may miss; handles are bounded by
`MaxHandle`, so each run closes and reopens within it; two logins let a request
of the first meet the key of the second; two Inits let one overtake the
operation of the other; three requests let a callback, its copy and a refund
request, or two administrators and a second refund, race beside the closing
job, over one order (orders share no row); three calls let one thread read another's
answer and a second connection follow a first.

`sessions`, `server_orders` and `client_store` each take parts that share no state, one part
in a behaviour (`part` in the MC module); the parts use each other's model values,
since they never meet.

Bounds of the MC modules (`CONSTRAINT`). They leave out combinations that meet no
common row or lock, and are written beside their reason in each module:
`MCAuthorities!OneTopic` (chains, templates, revocations, children and disabled
CAs do not all meet; one issue at a time misses a template), `MCAccounts!OneTopic` (a second factor meets failures;
other topics are each met by logins and tokens alone), `MCClientStore!Bounds`
(changing users, changing credentials and signing do not meet; the toolbox's CA,
imported pairs and waiting keys do not; on the cloud slot a second request, a third
token and a changing list do not), `MCServerOrders!Bounds` (a free order meets one other; infos of one
type, method and template; one read is passed over), `MCCloudCards!SecondCardIsPlain` (the second card has
a PIN and nothing else, and meets a first card with one way to reset it),
`MCRevocationLists!OneIdleConfig` and `MCSessions!OneKindTwice` (a session begins one kind
twice, and no search meets that). With
constraints TLC sees the behaviours up to the first state outside. The theorems have
none of these bounds; they have those in the guards of the modules, which the comments name.

In `server_orders` a second order that costs more than what is left is needed
for an overdraft, a second application for a double consumption. One slot is
enough for the token runs because slots share nothing but `Manager.mu`. One CA is
enough in `revocation_lists`: CAs share the goroutine that compares them with the
configurations, which handles them one by one. A second CA in `authorities` is a
child, or the one a template does not allow.

Symmetry is used in runs without liveness, over interchangeable values.
Deadlock is checked in the session and revocation runs. In the others it is
not: when the numbers of the instance are used up and nothing is pending, nothing
has to happen.

## 5. Fairness

`TokenSessions!FairSpec`: a goroutine that can run is scheduled (weak fairness
of `Running`), and a waiter gets a mutex that is free again and again (strong
fairness of `Locking`): `sync.Mutex` passes the lock to the longest waiter after
a millisecond of starvation. Clients need not send anything.

`Payment!PayFairSpec`: the closing job's ticker goes on, an UPDATE that failed is
repeated at the next tick, and time passes. Nothing is assumed of providers,
customers or requests.

`RevocationLists!FairSpec`: tickers fire and goroutines run (weak fairness); of
two ready cases of a `select` each is taken sooner or later, a goroutine that keeps
refreshing is free now and then, and a read that is tried again and again succeeds
(strong fairness of `ExitScheduler`, `SyncApply` and the successful `GenerateCRL`).

`IpcChannel!IpcFairSpec`: threads and goroutines run, and the read deadline of a
connection comes. Nothing is assumed of the shutdown. `CallsReturn` relies on the
bound on calls: a thread that is answered by others' answers again and again is
not waited for.

The other modules state safety only: their handlers run to their ends without
waiting for each other.

## 6. Proofs

The theorems hold for every value of the constants: any number of threads,
sessions, handles, slots, certificates, requests, orders, amounts, users, cards,
infos, CAs, chains, schedulers, tokens and restarts. Their assumptions are the
ASSUMEs of the modules. These say that special values are not ordinary ones and that
bounds are numbers; where something is counted, that it is finite (requests of
`Payment` and `Verification`, certificates of `Authorities`: a running program has
finitely many); and that requests are not schedulers (`RequestAssumption`).

Most properties are not inductive: each proof module strengthens them to an
invariant (`IInv`), shows it for the initial state and, in one lemma for each action,
for every step, and derives the properties. TLC checked each invariant on the
instance of its run before it was proved.

| module | invariant, beyond the types and the properties themselves | theorems about properties of runs |
|---|---|---|
| `TokenSessionsProofs` | where a thread's pointer may point, unused handles, which phase belongs to which request; under `SerialSpec`, `SInv` and `RInv` | `ModeMatchesFlags`, `ClosedStaysClosed`, `LoginIsShared`, `ImplementsSharedLogin` |
| `IpcProofs` (channel) | the threads in a call share one connection; on one that was not disturbed, where the pieces of each call's frames are, by what its thread and its goroutine do | `AnswersExplained`, `DrainedIsQuiet` |
| `IpcProofs` (operations) | an active operation has the handle of the last Init, a request carries that of its own, the key in memory is the current login's | `PagesStayInside`, `OperatesAsTold`, `KeyNeedsItsLogin` |
| `ServerOrdersProofs` (payment) | who may still commit has seen the order pending; deductions cover records and the records to come | `CreditedOnce`, `RefundsAccounted`, `OrdersFinal` |
| `ServerOrdersProofs` (orders) | who touches the order has marked its application; requests that took turns are one at most, and what it found is there; the balance is the ledger but for what the request in progress has yet to move | `BalanceHolds`, `ApprovalsStand` |
| `ServerOrdersProofs` (infos) | UUIDs are drawn once, what is shown was shown by its holder, a request that verifies carries a claim and a proof, rows and rows to come against the limit | `InfosTypeOK`, `VerifiedWasProved`, `LimitOrOverlap` |
| `CloudCardsProofs` | what a request carries from the row it read, who passed the PIN | `OldSessionsExplained`, `LockIsRight`, `KeyUseEarned` |
| `AuthoritiesProofs` | what a job that is not stale has read is so; who makes a certificate; what is counted but not stored | `CountCoversIssued`, `DoesAsTold`, `DeletedUnissued`, `StaleWrites` |
| `RevocationListsProofs` | whom a refresh is for, and what it holds of the list and of the CRL | `NothingLeftOver`, `LostByOverlapOnly` |
| `ClientStoreProofs` (cards) | a credential is of its card, and so is the master key in a slot or a request, or it was overwritten; a handle names what it named | `StoreTypeOK`, `KeysFit`, `SignsWithWhatItFound`, `SecretsKept` |
| `ClientStoreProofs` (toolbox) | a key beside a certificate is the certificate's; what a request that takes over a key finds; who waits to count | `StoreTypeOK`, `KeysFit`, `SecretsKept` |
| `ClientStoreProofs` (cloud slot) | what a signature still knows of the slot, and the token it sends | `CloudTypeOK`, `WorksForItsUser` |
| `AccountsProofs` | what a request names, why a token that ended is out, which tickets are fresh, what a request that is not stale has read | `TypeOK`, `UsedUp`, `ActsOnWhatItRead` |

`TokenSessions`. `MutexCorrect`, `ModeCorrect` and `HandlesRetired` hold under every
interleaving; `ModeKept` extends `ModeMatchesFlags` to closed sessions, since a
late handler still writes to them. `NoPhantomLoginCorrect`, `SoExclusiveCorrect`,
`LoginReachesAllCorrect` and `LogoutReachesAllCorrect`, together
`LoginIsSharedCorrect`, are about `SerialSpec` and need `SInv`: at most one thread is
inside an authentication, what the provider's flag is in each of its phases, and
that every session its loop has passed is in the new state. `SharedLoginImplemented`
is the refinement: with `LogoutFinds`, that a logout which gets to the
provider finds the token logged in although its session may be closed by then, each
step of the manager is under the mapping a step of `SharedLogin` or changes nothing
there. The event of a login is the step that changes the caller's own session. The
copies that follow change nothing, because the mapping counts them as made.

`IpcChannel`. `UsesFd` and `ShakesAlone` say who may be on the library's connection: all
threads in a call are on `fd`, and a handshake has no company, so what is dropped has
nobody else on it. `Streams` is the invariant of the connections that were never
disturbed: `Answering` says how much of a call's answer lies in the buffer at each point of
its thread, and that an answer on its way was executed; `Asking` says the same
of its request, and which step its goroutine is at, and need not hold any more once the
connection is closed. From these each receive finds the piece it looks for
(`CleanThread`), and each request its body (`ReadKeepsClean`).

`SessionOperations`. Without `OneKey` nothing relates a reference in a request
to the login state, which the provider does not read again.

`Payment`. `SnapshotsHold` is what makes the deferred transaction safe: a write is
refused once anything was committed since its read, so who may still commit has a
true picture. `Accounted` counts requests with `Cardinality`.

`CertOrders`. The conditional UPDATE of a rejection is what keeps `MarkedFirst`.
`NoOverdraft` carries its reason: `OneAtATime` and `Covered`. For `LedgerOfOrders`,
`Booked` says at every statement of the request in progress by how much the balance
row is ahead of the orders (`Keeps`) or behind their approvals (`Owes`); `Found`, that
the order or application is still in the state the request read; and `AppliedOnce`, that
the order which a decision moves out of the sum of the open orders is decided by nobody
else. The amount of an order leaves and joins sums over sets of orders, whatever order they
are added up in (`CostWith`). Such a sum is a recursion over the set, and what it gives
needs no induction over an operator: if it went wrong for some finite set, it would for one
of which no part goes wrong (`Least`, from the well-foundedness of strict inclusion).

`Verification`. `Limited` bounds the rows of a user and template together with the
rows that requests which have counted are about to insert: the number of rows alone
is not inductive. A second request that counts before the first has inserted
puts the key into `excused`, and from then on the bound is larger by the number of
requests but one. `VerifiedWasProved` needs that the claim a request carries is still
the row's (`Proving`): the UUID of a row that was deleted is not given to another
(`Fresh`). Infos that no limit was held against (`excused`) are not among the rows counted: who
is let in by a failed read is marked before it is inserted.

`CloudCards`. `KeyUseEarned` needs three facts: the certificate found on the card
shows that the card is still there, a card never gets another user, and a session
belongs to one who passed.

`Authorities`. `Counts` bounds not `IssuedBy` but `Covered`: certificates handed out and
certificates counted and not yet stored, which is why an issue that fails between
the two leaves the count too high and never too low. `Knows` has one conjunct for each
thing a job reads; each write marks those who read it as stale, which lemmas like
`JobsTouched` and `JobEndedTouched` show once for all writes. `DeletedUnissued`
follows from `KnowsCount` and `KnowsChildren`, `StaleWrites` from `KnowsChain`
and `KnowsSource`, the issue half of `DoesAsTold` from `KnowsExtension`, `KnowsAllowed`
and `KnowsActive`. The other half needs `Marking`: between the mark and the list the
request remembers the right issuer.

`RevocationLists`. `Holds`: the CRL a refresh is about to store is on the list still,
and covers what is handed out unless another refresh of the CA has stored since. That
is `LostByOverlapOnly` one step before it happens. `WantedType` needs that a set of
intervals has a least one (`LeastInterval`, by well-foundedness).

`Accounts`. `Out` gives the three ways in which a token that ended is out: its time,
its own entry, or the entry of its user as long as that lasts. `Due` says that
the last of these is removed only when it is not needed. `Tickets` says that a session or code that can
still be used is in one place and was never used. `JobActs` is `ActsOnWhatItRead` at
every step between the read and the act; the writers of a row either mark its readers
(`TouchKeeps`, `TakeKeeps` for a new address) or change nothing that these have read (`RowSoftens`:
a counted failure below the limit, a reset of the count, the end of a lock).

`LocalCards`. `RowsOK`, `SlotsOK` and `CarriesKeys` say of rows, slots and requests in
progress that every credential seals the master key of its own card, which is what
`KeysOpen` needs of the copies that will be written later. `SignsRightly` follows a handle to
the signature: before `TakeKey` the slot's list still has at the handle what was shown, or
there was another login. `CredentialRules` is shown for each write (`RuleFor`): one that
writes an old copy is excused by that, and one that does not has verified a credential
which was not locked (`WriteCardRules`). It holds for both values of `ForeignKeys`.

`PkiToolbox`. `Proper` is `ExportsItsKey` for rows and for requests that will make rows.
`TakesOver`: the row that a private key is taken from has that key, was cleared, or
is gone, whatever others did to it since, so `TakeOver` loses no other key. `Counted` bounds
what a CA has counted together with the requests that are yet to count.

`CloudSlot`. `KnowsTheSlot`: without a login, logout or list in between, the call's user is
the slot's and its handle names what it named. `SendsToken`: a refresh that nothing
overtook has the token of the slot's user, so what it brings is that user's too.
`SlotShows` has the reason why a login that fails leaves no objects: they are the cached
ones or none.

Only model-checked: liveness under fairness, which the prover does not do
(`EveryRequestAnswered`, `PendingEnds`, `CallsReturn`, `RevokedIsServed`,
`SchedulersFollow`). Every other property of a run that passes is a theorem.

The two runs that find a violation are traces and need no proof.

## 7. Differences between the code and what it says

Two have a run, in which TLC finds what the text says violated:
- `ipc_events`: `protocol.go:66-68` says that a `CmdSlotChanged` event is not paired with a
  request and may be sent at any time to every connection; `ipc_call` (`ipc_client.c:285`)
  takes the next frame for its answer, whichever it is. After an event each call takes the
  answer of the one before it.
- `cancelled_orders`: `workflow/service.go:581` says that cancelling unfreezes the amount; the
  order it reads has no `frozen_cents` (`:77`), so the statement at `:604` never gives it back.

The others were met while modelling. The models do what the code does, so their
properties hold beside these; each is said here with its line.

Client:
- `manager.go:255` says that the sessions of a token share the login state; one that is opened
  after a login is public (`manager.go:94`) and stays so until the user has logged out and in
  again: it cannot use the login, nor end it.
- A read-only session opened between the check of an SO login (`manager.go:196`)
  and the provider's login is missed, although `manager.go:188` says that such a
  login is refused.
- Failures of a PIN are counted on the slot's copy of the row, and slots are made
  without the repository that would store it: a PIN is never locked, and a PIN that was reset
  opens the slot until the program starts again. Slots are registered only then.
- The foreign keys of the client's database are not enforced (`storage/db.go:52`).
- `handleCreateCard` in `user_card_handler.go` has a stray block after its end: the
  package does not compile as it is. The model takes the block as part of the handler.
- `deliverToDatabase` stores the encrypted key, so `ExportCert` hands out ciphertext.
  A CSR with `key_storage` "smartcard" makes its key in memory and drops it (`pki/cert.go:152` says
  that it is on the card). The import of a certificate without a key deletes the waiting key's
  row before it inserts the new one (`pki/cert.go:538`).
- The cloud slot never sets `tokenExpiresAt` at a login or refresh, so each
  signature on a fresh slot refreshes its token, and of two at once one may be refused and
  mark the network as down. Only a login or a new list of certificates makes it available again. `Logout`
  says that it clears the cache (`cloud/slot.go:175`); `cachedCerts` stay, and the server is
  not told. A late refresh can put the old user's token after a new login. No
  PIN session is sent to the server.

Server:
- A payment that arrives after its order was closed is acknowledged to the
  provider and credited to nobody, logged as already processed (`payment/service.go:105`).
- An order with a refund takes no other (`payment/service.go:301`), but two requests at once are
  both accepted; only a pending refund can be approved (`handler_payment.go:340`), but
  two administrators, or one after a failure, deduct it twice.
- An approval issues the certificate and marks the application
  (`workflow/service.go:207`), but the certificate cannot be stored without a card
  (`:408`) and the approval ends there.
- A wrong PIN counts one more failure (`card/service.go:103`), but wrong PINs read
  together count as one.
- `DeleteCertExtTemplate` (`issuance/template.go:336`) looks for templates that use it in a column for
  another kind of template, and never refuses.
- A certificate that is marked as revoked and could not be put on the list
  (`handler_card.go:320`) never will be: the handler refuses it from then on.
- After a password reset "log in again" (`handler_auth.go:369`) fails until the entry runs out:
  `RevokeAllForUser` ends the tokens of new logins too. Tokens are
  accepted after their account was disabled, deleted or given another role; the blacklist is lost at a
  restart.
- A verification mail says that it is valid for 15 minutes (`verification/service.go:173`); nothing
  expires it. `expires_at` is never read, "expired" never set; `handleVerifyHTTP` takes
  infos of every type; a mail that was lost is not sent again; `handleDeleteExtensionInfo` does not
  look at the owner.

## 8. What is not modelled

- Attribute templates, mechanisms, certificates, keys and PINs as data: a PIN
  is right or wrong, an object is a certificate of the card.
- `C_GetAttributeValue`, listings and other requests that change nothing.
- The marshalling of the driver's `C_` functions, and the listeners: Unix socket, TCP and
  named pipe are one channel. A call that writes to a closed socket fails; the signal that Unix
  sends with it is left out.
- Client: the TPM2 slot (nothing creates a TPM2 card, and the daemon registers none), the sessions of the
  web page, the cloud pages of `cloud_handler.go`, logs and settings. An import to a card is a stub in the code;
  `AssociateCert` has no caller.
- `SessionOperations`: cloud providers, and a card shared by two slots.
- `Payment`: `DeductBalance` and `Service.ApproveRefund`, which have no caller;
  callbacks whose status is not "paid", which change nothing.
- `CertOrders`: `SubmitCertApplication` and `CompleteOrder`, which have no
  caller; an application that names the order of another user; consume records;
  recharges and refunds of the same balance row.
- `CloudCards`: export and listing of certificates; the type of a key and the
  algorithms. Renewal and revocation are in `Authorities`. `DeleteCert` deletes the
  certificate it is given and `AssignCert` moves any to any card: no property says
  otherwise, because the code promises nothing there.
- `Verification`: `CheckReissue` and `RecordReissue`, which have no caller;
  `require_*_verify` and `max_uri`, which nothing reads.
- `RevocationLists`: OCSP answers and AIA files, computed from the tables at each request.
- `Authorities`: X.509 construction, key usage, subject and storage templates, certificate transparency.
- `Accounts`: rate limits, audit, settings. A TOTP code is right or wrong. The administrator that the
  server makes at its start (`main.go:237`) is not deleted: another administrator may
  delete it (`handler_auth.go:736` forbids only the own account), and a start would make it anew.
- ACME: `handleACMENewOrder` (`handler_system.go:127`) inserts an order for the account "unknown", which the
  enforced foreign key refuses, and no handler makes an authorization or a
  challenge. Nothing past a new account can be reached.
- MySQL and PostgreSQL: the models are of SQLite, which both programs use by default.
- Web front ends, page routing, start-up code: plumbing without interleavings.
