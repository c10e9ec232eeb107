----------------------------- MODULE CloudCards -----------------------------
(***************************************************************************)
(* The cards a server keeps for its users: the PIN counter and the PUK and  *)
(* Admin Key that reset it (servers/internal/card/service.go), the PIN       *)
(* sessions that open a card for key operations (card/pin_session.go), and  *)
(* the handlers that use them (api/handler_card.go, api/server.go).          *)
(*                                                                         *)
(* A handler reads the card row, decides, and writes it back in statements  *)
(* of their own, so the requests of a card interleave between any two of    *)
(* them; any write may fail.  PIN sessions live in the memory of the server *)
(* under a lock of their own.  A PIN, PUK or Admin Key is represented by    *)
(* whether the one presented is the one in the row that was read.           *)
(***************************************************************************)
EXTENDS Naturals

CONSTANTS
    Threads,    \* requests in progress
    Users,
    Cards,      \* card UUIDs, each given to one card only
    Certs,      \* certificates with their keys
    Tokens,     \* PIN session tokens, each issued once
    Retries,    \* cards.pin_retries
    MaxEpoch,   \* bound on the PIN changes of a card
    NoCard, NoUser, NoToken, NoCert

ASSUME RetriesAssumption == Retries \in Nat \ {0}    \* CreateCard makes 0 a 3
ASSUME MaxEpochAssumption == MaxEpoch \in Nat
ASSUME NullAssumption ==
    NoCard \notin Cards /\ NoUser \notin Users
      /\ NoToken \notin Tokens /\ NoCert \notin Certs

VARIABLES
    owner,      \* cards.user_uuid; NoUser before the card and after it
    made,       \* the UUIDs that have been given to a card
    pinSet,     \* pin_data is not NULL
    pukSet, adminSet,   \* the same of puk_data, admin_key_data
    failed,     \* pin_failed_count
    locked,     \* pin_locked
    certCard,   \* certificates.card_uuid; NoCard when there is no such row
    sessions,   \* PINSessionStore.sessions
    pc,         \* the next step of a request
    job,        \* what the request carries from one step to the next
    epoch,      \* history: how many times the PIN of a card was written
    passed,     \* history: card and user of each PIN verification that passed
    half        \* history: cards whose reset failed after writing the PIN

rowVars == <<owner, made, pinSet, pukSet, adminSet, failed, locked, certCard>>
vars == <<owner, made, pinSet, pukSet, adminSet, failed, locked, certCard,
          sessions, pc, job, epoch, passed, half>>

Steps == {"idle", "count", "clear", "issue", "pin", "puk", "revoke",
          "session", "card", "use"}
KeyOps == {"sign", "store", "delete"}   \* store: generate a key or import

\* late: the PIN was changed while the verification was under way.
Sessions == [state : {"unissued", "live", "expired", "gone"},
             card : Cards \cup {NoCard}, user : Users \cup {NoUser},
             epoch : 0 .. MaxEpoch, late : BOOLEAN]
NoSession(state) == [state |-> state, card |-> NoCard, user |-> NoUser,
                     epoch |-> 0, late |-> FALSE]
Unissued == NoSession("unissued")
\* A token that is removed stays so: the next one is another random string.
Gone == NoSession("gone")

\* op: a key operation or "none"; failed, epoch and guarded are copies from
\* the row that was read.
Jobs == [op : KeyOps \cup {"none"}, card : Cards \cup {NoCard},
         user : Users \cup {NoUser}, token : Tokens \cup {NoToken},
         cert : Certs \cup {NoCert}, failed : 0 .. Retries,
         epoch : 0 .. MaxEpoch, guarded : BOOLEAN,
         newPin : BOOLEAN, newPuk : BOOLEAN]
NoJob == [op |-> "none", card |-> NoCard, user |-> NoUser, token |-> NoToken,
          cert |-> NoCert, failed |-> 0, epoch |-> 0, guarded |-> FALSE,
          newPin |-> FALSE, newPuk |-> FALSE]

TypeOK ==
    /\ owner \in [Cards -> Users \cup {NoUser}]
    /\ made \subseteq Cards
    /\ pinSet \in [Cards -> BOOLEAN]
    /\ pukSet \in [Cards -> BOOLEAN]
    /\ adminSet \in [Cards -> BOOLEAN]
    /\ failed \in [Cards -> 0 .. Retries]
    /\ locked \in [Cards -> BOOLEAN]
    /\ certCard \in [Certs -> Cards \cup {NoCard}]
    /\ sessions \in [Tokens -> Sessions]
    /\ pc \in [Threads -> Steps]
    /\ job \in [Threads -> Jobs]
    /\ epoch \in [Cards -> 0 .. MaxEpoch]
    /\ passed \subseteq Cards \X Users
    /\ half \subseteq Cards

Init ==
    /\ owner = [c \in Cards |-> NoUser] /\ made = {}
    /\ pinSet = [c \in Cards |-> FALSE]
    /\ pukSet = [c \in Cards |-> FALSE]
    /\ adminSet = [c \in Cards |-> FALSE]
    /\ failed = [c \in Cards |-> 0]
    /\ locked = [c \in Cards |-> FALSE]
    /\ certCard = [x \in Certs |-> NoCard]
    /\ sessions = [k \in Tokens |-> Unissued]
    /\ pc = [t \in Threads |-> "idle"]
    /\ job = [t \in Threads |-> NoJob]
    /\ epoch = [c \in Cards |-> 0]
    /\ passed = {} /\ half = {}

Exists(c) == owner[c] # NoUser

\* GetCard: the card is there and the user's.
Owns(u, c) == u \in Users /\ owner[c] = u

Goto(t, step) == pc' = [pc EXCEPT ![t] = step]
Answered(t) ==
    /\ pc' = [pc EXCEPT ![t] = "idle"]
    /\ job' = [job EXCEPT ![t] = NoJob]

----------------------------------------------------------------------------
(* Cards.  Each is one statement; deleting a card deletes its certificates  *)
(* by the foreign key.                                                      *)

CreateCard(u, c, pin, puk, admin) ==
    /\ c \notin made
    /\ made' = made \cup {c}
    /\ owner' = [owner EXCEPT ![c] = u]
    /\ pinSet' = [pinSet EXCEPT ![c] = pin]
    /\ pukSet' = [pukSet EXCEPT ![c] = puk]
    /\ adminSet' = [adminSet EXCEPT ![c] = admin]
    /\ UNCHANGED <<failed, locked, certCard, sessions, pc, job, epoch, passed, half>>

DeleteCard(u, c) ==
    /\ Owns(u, c)
    /\ owner' = [owner EXCEPT ![c] = NoUser]
    /\ certCard' = [x \in Certs |-> IF certCard[x] = c THEN NoCard ELSE certCard[x]]
    /\ UNCHANGED <<made, pinSet, pukSet, adminSet, failed, locked, sessions,
                   pc, job, epoch, passed, half>>

\* handleAssignCertToCard moves any certificate to any card.
AssignCert(x, c) ==
    /\ certCard[x] # NoCard /\ Exists(c)
    /\ certCard' = [certCard EXCEPT ![x] = c]
    /\ UNCHANGED <<owner, made, pinSet, pukSet, adminSet, failed, locked,
                   sessions, pc, job, epoch, passed, half>>

----------------------------------------------------------------------------
(* Verification of the PIN.  The owner of a card never changes, so the      *)
(* check of the owner and the read that follows it are one step.            *)

\* A variant of the requests below that does not look at the lock.
VerifyWhileLocked(t, u, c, right) ==
    /\ pc[t] = "idle" /\ Owns(u, c)
    /\ Goto(t, IF ~pinSet[c] THEN "issue"
               ELSE IF ~right THEN "count"
               ELSE IF failed[c] > 0 THEN "clear" ELSE "issue")
    /\ job' = [job EXCEPT ![t] = [NoJob EXCEPT !.card = c, !.user = u,
                                    !.failed = failed[c], !.epoch = epoch[c]]]
    /\ passed' = IF pinSet[c] => right THEN passed \cup {<<c, u>>} ELSE passed
    /\ UNCHANGED <<rowVars, sessions, epoch, half>>

\* A variant that compares the PIN before it looks at the lock.
VerifyThenLock(t, u, c, right) ==
    /\ right \/ ~locked[c]
    /\ VerifyWhileLocked(t, u, c, right)

VerifyPIN(t, u, c, right) ==
    /\ pc[t] = "idle" /\ Owns(u, c) /\ ~locked[c]
    /\ Goto(t, IF ~pinSet[c] THEN "issue"
               ELSE IF ~right THEN "count"
               ELSE IF failed[c] > 0 THEN "clear" ELSE "issue")
    /\ job' = [job EXCEPT ![t] = [NoJob EXCEPT !.card = c, !.user = u,
                                    !.failed = failed[c], !.epoch = epoch[c]]]
    /\ passed' = IF pinSet[c] => right THEN passed \cup {<<c, u>>} ELSE passed
    /\ UNCHANGED <<rowVars, sessions, epoch, half>>

\* UpdatePINStatus of a row that may be gone.
WriteStatus(c, n, lock) ==
    /\ failed' = [failed EXCEPT ![c] = IF Exists(c) THEN n ELSE failed[c]]
    /\ locked' = [locked EXCEPT ![c] = IF Exists(c) THEN lock ELSE locked[c]]
    /\ UNCHANGED <<owner, made, pinSet, pukSet, adminSet, certCard>>

\* The count written is one more than the count read.
CountFailure(t) ==
    /\ pc[t] = "count"
    /\ LET n == job[t].failed + 1
       IN  WriteStatus(job[t].card, n, n >= Retries)
    /\ Answered(t)
    /\ UNCHANGED <<sessions, epoch, passed, half>>

\* The error of the reset is ignored.
ClearFailures(t) ==
    /\ pc[t] = "clear"
    /\ WriteStatus(job[t].card, 0, FALSE) \/ UNCHANGED rowVars
    /\ Goto(t, "issue")
    /\ UNCHANGED <<sessions, job, epoch, passed, half>>

IssueSession(t, k) ==
    /\ pc[t] = "issue" /\ sessions[k].state = "unissued"
    /\ LET j == job[t]
       IN  sessions' = [sessions EXCEPT ![k] =
              [state |-> "live", card |-> j.card, user |-> j.user,
               epoch |-> j.epoch, late |-> j.epoch # epoch[j.card]]]
    /\ Answered(t)
    /\ UNCHANGED <<rowVars, epoch, passed, half>>

\* A write or the random source fails, and the handler answers the error.
Fail(t) ==
    /\ pc[t] \in {"count", "issue", "pin", "use"}
    /\ Answered(t)
    /\ UNCHANGED <<rowVars, sessions, epoch, passed, half>>

----------------------------------------------------------------------------
(* Resets.  They do not look at the lock, and count no failures.            *)

\* UnlockWithPUK with the right PUK; with no new PIN it only unlocks.
UnlockWithPUK(t, u, c, newPin) ==
    /\ pc[t] = "idle" /\ Owns(u, c) /\ pukSet[c]
    /\ Goto(t, "pin")
    /\ job' = [job EXCEPT ![t] = [NoJob EXCEPT !.card = c, !.user = u,
                                    !.newPin = newPin]]
    /\ UNCHANGED <<rowVars, sessions, epoch, passed, half>>

\* ResetWithAdminKey with the right key; either new value may be missing.
ResetWithAdminKey(t, u, c, newPin, newPuk) ==
    /\ pc[t] = "idle" /\ Owns(u, c) /\ adminSet[c]
    /\ Goto(t, IF newPin THEN "pin" ELSE IF newPuk THEN "puk" ELSE "revoke")
    /\ job' = [job EXCEPT ![t] = [NoJob EXCEPT !.card = c, !.user = u,
                                    !.newPin = newPin, !.newPuk = newPuk]]
    /\ UNCHANGED <<rowVars, sessions, epoch, passed, half>>

\* UpdatePINData, or UpdatePINStatus when there is no new PIN.
WritePIN(t) ==
    LET c == job[t].card IN
    /\ pc[t] = "pin"
    /\ job[t].newPin => epoch[c] < MaxEpoch
    /\ failed' = [failed EXCEPT ![c] = IF Exists(c) THEN 0 ELSE failed[c]]
    /\ locked' = [locked EXCEPT ![c] = @ /\ ~Exists(c)]
    /\ pinSet' = [pinSet EXCEPT ![c] = @ \/ (job[t].newPin /\ Exists(c))]
    /\ epoch' = [epoch EXCEPT ![c] = IF job[t].newPin THEN @ + 1 ELSE @]
    /\ Goto(t, IF job[t].newPuk THEN "puk" ELSE "revoke")
    /\ UNCHANGED <<owner, made, pukSet, adminSet, certCard, sessions, job, passed, half>>

WritePUK(t) ==
    /\ pc[t] = "puk"
    /\ pukSet' = [pukSet EXCEPT ![job[t].card] = @ \/ Exists(job[t].card)]
    /\ Goto(t, "revoke")
    /\ UNCHANGED <<owner, made, pinSet, adminSet, failed, locked, certCard,
                   sessions, job, epoch, passed, half>>

\* The PUK cannot be written: the handler answers the error and the sessions
\* opened under the old PIN stay.
FailPUK(t) ==
    /\ pc[t] = "puk"
    /\ half' = IF job[t].newPin THEN half \cup {job[t].card} ELSE half
    /\ Answered(t)
    /\ UNCHANGED <<rowVars, sessions, epoch, passed>>

\* A variant that drops the sessions whose time is over only.
RevokeExpired(t) ==
    /\ pc[t] = "revoke"
    /\ sessions' = [k \in Tokens |->
          IF sessions[k].card = job[t].card /\ sessions[k].state = "expired"
            THEN Gone ELSE sessions[k]]
    /\ Answered(t)
    /\ UNCHANGED <<rowVars, epoch, passed, half>>

RevokeByCard(t) ==
    /\ pc[t] = "revoke"
    /\ sessions' = [k \in Tokens |-> IF sessions[k].card = job[t].card
                                       THEN Gone ELSE sessions[k]]
    /\ Answered(t)
    /\ UNCHANGED <<rowVars, epoch, passed, half>>

----------------------------------------------------------------------------
(* The life of a PIN session. *)

LogoutPINSession(k) ==
    /\ sessions[k].state \in {"live", "expired"}
    /\ sessions' = [sessions EXCEPT ![k] = Gone]
    /\ UNCHANGED <<rowVars, pc, job, epoch, passed, half>>

\* Fifteen minutes pass.
Expire(k) ==
    /\ sessions[k].state = "live"
    /\ sessions' = [sessions EXCEPT ![k].state = "expired"]
    /\ UNCHANGED <<rowVars, pc, job, epoch, passed, half>>

Cleanup ==
    /\ \E k \in Tokens : sessions[k].state = "expired"
    /\ sessions' = [k \in Tokens |-> IF sessions[k].state = "expired"
                                       THEN Gone ELSE sessions[k]]
    /\ UNCHANGED <<rowVars, pc, job, epoch, passed, half>>

----------------------------------------------------------------------------
(* Operations on keys: checkPINSession, then the service. *)

\* A card without a PIN needs no session.
CheckPIN(t, op, u, c, k, x) ==
    /\ pc[t] = "idle" /\ Owns(u, c)
    /\ Goto(t, IF pinSet[c] THEN "session" ELSE "card")
    /\ job' = [job EXCEPT ![t] = [NoJob EXCEPT !.op = op, !.card = c, !.user = u,
                                    !.token = k, !.cert = x, !.guarded = pinSet[c]]]
    /\ UNCHANGED <<rowVars, sessions, epoch, passed, half>>

\* A variant that does not compare the card.
AdmitsAnyCard(k, c, u) ==
    /\ k \in Tokens
    /\ sessions[k].state = "live"
    /\ sessions[k].user = u

\* PINSessionStore.Verify: the session is of this card and this user.
Admits(k, c, u) ==
    /\ k \in Tokens
    /\ sessions[k].state = "live"
    /\ sessions[k].card = c
    /\ sessions[k].user = u

VerifySession(t) ==
    LET k == job[t].token IN
    /\ pc[t] = "session"
    /\ \/ Admits(k, job[t].card, job[t].user) /\ Goto(t, "card") /\ UNCHANGED job
       \/ ~Admits(k, job[t].card, job[t].user) /\ Answered(t)
    /\ sessions' = IF k \in Tokens /\ sessions[k].state = "expired"
                     THEN [sessions EXCEPT ![k] = Gone] ELSE sessions
    /\ UNCHANGED <<rowVars, epoch, passed, half>>

\* The service checks the owner again.
GetCard(t) ==
    /\ pc[t] = "card"
    /\ IF Owns(job[t].user, job[t].card)
         THEN Goto(t, "use") /\ UNCHANGED job
         ELSE Answered(t)
    /\ UNCHANGED <<rowVars, sessions, epoch, passed, half>>

\* Sign and Decrypt read the key of a certificate of the card.
UseKey(t) ==
    /\ pc[t] = "use" /\ job[t].op = "sign"
    /\ certCard[job[t].cert] = job[t].card
    /\ Answered(t)
    /\ UNCHANGED <<rowVars, sessions, epoch, passed, half>>

\* GenerateKeyPair and ImportCert: a new row, refused by the foreign key when
\* the card is gone.
StoreCert(t) ==
    /\ pc[t] = "use" /\ job[t].op = "store"
    /\ Exists(job[t].card) /\ certCard[job[t].cert] = NoCard
    /\ certCard' = [certCard EXCEPT ![job[t].cert] = job[t].card]
    /\ Answered(t)
    /\ UNCHANGED <<owner, made, pinSet, pukSet, adminSet, failed, locked,
                   sessions, epoch, passed, half>>

\* DeleteCert deletes the certificate it is given, whatever its card.
DeleteCert(t) ==
    /\ pc[t] = "use" /\ job[t].op = "delete"
    /\ certCard' = [certCard EXCEPT ![job[t].cert] = NoCard]
    /\ Answered(t)
    /\ UNCHANGED <<owner, made, pinSet, pukSet, adminSet, failed, locked,
                   sessions, epoch, passed, half>>

----------------------------------------------------------------------------
Manage ==
    \/ \E u \in Users, c \in Cards :
         \/ \E pin, puk, admin \in BOOLEAN : CreateCard(u, c, pin, puk, admin)
         \/ DeleteCard(u, c)
    \/ \E x \in Certs, c \in Cards : AssignCert(x, c)

Verify(t) ==
    \/ \E u \in Users, c \in Cards, right \in BOOLEAN : VerifyPIN(t, u, c, right)
    \/ CountFailure(t) \/ ClearFailures(t)
    \/ \E k \in Tokens : IssueSession(t, k)

Reset(t) ==
    \/ \E u \in Users, c \in Cards, newPin, newPuk \in BOOLEAN :
         \/ UnlockWithPUK(t, u, c, newPin)
         \/ ResetWithAdminKey(t, u, c, newPin, newPuk)
    \/ WritePIN(t) \/ WritePUK(t) \/ FailPUK(t) \/ RevokeByCard(t)

Operate(t) ==
    \/ \E op \in KeyOps, u \in Users, c \in Cards, k \in Tokens \cup {NoToken},
          x \in Certs : CheckPIN(t, op, u, c, k, x)
    \/ VerifySession(t) \/ GetCard(t)
    \/ UseKey(t) \/ StoreCert(t) \/ DeleteCert(t)

Next ==
    \/ Manage
    \/ \E t \in Threads : Verify(t) \/ Reset(t) \/ Operate(t) \/ Fail(t)
    \/ \E k \in Tokens : LogoutPINSession(k) \/ Expire(k)
    \/ Cleanup

Spec == Init /\ [][Next]_vars

----------------------------------------------------------------------------
(* Properties. *)

\* The lock and the count of a card agree, though each of the four statements
\* that write them decides from a copy of the row.
LockMatchesCount == \A c \in Cards : locked[c] <=> failed[c] >= Retries

\* A PIN session outlives the PIN it was opened with only in three ways: its
\* reset is still to revoke it, its reset failed half way, or its PIN was
\* compared before the reset and the session stored after it.
OldSessionsExplained ==
    \A k \in Tokens :
        LET s == sessions[k] IN
        s.state = "live" /\ s.epoch # epoch[s.card] =>
            \/ s.late \/ s.card \in half
            \/ \E t \in Threads :
                  job[t].card = s.card /\ job[t].newPin /\ pc[t] \in {"puk", "revoke"}

\* A private key is used only for the owner of the card that holds it at that
\* moment, and when the card had a PIN, after that owner passed its check:
\* whatever was deleted, moved or reset while the request was under way.
KeyUseEarned ==
    [][\A t \in Threads :
         UseKey(t) =>
            LET j == job[t] IN
            /\ owner[j.card] = j.user
            /\ j.guarded => <<j.card, j.user>> \in passed]_vars

\* A locked card is unlocked only by a reset or by a verification that read
\* the card before it was locked.
LockHolds ==
    \A c \in Cards :
        locked[c] /\ ~locked'[c] =>
            \E t \in Threads :
                /\ job[t].card = c
                /\ \/ pc[t] = "pin"
                   \/ pc[t] \in {"count", "clear"} /\ job[t].failed < Retries

\* The lock of a card is right at any time: it is on when the count says so
\* (LockMatchesCount) and comes off only by a reset or by a verification that began
\* before it was on (LockHolds).
LockIsRight == [][LockMatchesCount' /\ LockHolds]_vars
=============================================================================
