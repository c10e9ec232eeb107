--------------------------- MODULE TokenSessions ---------------------------
(***************************************************************************)
(* The session manager of the client-card daemon (card/manager.go,         *)
(* card/engine.go) with the login half of the local slot (card/local) and  *)
(* the IPC handlers that reach it (ipc/handler.go).                        *)
(*                                                                         *)
(* Every IPC connection is served by a goroutine of its own: a thread of   *)
(* Threads.  A handler is split where another goroutine can run between    *)
(* two of its steps: after GetSession (the pointer outlives CloseSession), *)
(* while it waits for the session mutex, around Provider.Login and         *)
(* Provider.Logout, and at every session the login state is copied to.     *)
(* Manager.mu is not a variable: its writers are single steps, and its     *)
(* only readers that last are the copy loops, the threads of Readers.      *)
(***************************************************************************)
EXTENDS Naturals, FiniteSets

CONSTANTS
    Threads,    \* connection goroutines
    Slots,      \* registered slots, one local card each
    MaxHandle,  \* bound on the session handles ever allocated
    NoThread,   \* the owner of an unlocked session mutex
    NoSlot      \* the slot of a handle not yet allocated

ASSUME MaxHandleAssumption == MaxHandle \in Nat \ {0}
ASSUME NoThreadAssumption == NoThread \notin Threads
ASSUME NoSlotAssumption == NoSlot \notin Slots

Handles == 2 .. MaxHandle   \* nextSID starts at 1 and is incremented first

PublicStates == {"ROPublic", "RWPublic"}
LoggedInStates == {"ROUser", "RWUser", "RWSO"}   \* Session.IsLoggedIn
SessionStates == PublicStates \cup LoggedInStates

LoginOps == {"USER", "SO", "OTHER"}              \* the user types of C_Login
AuthOps == LoginOps \cup {"LOGOUT"}
GateOps == {"InitPIN", "SetPIN", "EditObject", "GenerateKeyPair"}
Ops == AuthOps \cup GateOps

VARIABLES
    nextSID,    \* Manager.nextSID
    live,       \* the keys of Manager.sessions
    slotOf, rw, state, lock,  \* Session.SlotID, .Flags, .State, .mu
    tokenIn,    \* Slot.loggedIn
    pc,         \* where each thread's handler is
    req,        \* the request it serves
    cur,        \* the handle of the session it holds a pointer to
    pin,        \* does the request's PIN unlock the card
    todo,       \* the sessions its copy loop has still to visit
    reply       \* the CKR code the last step answered, "none" if it did not

managerVars == <<nextSID, live, slotOf, rw>>
vars == <<nextSID, live, slotOf, rw, state, lock, tokenIn,
          pc, req, cur, pin, todo, reply>>

CopyLoops == {"share", "revert"}
Critical == {"provider", "enter", "provout", "leave"} \cup CopyLoops
PCs == {"idle", "lock"} \cup Critical
Codes == {"none", "OK", "SESSION_HANDLE_INVALID", "PIN_INCORRECT",
          "USER_ALREADY_LOGGED_IN", "USER_NOT_LOGGED_IN", "SLOT_ID_INVALID",
          "USER_TYPE_INVALID", "SESSION_READ_ONLY_EXISTS", "SESSION_READ_ONLY"}

TypeOK ==
    /\ nextSID \in 1 .. MaxHandle
    /\ live \subseteq 2 .. nextSID
    /\ slotOf \in [Handles -> Slots \cup {NoSlot}]
    /\ rw \in [Handles -> BOOLEAN]
    /\ state \in [Handles -> SessionStates]
    /\ lock \in [Handles -> Threads \cup {NoThread}]
    /\ tokenIn \in [Slots -> BOOLEAN]
    /\ pc \in [Threads -> PCs]
    /\ req \in [Threads -> Ops \cup {"none"}]
    /\ cur \in [Threads -> Handles \cup {0}]
    /\ pin \in [Threads -> BOOLEAN]
    /\ todo \in [Threads -> SUBSET Handles]
    /\ reply \in Codes

Init ==
    /\ nextSID = 1
    /\ live = {}
    /\ slotOf = [h \in Handles |-> NoSlot]
    /\ rw = [h \in Handles |-> FALSE]
    /\ state = [h \in Handles |-> "ROPublic"]
    /\ lock = [h \in Handles |-> NoThread]
    /\ tokenIn = [s \in Slots |-> FALSE]
    /\ pc = [t \in Threads |-> "idle"]
    /\ req = [t \in Threads |-> "none"]
    /\ cur = [t \in Threads |-> 0]
    /\ pin = [t \in Threads |-> FALSE]
    /\ todo = [t \in Threads |-> {}]
    /\ reply = "none"

----------------------------------------------------------------------------
LoggedIn(h) == state[h] \in LoggedInStates
PublicState(s) == IF s \in PublicStates THEN s
                  ELSE IF s = "ROUser" THEN "ROPublic" ELSE "RWPublic"
\* A variant that forgets the read-only mode.
UserStateAllRW(s) == IF s \in PublicStates THEN "RWUser" ELSE s

UserState(s) == IF s = "ROPublic" THEN "ROUser"
                ELSE IF s = "RWPublic" THEN "RWUser" ELSE s

OnSlot(s) == {h \in live : slotOf[h] = s}
ROSessionOn(s) == \E h \in OnSlot(s) : ~rw[h]

\* The holders of Manager.mu's read lock: a writer waits for them.
Readers == {t \in Threads : pc[t] \in CopyLoops}

\* The response leaves the daemon and the thread reads its next frame.
Respond(t, code) ==
    /\ pc' = [pc EXCEPT ![t] = "idle"]
    /\ req' = [req EXCEPT ![t] = "none"]
    /\ cur' = [cur EXCEPT ![t] = 0]
    /\ pin' = [pin EXCEPT ![t] = FALSE]
    /\ reply' = code

Goto(t, label) ==
    /\ pc' = [pc EXCEPT ![t] = label]
    /\ reply' = "none"
    /\ UNCHANGED <<req, cur, pin>>

Unlock(h) == lock' = [lock EXCEPT ![h] = NoThread]

----------------------------------------------------------------------------
(* Sessions: one step each under Manager.mu. *)

\* Variants of OpenSession: the handle is read before the increment, or the
\* lowest free one is used again.
OpenSessionAs(t, s, isRW, h, last) ==
    /\ pc[t] = "idle" /\ Readers = {}
    /\ nextSID < MaxHandle
    /\ nextSID' = last
    /\ live' = live \cup {h}
    /\ slotOf' = [slotOf EXCEPT ![h] = s]
    /\ rw' = [rw EXCEPT ![h] = isRW]
    /\ state' = [state EXCEPT ![h] = IF isRW THEN "RWPublic" ELSE "ROPublic"]
    /\ Respond(t, "OK")
    /\ UNCHANGED <<lock, tokenIn, todo>>
OpenSessionRecycles(t, s, isRW) ==
    \E h \in Handles \ live :
        /\ \A g \in Handles \ live : h <= g
        /\ OpenSessionAs(t, s, isRW, h, IF h > nextSID THEN h ELSE nextSID)

OpenSession(t, s, isRW) ==
    /\ pc[t] = "idle" /\ Readers = {}
    /\ nextSID < MaxHandle
    /\ LET h == nextSID + 1 IN
         /\ nextSID' = h
         /\ live' = live \cup {h}
         /\ slotOf' = [slotOf EXCEPT ![h] = s]
         /\ rw' = [rw EXCEPT ![h] = isRW]
         /\ state' = [state EXCEPT ![h] = IF isRW THEN "RWPublic" ELSE "ROPublic"]
    /\ Respond(t, "OK")
    /\ UNCHANGED <<lock, tokenIn, todo>>

\* A slot id that was never registered.
OpenSessionFails(t) ==
    /\ pc[t] = "idle" /\ Readers = {}
    /\ Respond(t, "SLOT_ID_INVALID")
    /\ UNCHANGED <<nextSID, live, slotOf, rw, state, lock, tokenIn, todo>>

CloseSession(t, h) ==
    /\ pc[t] = "idle" /\ Readers = {}
    /\ live' = live \ {h}
    /\ Respond(t, IF h \in live THEN "OK" ELSE "SESSION_HANDLE_INVALID")
    /\ UNCHANGED <<nextSID, slotOf, rw, state, lock, tokenIn, todo>>

\* A variant that logs the token out and tells no handler of it.
CloseAllLogsOut(t, s) ==
    /\ pc[t] = "idle" /\ Readers = {}
    /\ live' = live \ OnSlot(s)
    /\ tokenIn' = [tokenIn EXCEPT ![s] = FALSE]
    /\ Respond(t, "OK")
    /\ UNCHANGED <<nextSID, slotOf, rw, state, lock, todo>>

CloseAllSessions(t, s) ==
    /\ pc[t] = "idle" /\ Readers = {}
    /\ live' = live \ OnSlot(s)
    /\ Respond(t, "OK")
    /\ UNCHANGED <<nextSID, slotOf, rw, state, lock, tokenIn, todo>>

----------------------------------------------------------------------------
(* Every other request begins with GetSession. *)

GetSession(t, op, h, goodPin) ==
    /\ pc[t] = "idle"
    /\ h \in live
    /\ goodPin => op \in LoginOps   \* the other requests carry no PIN that counts
    /\ pc' = [pc EXCEPT ![t] = "lock"]
    /\ req' = [req EXCEPT ![t] = op]
    /\ cur' = [cur EXCEPT ![t] = h]
    /\ pin' = [pin EXCEPT ![t] = goodPin]
    /\ reply' = "none"
    /\ UNCHANGED <<nextSID, live, slotOf, rw, state, lock, tokenIn, todo>>

\* handleLogin turns every error that is not a bare CKR code into
\* CKR_PIN_INCORRECT, the missing session among them.
GetSessionFails(t, op, h) ==
    /\ pc[t] = "idle"
    /\ h \notin live
    /\ Respond(t, IF op \in LoginOps THEN "PIN_INCORRECT"
                                     ELSE "SESSION_HANDLE_INVALID")
    /\ UNCHANGED <<nextSID, live, slotOf, rw, state, lock, tokenIn, todo>>

\* The session mutex is free and the thread is about to take it.
MayLock(t) == pc[t] = "lock" /\ lock[cur[t]] = NoThread

----------------------------------------------------------------------------
(* C_Login. *)

\* What Login answers before it asks the provider; "none" when it goes on.
LoginRefusal(op, h) ==
    IF LoggedIn(h) THEN "USER_ALREADY_LOGGED_IN"
    ELSE IF op = "OTHER" THEN "USER_TYPE_INVALID"
    ELSE IF op = "SO" /\ (state[h] = "ROPublic" \/ ROSessionOn(slotOf[h]))
         THEN "SESSION_READ_ONLY_EXISTS"
    ELSE "none"

LoginRefused(t) ==
    /\ MayLock(t) /\ req[t] \in LoginOps
    /\ LoginRefusal(req[t], cur[t]) # "none"
    /\ Respond(t, LoginRefusal(req[t], cur[t]))
    /\ UNCHANGED <<nextSID, live, slotOf, rw, state, lock, tokenIn, todo>>

LoginAdmitted(t) ==
    /\ MayLock(t) /\ req[t] \in LoginOps
    /\ LoginRefusal(req[t], cur[t]) = "none"
    /\ lock' = [lock EXCEPT ![cur[t]] = t]
    /\ Goto(t, "provider")
    /\ UNCHANGED <<nextSID, live, slotOf, rw, state, tokenIn, todo>>

\* Slot.Login: the PIN opens the master key and the objects are loaded.
ProviderAccepts(t) ==
    /\ pc[t] = "provider"
    /\ ~tokenIn[slotOf[cur[t]]] /\ pin[t]
    /\ tokenIn' = [tokenIn EXCEPT ![slotOf[cur[t]]] = TRUE]
    /\ Goto(t, "enter")
    /\ UNCHANGED <<nextSID, live, slotOf, rw, state, lock, todo>>

\* Slot.Login: already logged in, or no entry of card_keys opens with the
\* PIN, or loadObjects fails and the login is undone.  Every error is
\* wrapped by fmt.Errorf, so handleLogin answers CKR_PIN_INCORRECT to all.
\* A variant that returns the provider's error with the mutex still held.
ProviderRefusesLocked(t) ==
    /\ pc[t] = "provider"
    /\ Respond(t, "PIN_INCORRECT")
    /\ UNCHANGED <<nextSID, live, slotOf, rw, state, lock, tokenIn, todo>>

ProviderRefuses(t) ==
    /\ pc[t] = "provider"
    /\ Unlock(cur[t])
    /\ Respond(t, "PIN_INCORRECT")
    /\ UNCHANGED <<nextSID, live, slotOf, rw, state, tokenIn, todo>>

\* The user branch: RO_PUBLIC and RW_PUBLIC were told apart at admission by
\* the mode, which never changes; the read lock fixes the map for the loop.
EnterUser(t) ==
    /\ pc[t] = "enter" /\ req[t] = "USER"
    /\ state' = [state EXCEPT ![cur[t]] = IF rw[cur[t]] THEN "RWUser" ELSE "ROUser"]
    /\ todo' = [todo EXCEPT ![t] = OnSlot(slotOf[cur[t]])]
    /\ Goto(t, "share")
    /\ UNCHANGED <<nextSID, live, slotOf, rw, lock, tokenIn>>

\* updateSlotSessionsState: one session of the loop, its mutex not taken.
ShareLogin(t, g) ==
    /\ pc[t] = "share" /\ g \in todo[t]
    /\ state' = [state EXCEPT ![g] = UserState(state[g])]
    /\ todo' = [todo EXCEPT ![t] = todo[t] \ {g}]
    /\ reply' = "none"
    /\ UNCHANGED <<nextSID, live, slotOf, rw, lock, tokenIn, pc, req, cur, pin>>

\* The SO branch: no other session is told.
EnterSO(t) ==
    /\ pc[t] = "enter" /\ req[t] = "SO"
    /\ state' = [state EXCEPT ![cur[t]] = "RWSO"]
    /\ Unlock(cur[t])
    /\ Respond(t, "OK")
    /\ UNCHANGED <<nextSID, live, slotOf, rw, tokenIn, todo>>

\* A copy loop ends: both locks are released and the handler answers.
CopyDone(t) ==
    /\ pc[t] \in CopyLoops /\ todo[t] = {}
    /\ Unlock(cur[t])
    /\ Respond(t, "OK")
    /\ UNCHANGED <<nextSID, live, slotOf, rw, state, tokenIn, todo>>

----------------------------------------------------------------------------
(* C_Logout. *)

LogoutRefused(t) ==
    /\ MayLock(t) /\ req[t] = "LOGOUT"
    /\ ~LoggedIn(cur[t])
    /\ Respond(t, "USER_NOT_LOGGED_IN")
    /\ UNCHANGED <<nextSID, live, slotOf, rw, state, lock, tokenIn, todo>>

LogoutAdmitted(t) ==
    /\ MayLock(t) /\ req[t] = "LOGOUT"
    /\ LoggedIn(cur[t])
    /\ lock' = [lock EXCEPT ![cur[t]] = t]
    /\ Goto(t, "provout")
    /\ UNCHANGED <<nextSID, live, slotOf, rw, state, tokenIn, todo>>

ProviderLogout(t) ==
    /\ pc[t] = "provout"
    /\ tokenIn' = [tokenIn EXCEPT ![slotOf[cur[t]]] = FALSE]
    /\ Goto(t, "leave")
    /\ UNCHANGED <<nextSID, live, slotOf, rw, state, lock, todo>>

\* A variant that tells no other session of the logout.
LeaveAlone(t) ==
    /\ pc[t] = "leave"
    /\ state' = [state EXCEPT ![cur[t]] = PublicState(state[cur[t]])]
    /\ Goto(t, "revert")
    /\ UNCHANGED <<nextSID, live, slotOf, rw, lock, tokenIn, todo>>

LeaveLoggedIn(t) ==
    /\ pc[t] = "leave"
    /\ state' = [state EXCEPT ![cur[t]] = PublicState(state[cur[t]])]
    /\ todo' = [todo EXCEPT ![t] = OnSlot(slotOf[cur[t]])]
    /\ Goto(t, "revert")
    /\ UNCHANGED <<nextSID, live, slotOf, rw, lock, tokenIn>>

\* revertSlotSessionsToPublic: one session of the loop.
RevertSession(t, g) ==
    /\ pc[t] = "revert" /\ g \in todo[t]
    /\ state' = [state EXCEPT ![g] = PublicState(state[g])]
    /\ todo' = [todo EXCEPT ![t] = todo[t] \ {g}]
    /\ reply' = "none"
    /\ UNCHANGED <<nextSID, live, slotOf, rw, lock, tokenIn, pc, req, cur, pin>>

----------------------------------------------------------------------------
(* The requests that only look at the session's state. *)

InitPINReply(h) == IF state[h] = "RWSO" THEN "OK" ELSE "USER_NOT_LOGGED_IN"
SetPINReply(h) ==
    IF state[h] \in {"RWUser", "RWSO"} THEN "OK" ELSE "SESSION_READ_ONLY"
EditObjectReply(h) == IF rw[h] THEN "OK" ELSE "SESSION_READ_ONLY"
GenerateKeyPairReply(h) ==
    IF ~rw[h] THEN "SESSION_READ_ONLY"
    ELSE IF tokenIn[slotOf[h]] THEN "OK" ELSE "USER_NOT_LOGGED_IN"

GateReply(op, h) == CASE op = "InitPIN" -> InitPINReply(h)
                      [] op = "SetPIN" -> SetPINReply(h)
                      [] op = "EditObject" -> EditObjectReply(h)
                      [] op = "GenerateKeyPair" -> GenerateKeyPairReply(h)

Gate(t) ==
    /\ MayLock(t) /\ req[t] \in GateOps
    /\ Respond(t, GateReply(req[t], cur[t]))
    /\ UNCHANGED <<nextSID, live, slotOf, rw, state, lock, tokenIn, todo>>

----------------------------------------------------------------------------
Request(t) ==
    \/ \E s \in Slots, isRW \in BOOLEAN : OpenSession(t, s, isRW)
    \/ OpenSessionFails(t)
    \/ \E h \in Handles : CloseSession(t, h)
    \/ \E s \in Slots : CloseAllSessions(t, s)
    \/ \E op \in Ops, h \in Handles, goodPin \in BOOLEAN :
         GetSession(t, op, h, goodPin)
    \/ \E op \in Ops, h \in Handles : GetSessionFails(t, op, h)

Locking(t) ==
    \/ LoginRefused(t) \/ LoginAdmitted(t)
    \/ LogoutRefused(t) \/ LogoutAdmitted(t)
    \/ Gate(t)

Running(t) ==
    \/ ProviderAccepts(t) \/ ProviderRefuses(t)
    \/ EnterUser(t) \/ EnterSO(t)
    \/ \E g \in todo[t] : ShareLogin(t, g) \/ RevertSession(t, g)
    \/ CopyDone(t)
    \/ ProviderLogout(t) \/ LeaveLoggedIn(t)

Next == \E t \in Threads : Request(t) \/ Locking(t) \/ Running(t)

Spec == Init /\ [][Next]_vars

\* A running goroutine is scheduled; sync.Mutex hands the lock to a waiter
\* after a bounded wait (its starvation mode), hence strong fairness.
Fairness ==
    \A t \in Threads : WF_vars(Running(t)) /\ SF_vars(Locking(t))

FairSpec == Spec /\ Fairness

\* No two C_Login or C_Logout calls of the daemon overlap: one application,
\* whose driver sends one request at a time, or several that take turns.
Authenticating(t) == pc[t] # "idle" /\ req[t] \in AuthOps
Serial == \A t, u \in Threads : Authenticating(t) /\ Authenticating(u) => t = u
SerialSpec == Init /\ [][Next /\ Serial']_vars

----------------------------------------------------------------------------
(* Properties of any interleaving. *)

\* A session's mutex is held by exactly the thread whose handler is inside
\* Login or Logout on that session, and no exit of the two forgets to
\* release it (defer s.Unlock, manager.go:157, 218).
MutexDiscipline ==
    \A t \in Threads, h \in Handles :
        lock[h] = t <=> cur[t] = h /\ pc[t] \in Critical

\* Login, the copies other threads make of it, and Logout never give a
\* session a state of the other mode: a read-only session never reaches an
\* RW state or the SO state, whatever races (manager.go:167-181, 261-291).
ModeMatchesFlags ==
    \A h \in live : (state[h] \in {"ROPublic", "ROUser"}) <=> ~rw[h]

\* A handle names one session for ever: nextSID never returns a closed
\* handle, so a late request of another client cannot reach a new session
\* (manager.go:102).
ClosedStaysClosed ==
    [][\A h \in Handles : h <= nextSID /\ h \notin live => h \notin live']_vars

\* Every request is answered: no order of the session mutexes, Manager.mu
\* and the provider's lock makes handlers wait on each other for ever.
EveryRequestAnswered ==
    \A t \in Threads : pc[t] # "idle" ~> pc[t] = "idle"

----------------------------------------------------------------------------
(* Properties when no two authentications overlap (SerialSpec). *)

\* A Logout is between Provider.Logout and the end of its copy loop, and
\* has not visited h.
BeingLoggedOut(h) ==
    \E t \in Threads : \/ pc[t] = "leave" /\ slotOf[cur[t]] = slotOf[h]
                       \/ pc[t] = "revert" /\ h \in todo[t]

\* No open session claims a login the token does not have: GetSessionInfo,
\* InitPIN and SetPIN, which trust Session.State, agree with the provider.
NoPhantomLogin ==
    \A h \in live : LoggedIn(h) => tokenIn[slotOf[h]] \/ BeingLoggedOut(h)

\* The SO is alone: while a session is in the SO state no other open
\* session of its token is logged in (manager.go:187-203 tells no one of an
\* SO login, 165-182 cannot log a user in beside it).
SoExclusive ==
    \A h, g \in live :
        state[h] = "RWSO" /\ LoggedIn(g) /\ slotOf[g] = slotOf[h] => g = h

\* When a user's C_Login returns CKR_OK every open session of the token is
\* logged in, the ones opened while it ran included, and so is the token.
LoginReaches ==
    \A t \in Threads :
        pc[t] = "share" /\ pc'[t] = "idle" =>
            /\ tokenIn'[slotOf[cur[t]]]
            /\ \A h \in OnSlot(slotOf[cur[t]]) : state'[h] \in LoggedInStates

\* When C_Logout returns CKR_OK the token is logged out and no open session
\* of it, the SO's included, still claims to be logged in.
LogoutReaches ==
    \A t \in Threads :
        pc[t] = "revert" /\ pc'[t] = "idle" =>
            /\ ~tokenIn'[slotOf[cur[t]]]
            /\ \A h \in OnSlot(slotOf[cur[t]]) : state'[h] \in PublicStates

\* The login of a token is one login: no session claims more than the token has
\* (NoPhantomLogin), the SO has it alone (SoExclusive), and C_Login and C_Logout
\* answer when every session has followed (manager.go:155-291).
LoginIsShared ==
    [][NoPhantomLogin' /\ SoExclusive' /\ LoginReaches /\ LogoutReaches]_vars

\* The manager implements the shared login of SharedLogin.tla: sessions change what
\* they show together, and only at a login or logout that succeeds.  A login
\* takes effect where the session enters the user state and a logout where
\* it leaves it: the copies still to be made are part of that step, and
\* the provider's flag, set or cleared a step earlier, is read as it was.
Entering(s) == \E t \in Threads : pc[t] = "enter" /\ slotOf[cur[t]] = s
Leaving(s) == \E t \in Threads : pc[t] = "leave" /\ slotOf[cur[t]] = s
Awaits(loop, h) == \E t \in Threads : pc[t] = loop /\ h \in todo[t]
Role(s) == CASE s = "RWSO" -> "so"
             [] s \in {"ROUser", "RWUser"} -> "user"
             [] OTHER -> "public"
TokenOf == [s \in Slots |-> (tokenIn[s] /\ ~Entering(s)) \/ Leaving(s)]
ViewOf == [h \in Handles |->
             CASE h \notin live -> "closed"
               [] h \in live /\ Awaits("revert", h) -> "public"
               [] h \in live /\ Awaits("share", h) /\ state[h] # "RWSO" -> "user"
               [] OTHER -> Role(state[h])]

Abstract == INSTANCE SharedLogin WITH in <- TokenOf, view <- ViewOf
ImplementsSharedLogin == Abstract!Spec
=============================================================================
