------------------------ MODULE TokenSessionsProofs ------------------------
(***************************************************************************)
(* Proofs about TokenSessions, for any number of threads, slots and        *)
(* session handles.  First what every interleaving preserves (TypeOK, then *)
(* IInv), then what holds when no two authentications overlap (SInv).      *)
(***************************************************************************)
EXTENDS TokenSessions, TLAPS

USE MaxHandleAssumption, NoThreadAssumption, NoSlotAssumption

\* The state checks answer a known code for whatever handle they look at.
LEMMA GateReplyIsACode ==
  ASSUME NEW op \in GateOps, NEW h PROVE GateReply(op, h) \in Codes
<1>1. CASE op = "InitPIN"
  BY <1>1 DEF GateReply, InitPINReply, Codes
<1>2. CASE op = "SetPIN"
  BY <1>2 DEF GateReply, SetPINReply, Codes
<1>3. CASE op = "EditObject"
  BY <1>3 DEF GateReply, EditObjectReply, Codes
<1>4. CASE op = "GenerateKeyPair"
  BY <1>4 DEF GateReply, GenerateKeyPairReply, Codes
<1> QED BY <1>1, <1>2, <1>3, <1>4 DEF GateOps

\* What the two copies make of a session's state: its mode is kept.
LEMMA StateRanges ==
  ASSUME NEW s \in SessionStates
  PROVE  /\ PublicState(s) \in PublicStates
         /\ UserState(s) \in LoggedInStates
         /\ PublicState(s) = "ROPublic" <=> s \in {"ROPublic", "ROUser"}
         /\ UserState(s) = "ROUser" <=> s \in {"ROPublic", "ROUser"}
         /\ UserState(s) = "RWSO" <=> s = "RWSO"
  BY DEF SessionStates, PublicStates, LoggedInStates, PublicState, UserState

LEMMA OnSlotHandles ==
  ASSUME TypeOK, NEW s PROVE OnSlot(s) \in SUBSET Handles
<1>1. live \subseteq Handles BY DEF TypeOK, Handles
<1> QED BY <1>1 DEF OnSlot

LEMMA TypeStep == ASSUME TypeOK, [Next]_vars PROVE TypeOK'
<1> USE DEF TypeOK, SessionStates, PublicStates, LoggedInStates, PCs, Critical,
                 CopyLoops, Codes
<1>1. ASSUME NEW t \in Threads, NEW s \in Slots, NEW isRW \in BOOLEAN,
             OpenSession(t, s, isRW)
      PROVE  TypeOK'
  BY <1>1 DEF OpenSession, Respond, Handles
<1>2. ASSUME NEW t \in Threads, OpenSessionFails(t) PROVE TypeOK'
  BY <1>2 DEF OpenSessionFails, Respond
<1>3. ASSUME NEW t \in Threads, NEW h \in Handles, CloseSession(t, h)
      PROVE  TypeOK'
  BY <1>3 DEF CloseSession, Respond
<1>4. ASSUME NEW t \in Threads, NEW s \in Slots, CloseAllSessions(t, s)
      PROVE  TypeOK'
  BY <1>4 DEF CloseAllSessions, Respond
<1>5. ASSUME NEW t \in Threads, NEW op \in Ops, NEW h \in Handles,
             NEW goodPin \in BOOLEAN, GetSession(t, op, h, goodPin)
      PROVE  TypeOK'
  BY <1>5 DEF GetSession
<1>6. ASSUME NEW t \in Threads, NEW op \in Ops, NEW h \in Handles,
             GetSessionFails(t, op, h)
      PROVE  TypeOK'
  BY <1>6 DEF GetSessionFails, Respond
<1>7. ASSUME NEW t \in Threads, Locking(t) PROVE TypeOK'
  <2>2. CASE LoginRefused(t)
    BY <2>2 DEF LoginRefused, LoginRefusal, Respond
  <2>1. CASE LoginAdmitted(t)
    BY <2>1 DEF LoginAdmitted, Goto
  <2>3. CASE LogoutAdmitted(t)
    BY <2>3 DEF LogoutAdmitted, Goto
  <2>4. CASE LogoutRefused(t)
    BY <2>4 DEF LogoutRefused, Respond, MayLock
  <2>5. CASE Gate(t)
    <3>1. GateReply(req[t], cur[t]) \in Codes
      BY <2>5, GateReplyIsACode DEF Gate
    <3> QED BY <2>5, <3>1 DEF Gate, Respond
  <2> QED BY <1>7, <2>1, <2>2, <2>3, <2>4, <2>5 DEF Locking
<1>8. ASSUME NEW t \in Threads, Running(t) PROVE TypeOK'
  <2>1. CASE ProviderAccepts(t) \/ ProviderRefuses(t) \/ ProviderLogout(t)
    BY <2>1 DEF ProviderAccepts, ProviderRefuses, ProviderLogout, Respond,
         Goto, Unlock
  <2>2. CASE EnterUser(t)
    <3>1. todo' \in [Threads -> SUBSET Handles]
      BY <2>2, OnSlotHandles DEF EnterUser
    <3>2. state' \in [Handles -> SessionStates]
      BY <2>2 DEF EnterUser
    <3> QED BY <2>2, <3>1, <3>2 DEF EnterUser, Goto
  <2>3. CASE EnterSO(t)
    BY <2>3 DEF EnterSO, Respond, Unlock
  <2>5. CASE LeaveLoggedIn(t)
    <3>1. todo' \in [Threads -> SUBSET Handles]
      BY <2>5, OnSlotHandles DEF LeaveLoggedIn
    <3>2. state' \in [Handles -> SessionStates]
      <4>1. CASE cur[t] \in Handles
        BY <2>5, <4>1, StateRanges DEF LeaveLoggedIn
      <4>2. CASE cur[t] \notin Handles
        BY <2>5, <4>2 DEF LeaveLoggedIn
      <4> QED BY <4>1, <4>2
    <3> QED BY <2>5, <3>1, <3>2 DEF LeaveLoggedIn, Goto
  <2>6. ASSUME NEW g \in todo[t], ShareLogin(t, g) PROVE TypeOK'
    <3>1. todo' \in [Threads -> SUBSET Handles]
      BY <2>6 DEF ShareLogin
    <3>2. state' \in [Handles -> SessionStates]
      BY <2>6, StateRanges DEF ShareLogin
    <3> QED BY <2>6, <3>1, <3>2 DEF ShareLogin
  <2>7. ASSUME NEW g \in todo[t], RevertSession(t, g) PROVE TypeOK'
    <3>1. todo' \in [Threads -> SUBSET Handles]
      BY <2>7 DEF RevertSession
    <3>2. state' \in [Handles -> SessionStates]
      BY <2>7, StateRanges DEF RevertSession
    <3> QED BY <2>7, <3>1, <3>2 DEF RevertSession
  <2>4. CASE CopyDone(t)
    BY <2>4 DEF CopyDone, Respond, Unlock
  <2> QED BY <1>8, <2>1, <2>2, <2>3, <2>4, <2>5, <2>6, <2>7 DEF Running
<1>9. CASE UNCHANGED vars
  BY <1>9 DEF vars
<1> QED
  BY <1>1, <1>2, <1>3, <1>4, <1>5, <1>6, <1>7, <1>8, <1>9
     DEF Next, Request

\* The variables keep their types in every reachable state, whatever the
\* number of connections, slots and handles.
THEOREM TypeCorrect == Spec => []TypeOK
<1>1. Init => TypeOK
  BY DEF Init, TypeOK, Handles, SessionStates, PublicStates, PCs, Codes
<1>2. TypeOK /\ [Next]_vars => TypeOK'
  BY TypeStep
<1> QED BY <1>1, <1>2, PTL DEF Spec

----------------------------------------------------------------------------
(* The invariant of any interleaving. *)

\* A handler that runs holds a pointer to a session that was opened.
Pointers ==
    \A t \in Threads :
        pc[t] # "idle" => cur[t] \in 2 .. nextSID /\ slotOf[cur[t]] \in Slots

Allocated == \A h \in live : slotOf[h] \in Slots

\* The request a handler serves fits the step it has reached; only a copy
\* loop has sessions to visit, and they are open sessions of its slot.
Phases ==
    \A t \in Threads :
        /\ pc[t] \in {"provider", "enter"} =>
              req[t] \in {"USER", "SO"} /\ (req[t] = "SO" => rw[cur[t]])
        /\ pc[t] = "share" => req[t] = "USER"
        /\ pc[t] \in {"provout", "leave", "revert"} => req[t] = "LOGOUT"
        /\ pc[t] \in CopyLoops => todo[t] \subseteq OnSlot(slotOf[cur[t]])
        /\ pc[t] \notin CopyLoops => todo[t] = {}

\* ModeMatchesFlags for closed sessions too: their objects live on.
ModeKept ==
    \A h \in Handles : (state[h] \in {"ROPublic", "ROUser"}) <=> ~rw[h]

IInv == TypeOK /\ Pointers /\ Allocated /\ Phases /\ MutexDiscipline /\ ModeKept

\* A copy loop holds the map still, so it keeps every session it must visit.
LEMMA LoopsBlockWriters ==
  ASSUME NEW t \in Threads, Readers = {} PROVE pc[t] \notin CopyLoops
  BY DEF Readers

LEMMA PhasesStep ==
  ASSUME IInv, [Next]_vars PROVE Pointers' /\ Allocated' /\ Phases'
<1> USE DEF IInv, TypeOK, Pointers, Allocated, Phases, CopyLoops, OnSlot
<1>1. ASSUME NEW t \in Threads, NEW s \in Slots, NEW isRW \in BOOLEAN,
             OpenSession(t, s, isRW)
      PROVE  Pointers' /\ Allocated' /\ Phases'
  BY <1>1, LoopsBlockWriters DEF OpenSession, Respond, Handles
<1>2. ASSUME NEW t \in Threads, OpenSessionFails(t)
      PROVE  Pointers' /\ Allocated' /\ Phases'
  BY <1>2, LoopsBlockWriters DEF OpenSessionFails, Respond
<1>3. ASSUME NEW t \in Threads, NEW h \in Handles, CloseSession(t, h)
      PROVE  Pointers' /\ Allocated' /\ Phases'
  BY <1>3, LoopsBlockWriters DEF CloseSession, Respond
<1>4. ASSUME NEW t \in Threads, NEW s \in Slots, CloseAllSessions(t, s)
      PROVE  Pointers' /\ Allocated' /\ Phases'
  BY <1>4, LoopsBlockWriters DEF CloseAllSessions, Respond
<1>5. ASSUME NEW t \in Threads, NEW op \in Ops, NEW h \in Handles,
             NEW goodPin \in BOOLEAN, GetSession(t, op, h, goodPin)
      PROVE  Pointers' /\ Allocated' /\ Phases'
  BY <1>5 DEF GetSession
<1>6. ASSUME NEW t \in Threads, NEW op \in Ops, NEW h \in Handles,
             GetSessionFails(t, op, h)
      PROVE  Pointers' /\ Allocated' /\ Phases'
  BY <1>6 DEF GetSessionFails, Respond
<1>7. ASSUME NEW t \in Threads, Locking(t)
      PROVE  Pointers' /\ Allocated' /\ Phases'
  <2>1. CASE LoginRefused(t)
    BY <2>1 DEF LoginRefused, Respond, MayLock
  <2>4. CASE LogoutRefused(t)
    BY <2>4 DEF LogoutRefused, Respond, MayLock
  <2>5. CASE Gate(t)
    BY <2>5 DEF Gate, Respond, MayLock
  <2>2. CASE LoginAdmitted(t)
    <3>1. req[t] \in {"USER", "SO"} /\ (req[t] = "SO" => rw[cur[t]])
      BY <2>2 DEF LoginAdmitted, LoginRefusal, LoginOps, LoggedIn, MayLock,
           ModeKept, Handles, SessionStates, PublicStates, LoggedInStates
    <3> QED BY <2>2, <3>1 DEF LoginAdmitted, Goto, MayLock
  <2>3. CASE LogoutAdmitted(t)
    BY <2>3 DEF LogoutAdmitted, Goto, MayLock
  <2> QED BY <1>7, <2>1, <2>2, <2>3, <2>4, <2>5 DEF Locking
<1>8. ASSUME NEW t \in Threads, Running(t)
      PROVE  Pointers' /\ Allocated' /\ Phases'
  <2>1. CASE ProviderAccepts(t)
    BY <2>1 DEF ProviderAccepts, Goto
  <2>2. CASE ProviderRefuses(t)
    BY <2>2 DEF ProviderRefuses, Respond
  <2>3. CASE EnterUser(t)
    BY <2>3 DEF EnterUser, Goto
  <2>4. CASE EnterSO(t)
    BY <2>4 DEF EnterSO, Respond
  <2>5. ASSUME NEW g \in todo[t], ShareLogin(t, g)
        PROVE  Pointers' /\ Allocated' /\ Phases'
    BY <2>5 DEF ShareLogin
  <2>6. ASSUME NEW g \in todo[t], RevertSession(t, g)
        PROVE  Pointers' /\ Allocated' /\ Phases'
    BY <2>6 DEF RevertSession
  <2>7. CASE CopyDone(t)
    BY <2>7 DEF CopyDone, Respond
  <2>8. CASE ProviderLogout(t)
    BY <2>8 DEF ProviderLogout, Goto
  <2>9. CASE LeaveLoggedIn(t)
    BY <2>9 DEF LeaveLoggedIn, Goto
  <2> QED
    BY <1>8, <2>1, <2>2, <2>3, <2>4, <2>5, <2>6, <2>7, <2>8, <2>9 DEF Running
<1>9. CASE UNCHANGED vars
  BY <1>9 DEF vars
<1> QED
  BY <1>1, <1>2, <1>3, <1>4, <1>5, <1>6, <1>7, <1>8, <1>9 DEF Next, Request

LEMMA MutexStep == ASSUME IInv, [Next]_vars PROVE MutexDiscipline'
<1> USE DEF IInv, TypeOK, MutexDiscipline, Critical, CopyLoops
<1>1. ASSUME NEW t \in Threads, Request(t) PROVE MutexDiscipline'
  <2>1. pc[t] = "idle" /\ lock' = lock
    BY <1>1 DEF Request, OpenSession, OpenSessionFails, CloseSession,
         CloseAllSessions, GetSession, GetSessionFails
  <2>2. /\ pc'[t] \notin Critical
        /\ \A u \in Threads \ {t} : pc'[u] = pc[u] /\ cur'[u] = cur[u]
    BY <1>1 DEF Request, OpenSession, OpenSessionFails, CloseSession,
         CloseAllSessions, GetSession, GetSessionFails, Respond
  <2> QED BY <2>1, <2>2
<1>2. ASSUME NEW t \in Threads, Locking(t) PROVE MutexDiscipline'
  <2>1. CASE LoginRefused(t) \/ LogoutRefused(t) \/ Gate(t)
    BY <2>1 DEF LoginRefused, LogoutRefused, Gate, Respond, MayLock
  <2>2. CASE LoginAdmitted(t)
    BY <2>2 DEF LoginAdmitted, Goto, MayLock
  <2>3. CASE LogoutAdmitted(t)
    BY <2>3 DEF LogoutAdmitted, Goto, MayLock
  <2> QED BY <1>2, <2>1, <2>2, <2>3 DEF Locking
<1>3. ASSUME NEW t \in Threads, Running(t) PROVE MutexDiscipline'
  <2>1. CASE ProviderRefuses(t)
    BY <2>1 DEF ProviderRefuses, Respond, Unlock
  <2>2. CASE EnterSO(t)
    BY <2>2 DEF EnterSO, Respond, Unlock
  <2>3. CASE CopyDone(t)
    BY <2>3 DEF CopyDone, Respond, Unlock
  <2>4. CASE ProviderAccepts(t) \/ EnterUser(t)
    BY <2>4 DEF ProviderAccepts, EnterUser, Goto
  <2>5. CASE ProviderLogout(t) \/ LeaveLoggedIn(t)
    BY <2>5 DEF ProviderLogout, LeaveLoggedIn, Goto
  <2>6. CASE \E g \in todo[t] : ShareLogin(t, g) \/ RevertSession(t, g)
    BY <2>6 DEF ShareLogin, RevertSession
  <2> QED BY <1>3, <2>1, <2>2, <2>3, <2>4, <2>5, <2>6 DEF Running
<1>4. CASE UNCHANGED vars
  BY <1>4 DEF vars
<1> QED BY <1>1, <1>2, <1>3, <1>4 DEF Next

\* Only six actions write a session's state.
LEMMA ModeStep == ASSUME IInv, [Next]_vars PROVE ModeKept'
<1> USE DEF IInv, TypeOK, ModeKept
<1>1. CASE state' = state /\ rw' = rw
  BY <1>1
<1>2. ASSUME NEW t \in Threads, NEW s \in Slots, NEW isRW \in BOOLEAN,
             OpenSession(t, s, isRW)
      PROVE  ModeKept'
  BY <1>2 DEF OpenSession, Handles
<1>3. ASSUME NEW t \in Threads, EnterUser(t) PROVE ModeKept'
  BY <1>3 DEF EnterUser
<1>4. ASSUME NEW t \in Threads, EnterSO(t) PROVE ModeKept'
  BY <1>4 DEF EnterSO, Phases
<1>5. ASSUME NEW t \in Threads, NEW g, ShareLogin(t, g) PROVE ModeKept'
  BY <1>5, StateRanges DEF ShareLogin, SessionStates, PublicStates, LoggedInStates
<1>6. ASSUME NEW t \in Threads, NEW g, RevertSession(t, g) PROVE ModeKept'
  BY <1>6, StateRanges DEF RevertSession, SessionStates, PublicStates, LoggedInStates
<1>7. ASSUME NEW t \in Threads, LeaveLoggedIn(t) PROVE ModeKept'
  BY <1>7, StateRanges DEF LeaveLoggedIn, SessionStates, PublicStates, LoggedInStates
<1>8. ASSUME NEW t \in Threads, Request(t) PROVE ModeKept'
  BY <1>1, <1>2, <1>8 DEF Request, OpenSessionFails, CloseSession,
     CloseAllSessions, GetSession, GetSessionFails
<1>9. ASSUME NEW t \in Threads, Locking(t) PROVE ModeKept'
  BY <1>1, <1>9 DEF Locking, LoginRefused, LoginAdmitted, LogoutRefused,
     LogoutAdmitted, Gate
<1>10. ASSUME NEW t \in Threads, Running(t) PROVE ModeKept'
  BY <1>1, <1>3, <1>4, <1>5, <1>6, <1>7, <1>10 DEF Running, ProviderAccepts,
     ProviderRefuses, CopyDone, ProviderLogout
<1>11. CASE UNCHANGED vars
  BY <1>1, <1>11 DEF vars
<1> QED BY <1>8, <1>9, <1>10, <1>11 DEF Next

LEMMA IInvInit == Init => IInv
<1>1. Init => TypeOK
  BY DEF Init, TypeOK, Handles, SessionStates, PublicStates, PCs, Codes
<1>2. Init => Pointers /\ Allocated /\ Phases
  BY DEF Init, Pointers, Allocated, Phases, CopyLoops
<1>3. Init => MutexDiscipline /\ ModeKept
  BY DEF Init, MutexDiscipline, ModeKept, Critical, CopyLoops
<1> QED BY <1>1, <1>2, <1>3 DEF IInv

LEMMA IInvStep == ASSUME IInv, [Next]_vars PROVE IInv'
<1>1. TypeOK' BY TypeStep DEF IInv
<1> QED BY <1>1, PhasesStep, MutexStep, ModeStep DEF IInv

LEMMA IInvHolds == Spec => []IInv
<1>1. IInv /\ [Next]_vars => IInv'
  BY IInvStep
<1> QED BY <1>1, IInvInit, PTL DEF Spec

\* Whatever the handlers' interleaving, the mutex of a session is held by
\* exactly the thread inside Login or Logout on it (engine.go:82, 87).
THEOREM MutexCorrect == Spec => []MutexDiscipline
<1>1. IInv => MutexDiscipline BY DEF IInv
<1> QED BY <1>1, IInvHolds, PTL

\* No race of logins and logouts gives an open session a state of the other
\* mode (manager.go:261-291 writes states without the session's mutex).
THEOREM ModeCorrect == Spec => []ModeMatchesFlags
<1>1. IInv => ModeMatchesFlags
  BY DEF IInv, TypeOK, ModeKept, ModeMatchesFlags, Handles
<1> QED BY <1>1, IInvHolds, PTL

\* A closed handle is never handed out again (manager.go:102).
THEOREM HandlesRetired == Spec => ClosedStaysClosed
<1>1. TypeOK /\ [Next]_vars =>
        [\A h \in Handles : h <= nextSID /\ h \notin live => h \notin live']_vars
  <2> SUFFICES ASSUME TypeOK, Next, NEW h \in Handles, h <= nextSID, h \notin live
               PROVE  h \notin live'
    BY DEF Next
  <2>1. CASE live' \subseteq live
    BY <2>1
  <2>2. ASSUME NEW t \in Threads, NEW s \in Slots, NEW isRW \in BOOLEAN,
               OpenSession(t, s, isRW)
        PROVE  h \notin live'
    BY <2>2 DEF OpenSession, TypeOK, Handles
  <2>3. ASSUME NEW t \in Threads, Request(t) PROVE h \notin live'
    BY <2>1, <2>2, <2>3 DEF Request, OpenSessionFails, CloseSession,
       CloseAllSessions, GetSession, GetSessionFails
  <2>4. ASSUME NEW t \in Threads, Locking(t) PROVE h \notin live'
    BY <2>1, <2>4 DEF Locking, LoginRefused, LoginAdmitted, LogoutRefused,
       LogoutAdmitted, Gate
  <2>5. ASSUME NEW t \in Threads, Running(t) PROVE h \notin live'
    BY <2>1, <2>5 DEF Running, ProviderAccepts, ProviderRefuses, EnterUser,
       EnterSO, ShareLogin, RevertSession, CopyDone, ProviderLogout, LeaveLoggedIn
  <2> QED BY <2>3, <2>4, <2>5 DEF Next
<1> QED BY <1>1, TypeCorrect, PTL DEF Spec, ClosedStaysClosed

----------------------------------------------------------------------------
(* The invariant when no two authentications overlap. *)

\* The provider is logged in while a login is spread, and out while a
\* logout is.
ProviderAhead ==
    \A t \in Threads :
        /\ pc[t] \in {"enter", "share"} => tokenIn[slotOf[cur[t]]]
        /\ pc[t] \in {"leave", "revert"} => ~tokenIn[slotOf[cur[t]]]

\* A login the provider accepted finds every session of the slot public;
\* while it is spread the visited ones are logged in and none is the SO's.
LoginSpreads ==
    \A t \in Threads :
        /\ pc[t] = "enter" =>
              \A g \in OnSlot(slotOf[cur[t]]) : ~LoggedIn(g)
        /\ pc[t] = "share" =>
              \A g \in OnSlot(slotOf[cur[t]]) :
                  state[g] # "RWSO" /\ (g \notin todo[t] => LoggedIn(g))

SInv == IInv /\ Serial /\ ProviderAhead /\ LoginSpreads
             /\ NoPhantomLogin /\ SoExclusive

LEMMA OneCritical ==
  ASSUME IInv, Serial, NEW t \in Threads, pc[t] \in Critical,
         NEW u \in Threads, pc[u] \in Critical
  PROVE  u = t
  BY DEF IInv, TypeOK, Phases, Serial, Authenticating, AuthOps, LoginOps,
     Critical, CopyLoops

LEMMA SerialStep ==
  ASSUME SInv, [Next]_vars
  PROVE  ProviderAhead' /\ LoginSpreads' /\ NoPhantomLogin' /\ SoExclusive'
<1> DEFINE Goal == ProviderAhead /\ LoginSpreads /\ NoPhantomLogin /\ SoExclusive
<1> USE DEF SInv, IInv, TypeOK, Pointers, Allocated, Phases, CopyLoops, OnSlot,
            ProviderAhead, LoginSpreads, NoPhantomLogin, SoExclusive,
            BeingLoggedOut, LoggedIn
<1>1. ASSUME NEW t \in Threads, NEW s \in Slots, NEW isRW \in BOOLEAN,
             OpenSession(t, s, isRW)
      PROVE  Goal'
  <2> DEFINE h == nextSID + 1
  <2>1. /\ h \in Handles /\ h \notin live /\ live' = live \cup {h}
        /\ state'[h] \notin LoggedInStates
        /\ \A g \in live : g \in Handles /\ g # h /\ state'[g] = state[g]
                          /\ slotOf'[g] = slotOf[g]
    BY <1>1 DEF OpenSession, Handles, LoggedInStates
  <2>2. /\ tokenIn' = tokenIn
        /\ \A u \in Threads :
             /\ pc[u] \notin CopyLoops /\ pc'[u] = pc[u]
             /\ pc'[u] # "idle" => /\ cur'[u] = cur[u] /\ cur[u] # h
                                   /\ slotOf'[cur[u]] = slotOf[cur[u]]
    BY <1>1, LoopsBlockWriters DEF OpenSession, Respond, Handles
  <2>3. ProviderAhead'
    BY <2>2
  <2> HIDE DEF h
  <2>4. LoginSpreads'
    <3>1. ASSUME NEW u \in Threads, pc'[u] = "enter",
                 NEW g \in live', slotOf'[g] = slotOf'[cur'[u]]
          PROVE  state'[g] \notin LoggedInStates
      <4>1. CASE g = h
        BY <2>1, <4>1
      <4>2. CASE g \in live
        BY <2>1, <2>2, <3>1, <4>2
      <4> QED BY <2>1, <4>1, <4>2
    <3>2. \A u \in Threads : pc'[u] # "share"
      BY <2>2
    <3> QED BY <3>1, <3>2
  <2>5. NoPhantomLogin'
    <3>1. SUFFICES ASSUME NEW g \in live', LoggedIn(g)'
                   PROVE  tokenIn'[slotOf'[g]] \/ BeingLoggedOut(g)'
      BY DEF NoPhantomLogin
    <3>2. g \in live /\ LoggedIn(g) /\ slotOf'[g] = slotOf[g]
      BY <2>1, <3>1
    <3>3. CASE tokenIn[slotOf[g]]
      BY <2>2, <3>2, <3>3
    <3>4. ASSUME NEW u \in Threads, pc[u] = "leave", slotOf[cur[u]] = slotOf[g]
          PROVE  BeingLoggedOut(g)'
      BY <2>2, <3>2, <3>4
    <3> QED BY <2>2, <3>2, <3>3, <3>4
  <2>6. SoExclusive'
    <3>1. \A g \in live' : LoggedIn(g)' =>
            g \in live /\ LoggedIn(g) /\ slotOf'[g] = slotOf[g] /\ state'[g] = state[g]
      BY <2>1
    <3>2. SUFFICES ASSUME NEW f \in live', NEW g \in live', state'[f] = "RWSO",
                          LoggedIn(g)', slotOf'[g] = slotOf'[f]
                   PROVE  g = f
      BY DEF SoExclusive
    <3>3. state'[f] \in LoggedInStates
      BY <3>2 DEF LoggedInStates
    <3>4. /\ f \in live /\ state[f] = "RWSO" /\ slotOf'[f] = slotOf[f]
          /\ g \in live /\ state[g] \in LoggedInStates /\ slotOf'[g] = slotOf[g]
      BY <3>1, <3>2, <3>3
    <3> QED BY <3>2, <3>4
  <2> QED BY <2>3, <2>4, <2>5, <2>6
<1>2. ASSUME NEW t \in Threads, OpenSessionFails(t) PROVE Goal'
  BY <1>2, LoopsBlockWriters DEF OpenSessionFails, Respond
<1>3. ASSUME NEW t \in Threads, NEW h \in Handles, CloseSession(t, h)
      PROVE  Goal'
  BY <1>3, LoopsBlockWriters DEF CloseSession, Respond
<1>4. ASSUME NEW t \in Threads, NEW s \in Slots, CloseAllSessions(t, s)
      PROVE  Goal'
  BY <1>4, LoopsBlockWriters DEF CloseAllSessions, Respond
<1>5. ASSUME NEW t \in Threads, NEW op \in Ops, NEW h \in Handles,
             NEW goodPin \in BOOLEAN, GetSession(t, op, h, goodPin)
      PROVE  Goal'
  BY <1>5 DEF GetSession
<1>6. ASSUME NEW t \in Threads, NEW op \in Ops, NEW h \in Handles,
             GetSessionFails(t, op, h)
      PROVE  Goal'
  BY <1>6 DEF GetSessionFails, Respond
<1>7. ASSUME NEW t \in Threads, Locking(t) PROVE Goal'
  <2>1. CASE LoginRefused(t)
    BY <2>1 DEF LoginRefused, Respond, MayLock
  <2>2. CASE LogoutRefused(t)
    BY <2>2 DEF LogoutRefused, Respond, MayLock
  <2>3. CASE Gate(t)
    BY <2>3 DEF Gate, Respond, MayLock
  <2>4. CASE LoginAdmitted(t)
    BY <2>4 DEF LoginAdmitted, Goto, MayLock
  <2>5. CASE LogoutAdmitted(t)
    BY <2>5 DEF LogoutAdmitted, Goto, MayLock
  <2> QED BY <1>7, <2>1, <2>2, <2>3, <2>4, <2>5 DEF Locking
<1>8. ASSUME NEW t \in Threads, Running(t) PROVE Goal'
  <2>0. ASSUME pc[t] \in Critical, NEW u \in Threads, u # t
        PROVE  pc[u] \notin Critical
    BY <2>0, OneCritical
  <2> USE <2>0 DEF Critical
  <2>1. CASE ProviderAccepts(t)
    BY <2>1 DEF ProviderAccepts, Goto
  <2>2. CASE ProviderRefuses(t)
    BY <2>2 DEF ProviderRefuses, Respond
  <2>3. CASE EnterUser(t)
    BY <2>3 DEF EnterUser, Goto, LoggedInStates
  <2>4. CASE EnterSO(t)
    BY <2>4 DEF EnterSO, Respond, LoggedInStates
  <2>5. ASSUME NEW g \in todo[t], ShareLogin(t, g) PROVE Goal'
    BY <2>5, StateRanges DEF ShareLogin
  <2>6. ASSUME NEW g \in todo[t], RevertSession(t, g) PROVE Goal'
    BY <2>6, StateRanges DEF RevertSession, PublicStates, LoggedInStates
  <2>7. CASE CopyDone(t)
    BY <2>7 DEF CopyDone, Respond
  <2>8. CASE ProviderLogout(t)
    BY <2>8 DEF ProviderLogout, Goto
  <2>9. CASE LeaveLoggedIn(t)
    BY <2>9, StateRanges DEF LeaveLoggedIn, Goto, PublicStates, LoggedInStates
  <2> QED
    BY <1>8, <2>1, <2>2, <2>3, <2>4, <2>5, <2>6, <2>7, <2>8, <2>9 DEF Running
<1>9. CASE UNCHANGED vars
  BY <1>9 DEF vars
<1> QED
  BY <1>1, <1>2, <1>3, <1>4, <1>5, <1>6, <1>7, <1>8, <1>9 DEF Next, Request

LEMMA SInvHolds == SerialSpec => []SInv
<1>1. Init => SInv
  <2>1. Init => IInv
    BY IInvInit
  <2>2. Init => Serial /\ ProviderAhead /\ LoginSpreads
    BY DEF Init, Serial, Authenticating, ProviderAhead, LoginSpreads
  <2>3. Init => NoPhantomLogin /\ SoExclusive
    BY DEF Init, NoPhantomLogin, SoExclusive
  <2> QED BY <2>1, <2>2, <2>3 DEF SInv
<1>2. SInv /\ [Next /\ Serial']_vars => SInv'
  <2> SUFFICES ASSUME SInv, [Next /\ Serial']_vars PROVE SInv'
    OBVIOUS
  <2>1. IInv'
    BY IInvStep DEF SInv
  <2>2. Serial'
    <3>1. CASE UNCHANGED vars
      BY <3>1 DEF SInv, Serial, Authenticating, vars
    <3> QED BY <3>1
  <2> QED BY <2>1, <2>2, SerialStep DEF SInv
<1> QED BY <1>1, <1>2, PTL DEF SerialSpec

\* While authentications take turns, GetSessionInfo, InitPIN and SetPIN never
\* see an open session logged in to a token that is logged out, except the
\* ones the running Logout has yet to visit.
THEOREM NoPhantomLoginCorrect == SerialSpec => []NoPhantomLogin
<1>1. SInv => NoPhantomLogin BY DEF SInv
<1> QED BY <1>1, SInvHolds, PTL

\* While authentications take turns, the SO shares a token with no other
\* open session that is logged in.
THEOREM SoExclusiveCorrect == SerialSpec => []SoExclusive
<1>1. SInv => SoExclusive BY DEF SInv
<1> QED BY <1>1, SInvHolds, PTL

\* The only step that ends a copy loop.
LEMMA LoopEnds ==
  ASSUME TypeOK, [Next]_vars, NEW t \in Threads,
         pc[t] \in CopyLoops, pc'[t] = "idle"
  PROVE  CopyDone(t)
<1>1. pc'[t] # pc[t] /\ pc[t] \notin {"idle", "lock"}
  BY DEF CopyLoops
<1>2. ASSUME NEW u \in Threads, Request(u) PROVE FALSE
  BY <1>1, <1>2 DEF TypeOK, Request, OpenSession, OpenSessionFails, CloseSession,
     CloseAllSessions, GetSession, GetSessionFails, Respond
<1>3. ASSUME NEW u \in Threads, Locking(u) PROVE FALSE
  BY <1>1, <1>3 DEF TypeOK, Locking, LoginRefused, LoginAdmitted, LogoutRefused,
     LogoutAdmitted, Gate, MayLock, Respond, Goto
<1>4. ASSUME NEW u \in Threads, Running(u) PROVE CopyDone(t)
  BY <1>1, <1>4 DEF TypeOK, CopyLoops, Running, ProviderAccepts, ProviderRefuses,
     EnterUser, EnterSO, ShareLogin, RevertSession, CopyDone, ProviderLogout,
     LeaveLoggedIn, Respond, Goto
<1> QED BY <1>1, <1>2, <1>3, <1>4 DEF Next, vars

\* A user's C_Login that returns CKR_OK has logged in every open session of
\* the token, while authentications take turns (manager.go:165-182).
THEOREM LoginReachesAllCorrect == SerialSpec => [][LoginReaches]_vars
<1>1. ASSUME SInv, [Next]_vars, NEW t \in Threads,
             pc[t] = "share", pc'[t] = "idle"
      PROVE  /\ tokenIn'[slotOf[cur[t]]]
             /\ \A h \in OnSlot(slotOf[cur[t]]) : state'[h] \in LoggedInStates
  <2>1. CopyDone(t)
    BY <1>1, LoopEnds DEF SInv, IInv, CopyLoops
  <2> QED
    BY <1>1, <2>1 DEF CopyDone, SInv, ProviderAhead, LoginSpreads, LoggedIn
<1>2. SInv /\ [Next /\ Serial']_vars => [LoginReaches]_vars
  BY <1>1 DEF LoginReaches
<1> QED BY <1>2, SInvHolds, PTL DEF SerialSpec

\* A C_Logout that returns CKR_OK leaves the token logged out and no open
\* session of it logged in, while authentications take turns
\* (manager.go:224-238).
THEOREM LogoutReachesAllCorrect == SerialSpec => [][LogoutReaches]_vars
<1>1. ASSUME SInv, [Next]_vars, NEW t \in Threads,
             pc[t] = "revert", pc'[t] = "idle"
      PROVE  /\ ~tokenIn'[slotOf[cur[t]]]
             /\ \A h \in OnSlot(slotOf[cur[t]]) : state'[h] \in PublicStates
  <2>1. CopyDone(t)
    BY <1>1, LoopEnds DEF SInv, IInv, CopyLoops
  <2>2. ~tokenIn[slotOf[cur[t]]]
    BY <1>1 DEF SInv, ProviderAhead
  <2>3. ASSUME NEW h \in OnSlot(slotOf[cur[t]]) PROVE ~LoggedIn(h)
    <3>1. ASSUME NEW u \in Threads, pc[u] \in {"leave", "revert"} PROVE u = t
      <4>1. pc[t] \in Critical /\ pc[u] \in Critical
        BY <1>1, <3>1 DEF Critical, CopyLoops
      <4> QED BY <1>1, <4>1, OneCritical DEF SInv
    <3>2. ~BeingLoggedOut(h)
      BY <1>1, <2>1, <3>1 DEF BeingLoggedOut, CopyDone
    <3> QED BY <1>1, <2>2, <3>2 DEF SInv, NoPhantomLogin, OnSlot
  <2>4. live \subseteq Handles
    BY <1>1 DEF SInv, IInv, TypeOK, Handles
  <2>5. tokenIn' = tokenIn /\ state' = state
    BY <2>1 DEF CopyDone
  <2>6. ASSUME NEW h \in OnSlot(slotOf[cur[t]]) PROVE state[h] \in PublicStates
    BY <1>1, <2>3, <2>4 DEF LoggedIn, OnSlot, SInv, IInv, TypeOK, SessionStates
  <2> QED BY <2>2, <2>5, <2>6
<1>2. SInv /\ [Next /\ Serial']_vars => [LogoutReaches]_vars
  BY <1>1 DEF LogoutReaches
<1> QED BY <1>2, SInvHolds, PTL DEF SerialSpec

\* A token's login is shared by its sessions while authentications take turns.
THEOREM LoginIsSharedCorrect == SerialSpec => LoginIsShared
BY NoPhantomLoginCorrect, SoExclusiveCorrect, LoginReachesAllCorrect,
   LogoutReachesAllCorrect, PTL DEF LoginIsShared

----------------------------------------------------------------------------
(* The manager implements SharedLogin, while authentications take turns.    *)

\* A logout that is not refused finds the token logged in, though the session
\* it came on may have been closed meanwhile.
LogoutFinds ==
    \A t \in Threads :
        /\ pc[t] = "lock" /\ req[t] = "LOGOUT" /\ LoggedIn(cur[t]) =>
              tokenIn[slotOf[cur[t]]]
        /\ pc[t] = "provout" => tokenIn[slotOf[cur[t]]]

RInv == SInv /\ LogoutFinds

LEMMA LogoutFindsStep ==
  ASSUME RInv, Next, Serial' PROVE LogoutFinds'
<1> USE DEF RInv, SInv, IInv, TypeOK, Pointers, LogoutFinds, LoggedIn
<1>0. ASSUME NEW t \in Threads, NEW u \in Threads, u # t,
             pc[t] \in Critical, pc[u] # "idle", req[u] = "LOGOUT"
      PROVE  FALSE
  BY <1>0 DEF Phases, Serial, Authenticating, AuthOps, LoginOps, Critical, CopyLoops
<1>1. ASSUME NEW t \in Threads, NEW s \in Slots, NEW isRW \in BOOLEAN,
             OpenSession(t, s, isRW)
      PROVE  LogoutFinds'
  BY <1>1 DEF OpenSession, Respond, Handles
<1>2. ASSUME NEW t \in Threads,
             \/ OpenSessionFails(t)
             \/ \E h \in Handles : CloseSession(t, h)
             \/ \E s \in Slots : CloseAllSessions(t, s)
             \/ \E op \in Ops, h \in Handles : GetSessionFails(t, op, h)
      PROVE  LogoutFinds'
  BY <1>2 DEF OpenSessionFails, CloseSession, CloseAllSessions, GetSessionFails, Respond
<1>3. ASSUME NEW t \in Threads, NEW op \in Ops, NEW h \in Handles,
             NEW goodPin \in BOOLEAN, GetSession(t, op, h, goodPin)
      PROVE  LogoutFinds'
  <2>1. ASSUME op = "LOGOUT", LoggedIn(h) PROVE tokenIn[slotOf[h]]
    <3>1. ASSUME NEW u \in Threads, pc[u] \in Critical PROVE FALSE
      <4>1. u # t /\ Authenticating(u)' /\ Authenticating(t)'
        BY <1>3, <2>1, <3>1 DEF GetSession, Phases, Authenticating, AuthOps, LoginOps,
           Critical, CopyLoops
      <4> QED BY <4>1 DEF Serial
    <3>2. ~BeingLoggedOut(h)
      BY <3>1 DEF BeingLoggedOut, Critical, CopyLoops
    <3> QED BY <1>3, <2>1, <3>2 DEF NoPhantomLogin, GetSession
  <2> QED BY <1>3, <2>1 DEF GetSession
<1>4. ASSUME NEW t \in Threads, Locking(t) PROVE LogoutFinds'
  <2>1. CASE LoginRefused(t) \/ LogoutRefused(t) \/ Gate(t)
    BY <2>1 DEF LoginRefused, LogoutRefused, Gate, Respond, MayLock
  <2>2. CASE LoginAdmitted(t) \/ LogoutAdmitted(t)
    BY <2>2 DEF LoginAdmitted, LogoutAdmitted, Goto, MayLock
  <2> QED BY <1>4, <2>1, <2>2 DEF Locking
<1>5. ASSUME NEW t \in Threads, Running(t) PROVE LogoutFinds'
  <2>1. /\ pc[t] \in Critical /\ pc'[t] \notin {"lock", "provout"} /\ slotOf' = slotOf
        /\ \A u \in Threads \ {t} : pc'[u] = pc[u] /\ cur'[u] = cur[u] /\ req'[u] = req[u]
    BY <1>5 DEF Running, ProviderAccepts, ProviderRefuses, EnterUser, EnterSO, ShareLogin,
       RevertSession, CopyDone, ProviderLogout, LeaveLoggedIn, Respond, Goto, Critical,
       CopyLoops
  <2>2. ASSUME NEW u \in Threads, pc'[u] = "provout" \/ (pc'[u] = "lock" /\ req'[u] = "LOGOUT")
        PROVE  FALSE
    BY <1>0, <2>1, <2>2 DEF Phases
  <2> QED BY <2>2
<1> QED BY <1>1, <1>2, <1>3, <1>4, <1>5 DEF Next, Request

\* What an open session shows, and what it takes to show it.
LEMMA Views ==
  ASSUME NEW h \in Handles
  PROVE  /\ h \notin live => ViewOf[h] = "closed"
         /\ h \in live /\ Awaits("revert", h) /\ ~Awaits("share", h) => ViewOf[h] = "public"
         /\ h \in live /\ ~Awaits("revert", h) /\ Awaits("share", h) /\ state[h] # "RWSO" =>
               ViewOf[h] = "user"
         /\ h \in live /\ ~Awaits("revert", h) /\ ~Awaits("share", h) =>
               ViewOf[h] = Role(state[h])
<1>1. ViewOf[h] = CASE h \notin live -> "closed"
                    [] h \in live /\ Awaits("revert", h) -> "public"
                    [] h \in live /\ Awaits("share", h) /\ state[h] # "RWSO" -> "user"
                    [] OTHER -> Role(state[h])
  BY DEF ViewOf
<1>2. CASE h \notin live
  BY <1>1, <1>2
<1>3. CASE h \in live /\ Awaits("revert", h) /\ ~Awaits("share", h)
  BY <1>1, <1>3
<1>4. CASE h \in live /\ ~Awaits("revert", h) /\ Awaits("share", h) /\ state[h] # "RWSO"
  BY <1>1, <1>4
<1>5. CASE h \in live /\ ~Awaits("revert", h) /\ ~Awaits("share", h)
  BY <1>1, <1>5
<1> QED BY <1>2, <1>3, <1>4, <1>5

LEMMA Roles ==
  ASSUME NEW s \in SessionStates
  PROVE  /\ Role(s) \in {"public", "user", "so"}
         /\ s \in PublicStates => Role(s) = "public"
         /\ s \in {"ROUser", "RWUser"} => Role(s) = "user"
         /\ s = "RWSO" => Role(s) = "so"
BY DEF SessionStates, PublicStates, LoggedInStates, Role

\* No session shows "closed" but one that is, whatever thread is at work.
LEMMA OpenViews ==
  ASSUME RInv, NEW h \in Handles
  PROVE  ViewOf[h] # "closed" <=> h \in live
<1>1. CASE h \notin live
  BY <1>1, Views
<1>2. CASE h \in live /\ Awaits("revert", h) /\ Awaits("share", h)
  BY <1>2, OneCritical DEF Awaits, RInv, SInv, Critical, CopyLoops
<1>3. CASE h \in live /\ Awaits("revert", h) /\ ~Awaits("share", h)
  BY <1>3, Views
<1>4. CASE h \in live /\ ~Awaits("revert", h) /\ Awaits("share", h)
  <2>1. state[h] # "RWSO"
    <3>1. PICK t \in Threads : pc[t] = "share" /\ h \in todo[t]
      BY <1>4 DEF Awaits
    <3> QED BY <3>1 DEF RInv, SInv, IInv, Phases, CopyLoops, LoginSpreads
  <2> QED BY <1>4, <2>1, Views
<1>5. CASE h \in live /\ ~Awaits("revert", h) /\ ~Awaits("share", h)
  BY <1>5, Views, Roles DEF RInv, SInv, IInv, TypeOK
<1> QED BY <1>1, <1>2, <1>3, <1>4, <1>5

\* Two states in which a session is open, its state is the same and it is
\* awaited by the same copies look the same; so does a token.
LEMMA SameView ==
  ASSUME NEW h \in Handles, h \in live <=> h \in live',
         h \in live => /\ state'[h] = state[h]
                       /\ Awaits("share", h)' <=> Awaits("share", h)
                       /\ Awaits("revert", h)' <=> Awaits("revert", h)
  PROVE  ViewOf'[h] = ViewOf[h]
BY DEF ViewOf

LEMMA SameToken ==
  ASSUME NEW s \in Slots, tokenIn'[s] = tokenIn[s],
         Entering(s)' <=> Entering(s), Leaving(s)' <=> Leaving(s)
  PROVE  TokenOf'[s] = TokenOf[s]
BY DEF TokenOf

\* The rules of Views and Roles hold in the next state as in this one.
Shows ==
    \A h \in Handles :
        /\ h \notin live => ViewOf[h] = "closed"
        /\ h \in live /\ Awaits("revert", h) /\ ~Awaits("share", h) => ViewOf[h] = "public"
        /\ h \in live /\ ~Awaits("revert", h) /\ Awaits("share", h) /\ state[h] # "RWSO" =>
              ViewOf[h] = "user"
        /\ h \in live /\ ~Awaits("revert", h) /\ ~Awaits("share", h) =>
              ViewOf[h] = Role(state[h])

LEMMA ShowsNow == Shows
  BY Views DEF Shows
LEMMA ShowsNext == Shows'
  BY ShowsNow, PTL

\* What is under way when no thread but t is inside Login or Logout.
LEMMA OnlyThread ==
  ASSUME NEW t \in Threads, \A u \in Threads : u # t => pc[u] \notin Critical
  PROVE  /\ \A h : Awaits("share", h) <=> pc[t] = "share" /\ h \in todo[t]
         /\ \A h : Awaits("revert", h) <=> pc[t] = "revert" /\ h \in todo[t]
         /\ \A s : Entering(s) <=> pc[t] = "enter" /\ slotOf[cur[t]] = s
         /\ \A s : Leaving(s) <=> pc[t] = "leave" /\ slotOf[cur[t]] = s
BY DEF Awaits, Entering, Leaving, Critical, CopyLoops

LEMMA OnlyThreadNext ==
  ASSUME NEW t \in Threads, \A u \in Threads : u # t => pc'[u] \notin Critical
  PROVE  /\ \A h : Awaits("share", h)' <=> pc'[t] = "share" /\ h \in todo'[t]
         /\ \A h : Awaits("revert", h)' <=> pc'[t] = "revert" /\ h \in todo'[t]
         /\ \A s : Entering(s)' <=> pc'[t] = "enter" /\ slotOf'[cur'[t]] = s
         /\ \A s : Leaving(s)' <=> pc'[t] = "leave" /\ slotOf'[cur'[t]] = s
BY DEF Awaits, Entering, Leaving, Critical, CopyLoops

LEMMA AbstractStutter ==
  ASSUME slotOf' = slotOf, \A h \in Handles : ViewOf'[h] = ViewOf[h],
         \A s \in Slots : TokenOf'[s] = TokenOf[s]
  PROVE  UNCHANGED Abstract!absVars
<1>1. ViewOf' = ViewOf
  BY DEF ViewOf
<1>2. TokenOf' = TokenOf
  BY DEF TokenOf
<1> QED BY <1>1, <1>2 DEF Abstract!absVars

\* One token changes and the others do not.
LEMMA TokenBecomes ==
  ASSUME NEW s \in Slots, NEW b, TokenOf'[s] = b,
         \A r \in Slots : r # s => TokenOf'[r] = TokenOf[r]
  PROVE  TokenOf' = [TokenOf EXCEPT ![s] = b]
BY DEF TokenOf

\* The sessions open on a slot are the ones that show something there.
LEMMA AbsOnSlot ==
  ASSUME RInv, NEW s PROVE Abstract!AbsOn(s) = OnSlot(s)
<1>1. live \subseteq Handles
  BY DEF RInv, SInv, IInv, TypeOK, Handles
<1> QED BY <1>1, OpenViews DEF Abstract!AbsOn, OnSlot

\* Requests that need no session: none is being copied while they run.
LEMMA ManagerMaps ==
  ASSUME RInv, NEW t \in Threads, pc[t] = "idle", pc'[t] = "idle",
         \A u \in Threads : u # t => pc'[u] = pc[u] /\ cur'[u] = cur[u],
         todo' = todo, tokenIn' = tokenIn,
         \A u \in Threads : pc[u] # "idle" => slotOf'[cur[u]] = slotOf[cur[u]]
  PROVE  /\ TokenOf' = TokenOf
         /\ \A h \in Handles : Awaits("share", h)' <=> Awaits("share", h)
         /\ \A h \in Handles : Awaits("revert", h)' <=> Awaits("revert", h)
<1>1. \A s \in Slots : (Entering(s)' <=> Entering(s)) /\ (Leaving(s)' <=> Leaving(s))
  BY DEF Entering, Leaving
<1>2. \A s \in Slots : TokenOf'[s] = TokenOf[s]
  BY <1>1, SameToken
<1>3. TokenOf' = TokenOf
  BY <1>2 DEF TokenOf
<1> QED BY <1>3 DEF Awaits

LEMMA OpenMaps ==
  ASSUME RInv, NEW t \in Threads, NEW s \in Slots, NEW isRW \in BOOLEAN,
         OpenSession(t, s, isRW)
  PROVE  \E h \in Handles : Abstract!AbsOpen(s, h)
<1> USE DEF RInv, SInv, IInv, TypeOK, Handles
<1> DEFINE h == nextSID + 1
<1>1. /\ h \in Handles /\ h \notin live /\ live' = live \cup {h}
      /\ slotOf' = [slotOf EXCEPT ![h] = s]
      /\ state'[h] \in PublicStates
      /\ \A g \in Handles : g # h => state'[g] = state[g] /\ slotOf'[g] = slotOf[g]
      /\ pc[t] = "idle" /\ pc'[t] = "idle" /\ todo' = todo /\ tokenIn' = tokenIn
      /\ \A u \in Threads : u # t => pc'[u] = pc[u] /\ cur'[u] = cur[u]
      /\ \A u \in Threads : pc'[u] \notin CopyLoops
  BY DEF OpenSession, Respond, PublicStates, Readers, CopyLoops
<1> HIDE DEF h
<1>2. TokenOf' = TokenOf
  <2>1. \A u \in Threads : pc[u] # "idle" => slotOf'[cur[u]] = slotOf[cur[u]]
    BY <1>1 DEF Pointers, h
  <2> QED BY <1>1, <2>1, ManagerMaps
<1>3. \A g \in Handles : ~Awaits("share", g)' /\ ~Awaits("revert", g)'
  BY <1>1 DEF Awaits, CopyLoops
<1>4. \A g \in Handles : ~Awaits("share", g) /\ ~Awaits("revert", g)
  BY <1>1 DEF Awaits, CopyLoops
<1>5. ViewOf'[h] = "public"
  <2>1. ViewOf'[h] = Role(state'[h])
    BY <1>1, <1>3, ShowsNext DEF Shows
  <2> QED BY <1>1, <2>1, Roles DEF SessionStates
<1>6. ASSUME NEW g \in Handles, g # h PROVE ViewOf'[g] = ViewOf[g]
  BY <1>1, <1>3, <1>4, <1>6, SameView
<1>7. ViewOf' = [ViewOf EXCEPT ![h] = "public"]
  BY <1>5, <1>6 DEF ViewOf
<1>8. ViewOf[h] = "closed"
  BY <1>1, ShowsNow DEF Shows
<1>9. \E shows \in {"public"} \cup {ViewOf[g] : g \in Abstract!AbsOn(s)} :
         ViewOf' = [ViewOf EXCEPT ![h] = shows]
  BY <1>7
<1> QED BY <1>1, <1>2, <1>8, <1>9 DEF Abstract!AbsOpen

\* Sessions leave the map: the ones of H close and the others look the same.
LEMMA CloseMaps ==
  ASSUME RInv, NEW t \in Threads, NEW H \in SUBSET Handles,
         pc[t] = "idle", Readers = {}, live' = live \ H,
         Respond(t, reply'),
         UNCHANGED <<nextSID, slotOf, rw, state, lock, tokenIn, todo>>
  PROVE  Abstract!AbsClose(H)
<1> USE DEF RInv, SInv, IInv, TypeOK
<1>1. /\ pc[t] = "idle" /\ pc'[t] = "idle" /\ todo' = todo /\ tokenIn' = tokenIn
      /\ \A u \in Threads : u # t => pc'[u] = pc[u] /\ cur'[u] = cur[u]
      /\ slotOf' = slotOf /\ state' = state
  BY DEF Respond
<1>2. /\ TokenOf' = TokenOf
      /\ \A h \in Handles : Awaits("share", h)' <=> Awaits("share", h)
      /\ \A h \in Handles : Awaits("revert", h)' <=> Awaits("revert", h)
  BY <1>1, ManagerMaps
<1>3. \A h \in H : ViewOf'[h] = "closed"
  BY ShowsNext DEF Shows
<1>4. ASSUME NEW h \in Handles, h \notin H PROVE ViewOf'[h] = ViewOf[h]
  BY <1>1, <1>2, <1>4, SameView
<1>5. ViewOf' = [h \in Handles |-> IF h \in H THEN "closed" ELSE ViewOf[h]]
  BY <1>3, <1>4 DEF ViewOf
<1> QED BY <1>1, <1>2, <1>5 DEF Abstract!AbsClose

LEMMA RequestMaps ==
  ASSUME RInv, NEW t \in Threads, Request(t)
  PROVE  [Abstract!AbsNext]_(Abstract!absVars)
<1> USE DEF Abstract!AbsNext
<1>1. ASSUME NEW s \in Slots, NEW isRW \in BOOLEAN, OpenSession(t, s, isRW)
      PROVE  [Abstract!AbsNext]_(Abstract!absVars)
  BY <1>1, OpenMaps
<1>2. ASSUME NEW h \in Handles, CloseSession(t, h)
      PROVE  [Abstract!AbsNext]_(Abstract!absVars)
  <2>1. Abstract!AbsClose({h})
    <3>1. Respond(t, reply')
      BY <1>2 DEF CloseSession, Respond
    <3> QED BY <1>2, <3>1, CloseMaps DEF CloseSession
  <2> QED BY <2>1
<1>3. ASSUME NEW s \in Slots, CloseAllSessions(t, s)
      PROVE  [Abstract!AbsNext]_(Abstract!absVars)
  <2>1. OnSlot(s) \in SUBSET Handles
    <3>1. live \subseteq Handles
      BY DEF RInv, SInv, IInv, TypeOK, Handles
    <3>2. OnSlot(s) \subseteq Handles
      BY <3>1 DEF OnSlot
    <3> QED BY <3>2
  <2>2. Abstract!AbsClose(OnSlot(s))
    <3>1. Respond(t, reply')
      BY <1>3 DEF CloseAllSessions, Respond
    <3> QED BY <1>3, <2>1, <3>1, CloseMaps DEF CloseAllSessions
  <2> QED BY <2>1, <2>2
<1>4. ASSUME \/ OpenSessionFails(t)
             \/ \E op \in Ops, h \in Handles : GetSessionFails(t, op, h)
             \/ \E op \in Ops, h \in Handles, goodPin \in BOOLEAN :
                  GetSession(t, op, h, goodPin)
      PROVE  UNCHANGED Abstract!absVars
  <2>1. /\ pc[t] = "idle" /\ pc'[t] \in {"idle", "lock"}
        /\ todo' = todo /\ tokenIn' = tokenIn
        /\ slotOf' = slotOf /\ state' = state /\ live' = live
        /\ \A u \in Threads : u # t => pc'[u] = pc[u] /\ cur'[u] = cur[u]
    BY <1>4 DEF OpenSessionFails, GetSessionFails, GetSession, Respond, RInv, SInv,
       IInv, TypeOK
  <2>2. \A s \in Slots : (Entering(s)' <=> Entering(s)) /\ (Leaving(s)' <=> Leaving(s))
    BY <2>1 DEF Entering, Leaving
  <2>3. \A h \in Handles : /\ Awaits("share", h)' <=> Awaits("share", h)
                           /\ Awaits("revert", h)' <=> Awaits("revert", h)
    BY <2>1 DEF Awaits
  <2>4. \A s \in Slots : TokenOf'[s] = TokenOf[s]
    BY <2>1, <2>2, SameToken
  <2>5. \A h \in Handles : ViewOf'[h] = ViewOf[h]
    BY <2>1, <2>3, SameView
  <2> QED BY <2>1, <2>4, <2>5, AbstractStutter
<1> QED BY <1>1, <1>2, <1>3, <1>4 DEF Request

\* A step that leaves the abstract state alone: what the sessions show and
\* what the tokens are do not depend on it.
LEMMA QuietMaps ==
  ASSUME live' = live, slotOf' = slotOf,
         \A h \in Handles : ViewOf'[h] = ViewOf[h],
         \A s \in Slots : TokenOf'[s] = TokenOf[s]
  PROVE  [Abstract!AbsNext]_(Abstract!absVars)
BY AbstractStutter

LEMMA LockingMaps ==
  ASSUME RInv, NEW t \in Threads, Locking(t)
  PROVE  [Abstract!AbsNext]_(Abstract!absVars)
<1>1. /\ pc[t] = "lock" /\ pc'[t] \in {"idle", "provider", "provout"}
      /\ todo' = todo /\ tokenIn' = tokenIn
      /\ slotOf' = slotOf /\ state' = state /\ live' = live
      /\ \A u \in Threads : u # t => pc'[u] = pc[u] /\ cur'[u] = cur[u]
  BY DEF Locking, LoginRefused, LoginAdmitted, LogoutRefused, LogoutAdmitted, Gate,
     MayLock, Respond, Goto, RInv, SInv, IInv, TypeOK
<1>2. \A s \in Slots : (Entering(s)' <=> Entering(s)) /\ (Leaving(s)' <=> Leaving(s))
  BY <1>1 DEF Entering, Leaving
<1>3. \A h \in Handles : /\ Awaits("share", h)' <=> Awaits("share", h)
                         /\ Awaits("revert", h)' <=> Awaits("revert", h)
  BY <1>1 DEF Awaits
<1>4. \A s \in Slots : TokenOf'[s] = TokenOf[s]
  BY <1>1, <1>2, SameToken
<1>5. \A h \in Handles : ViewOf'[h] = ViewOf[h]
  BY <1>1, <1>3, SameView
<1> QED BY <1>1, <1>4, <1>5, QuietMaps

\* What every step inside Login or Logout has: the thread is alone there.
LEMMA RunningAlone ==
  ASSUME RInv, NEW t \in Threads, Running(t)
  PROVE  /\ pc[t] \in Critical /\ cur[t] \in Handles /\ slotOf[cur[t]] \in Slots
         /\ live' = live /\ slotOf' = slotOf /\ rw' = rw
         /\ \A u \in Threads : u # t => /\ pc[u] \notin Critical /\ pc'[u] = pc[u]
                                        /\ cur'[u] = cur[u] /\ todo'[u] = todo[u]
         /\ \A u \in Threads : u # t => pc'[u] \notin Critical
<1> USE DEF RInv, SInv, IInv, TypeOK
<1>1. pc[t] \in Critical
  BY DEF Running, ProviderAccepts, ProviderRefuses, EnterUser, EnterSO, ShareLogin,
     RevertSession, CopyDone, ProviderLogout, LeaveLoggedIn, Critical, CopyLoops, Phases
<1>2. /\ live' = live /\ slotOf' = slotOf /\ rw' = rw
      /\ \A u \in Threads : u # t => pc'[u] = pc[u] /\ cur'[u] = cur[u] /\ todo'[u] = todo[u]
  BY DEF Running, ProviderAccepts, ProviderRefuses, EnterUser, EnterSO, ShareLogin,
     RevertSession, CopyDone, ProviderLogout, LeaveLoggedIn, Respond, Goto
<1>3. \A u \in Threads : u # t => pc[u] \notin Critical
  BY <1>1, OneCritical
<1>4. cur[t] \in Handles /\ slotOf[cur[t]] \in Slots
  BY <1>1 DEF Pointers, Critical, CopyLoops, Handles
<1> QED BY <1>1, <1>2, <1>3, <1>4

\* The steps of Login and Logout that the abstract state does not see.
LEMMA ProviderMaps ==
  ASSUME RInv, NEW t \in Threads, Running(t),
         ProviderAccepts(t) \/ ProviderRefuses(t) \/ ProviderLogout(t)
  PROVE  [Abstract!AbsNext]_(Abstract!absVars)
<1>1. /\ \A h \in Handles : ~Awaits("share", h) /\ ~Awaits("revert", h)
      /\ \A h \in Handles : ~Awaits("share", h)' /\ ~Awaits("revert", h)'
      /\ state' = state
  <2>1. /\ pc[t] \in {"provider", "provout"} /\ state' = state
        /\ pc'[t] \in {"idle", "enter", "leave"}
    BY DEF ProviderAccepts, ProviderRefuses, ProviderLogout, Respond, Goto, RInv, SInv,
       IInv, TypeOK
  <2> QED BY <2>1, RunningAlone, OnlyThread, OnlyThreadNext
<1>2. \A h \in Handles : ViewOf'[h] = ViewOf[h]
  BY <1>1, RunningAlone, SameView
<1>3. ASSUME NEW s \in Slots PROVE TokenOf'[s] = TokenOf[s]
  <2> USE DEF RInv, SInv, IInv, TypeOK
  <2>1. CASE ProviderAccepts(t)
    <3>1. /\ ~Entering(s) /\ ~Leaving(s) /\ ~Leaving(s)'
          /\ Entering(s)' <=> s = slotOf[cur[t]]
          /\ s # slotOf[cur[t]] => tokenIn'[s] = tokenIn[s]
          /\ ~tokenIn[slotOf[cur[t]]]
      <4>1. /\ pc[t] = "provider" /\ pc'[t] = "enter" /\ cur' = cur
            /\ tokenIn' = [tokenIn EXCEPT ![slotOf[cur[t]]] = TRUE]
            /\ ~tokenIn[slotOf[cur[t]]]
        BY <2>1 DEF ProviderAccepts, Goto
      <4>2. s # slotOf[cur[t]] => tokenIn'[s] = tokenIn[s]
        BY <4>1
      <4>3. ~Entering(s) /\ ~Leaving(s)
        BY <4>1, RunningAlone, OnlyThread
      <4>4. ~Leaving(s)' /\ (Entering(s)' <=> s = slotOf[cur[t]])
        BY <4>1, RunningAlone, OnlyThreadNext
      <4> QED BY <4>1, <4>2, <4>3, <4>4
    <3> QED BY <3>1 DEF TokenOf
  <2>2. CASE ProviderRefuses(t)
    <3>1. ~Entering(s) /\ ~Leaving(s) /\ ~Leaving(s)' /\ ~Entering(s)' /\ tokenIn' = tokenIn
      BY <2>2, RunningAlone, OnlyThread, OnlyThreadNext DEF ProviderRefuses, Respond
    <3> QED BY <3>1 DEF TokenOf
  <2>3. CASE ProviderLogout(t)
    <3>1. /\ ~Entering(s) /\ ~Leaving(s) /\ ~Entering(s)'
          /\ Leaving(s)' <=> s = slotOf[cur[t]]
          /\ s # slotOf[cur[t]] => tokenIn'[s] = tokenIn[s]
          /\ ~tokenIn'[slotOf[cur[t]]]
      <4>1. /\ pc[t] = "provout" /\ pc'[t] = "leave" /\ cur' = cur
            /\ tokenIn' = [tokenIn EXCEPT ![slotOf[cur[t]]] = FALSE]
        BY <2>3 DEF ProviderLogout, Goto
      <4>2. /\ s # slotOf[cur[t]] => tokenIn'[s] = tokenIn[s]
            /\ ~tokenIn'[slotOf[cur[t]]]
        BY <4>1, RunningAlone
      <4>3. ~Entering(s) /\ ~Leaving(s)
        BY <4>1, RunningAlone, OnlyThread
      <4>4. ~Entering(s)' /\ (Leaving(s)' <=> s = slotOf[cur[t]])
        BY <4>1, RunningAlone, OnlyThreadNext
      <4> QED BY <4>2, <4>3, <4>4
    <3>2. tokenIn[slotOf[cur[t]]] = TRUE
      BY <2>3, RunningAlone DEF ProviderLogout, LogoutFinds
    <3> QED BY <3>1, <3>2 DEF TokenOf
  <2> QED BY <2>1, <2>2, <2>3
<1> QED BY <1>2, <1>3, RunningAlone, QuietMaps

\* The step in which the login of a user takes effect for every session.
LEMMA EnterUserMaps ==
  ASSUME RInv, RInv', NEW t \in Threads, EnterUser(t)
  PROVE  Abstract!AbsLoginUser(slotOf[cur[t]])
<1> DEFINE s == slotOf[cur[t]]
<1>0. Running(t)
  BY DEF Running
<1>1. /\ pc[t] = "enter" /\ pc'[t] = "share" /\ s \in Slots /\ cur' = cur
      /\ cur[t] \in Handles /\ slotOf' = slotOf /\ live' = live /\ tokenIn' = tokenIn
      /\ todo'[t] = OnSlot(s)
      /\ \A h \in Handles : h # cur[t] => state'[h] = state[h]
  BY <1>0, RunningAlone DEF EnterUser, Goto, RInv, SInv, IInv, TypeOK
<1> HIDE DEF s
<1>2. /\ \A h \in Handles : ~Awaits("share", h) /\ ~Awaits("revert", h)
      /\ \A h \in Handles : ~Awaits("revert", h)' /\ (Awaits("share", h)' <=> h \in OnSlot(s))
      /\ \A r \in Slots : /\ Entering(r) <=> r = s
                          /\ ~Leaving(r) /\ ~Leaving(r)' /\ ~Entering(r)'
  BY <1>0, <1>1, RunningAlone, OnlyThread, OnlyThreadNext DEF s
<1>3. TokenOf[s] = FALSE /\ TokenOf' = [TokenOf EXCEPT ![s] = TRUE]
  <2>1. tokenIn[s] = TRUE
    BY <1>1 DEF RInv, SInv, IInv, TypeOK, ProviderAhead, s
  <2>2. TokenOf[s] = FALSE /\ TokenOf'[s] = TRUE
    BY <1>1, <1>2, <2>1 DEF TokenOf
  <2>3. \A r \in Slots : r # s => TokenOf'[r] = TokenOf[r]
    BY <1>1, <1>2, SameToken
  <2> QED BY <1>1, <2>2, <2>3, TokenBecomes
<1>4. ASSUME NEW h \in Handles, h \in OnSlot(s) PROVE ViewOf'[h] = "user"
  <2>1. state'[h] # "RWSO" /\ h \in live'
    BY <1>1, <1>4 DEF RInv, SInv, LoginSpreads, OnSlot, s
  <2> QED BY <1>2, <1>4, <2>1, ShowsNext DEF Shows
<1>5. ASSUME NEW h \in Handles, h \notin OnSlot(s) PROVE ViewOf'[h] = ViewOf[h]
  <2>1. h \in live => h # cur[t]
    BY <1>1, <1>5 DEF OnSlot, s
  <2> QED BY <1>1, <1>2, <1>5, <2>1, SameView
<1>6. ViewOf' = [h \in Handles |-> IF h \in OnSlot(s) THEN "user" ELSE ViewOf[h]]
  BY <1>4, <1>5 DEF ViewOf
<1>7. Abstract!AbsOn(s) = OnSlot(s)
  BY AbsOnSlot
<1> QED BY <1>1, <1>3, <1>6, <1>7 DEF Abstract!AbsLoginUser, s

\* The SO's login: the session it was made on shows it, if it is still open.
LEMMA EnterSOMaps ==
  ASSUME RInv, NEW t \in Threads, EnterSO(t)
  PROVE  Abstract!AbsLoginSO(slotOf[cur[t]], {cur[t]} \cap live)
<1> DEFINE s == slotOf[cur[t]]
           H == {cur[t]} \cap live
<1>0. Running(t)
  BY DEF Running
<1>1. /\ pc[t] = "enter" /\ pc'[t] = "idle" /\ s \in Slots
      /\ cur[t] \in Handles /\ slotOf' = slotOf /\ live' = live /\ tokenIn' = tokenIn
      /\ state'[cur[t]] = "RWSO"
      /\ \A h \in Handles : h # cur[t] => state'[h] = state[h]
  BY <1>0, RunningAlone DEF EnterSO, Respond, RInv, SInv, IInv, TypeOK
<1>2. /\ \A h \in Handles : ~Awaits("share", h) /\ ~Awaits("revert", h)
      /\ \A h \in Handles : ~Awaits("share", h)' /\ ~Awaits("revert", h)'
      /\ \A r \in Slots : /\ Entering(r) <=> r = s
                          /\ ~Leaving(r) /\ ~Leaving(r)' /\ ~Entering(r)'
  BY <1>0, <1>1, RunningAlone, OnlyThread, OnlyThreadNext
<1>3. TokenOf[s] = FALSE /\ TokenOf' = [TokenOf EXCEPT ![s] = TRUE]
  <2>1. tokenIn[s] = TRUE
    BY <1>1 DEF RInv, SInv, IInv, TypeOK, ProviderAhead
  <2>2. TokenOf[s] = FALSE /\ TokenOf'[s] = TRUE
    BY <1>1, <1>2, <2>1 DEF TokenOf
  <2>3. \A r \in Slots : r # s => TokenOf'[r] = TokenOf[r]
    BY <1>1, <1>2, SameToken
  <2> QED BY <1>1, <2>2, <2>3, TokenBecomes
<1>4. ASSUME NEW h \in Handles, h \in H PROVE ViewOf'[h] = "so"
  <2>1. h \in live' /\ state'[h] = "RWSO" /\ Role(state'[h]) = "so"
    BY <1>1, <1>4, Roles DEF SessionStates, LoggedInStates
  <2> QED BY <1>2, <2>1, ShowsNext DEF Shows
<1>5. ASSUME NEW h \in Handles, h \notin H PROVE ViewOf'[h] = ViewOf[h]
  <2>1. h \in live => h # cur[t]
    BY <1>5
  <2> QED BY <1>1, <1>2, <1>5, <2>1, SameView
<1>6. ViewOf' = [h \in Handles |-> IF h \in H THEN "so" ELSE ViewOf[h]]
  BY <1>4, <1>5 DEF ViewOf
<1>7. H \subseteq Abstract!AbsOn(s)
  BY AbsOnSlot DEF OnSlot
<1> QED BY <1>1, <1>3, <1>6, <1>7 DEF Abstract!AbsLoginSO

\* The step in which a logout takes effect for every session.
LEMMA LeaveMaps ==
  ASSUME RInv, NEW t \in Threads, LeaveLoggedIn(t)
  PROVE  Abstract!AbsLogout(slotOf[cur[t]])
<1> DEFINE s == slotOf[cur[t]]
<1>0. Running(t)
  BY DEF Running
<1>1. /\ pc[t] = "leave" /\ pc'[t] = "revert" /\ s \in Slots /\ cur' = cur
      /\ cur[t] \in Handles /\ slotOf' = slotOf /\ live' = live /\ tokenIn' = tokenIn
      /\ todo'[t] = OnSlot(s)
      /\ \A h \in Handles : h # cur[t] => state'[h] = state[h]
  BY <1>0, RunningAlone DEF LeaveLoggedIn, Goto, RInv, SInv, IInv, TypeOK
<1>2. /\ \A h \in Handles : ~Awaits("share", h) /\ ~Awaits("revert", h)
      /\ \A h \in Handles : ~Awaits("share", h)' /\ (Awaits("revert", h)' <=> h \in OnSlot(s))
      /\ \A r \in Slots : /\ Leaving(r) <=> r = s
                          /\ ~Entering(r) /\ ~Leaving(r)' /\ ~Entering(r)'
  BY <1>0, <1>1, RunningAlone, OnlyThread, OnlyThreadNext
<1>3. TokenOf[s] = TRUE /\ TokenOf' = [TokenOf EXCEPT ![s] = FALSE]
  <2>1. tokenIn[s] = FALSE
    BY <1>1 DEF RInv, SInv, IInv, TypeOK, ProviderAhead
  <2>2. TokenOf[s] = TRUE /\ TokenOf'[s] = FALSE
    BY <1>1, <1>2, <2>1 DEF TokenOf
  <2>3. \A r \in Slots : r # s => TokenOf'[r] = TokenOf[r]
    BY <1>1, <1>2, SameToken
  <2> QED BY <1>1, <2>2, <2>3, TokenBecomes
<1>4. ASSUME NEW h \in Handles, h \in OnSlot(s) PROVE ViewOf'[h] = "public"
  <2>1. h \in live'
    BY <1>1, <1>4 DEF OnSlot
  <2> QED BY <1>2, <1>4, <2>1, ShowsNext DEF Shows
<1>5. ASSUME NEW h \in Handles, h \notin OnSlot(s) PROVE ViewOf'[h] = ViewOf[h]
  <2>1. h \in live => h # cur[t]
    BY <1>1, <1>5 DEF OnSlot
  <2> QED BY <1>1, <1>2, <1>5, <2>1, SameView
<1>6. ViewOf' = [h \in Handles |-> IF h \in OnSlot(s) THEN "public" ELSE ViewOf[h]]
  BY <1>4, <1>5 DEF ViewOf
<1>7. Abstract!AbsOn(s) = OnSlot(s)
  BY AbsOnSlot
<1> QED BY <1>1, <1>3, <1>6, <1>7 DEF Abstract!AbsLogout

\* A copy loop makes what every session shows already; its end changes
\* nothing that is shown.
LEMMA CopyMaps ==
  ASSUME RInv, NEW t \in Threads,
         \/ \E g \in todo[t] : ShareLogin(t, g) \/ RevertSession(t, g)
         \/ CopyDone(t)
  PROVE  [Abstract!AbsNext]_(Abstract!absVars)
<1>0. Running(t)
  BY DEF Running
<1>1. /\ pc[t] \in CopyLoops /\ pc'[t] \in {"idle", pc[t]} /\ tokenIn' = tokenIn
      /\ todo'[t] \subseteq todo[t]
      /\ todo[t] \subseteq OnSlot(slotOf[cur[t]])
  BY <1>0, RunningAlone DEF ShareLogin, RevertSession, CopyDone, Respond, RInv, SInv, IInv,
     TypeOK, Phases, CopyLoops
<1>2. \A r \in Slots : ~Entering(r) /\ ~Leaving(r) /\ ~Entering(r)' /\ ~Leaving(r)'
  BY <1>0, <1>1, RunningAlone, OnlyThread, OnlyThreadNext DEF CopyLoops
<1>3. \A r \in Slots : TokenOf'[r] = TokenOf[r]
  BY <1>1, <1>2, SameToken
<1>4. \A h \in Handles :
        /\ Awaits("share", h) <=> pc[t] = "share" /\ h \in todo[t]
        /\ Awaits("revert", h) <=> pc[t] = "revert" /\ h \in todo[t]
        /\ Awaits("share", h)' <=> pc'[t] = "share" /\ h \in todo'[t]
        /\ Awaits("revert", h)' <=> pc'[t] = "revert" /\ h \in todo'[t]
  BY <1>0, RunningAlone, OnlyThread, OnlyThreadNext
<1>5. ASSUME NEW h \in Handles PROVE ViewOf'[h] = ViewOf[h]
  <2>1. CASE CopyDone(t)
    <3>1. pc'[t] = "idle" /\ todo[t] = {} /\ state' = state
      BY <2>1 DEF CopyDone, Respond, RInv, SInv, IInv, TypeOK
    <3> QED BY <1>0, <1>4, <3>1, RunningAlone, SameView
  <2>2. ASSUME NEW g \in todo[t], ShareLogin(t, g) PROVE ViewOf'[h] = ViewOf[h]
    <3>0. g \in OnSlot(slotOf[cur[t]]) /\ pc[t] = "share"
      BY <1>1, <2>2 DEF ShareLogin
    <3>1. /\ pc[t] = "share" /\ pc' = pc /\ todo'[t] = todo[t] \ {g}
          /\ g \in Handles /\ g \in live /\ state[g] \in SessionStates
          /\ state[g] # "RWSO" /\ state'[g] = UserState(state[g])
          /\ h # g => state'[h] = state[h]
      <4>1. g \in live /\ g \in Handles
        BY <3>0, RunningAlone DEF OnSlot, RInv, SInv, IInv, TypeOK, Handles
      <4>2. state[g] # "RWSO"
        BY <3>0 DEF RInv, SInv, LoginSpreads
      <4> QED BY <2>2, <3>0, <4>1, <4>2 DEF ShareLogin, RInv, SInv, IInv, TypeOK
    <3>2. CASE h # g
      BY <1>0, <1>4, <3>1, <3>2, RunningAlone, SameView
    <3>3. CASE h = g
      <4>1. ViewOf[h] = "user"
        BY <1>4, <3>1, <3>3, ShowsNow DEF Shows
      <4>2. UserState(state[g]) \in {"ROUser", "RWUser"}
        BY <3>1 DEF UserState, SessionStates, PublicStates, LoggedInStates
      <4>3. Role(UserState(state[g])) = "user"
        BY <4>2, Roles DEF SessionStates, LoggedInStates
      <4>4. ViewOf'[h] = Role(state'[h])
        BY <1>0, <1>4, <3>1, <3>3, RunningAlone, ShowsNext DEF Shows
      <4> QED BY <3>1, <3>3, <4>1, <4>3, <4>4
    <3> QED BY <3>2, <3>3
  <2>3. ASSUME NEW g \in todo[t], RevertSession(t, g) PROVE ViewOf'[h] = ViewOf[h]
    <3>1. /\ pc[t] = "revert" /\ pc' = pc /\ todo'[t] = todo[t] \ {g}
          /\ g \in Handles /\ g \in live /\ state[g] \in SessionStates
          /\ state'[g] = PublicState(state[g])
          /\ h # g => state'[h] = state[h]
      BY <1>0, <1>1, <2>3, RunningAlone DEF RevertSession, RInv, SInv, IInv, TypeOK, OnSlot
    <3>2. CASE h # g
      BY <1>0, <1>4, <3>1, <3>2, RunningAlone, SameView
    <3>3. CASE h = g
      <4>1. ViewOf[h] = "public"
        BY <1>4, <3>1, <3>3, ShowsNow DEF Shows
      <4>2. PublicState(state[g]) \in PublicStates
        BY <3>1, StateRanges
      <4>3. Role(PublicState(state[g])) = "public"
        BY <4>2, Roles DEF SessionStates
      <4>4. ViewOf'[h] = Role(state'[h])
        BY <1>0, <1>4, <3>1, <3>3, RunningAlone, ShowsNext DEF Shows
      <4> QED BY <3>1, <3>3, <4>1, <4>3, <4>4
    <3> QED BY <3>2, <3>3
  <2> QED BY <2>1, <2>2, <2>3
<1> QED BY <1>0, <1>3, <1>5, RunningAlone, QuietMaps

LEMMA RunningMaps ==
  ASSUME RInv, RInv', NEW t \in Threads, Running(t)
  PROVE  [Abstract!AbsNext]_(Abstract!absVars)
<1>1. slotOf[cur[t]] \in Slots /\ live \subseteq Handles
  BY RunningAlone DEF RInv, SInv, IInv, TypeOK, Handles
<1>2. CASE EnterUser(t)
  <2>1. Abstract!AbsLoginUser(slotOf[cur[t]])
    BY <1>2, EnterUserMaps
  <2> QED BY <1>1, <2>1 DEF Abstract!AbsNext
<1>3. CASE EnterSO(t)
  <2>1. Abstract!AbsLoginSO(slotOf[cur[t]], {cur[t]} \cap live)
    BY <1>3, EnterSOMaps
  <2>2. {cur[t]} \cap live \in SUBSET Handles
    BY <1>1
  <2> QED BY <1>1, <2>1, <2>2 DEF Abstract!AbsNext
<1>4. CASE LeaveLoggedIn(t)
  <2>1. Abstract!AbsLogout(slotOf[cur[t]])
    BY <1>4, LeaveMaps
  <2> QED BY <1>1, <2>1 DEF Abstract!AbsNext
<1>5. CASE ProviderAccepts(t) \/ ProviderRefuses(t) \/ ProviderLogout(t)
  BY <1>5, ProviderMaps
<1>6. CASE \/ \E g \in todo[t] : ShareLogin(t, g) \/ RevertSession(t, g)
           \/ CopyDone(t)
  BY <1>6, CopyMaps
<1> QED BY <1>2, <1>3, <1>4, <1>5, <1>6 DEF Running

LEMMA RInvHolds == SerialSpec => []RInv
<1>1. Init => LogoutFinds
  BY DEF Init, LogoutFinds
<1>2. SInv /\ LogoutFinds /\ [Next /\ Serial']_vars => LogoutFinds'
  <2>1. CASE UNCHANGED vars
    BY <2>1 DEF LogoutFinds, LoggedIn, vars
  <2> QED BY <2>1, LogoutFindsStep DEF RInv
<1>3. SerialSpec => []LogoutFinds
  BY <1>1, <1>2, SInvHolds, PTL DEF SerialSpec
<1> QED BY <1>3, SInvHolds, PTL DEF RInv

LEMMA InitMaps == Init => Abstract!AbsInit
<1> SUFFICES ASSUME Init PROVE Abstract!AbsInit
  OBVIOUS
<1>1. TokenOf = [s \in Slots |-> FALSE]
  BY DEF Init, TokenOf, Entering, Leaving
<1>2. \A h \in Handles : ViewOf[h] = "closed"
  BY ShowsNow DEF Init, Shows
<1>3. ViewOf = [h \in Handles |-> "closed"]
  BY <1>2 DEF ViewOf
<1> QED BY <1>1, <1>3 DEF Init, Abstract!AbsInit

\* The manager implements the shared login: to a client, C_Login and C_Logout
\* are single events every open session of the token observes at once, though
\* the daemon sets the provider's flag first and copies the state session by
\* session, while sessions open and close (manager.go:155-291).
THEOREM SharedLoginImplemented == SerialSpec => ImplementsSharedLogin
<1>1. RInv /\ RInv' /\ [Next /\ Serial']_vars => [Abstract!AbsNext]_(Abstract!absVars)
  <2>1. ASSUME RInv, RInv', Next PROVE [Abstract!AbsNext]_(Abstract!absVars)
    BY <2>1, RequestMaps, LockingMaps, RunningMaps DEF Next
  <2>2. ASSUME UNCHANGED vars PROVE UNCHANGED Abstract!absVars
    BY <2>2 DEF vars, Abstract!absVars, TokenOf, ViewOf, Entering, Leaving, Awaits
  <2> QED BY <2>1, <2>2
<1> QED BY <1>1, InitMaps, RInvHolds, PTL DEF SerialSpec, ImplementsSharedLogin, Abstract!Spec
=============================================================================
