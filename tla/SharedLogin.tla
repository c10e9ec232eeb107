---------------------------- MODULE SharedLogin ----------------------------
(***************************************************************************)
(* What the session manager promises its clients: logging in and out are   *)
(* single events that every open session of the token observes at once.    *)
(* A session is what C_GetSessionInfo shows of it: closed, public, in a    *)
(* user state or in the SO state.  There are no threads, locks or copies.  *)
(***************************************************************************)
CONSTANTS Handles, Slots, NoSlot

VARIABLES
    in,     \* is the token logged in
    slotOf, \* the slot of a session
    view    \* what a session shows

absVars == <<in, slotOf, view>>

AbsInit ==
    /\ in = [s \in Slots |-> FALSE]
    /\ slotOf = [h \in Handles |-> NoSlot]
    /\ view = [h \in Handles |-> "closed"]

AbsOn(s) == {h \in Handles : view[h] # "closed" /\ slotOf[h] = s}

\* A new session is public, or shows what a session of the token shows that is open:
\* a manager may share a login with the sessions opened later or not.
AbsOpen(s, h) ==
    /\ view[h] = "closed"
    /\ slotOf' = [slotOf EXCEPT ![h] = s]
    /\ \E shows \in {"public"} \cup {view[g] : g \in AbsOn(s)} :
           view' = [view EXCEPT ![h] = shows]
    /\ in' = in

\* Closing sessions, the last one included, leaves the token logged in.
AbsClose(H) ==
    /\ view' = [h \in Handles |-> IF h \in H THEN "closed" ELSE view[h]]
    /\ UNCHANGED <<in, slotOf>>

\* A user login is seen by every open session of the token.
AbsLoginUser(s) ==
    /\ ~in[s]
    /\ in' = [in EXCEPT ![s] = TRUE]
    /\ view' = [h \in Handles |-> IF h \in AbsOn(s) THEN "user" ELSE view[h]]
    /\ slotOf' = slotOf

\* An SO login is seen by the session it was made on, if that is still open.
AbsLoginSO(s, H) ==
    /\ ~in[s] /\ H \subseteq AbsOn(s)
    /\ \A h, g \in H : h = g
    /\ in' = [in EXCEPT ![s] = TRUE]
    /\ view' = [h \in Handles |-> IF h \in H THEN "so" ELSE view[h]]
    /\ slotOf' = slotOf

AbsLogout(s) ==
    /\ in[s]
    /\ in' = [in EXCEPT ![s] = FALSE]
    /\ view' = [h \in Handles |-> IF h \in AbsOn(s) THEN "public" ELSE view[h]]
    /\ slotOf' = slotOf

AbsNext ==
    \/ \E s \in Slots, h \in Handles : AbsOpen(s, h)
    \/ \E H \in SUBSET Handles : AbsClose(H)
    \/ \E s \in Slots : AbsLoginUser(s) \/ AbsLogout(s)
    \/ \E s \in Slots, H \in SUBSET Handles : AbsLoginSO(s, H)

Spec == AbsInit /\ [][AbsNext]_absVars
=============================================================================
