----------------------------- MODULE MCSessions -----------------------------
(* Small instances of the sessions of a token: what the manager knows of their
   login (TokenSessions, with authentications in turn), and what their operations do
   (SessionOperations). *)
EXTENDS TokenSessions, SessionOperations, TLC

\* Goroutines are interchangeable; the cfg gives Workers the values of Threads.
Symmetric == Permutations(Threads)

\* The two do not read each other's state: a behaviour is of one of them.
VARIABLE part
MCInit == Init /\ OpsInit /\ part \in {"manager", "operations"}
MCNext ==
    /\ UNCHANGED part
    /\ \/ part = "manager" /\ Next /\ Serial' /\ UNCHANGED sessionVars
       \/ part = "operations" /\ OpsNext /\ UNCHANGED vars
MCSpec == MCInit /\ [][MCNext]_<<vars, sessionVars, part>>

\* Bounds: searches and kinds share no flag and no handle, so that one of them is begun
\* twice by a session, and no search meets that; the manager needs no card.
OneKindTwice ==
    /\ \A s \in Sessions :
            LET twice == {k \in Kinds : Len(named[s][k]) > 1}
            IN  Cardinality(twice) <= (IF finding[s] THEN 0 ELSE 1)
    /\ part = "manager" => card = <<>>
=============================================================================
