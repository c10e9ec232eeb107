------------------------------ MODULE MCAccounts ------------------------------
(* Small instances of Accounts. *)
EXTENDS Accounts, TLC

CONSTANTS u1, u2, e1, e2, p1, p2, t1, t2, s1, s2, k1, k2, r1, r2

Symmetric == Permutations({r1, r2}) \cup Permutations({t1, t2})
               \cup Permutations({s1, s2}) \cup Permutations({k1, k2})

At(kinds) == \E r \in Requests : job[r].kind \in kinds
SecondFactor == row[u1].totp \/ pending # {} \/ given \cap Sessions # {}
Passworded == given \cap Codes # {} \/ row[u1].password # p1 \/ At({"change", "update"})
Locking == row[u1].failed > 0
Administered ==
    \/ row[u1].role # "admin" \/ ~row[u1].enabled
    \/ \E t \in Tokens : token[t].role = "user" /\ token[t].user = u1
    \/ \E r \in Requests : job[r].role = "user" /\ job[r].user = u1
Doubled == row[u2].is # "none" \/ row[u1].email # e1 \/ At({"register", "create"})

Signed == {t \in Tokens : token[t].is # "none"}

\* Bounds: failures meet a second factor that is bound (the token that did it
\* has expired); administration, passwords, a second account and a new start
\* are each met by logins and tokens alone, a second account by its own token.  A
\* second token is signed where the blacklist is lost or holds a user.  Failures go
\* one past the lock.  One request at a time misses what it should have found, with
\* one password.
Topics ==
    {i \in {"factor", "locking", "roles", "passwords", "second", "start"} :
        \/ i = "factor" /\ SecondFactor
        \/ i = "locking" /\ Locking
        \/ i = "roles" /\ Administered
        \/ i = "passwords" /\ Passworded
        \/ i = "second" /\ Doubled
        \/ i = "start" /\ restarts > 0}

Missing == {r \in Requests : job[r].missed # {}}

OneTopic ==
    /\ \/ Cardinality(Topics) <= 1
       \/ /\ Topics = {"factor", "locking"}
          /\ Cardinality(given) <= 1 /\ pending = {} /\ blacklist = {}
          /\ ~At({"refresh", "logout", "bind", "unbind"})
          /\ \A t \in Signed : token[t].is = "expired"
    /\ Cardinality(Signed) <= IF Topics \subseteq {"passwords", "start"} THEN 2 ELSE 1
    /\ "second" \in Topics => ~At({"login"}) /\ \A t \in Signed : token[t].user = u2
    /\ row[u1].failed <= MaxAttempts + 1
    /\ Cardinality(Missing) <= 1 /\ \A r \in Missing : job[r].password = p2
=============================================================================
