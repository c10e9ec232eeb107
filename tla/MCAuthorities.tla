---------------------------- MODULE MCAuthorities ----------------------------
(* Small instances of Authorities. *)
EXTENDS Authorities, TLC

CONSTANTS c1, c2, x1, x2, k1, k2, t1, r1, r2

Symmetric == Permutations({r1, r2}) \cup Permutations({x1, x2})
               \cup Permutations({k1, k2})

Chained == At({"append"}) # {} \/ \E c \in CAs : chain[c] # {}
Templated == extension \/ \E t \in Templates : template[t] # NoRow
Revoked ==
    \/ At({"renew", "mark", "lookup", "insert"}) # {}
    \/ renewed # {} \/ \E c \in CAs : revoked[c] # {}
Parented == \E c \in CAs : parent[c] # NoCA
Disabled == \E c \in CAs : ca[c] = "disabled"

Issued == \E x \in Certs : Fresh(x) = FALSE
Deleted == At({"children", "delete"}) # {} \/ \E c \in CAs : ca[c] = "gone"

\* Bounds: chains, templates, revocations, children and disabled CAs touch no
\* common row but the CA's, and do not all meet each other.  Chains and
\* children meet deletions; templates meet issues; the other two meet both.
\* The second CA is the child, or the one that the template does not allow.
\* An issue that fails after it is counted may be tried again, once.  One issue at
\* a time misses what it should have read.
OneTopic ==
    /\ Cardinality({i \in 1 .. 5 :
            <<Chained, Templated, Revoked, Parented, Disabled>>[i]}) <= 1
    /\ Chained \/ Parented => ~Issued
    /\ Templated => ~Deleted
    /\ ca[c2] # "none" => parent[c2] = c1 \/ Templated
    /\ parent[c1] = NoCA /\ parent[c2] # c2
    /\ \A t \in Templates : template[t].cas \in {{}, {c1}}
    /\ \A c \in CAs : count[c] <= 2
    /\ Cardinality({r \in Requests : job[r].unread # {}}) <= 1
=============================================================================
