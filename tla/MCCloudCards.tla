---------------------------- MODULE MCCloudCards ----------------------------
(* Small instances of CloudCards. *)
EXTENDS CloudCards, TLC

CONSTANTS t1, t2, u1, u2, c1, c2, k1, k2, x1, x2

Symmetric == Permutations({t1, t2}) \cup Permutations({k1, k2})
                \cup Permutations({x1, x2})

\* Bound: the second card, which is there for the sessions and keys that are
\* not the first one's, is made after it, has a PIN, no PUK and no Admin Key, and
\* no failures; it meets a first card that is reset in one of the two ways.
SecondCardIsPlain ==
    c2 \in made =>
        /\ c1 \in made /\ ~(pukSet[c1] /\ adminSet[c1])
        /\ pinSet[c2] /\ ~pukSet[c2] /\ ~adminSet[c2] /\ failed[c2] = 0
=============================================================================
