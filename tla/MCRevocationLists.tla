-------------------------- MODULE MCRevocationLists --------------------------
(* Small instances of RevocationLists. *)
EXTENDS RevocationLists

CONSTANTS c1, x1, r1, p1

\* Bound: of the configurations that do not ask for a CRL, the one with the
\* default interval, which nothing reads.
OneIdleConfig ==
    \A p \in Configs : config[p] \in ServiceConfigs /\ ~config[p].crl
                         => config[p].interval = DefaultInterval
=============================================================================
