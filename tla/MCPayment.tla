----------------------------- MODULE MCPayment -----------------------------
(* Small instances of Payment for TLC. *)
EXTENDS Payment, TLC

\* Requests, orders and refunds are interchangeable.
Symmetric == Permutations(PayRequests) \cup Permutations(Recharges)
                \cup Permutations(Refunds)
=============================================================================
