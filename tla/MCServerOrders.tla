--------------------------- MODULE MCServerOrders ---------------------------
(* Small instances of what users ask of the server: certificates (CertOrders), and
   that it believes what they claim (Verification).  The code reads no info where
   it handles an order (workflow/service.go), so a behaviour is of one part; as
   the parts never meet they share model values, and one permutation serves both. *)
EXTENDS CertOrders, Verification, TLC

CONSTANTS q1, q2, u1, u2, a1, a2, v1, v2, i1, i2, i3, z1, m1, o3, c1

\* Two orders cost more than the user has; a third is free.
MCAmount == [o \in Orders |-> IF o = o3 THEN 0 ELSE 2]

\* One domain and one mailbox or address for each template; u2 holds v2.
LimitOne == [x \in Templates \X Types |-> IF x[2] = "ip" THEN 0 ELSE 1]
Thirty == [t \in Templates |-> 30]
Holders == v1 :> u1 @@ v2 :> u2

\* Who holds what may be swapped as a whole.
Swap == u1 :> u2 @@ u2 :> u1 @@ v1 :> v2 @@ v2 :> v1
Symmetric == Permutations({q1, q2}) \cup Permutations({i1, i2, i3}) \cup {Swap}

Used == {i \in Infos : info[i].is # "none"}
Deleted == {i \in Infos : info[i].is = "deleted"}
Claims1 == {info[i].claim : i \in Used}
             \cup {work[r].claim : r \in {q \in Checks : work[q].info # NoInfo}}
Templated == \E t \in Templates : template[t] # "none"
At(pcs) == {r \in Checks : work[r].pc \in pcs}
Verifying == At({"look", "mark", "write"})
FailedReads == excused \cap ({"limit", "days"} \X Infos)
Proving == shown # {} \/ Verifying # {}

\* Bounds: applications come in order; a free order meets one other, and of overlaps, failures and second
\* applications a behaviour meets two.
FewOrders ==
    /\ app[a2] # "none" => app[a1] # "none"
    /\ status[o3] # "none" => \E o \in Orders : status[o] = "none"
    /\ Cardinality(odd) <= 2

\* Bounds: reviews meet nothing else.  The infos of a behaviour are of one type and
\* one method, and of one template or without one, which is not there then.  Where
\* something is proved there is one row, maybe one that followed it, or two
\* users' rows for one domain, proved by one request at a time and once each.
\* One read fails and is passed over: of the limit where nothing is proved, of the
\* days where there is one row.
OneTopic ==
    /\ (\E s \in Subjects : subject[s].is # "none") => ~Templated /\ Claims1 = {}
    /\ \A c, d \in Claims1 :
            /\ \A f \in {"type", "method", "template"} : c[f] = d[f]
            /\ c.user = d.user \/ c.value = d.value
            /\ Templated => c.template # NoTemplate
    /\ \A u \in Claimants, t \in Templates, type \in Types :
            <<u, t, type>> \in excused => \E c \in Claims1 : Key(c) = <<u, t, type>>
    /\ Cardinality(FailedReads) <= 1
    /\ Proving =>
        /\ \A x \in FailedReads : x[1] = "days" /\ Cardinality(Used) = 1
        /\ Cardinality(shown) <= IF Deleted = {} THEN Cardinality(Used) ELSE 1
        /\ Cardinality({c.value : c \in Claims1}) = 1
        /\ \A c \in Claims1 : c.type = "ip" => c.template = NoTemplate
        /\ Cardinality(Used) > 1 =>
            /\ Deleted = {} => \A c \in Claims1 : c.type = "domain"
            /\ At({"count", "insert"}) = {} /\ Cardinality(Verifying) <= 1

Bounds == FewOrders /\ OneTopic

VARIABLE part
MCInit == /\ Init /\ InfosInit /\ part \in {"orders", "infos"}
          /\ part = "infos" => ~auto
MCNext == /\ UNCHANGED part
          /\ \/ part = "orders" /\ Next /\ UNCHANGED infoVars
             \/ part = "infos" /\ InfosNext /\ UNCHANGED vars
MCSpec == MCInit /\ [][MCNext]_<<vars, infoVars, part>>
=============================================================================
