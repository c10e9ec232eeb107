---------------------------- MODULE MCClientStore ----------------------------
(* Small instances of the client without its sessions: ClientStore, and a cloud
   slot, which shares neither rows nor locks with it. *)
EXTENDS ClientStore, CloudSlot, TLC

CONSTANTS alice, bob, t3, c1, c2, u1, u2, x1, x2, s1, s2, r1, r2, k1, k2, i1, i2, y1, a1

Symmetric == Permutations({r1, r2}) \cup Permutations({i1, i2})

\* A card without a PIN, and the same card once it was given one; a PUK that is the
\* password.
Form(pin, puk, admin) ==
    [t \in Types |-> CASE t = "pin"   -> pin
                       [] t = "puk"   -> puk
                       [] t = "admin" -> admin
                       [] t = "card"  -> NoSecret
                       [] OTHER       -> s1]
SmallForms == {Form(NoSecret, s1, s2), Form(s2, s1, s2)}

Busy == {r \in Requests : work[r].pc # "idle"}
Has(Test(_)) == \/ \E i \in Ids : Test(cert[i])
                \/ \E r \in Busy : Test(work[r].new)
Issuing == \E a \in CAs : ca[a].is # "none"
Pairing == LET Pair(c) == c.pair IN Has(Pair)
Waiting == LET Orphan(c) == c.is = "there" /\ c.for = NoKey IN
           Has(Orphan) \/ \E r \in Busy : work[r].orphan # NoId
Tools == {i \in {"ca", "pair", "orphan"} : \/ i = "ca" /\ Issuing
                                           \/ i = "pair" /\ Pairing
                                           \/ i = "orphan" /\ Waiting}

\* Bounds on the toolbox: a CA, pairs that are brought and keys that wait do not
\* meet; a CA that cannot sign is met by no certificate, a revoked certificate by no
\* request; pairs
\* are brought where there is no CSR.
OneTool ==
    /\ Cardinality(Tools) <= 1
    /\ "pair" \in Tools => \A y \in Csrs : csr[y].is = "none"
    /\ \A i \in Ids : cert[i].revoked => Busy = {}
    /\ \A a \in CAs : ca[a].is # "none" /\ ca[a].key # "own" =>
                        \A i \in Ids : cert[i].is = "none"

Working == {r \in Requests : job[r].pc # "idle"}
Ops(ops) == \E r \in Working : job[r].op \in ops
Accounting == user[u1].is = "gone" \/ user[u1].password = s2 \/ Ops({"user"})
Original == {Sealed(c1, f) : f \in SmallForms}
Resetting == \/ Ops({"pin", "puk", "edit"}) \/ \E r \in Working : job[r].pc = "expiry"
             \/ There(c1) /\ row[c1].keys \notin Original
             \/ slot[c1].is /\ slot[c1].keys \notin Original
Signing == Ops({"sign"}) \/ slot[c1].open
Topics == {i \in {"users", "resets", "signing"} : \/ i = "users" /\ Accounting
                                                  \/ i = "resets" /\ Resetting
                                                  \/ i = "signing" /\ Signing}

\* Bounds on the cards: changing users, changing credentials and signing do not
\* meet, but that a slot was made before the credentials changed; a user is changed
\* while there are no certificates, credentials while there is one; one client
\* signs at a time, for two that sign change nothing for each other.
OneTopic ==
    /\ Cardinality(Topics) <= 1
    /\ "users" \in Topics => certs = <<>> /\ ~slot[c1].is /\ row[c1].is # "gone"
    /\ row[c1].is = "gone" /\ "resets" \in Topics => certs = <<>> /\ ~slot[c1].is
    /\ Cardinality({r \in Working : job[r].op = "sign"}) <= 1
    /\ Topics \cap {"resets", "signing"} # {} => ~Ops({"deliver"})
    /\ "resets" \in Topics =>
         /\ Cardinality(Working) + Len(certs) <= 2
         /\ slot[c1].is \/ row[c1].keys["pin"] = NoEntry => Cardinality(Working) <= 1
         /\ certs # <<>> => ~slot[c1].is
         /\ slot[c1].keys \in {NoCredentials, row[c1].keys} \cup Original
         /\ \A r \in Working : job[r].new = IF job[r].op \in {"pin", "puk"} THEN s2 ELSE NoSecret
         /\ \A t \in Types : row[c1].keys[t].attempts > 0 =>
              \A o \in Types \ {t} : row[c1].keys[o].attempts = 0

\* The cloud slot: i1, i2 and t3 are tokens here.
Used == {t \in Tokens : jwt[t].is # "none"}
Calling == {r \in Callers : call[r] # NoCall}
Values == {remote, cloud.objects, cloud.cached}
OneList == /\ Values \subseteq {<<>>, <<x1>>} /\ remote # <<>>
Remembered == {call[r].found : r \in Calling} \cup {call[r].cert : r \in Calling}

\* Bounds on the cloud slot: t3 is the last of the tokens; of a second request, a
\* third token and a list that changes, the run meets one at a time.  A second
\* request is met without background refreshes; a list has one certificate, gains a
\* second or loses them, for the owner alone, whose token dies only as it is refreshed.
OneCloud ==
    /\ t3 \in Used => Used = Tokens
    /\ Cardinality(Calling) = 2 =>
         /\ OneList /\ x2 \notin Remembered /\ Cardinality(Used) <= 2
         /\ ~cloud.expired /\ cloud.waiting = 0
    /\ Cardinality(Used) = 3 => OneList /\ x2 \notin Remembered
    /\ ~OneList =>
         /\ Values \subseteq {<<>>, <<x1>>, <<x2, x1>>}
         /\ \A t \in Used : /\ jwt[t].user = Owner
                            /\ jwt[t].is = "dead" => http.token \in Used \ {t}

Bounds == OneTopic /\ OneTool /\ OneCloud

\* The three share nothing that changes but the start of the program: the run takes
\* them one at a time.
VARIABLE part
MCInit == /\ StoreInit /\ CloudInit /\ part \in {"cards", "toolbox", "cloud"}
          /\ part # "cloud" => remote = <<>>
MCNext ==
    /\ UNCHANGED part
    /\ \/ part \in {"cards", "toolbox"} /\ StartAgain /\ UNCHANGED cloudVars
       \/ part = "cards" /\ CardsStep /\ UNCHANGED cloudVars
       \/ part = "toolbox" /\ ToolboxStep /\ UNCHANGED cloudVars
       \/ part = "cloud" /\ CloudNext /\ UNCHANGED allVars
MCSpec == MCInit /\ [][MCNext]_<<allVars, cloudVars, part>>

=============================================================================
