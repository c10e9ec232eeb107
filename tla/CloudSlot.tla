------------------------------ MODULE CloudSlot ------------------------------
(***************************************************************************)
(* A slot of the client whose card is on the server                          *)
(* (clients/internal/card/cloud/slot.go, client.go), with as much of the      *)
(* server as it meets: the tokens that servers/internal/auth/jwt.go signs and *)
(* the certificates of the card (servers/internal/card/service.go).          *)
(*                                                                         *)
(* The slot has a lock; its HTTP client has the token, which every request    *)
(* reads as it is sent, with the slot's lock (Login, the refresh of the list) *)
(* or without it (signatures, the refresh of the token).  A request may be    *)
(* answered, refused, or lost to the network.                               *)
(***************************************************************************)
EXTENDS Naturals, Sequences, FiniteSets, SequencesExt

CONSTANTS
    Accounts, Owner,    \* accounts of the server; the one the card belongs to
    Tokens,             \* JWTs: never used again
    RemoteCerts,        \* certificates of the card: never used again
    Callers,            \* PKCS#11 clients that sign or decrypt
    MaxRefreshes,       \* bound on the background refreshes that wait
    NoAccount, NoToken, NoRemote

ASSUME OwnerAssumption == Owner \in Accounts /\ NoAccount \notin Accounts
ASSUME CloudNullAssumption == NoToken \notin Tokens /\ NoRemote \notin RemoteCerts
ASSUME RefreshesAssumption == MaxRefreshes \in Nat

VARIABLES
    remote, \* the server's list of the card's certificates, the newest first
    jwt,    \* the server's tokens
    http,   \* the HTTP client: its token, and whether it takes it to be fresh
    cloud,  \* the cloud.Slot
    call    \* signatures in progress

cloudVars == <<remote, jwt, http, cloud, call>>

\* No certificate is listed twice.
Lists == {l \in Seq(RemoteCerts) : IsInjective(l)}

JWTs == [is : {"none", "live", "dead"}, user : Accounts \cup {NoAccount}]

\* mixed: the token comes of a refresh that was under way when a login or logout
\* set another; left: of a login that failed.
Clients == [token : Tokens \cup {NoToken}, ahead : BOOLEAN, mixed : BOOLEAN, left : BOOLEAN]

\* loading: a login holds the lock while it lists the certificates; waiting: the
\* background refreshes started by searches.
CloudSlots ==
    [in : BOOLEAN, user : Accounts \cup {NoAccount}, objects : Lists, cached : Lists,
     expired : BOOLEAN, net : BOOLEAN, loading : BOOLEAN, waiting : 0 .. MaxRefreshes]

\* found: the certificate the handle named when it was shown, user: to whom; sent:
\* the token of the HTTP request; late: a login or logout came in between; again:
\* so did a new list.
Calls == [pc : {"idle", "found", "ensure", "refresh", "post", "posted", "down", "done"},
         handle : Nat, found : RemoteCerts \cup {NoRemote}, cert : RemoteCerts \cup {NoRemote},
         user : Accounts \cup {NoAccount}, sent : Tokens \cup {NoToken},
         late : BOOLEAN, again : BOOLEAN, mixed : BOOLEAN]
NoCall == [pc |-> "idle", handle |-> 0, found |-> NoRemote, cert |-> NoRemote,
           user |-> NoAccount, sent |-> NoToken,
           late |-> FALSE, again |-> FALSE, mixed |-> FALSE]

\* Types; and a slot that nobody is logged in to has no objects, unless it was left a
\* token to list them with: by a login that failed (Login sets it before it lists), or
\* by a refresh of the token that was answered after the logout (client.go:144).
CloudTypeOK ==
    /\ remote \in Lists
    /\ jwt \in [Tokens -> JWTs]
    /\ http \in Clients
    /\ cloud \in CloudSlots
    /\ call \in [Callers -> Calls]
    /\ ~cloud.in /\ cloud.objects # <<>> =>
         http.token # NoToken /\ (http.left \/ http.mixed)

CloudInit ==
    /\ remote \in {<<>>} \cup {<<c>> : c \in RemoteCerts}
    /\ jwt = [t \in Tokens |-> [is |-> "none", user |-> NoAccount]]
    /\ http = [token |-> NoToken, ahead |-> FALSE, mixed |-> FALSE, left |-> FALSE]
    /\ cloud = [in |-> FALSE, user |-> NoAccount, objects |-> <<>>, cached |-> <<>>,
               expired |-> TRUE, net |-> TRUE, loading |-> FALSE, waiting |-> 0]
    /\ call = [r \in Callers |-> NoCall]

-----------------------------------------------------------------------------
(* The server.                                                              *)

Live(t) == t # NoToken /\ jwt[t].is = "live"
\* Only the owner of the card sees its certificates and has it sign (GetCard).
Owned(t) == Live(t) /\ jwt[t].user = Owner
Serves(t, c) == Owned(t) /\ c \in Range(remote)

New(t, u) == [jwt EXCEPT ![t] = [is |-> "live", user |-> u]]

AddRemote(c) ==
    /\ c \notin Range(remote) \cup Range(cloud.cached) \cup Range(cloud.objects)
    /\ \A r \in Callers : call[r].found # c /\ call[r].cert # c
    /\ remote' = <<c>> \o remote
    /\ UNCHANGED <<jwt, http, cloud, call>>

DeleteRemote(c) ==
    /\ \E i \in DOMAIN remote : remote[i] = c /\ remote' = RemoveAt(remote, i)
    /\ UNCHANGED <<jwt, http, cloud, call>>

\* It runs out, or the server revokes it.
TokenDies(t) ==
    /\ jwt[t].is = "live"
    /\ jwt' = [jwt EXCEPT ![t].is = "dead"]
    /\ UNCHANGED <<remote, http, cloud, call>>

-----------------------------------------------------------------------------
(* Login and logout.                                                        *)

CloudUnlocked == ~cloud.loading

CallAt(r, pc) == [call EXCEPT ![r].pc = pc]
EndCall(r) == [call EXCEPT ![r] = NoCall]
Down(r) == [call EXCEPT ![r] = [NoCall EXCEPT !.pc = "down"]]

\* What the requests under way miss.
Crossed == [r \in Callers |->
              IF call[r].pc \in {"idle", "down"} THEN call[r]
              ELSE [call[r] EXCEPT !.again = TRUE, !.late = call[r].pc = "refresh"]]
Relisted == [r \in Callers |-> IF call[r].pc \in {"idle", "down"} THEN call[r]
                                ELSE [call[r] EXCEPT !.again = TRUE]]

\* Mutant: a token that the client has already is kept.
LoginKeepsToken(u, t) ==
    /\ CloudUnlocked /\ ~cloud.in
    /\ jwt[t].is = "none"
    /\ jwt' = New(t, u)
    /\ http' = IF http.token = NoToken THEN [http EXCEPT !.token = t, !.mixed = FALSE] ELSE http
    /\ cloud' = [cloud EXCEPT !.in = TRUE, !.user = u, !.net = TRUE, !.loading = TRUE]
    /\ call' = Crossed
    /\ UNCHANGED remote

\* Login asks the server for a token, and goes on with the lock.  Where the account
\* has a second factor, the answer is good and has no token.
CloudLogin(u, t) ==
    /\ CloudUnlocked /\ ~cloud.in
    /\ jwt[t].is = "none"
    /\ \E user \in {u, NoAccount} :
         /\ jwt' = IF user = u THEN New(t, u) ELSE jwt
         /\ http' = [http EXCEPT !.token = IF user = u THEN t ELSE NoToken,
                              !.mixed = FALSE, !.left = FALSE]
         /\ cloud' = [cloud EXCEPT !.in = TRUE, !.user = user, !.net = TRUE, !.loading = TRUE]
    /\ call' = Crossed
    /\ UNCHANGED remote

LoginLost ==
    /\ CloudUnlocked /\ ~cloud.in
    /\ cloud' = [cloud EXCEPT !.net = FALSE]
    /\ UNCHANGED <<remote, jwt, http, call>>

\* loadObjects, answered.
Loaded(s, list) == [s EXCEPT !.objects = list, !.cached = list, !.expired = FALSE,
                             !.net = TRUE]
\* loadObjects, refused or lost.
Unloaded(s) == {s, [s EXCEPT !.net = FALSE]}

\* The login fails only where there is nothing cached.
FromCache(s) ==
    IF s.cached # <<>> THEN [s EXCEPT !.objects = s.cached]
    ELSE [s EXCEPT !.in = FALSE, !.user = NoAccount]

LoginLoad ==
    /\ cloud.loading
    /\ LET s == [cloud EXCEPT !.loading = FALSE] IN
       \/ /\ Owned(http.token)
          /\ cloud' = Loaded(s, remote)
          /\ UNCHANGED http
       \/ /\ cloud' \in {FromCache(u) : u \in Unloaded(s)}
          /\ http' = [http EXCEPT !.left = ~cloud'.in]
    /\ call' = Relisted
    /\ UNCHANGED <<remote, jwt>>

\* Mutant: the objects stay.
CloudLogoutKeepsObjects ==
    /\ CloudUnlocked
    /\ http' = [token |-> NoToken, ahead |-> TRUE, mixed |-> FALSE, left |-> FALSE]
    /\ cloud' = [cloud EXCEPT !.in = FALSE, !.user = NoAccount]
    /\ call' = Crossed
    /\ UNCHANGED <<remote, jwt>>

\* The token goes, not the cache; SetToken takes the next one to be fresh.
CloudLogout ==
    /\ CloudUnlocked
    /\ http' = [token |-> NoToken, ahead |-> TRUE, mixed |-> FALSE, left |-> FALSE]
    /\ cloud' = [cloud EXCEPT !.in = FALSE, !.user = NoAccount, !.objects = <<>>]
    /\ call' = Crossed
    /\ UNCHANGED <<remote, jwt>>

\* An hour after SetToken, less a fifth: nothing sets the expiry anew.
ExpiryNears ==
    /\ http.ahead
    /\ http' = [http EXCEPT !.ahead = FALSE]
    /\ UNCHANGED <<remote, jwt, cloud, call>>

-----------------------------------------------------------------------------
(* The list of certificates.                                                *)

\* FindObjects, whatever it finds, starts a refresh of a list that is too old.
CloudFindObjects ==
    /\ CloudUnlocked
    /\ cloud.net /\ cloud.expired
    /\ cloud.waiting < MaxRefreshes
    /\ cloud' = [cloud EXCEPT !.waiting = @ + 1]
    /\ UNCHANGED <<remote, jwt, http, call>>

\* The client is shown what a handle names.
GetAttributes(r, h) ==
    /\ CloudUnlocked /\ call[r] = NoCall
    /\ h \in DOMAIN cloud.objects
    /\ call' = [call EXCEPT ![r] = [NoCall EXCEPT !.pc = "found", !.handle = h,
                                              !.found = cloud.objects[h], !.user = cloud.user]]
    /\ UNCHANGED <<remote, jwt, http, cloud>>

\* tryRefreshCache, with the lock until the server has answered.
RefreshList ==
    /\ CloudUnlocked /\ cloud.waiting > 0
    /\ LET s == [cloud EXCEPT !.waiting = @ - 1] IN
       \/ /\ Owned(http.token)
          /\ cloud' = Loaded(s, remote)
          /\ call' = Relisted
       \/ /\ cloud' \in Unloaded(s)
          /\ UNCHANGED call
    /\ UNCHANGED <<remote, jwt, http>>

CacheExpires ==
    /\ ~cloud.expired
    /\ cloud' = [cloud EXCEPT !.expired = TRUE]
    /\ UNCHANGED <<remote, jwt, http, call>>

-----------------------------------------------------------------------------
(* Sign and Decrypt.                                                        *)

\* The certificate is read with the lock, and the rest goes without it.
NamedRemote(r) == cloud.objects[call[r].handle]

SignBegin(r) ==
    /\ call[r].pc = "found"
    /\ CloudUnlocked
    /\ call' = IF call[r].handle \in DOMAIN cloud.objects /\ cloud.net
              THEN [call EXCEPT ![r].pc = "ensure", ![r].handle = 0,
                               ![r].cert = NamedRemote(r)]
              ELSE EndCall(r)
    /\ UNCHANGED <<remote, jwt, http, cloud>>

\* EnsureToken: no token is as bad as an old one.
Fresh == http.ahead /\ http.token # NoToken

EnsureToken(r) ==
    /\ call[r].pc = "ensure"
    /\ call' = IF Fresh THEN CallAt(r, "post")
              ELSE [call EXCEPT ![r].pc = "refresh", ![r].sent = http.token,
                               ![r].mixed = http.mixed]
    /\ UNCHANGED <<remote, jwt, http, cloud>>

\* The server revokes the token it replaces, and the answer replaces whatever
\* token the client has by then.
Refreshed(r, t) == [http EXCEPT !.token = t, !.mixed = call[r].mixed \/ call[r].late]

Refresh(r, t) ==
    LET sent == call[r].sent IN
    /\ call[r].pc = "refresh"
    /\ Live(sent) /\ jwt[t].is = "none"
    /\ jwt' = [New(t, jwt[sent].user) EXCEPT ![sent].is = "dead"]
    /\ http' = Refreshed(r, t)
    /\ call' = [call EXCEPT ![r].pc = "post", ![r].sent = NoToken, ![r].late = FALSE,
                          ![r].mixed = FALSE]
    /\ UNCHANGED <<remote, cloud>>

\* Refused or lost: the slot takes the network to be down in either case.
RefreshFails(r) ==
    /\ call[r].pc = "refresh"
    /\ call' = Down(r)
    /\ UNCHANGED <<remote, jwt, http, cloud>>

Post(r) ==
    /\ call[r].pc = "post"
    /\ call' = [call EXCEPT ![r].pc = "posted", ![r].sent = http.token, ![r].mixed = http.mixed]
    /\ UNCHANGED <<remote, jwt, http, cloud>>

Signed(r) ==
    /\ call[r].pc = "posted"
    /\ Serves(call[r].sent, call[r].cert)
    /\ call' = CallAt(r, "done")
    /\ UNCHANGED <<remote, jwt, http, cloud>>

SignFails(r) ==
    /\ call[r].pc = "posted"
    /\ call' \in {EndCall(r), Down(r)}
    /\ UNCHANGED <<remote, jwt, http, cloud>>

\* It takes the lock to write it down.
MarkDown(r) ==
    /\ call[r].pc = "down"
    /\ CloudUnlocked
    /\ cloud' = [cloud EXCEPT !.net = FALSE]
    /\ call' = EndCall(r)
    /\ UNCHANGED <<remote, jwt, http>>

Return(r) ==
    /\ call[r].pc = "done"
    /\ call' = EndCall(r)
    /\ UNCHANGED <<remote, jwt, http, cloud>>

-----------------------------------------------------------------------------

Server == \/ \E c \in RemoteCerts : AddRemote(c) \/ DeleteRemote(c)
          \/ \E t \in Tokens : TokenDies(t)

SlotStep == \/ \E u \in Accounts, t \in Tokens : CloudLogin(u, t)
            \/ LoginLost \/ LoginLoad \/ CloudLogout
            \/ CloudFindObjects \/ RefreshList
            \/ ExpiryNears \/ CacheExpires

CloudSign(r) ==
    \/ \E h \in 1 .. Cardinality(RemoteCerts) : GetAttributes(r, h)
    \/ SignBegin(r) \/ EnsureToken(r)
    \/ \E t \in Tokens : Refresh(r, t)
    \/ RefreshFails(r) \/ Post(r) \/ Signed(r) \/ SignFails(r) \/ MarkDown(r) \/ Return(r)

CloudNext == Server \/ SlotStep \/ \E r \in Callers : CloudSign(r)

CloudSpec == CloudInit /\ [][CloudNext]_cloudVars

-----------------------------------------------------------------------------
(* Properties.                                                              *)

\* The token that requests are sent with is one of the user whom the slot has logged
\* in, but for one that a refresh brings after the login it began under: signatures
\* refresh the token without the slot's lock (Login, Logout, Refresh).
TokenFollowsLogin ==
    cloud.in /\ http.token # NoToken =>
        jwt[http.token].user = cloud.user \/ http.mixed

\* A signature is one that the card's owner asked for, with a certificate the client
\* was shown under the handle, to the user it was shown to, unless a login, a logout
\* or a new list came between the search and the signature
\* (FindObjects, Sign, tryRefreshCache).
SignsAsShown ==
    \A r \in Callers : call[r].pc = "done" =>
        /\ jwt[call[r].sent].user = Owner
        /\ \/ call[r].again
           \/ call[r].mixed
           \/ call[r].cert = call[r].found /\ call[r].user \in {Owner, NoAccount}

\* The slot works for the user it shows: it asks with that user's token, for what it
\* showed that user, or a refresh, a login or a new list came in between
\* (TokenFollowsLogin, SignsAsShown).
WorksForItsUser == TokenFollowsLogin /\ SignsAsShown
=============================================================================
