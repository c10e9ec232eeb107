--------------------------- MODULE RevocationLists ---------------------------
(***************************************************************************)
(* The CRLs of the server (servers/internal/revocation/service.go): signed   *)
(* from the list of revoked serial numbers of a certificate authority        *)
(* (ca/service.go), kept in memory, handed out to anyone (api/handler_ca.go) *)
(* and refreshed by a goroutine of their own for as long as a configuration *)
(* asks for it.  How a serial number comes on the list is Authorities.       *)
(*                                                                         *)
(* A CRL is the set of serial numbers on it.  A refresh reads the CA, reads  *)
(* the list and stores the CRL, each in a step of its own, so the refreshes  *)
(* of a CA overlap: from its scheduler, from a scheduler that was cancelled  *)
(* and is not over yet, and from requests that found no CRL.  Any statement  *)
(* may fail.  A scheduler is a goroutine: a pair of a CA and a number.       *)
(***************************************************************************)
EXTENDS Naturals, FiniteSets

CONSTANTS
    CAs,
    Serials,        \* serial numbers that get revoked
    Requests,       \* requests for a CRL
    Configs,        \* rows of revocation_services
    Intervals,      \* crl_interval: minutes between two refreshes
    DefaultInterval,
    MaxSchedulers,  \* bound on the goroutines of a CA alive at a time
    MaxRestarts,    \* bound on the restarts of the server
    NoCA

ASSUME IntervalAssumption ==
    Intervals \subseteq Nat \ {0} /\ DefaultInterval \in Intervals
ASSUME BoundAssumption == MaxSchedulers \in Nat \ {0} /\ MaxRestarts \in Nat
ASSUME NullAssumption == NoCA \notin CAs

VARIABLES
    ca,          \* cas: whether the row of a UUID is yet to come, there or gone
    revoked,     \* revoked_certs: serial numbers by CA
    config,      \* revocation_services
    cached,      \* the CAs in Service.crlCache
    crlCache,    \* Service.crlCache: the CRL of each
    job,         \* requests and schedulers in progress
    schedulers,  \* Service.schedulers: the number of a CA's goroutine, or 0
    interval,    \* the interval each goroutine was started with
    cancelled,   \* goroutines whose context is cancelled
    loop,        \* the goroutine that runs syncSchedulers
    desired,     \* what syncSchedulers found in the configurations; 0 for none
    restarts     \* history: how often the server has started again

vars == <<ca, revoked, config, cached, crlCache, job,
          schedulers, interval, cancelled, loop, desired, restarts>>

memory == <<cached, crlCache, job, schedulers, interval, cancelled, loop, desired>>
tables == <<ca, revoked, config>>

Goroutines == CAs \X (1 .. MaxSchedulers)
ASSUME RequestAssumption == Requests \cap Goroutines = {}
Refreshers == Requests \cup Goroutines

\* crl: what a refresh read from the list; overtaken: another refresh of the
\* CA has stored a CRL since.
Jobs == [pc : {"idle", "refresh", "store"}, ca : CAs \cup {NoCA},
         crl : SUBSET Serials, overtaken : BOOLEAN]
Idle == [pc |-> "idle", ca |-> NoCA, crl |-> {}, overtaken |-> FALSE]
Refreshing(c) == [Idle EXCEPT !.pc = "refresh", !.ca = c]

ServiceConfigs == [ca : CAs, crl : BOOLEAN, interval : Intervals]
NoConfig == [ca |-> NoCA, crl |-> FALSE, interval |-> 0]

TypeOK ==
    /\ ca \in [CAs -> {"none", "there", "gone"}]
    /\ revoked \in [CAs -> SUBSET Serials]
    /\ config \in [Configs -> ServiceConfigs \cup {NoConfig}]
    /\ cached \subseteq CAs
    /\ crlCache \in [CAs -> SUBSET Serials]
    /\ job \in [Refreshers -> Jobs]
    /\ schedulers \in [CAs -> 0 .. MaxSchedulers]
    /\ interval \in [Goroutines -> Intervals \cup {0}]
    /\ cancelled \subseteq Goroutines
    /\ loop \in {"wait", "apply", "stopped"}
    /\ desired \in [CAs -> Intervals \cup {0}]
    /\ restarts \in 0 .. MaxRestarts

Init ==
    /\ ca = [c \in CAs |-> "none"]
    /\ revoked = [c \in CAs |-> {}]
    /\ config = [p \in Configs |-> NoConfig]
    /\ cached = {}
    /\ crlCache = [c \in CAs |-> {}]
    /\ job = [g \in Refreshers |-> Idle]
    /\ schedulers = [c \in CAs |-> 0]
    /\ interval = [g \in Goroutines |-> 0]
    /\ cancelled = {}
    /\ loop = "wait"
    /\ desired = [c \in CAs |-> 0]
    /\ restarts = 0

-----------------------------------------------------------------------------
(* The tables: authorities, revoked serial numbers and configurations.       *)

CreateCA(c) ==
    /\ ca[c] = "none"
    /\ ca' = [ca EXCEPT ![c] = "there"]
    /\ UNCHANGED <<revoked, config, restarts, memory>>

\* The foreign keys of revoked_certs and revocation_services keep the row of
\* a CA that they name; Service.Delete's own checks are about its issues.
NamedByConfig(c) == \E p \in Configs : config[p].ca = c

NamedByAKey(c) == revoked[c] # {} \/ NamedByConfig(c)

DeleteCA(c) ==
    /\ ca[c] = "there"
    /\ ~NamedByAKey(c)
    /\ ca' = [ca EXCEPT ![c] = "gone"]
    /\ UNCHANGED <<revoked, config, restarts, memory>>

\* The statement that ends Service.RevokeCert: a foreign key wants the CA.
InsertRevoked(c, x) ==
    /\ ca[c] = "there"
    /\ revoked' = [revoked EXCEPT ![c] = @ \cup {x}]
    /\ UNCHANGED <<ca, config, restarts, memory>>

IntervalOf(i) == IF i = 0 THEN DefaultInterval ELSE i

CreateServiceConfig(p, c, crl, i) ==
    /\ config[p] = NoConfig
    /\ ca[c] = "there"
    /\ config' = [config EXCEPT ![p] =
                    [ca |-> c, crl |-> crl, interval |-> IntervalOf(i)]]
    /\ UNCHANGED <<ca, revoked, restarts, memory>>

DeleteServiceConfig(p) ==
    /\ config[p] # NoConfig
    /\ config' = [config EXCEPT ![p] = NoConfig]
    /\ UNCHANGED <<ca, revoked, restarts, memory>>

-----------------------------------------------------------------------------
(* CRLs.                                                                    *)

\* GetCRL answers from the cache, and refreshes what is not there.
GetCRL(r, c) ==
    /\ job[r] = Idle
    /\ c \notin cached
    /\ job' = [job EXCEPT ![r] = Refreshing(c)]
    /\ UNCHANGED <<tables, cached, crlCache, schedulers, interval, cancelled,
                   loop, desired, restarts>>

\* The handler that finds the CA by the path of an enabled configuration.
PublicCRLByPath(r, p) == config[p].crl /\ GetCRL(r, config[p].ca)

\* A request ends with its refresh; a scheduler waits for its ticker.
RefreshesOnce(g) == Idle
AfterRefresh(g) ==
    IF g \in Requests THEN Idle ELSE Refreshing(job[g].ca)

\* The CA and its list are read by two statements of GenerateCRL, of which the
\* second decides what is on the CRL: a CA with entries is never deleted.
ReadList(g) ==
    /\ g \notin cancelled
    /\ ca[job[g].ca] = "there"
    /\ job' = [job EXCEPT ![g].pc = "store", ![g].crl = revoked[job[g].ca],
                          ![g].overtaken = FALSE]

ReadFailsUnseen(g) ==
    job' = [job EXCEPT ![g].pc = "store", ![g].crl = {}, ![g].overtaken = FALSE]
ReadFails(g) == job' = [job EXCEPT ![g] = AfterRefresh(g)]

\* A statement fails when its context is cancelled, and may fail anyway.  A
\* scheduler gets here at once, and at every tick of its ticker.
GenerateCRL(g) ==
    /\ job[g].pc = "refresh"
    /\ ReadList(g) \/ ReadFails(g)
    /\ UNCHANGED <<tables, cached, crlCache, schedulers, interval, cancelled,
                   loop, desired, restarts>>

\* The lock is held for the store only, and the context is not asked again.
StoreCRL(g) ==
    /\ job[g].pc = "store"
    /\ crlCache' = [crlCache EXCEPT ![job[g].ca] = job[g].crl]
    /\ cached' = cached \cup {job[g].ca}
    /\ job' = [h \in Refreshers |->
                 IF h = g THEN AfterRefresh(g)
                 ELSE IF job[h].pc = "store" /\ job[h].ca = job[g].ca
                      THEN [job[h] EXCEPT !.overtaken = TRUE]
                 ELSE job[h]]
    /\ UNCHANGED <<tables, schedulers, interval, cancelled, loop, desired,
                   restarts>>

-----------------------------------------------------------------------------
(* Schedulers.                                                              *)

\* With both the ticker and the context ready, select takes either.
ExitScheduler(g) ==
    /\ job[g].pc = "refresh" /\ g \in cancelled
    /\ job' = [job EXCEPT ![g] = Idle]
    /\ cancelled' = cancelled \ {g}
    /\ interval' = [interval EXCEPT ![g] = 0]
    /\ UNCHANGED <<tables, cached, crlCache, schedulers, loop, desired,
                   restarts>>

ServingConfigs(c) == {p \in Configs : config[p].crl /\ config[p].ca = c}

\* The least interval of the enabled CRL configurations of a CA.
Wanted(c) ==
    LET all == {config[p].interval : p \in ServingConfigs(c)}
    IN  IF all = {} THEN 0 ELSE CHOOSE i \in all : \A j \in all : i <= j

\* syncSchedulers reads the configurations before it takes the lock.
SyncRead ==
    /\ loop = "wait"
    /\ desired' = [c \in CAs |-> Wanted(c)]
    /\ loop' = "apply"
    /\ UNCHANGED <<tables, cached, crlCache, job, schedulers, interval,
                   cancelled, restarts>>

Running(c) == schedulers[c] # 0
Unwanted(c) == Running(c) /\ desired[c] = 0
Outdated(c) == Running(c) /\ interval[<<c, schedulers[c]>>] # desired[c]
Started(c) == desired[c] # 0 /\ (~Running(c) \/ Outdated(c))

\* Bound: a scheduler starts when the CA has fewer than MaxSchedulers alive.
FreeNumbers(c) == {n \in 1 .. MaxSchedulers : job[<<c, n>>] = Idle}
NextNumber(c) == CHOOSE n \in FreeNumbers(c) : TRUE

GoroutinesOf(cas) == {<<c, schedulers[c]>> : c \in cas}
Stops == GoroutinesOf({c \in CAs : Outdated(c)})

SyncApply ==
    /\ loop = "apply"
    /\ \A c \in CAs : Started(c) => FreeNumbers(c) # {}
    /\ LET new == {<<c, NextNumber(c)>> : c \in {d \in CAs : Started(d)}}
       IN  /\ cancelled' = cancelled \cup Stops
           /\ schedulers' = [c \in CAs |-> IF Started(c) THEN NextNumber(c)
                                           ELSE IF Outdated(c) THEN 0
                                           ELSE schedulers[c]]
           /\ interval' = [g \in Goroutines |-> IF g \in new THEN desired[g[1]]
                                                ELSE interval[g]]
           /\ job' = [g \in Refreshers |->
                        IF g \in new
                        THEN Refreshing(g[1]) ELSE job[g]]
    /\ loop' = "wait"
    /\ desired' = [c \in CAs |-> 0]
    /\ UNCHANGED <<tables, cached, crlCache, restarts>>

\* The signal ends the loop, which cancels every scheduler.
StopAllSchedulers ==
    /\ loop = "wait"
    /\ restarts < MaxRestarts
    /\ loop' = "stopped"
    /\ cancelled' = cancelled \cup GoroutinesOf({c \in CAs : Running(c)})
    /\ schedulers' = [c \in CAs |-> 0]
    /\ UNCHANGED <<tables, cached, crlCache, job, interval, desired, restarts>>

\* The server ends, by the signal or at any point, and starts again: what is
\* in memory is gone, and with it the requests that were in progress.
Restart ==
    /\ restarts < MaxRestarts
    /\ restarts' = restarts + 1
    /\ cached' = {} /\ crlCache' = [c \in CAs |-> {}]
    /\ job' = [g \in Refreshers |-> Idle]
    /\ schedulers' = [c \in CAs |-> 0]
    /\ interval' = [g \in Goroutines |-> 0] /\ cancelled' = {}
    /\ loop' = "wait" /\ desired' = [c \in CAs |-> 0]
    /\ UNCHANGED tables

-----------------------------------------------------------------------------
Administration ==
    \/ \E c \in CAs : CreateCA(c) \/ DeleteCA(c)
    \/ \E c \in CAs, x \in Serials : InsertRevoked(c, x)
    \/ \E p \in Configs, c \in CAs, crl \in BOOLEAN, i \in Intervals \cup {0} :
         CreateServiceConfig(p, c, crl, i)
    \/ \E p \in Configs : DeleteServiceConfig(p)

Refresh(g) == GenerateCRL(g) \/ StoreCRL(g)

Next ==
    \/ Administration
    \/ \E r \in Requests, c \in CAs : GetCRL(r, c)
    \/ \E r \in Requests, p \in Configs : PublicCRLByPath(r, p)
    \/ \E g \in Refreshers : Refresh(g)
    \/ \E g \in Goroutines : ExitScheduler(g)
    \/ SyncRead \/ SyncApply \/ StopAllSchedulers \/ Restart

Spec == Init /\ [][Next]_vars

\* A ticker fires, a goroutine that can run runs, a ready case of a select is
\* taken sooner or later, and a read that is tried again and again succeeds.
Fairness ==
    /\ WF_vars(SyncRead) /\ SF_vars(SyncApply)
    /\ \A g \in Refreshers : WF_vars(Refresh(g))
    /\ \A g \in Goroutines :
         /\ SF_vars(ExitScheduler(g))
         /\ SF_vars(GenerateCRL(g) /\ job'[g].pc = "store")

FairSpec == Spec /\ Fairness

-----------------------------------------------------------------------------
(* Properties.                                                              *)

\* A serial number leaves the CRL that the server hands out only when two
\* refreshes of the CA overlapped, the one that read the list first storing
\* its CRL last (Service.RefreshCRL), or when the server starts again.
LostByOverlapOnly ==
    [][\A c \in CAs : \/ crlCache[c] \subseteq crlCache'[c]
                      \/ restarts' # restarts
                      \/ \E g \in Refreshers : /\ job[g].overtaken
                                               /\ job[g].ca = c
                                               /\ job'[g] # job[g]]_vars

\* A CA that is deleted while its revocations and refreshes are under way has no
\* entry on its list and no configuration any more, and a CRL that is still handed out
\* for it is empty: no CRL shows a serial number that is not on the list
\* (Service.Delete).
NoOrphans ==
    \A c \in CAs :
        /\ crlCache[c] \subseteq revoked[c]
        /\ ca[c] # "there" => revoked[c] = {} /\ ~NamedByConfig(c)

\* Of the goroutines of a CA, all but the one in Service.schedulers have been
\* told to stop; one that was may finish its refresh (Service.syncSchedulers).
OneScheduler ==
    \A g \in Goroutines :
        job[g] # Idle /\ g \notin cancelled => schedulers[g[1]] = g[2]

\* Whatever was under way, no entry and no configuration outlives its CA, though an
\* empty CRL may, and a CA has one scheduler at most that was not told to stop, though
\* others may be finishing (NoOrphans, OneScheduler).
NothingLeftOver == NoOrphans /\ OneScheduler

\* While a CA has an enabled CRL configuration that stays, a revoked serial
\* number is on the CRL handed out sooner or later, and then for good: stale
\* CRLs of refreshes that were overtaken do not come back for ever.
RevokedIsServed ==
    \A c \in CAs, x \in Serials :
        <>[](ServingConfigs(c) # {} /\ loop # "stopped") =>
            [](x \in revoked[c] => <>[](x \in crlCache[c]))

\* The schedulers follow the configurations: once those of a CA do not change
\* any more it has the goroutine they ask for, or none when they ask for none.
SchedulersFollow ==
    \A c \in CAs, i \in Intervals \cup {0} :
        <>[](Wanted(c) = i /\ loop # "stopped") =>
            <>[](IF i = 0 THEN \A n \in 1 .. MaxSchedulers : job[<<c, n>>] = Idle
                 ELSE Running(c) /\ interval[<<c, schedulers[c]>>] = i)
=============================================================================
