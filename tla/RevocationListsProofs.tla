------------------------ MODULE RevocationListsProofs ------------------------
(***************************************************************************)
(* Proofs about RevocationLists, for any number of authorities, serial      *)
(* numbers, requests, configurations, schedulers and restarts.              *)
(***************************************************************************)
EXTENDS RevocationLists, TLAPS, WellFoundedInduction

USE IntervalAssumption, BoundAssumption, NullAssumption, RequestAssumption

----------------------------------------------------------------------------
(* The inductive invariant.                                                 *)

\* A refresh is of a CA, and a scheduler's of the CA it was started for.
Works ==
    \A g \in Refreshers :
        /\ job[g].pc = "idle" => job[g] = Idle
        /\ job[g].pc # "idle" => job[g].ca \in CAs
        /\ g \in Goroutines /\ job[g].pc # "idle" => job[g].ca = g[1]

\* What a refresh has read is on the list still, and, unless another refresh
\* of the CA has stored its own CRL since, everything that is handed out.
Holds ==
    \A g \in Refreshers :
        job[g].pc = "store" =>
            /\ job[g].crl \subseteq revoked[job[g].ca]
            /\ ~job[g].overtaken => crlCache[job[g].ca] \subseteq job[g].crl

IInv == TypeOK /\ Works /\ Holds /\ NoOrphans /\ OneScheduler

----------------------------------------------------------------------------
(* The operators.                                                           *)

LEMMA SomeJobs ==
  /\ Idle \in Jobs /\ Idle.pc = "idle" /\ NoConfig \notin ServiceConfigs
  /\ NoConfig.ca = NoCA /\ NoConfig.crl = FALSE
  /\ \A c \in CAs : /\ Refreshing(c) \in Jobs /\ Refreshing(c).pc = "refresh"
                    /\ Refreshing(c).ca = c
BY DEF Idle, Jobs, Refreshing, NoConfig, ServiceConfigs

\* A nonempty set of intervals has a least one.
LEMMA LeastInterval ==
  ASSUME NEW T, T \subseteq Intervals, T # {}
  PROVE  \E i \in T : \A j \in T : i <= j
<1>1. T \subseteq Nat
  OBVIOUS
<1>2. IsWellFoundedOn(OpToRel(<, Nat), Nat)
  BY NatLessThanWellFounded
<1>3. \E i \in T : \A j \in T : <<j, i>> \notin OpToRel(<, Nat)
  BY <1>1, <1>2, WFMin
<1>4. \A i, j \in Nat : <<j, i>> \in OpToRel(<, Nat) <=> j < i
  BY DEF OpToRel
<1>5. PICK i \in T : \A j \in T : <<j, i>> \notin OpToRel(<, Nat)
  BY <1>3
<1>6. \A j \in T : ~(j < i)
  BY <1>1, <1>4, <1>5
<1>7. \A j \in T : i <= j
  BY <1>1, <1>6
<1> QED BY <1>5, <1>7

LEMMA WantedType ==
  ASSUME TypeOK, NEW c \in CAs PROVE Wanted(c) \in Intervals \cup {0}
<1> DEFINE all == {config[p].interval : p \in ServingConfigs(c)}
<1>1. all \subseteq Intervals
  BY SomeJobs DEF TypeOK, ServingConfigs, ServiceConfigs
<1>2. CASE all = {}
  BY <1>2 DEF Wanted
<1>3. CASE all # {}
  <2>1. \E i \in all : \A j \in all : i <= j
    BY <1>1, <1>3, LeastInterval
  <2>2. (CHOOSE i \in all : \A j \in all : i <= j) \in all
    BY <2>1
  <2>3. Wanted(c) = CHOOSE i \in all : \A j \in all : i <= j
    BY <1>3 DEF Wanted
  <2> HIDE DEF all
  <2> QED BY <1>1, <2>2, <2>3
<1> QED BY <1>2, <1>3

LEMMA FreeNumber ==
  ASSUME NEW c \in CAs, FreeNumbers(c) # {}
  PROVE  /\ NextNumber(c) \in 1 .. MaxSchedulers
         /\ job[<<c, NextNumber(c)>>] = Idle
BY DEF FreeNumbers, NextNumber

LEMMA InitInv == Init => IInv
<1> SUFFICES ASSUME Init PROVE IInv
  OBVIOUS
<1>1. TypeOK
  BY SomeJobs DEF Init, TypeOK
<1>2. \A g \in Refreshers : job[g] = Idle /\ job[g].pc = "idle"
  BY SomeJobs DEF Init
<1>3. Works /\ Holds /\ OneScheduler
  BY <1>2 DEF Works, Holds, OneScheduler, Refreshers
<1>4. NoOrphans
  BY SomeJobs DEF Init, NoOrphans, NamedByConfig
<1> QED BY <1>1, <1>3, <1>4 DEF IInv

----------------------------------------------------------------------------
(* The tables.                                                              *)

LEMMA CreateCAKeeps ==
  ASSUME IInv, NEW c \in CAs, CreateCA(c) PROVE IInv'
<1>1. /\ ca' = [ca EXCEPT ![c] = "there"]
      /\ revoked' = revoked /\ config' = config /\ restarts' = restarts
      /\ cached' = cached /\ crlCache' = crlCache /\ job' = job
      /\ schedulers' = schedulers /\ interval' = interval /\ cancelled' = cancelled
      /\ loop' = loop /\ desired' = desired
  BY DEF CreateCA, memory
<1>2. TypeOK'
  BY <1>1 DEF IInv, TypeOK
<1>3. Works' /\ Holds' /\ OneScheduler'
  BY <1>1 DEF IInv, Works, Holds, OneScheduler
<1>4. NoOrphans'
  BY <1>1 DEF IInv, TypeOK, NoOrphans, NamedByConfig
<1> QED BY <1>2, <1>3, <1>4 DEF IInv

LEMMA DeleteCAKeeps ==
  ASSUME IInv, NEW c \in CAs, DeleteCA(c) PROVE IInv'
<1>1. /\ ca' = [ca EXCEPT ![c] = "gone"] /\ ~NamedByAKey(c)
      /\ revoked' = revoked /\ config' = config /\ restarts' = restarts
      /\ cached' = cached /\ crlCache' = crlCache /\ job' = job
      /\ schedulers' = schedulers /\ interval' = interval /\ cancelled' = cancelled
      /\ loop' = loop /\ desired' = desired
  BY DEF DeleteCA, memory
<1>2. TypeOK'
  BY <1>1 DEF IInv, TypeOK
<1>3. Works' /\ Holds' /\ OneScheduler'
  BY <1>1 DEF IInv, Works, Holds, OneScheduler
<1>4. NoOrphans'
  BY <1>1 DEF IInv, TypeOK, NoOrphans, NamedByConfig, NamedByAKey
<1> QED BY <1>2, <1>3, <1>4 DEF IInv

LEMMA InsertRevokedKeeps ==
  ASSUME IInv, NEW c \in CAs, NEW x \in Serials, InsertRevoked(c, x) PROVE IInv'
<1>1. /\ revoked' = [revoked EXCEPT ![c] = revoked[c] \cup {x}] /\ ca[c] = "there"
      /\ ca' = ca /\ config' = config /\ restarts' = restarts
      /\ cached' = cached /\ crlCache' = crlCache /\ job' = job
      /\ schedulers' = schedulers /\ interval' = interval /\ cancelled' = cancelled
      /\ loop' = loop /\ desired' = desired
  BY DEF InsertRevoked, memory
<1>2. TypeOK'
  <2>1. revoked' \in [CAs -> SUBSET Serials]
    BY <1>1 DEF IInv, TypeOK
  <2> QED BY <1>1, <2>1 DEF IInv, TypeOK
<1>3. \A d \in CAs : revoked[d] \subseteq revoked'[d]
  BY <1>1 DEF IInv, TypeOK
<1>4. Works' /\ Holds' /\ OneScheduler'
  BY <1>1, <1>3 DEF IInv, Works, Holds, OneScheduler
<1>5. NoOrphans'
  BY <1>1, <1>3 DEF IInv, TypeOK, NoOrphans, NamedByConfig
<1> QED BY <1>2, <1>4, <1>5 DEF IInv

LEMMA CreateServiceConfigKeeps ==
  ASSUME IInv, NEW p \in Configs, NEW c \in CAs, NEW crl \in BOOLEAN,
         NEW i \in Intervals \cup {0}, CreateServiceConfig(p, c, crl, i)
  PROVE  IInv'
<1> DEFINE row == [ca |-> c, crl |-> crl, interval |-> IntervalOf(i)]
<1>1. /\ config' = [config EXCEPT ![p] = row] /\ ca[c] = "there"
      /\ ca' = ca /\ revoked' = revoked /\ restarts' = restarts
      /\ cached' = cached /\ crlCache' = crlCache /\ job' = job
      /\ schedulers' = schedulers /\ interval' = interval /\ cancelled' = cancelled
      /\ loop' = loop /\ desired' = desired
  BY DEF CreateServiceConfig, memory
<1>2. row \in ServiceConfigs /\ row.ca = c
  BY DEF ServiceConfigs, IntervalOf
<1> HIDE DEF row
<1>3. TypeOK'
  BY <1>1, <1>2 DEF IInv, TypeOK
<1>4. Works' /\ Holds' /\ OneScheduler'
  BY <1>1 DEF IInv, Works, Holds, OneScheduler
<1>5. NoOrphans'
  BY <1>1, <1>2 DEF IInv, TypeOK, NoOrphans, NamedByConfig
<1> QED BY <1>3, <1>4, <1>5 DEF IInv

LEMMA DeleteServiceConfigKeeps ==
  ASSUME IInv, NEW p \in Configs, DeleteServiceConfig(p) PROVE IInv'
<1>1. /\ config' = [config EXCEPT ![p] = NoConfig]
      /\ ca' = ca /\ revoked' = revoked /\ restarts' = restarts
      /\ cached' = cached /\ crlCache' = crlCache /\ job' = job
      /\ schedulers' = schedulers /\ interval' = interval /\ cancelled' = cancelled
      /\ loop' = loop /\ desired' = desired
  BY DEF DeleteServiceConfig, memory
<1>2. TypeOK'
  BY <1>1 DEF IInv, TypeOK
<1>3. Works' /\ Holds' /\ OneScheduler'
  BY <1>1 DEF IInv, Works, Holds, OneScheduler
<1>4. NoOrphans'
  BY <1>1, SomeJobs DEF IInv, TypeOK, NoOrphans, NamedByConfig
<1> QED BY <1>2, <1>3, <1>4 DEF IInv

----------------------------------------------------------------------------
(* Refreshes.                                                               *)

LEMMA GetCRLKeeps ==
  ASSUME IInv, NEW r \in Requests, NEW c \in CAs, GetCRL(r, c) PROVE IInv'
<1>1. /\ job' = [job EXCEPT ![r] = Refreshing(c)] /\ r \in Refreshers /\ r \notin Goroutines
      /\ ca' = ca /\ revoked' = revoked /\ config' = config /\ restarts' = restarts
      /\ cached' = cached /\ crlCache' = crlCache
      /\ schedulers' = schedulers /\ interval' = interval /\ cancelled' = cancelled
      /\ loop' = loop /\ desired' = desired
  BY DEF GetCRL, tables, Refreshers
<1>2. TypeOK'
  BY <1>1, SomeJobs DEF IInv, TypeOK
<1>3. Works' /\ Holds'
  BY <1>1, SomeJobs DEF IInv, TypeOK, Works, Holds
<1>4. NoOrphans'
  BY <1>1 DEF IInv, NoOrphans, NamedByConfig
<1>5. OneScheduler'
  BY <1>1 DEF IInv, TypeOK, OneScheduler, Refreshers
<1> QED BY <1>2, <1>3, <1>4, <1>5 DEF IInv

LEMMA AfterRefreshIs ==
  ASSUME IInv, NEW g \in Refreshers, job[g].pc # "idle"
  PROVE  /\ AfterRefresh(g) \in {Idle, Refreshing(job[g].ca)}
         /\ AfterRefresh(g) \in Jobs /\ AfterRefresh(g).pc \in {"idle", "refresh"}
         /\ AfterRefresh(g).pc = "idle" => AfterRefresh(g) = Idle
         /\ AfterRefresh(g).pc # "idle" => AfterRefresh(g).ca = job[g].ca
         /\ job[g].ca \in CAs /\ job[g] # Idle
BY SomeJobs DEF IInv, Works, AfterRefresh

LEMMA GenerateCRLKeeps ==
  ASSUME IInv, NEW g \in Refreshers, GenerateCRL(g) PROVE IInv'
<1>1. /\ ca' = ca /\ revoked' = revoked /\ config' = config /\ restarts' = restarts
      /\ cached' = cached /\ crlCache' = crlCache
      /\ schedulers' = schedulers /\ interval' = interval /\ cancelled' = cancelled
      /\ loop' = loop /\ desired' = desired
      /\ job[g].pc = "refresh" /\ job[g] \in Jobs
  BY DEF GenerateCRL, tables, IInv, TypeOK
<1>2. PICK j : /\ job' = [job EXCEPT ![g] = j] /\ j \in Jobs
               /\ j.pc = "idle" => j = Idle
               /\ j.pc # "idle" => j.ca = job[g].ca
               /\ j.pc = "store" => j.crl = revoked[job[g].ca]
  <2>1. CASE ReadFails(g)
    BY <1>1, <2>1, AfterRefreshIs DEF ReadFails
  <2>2. CASE ReadList(g)
    <3> DEFINE j == [job[g] EXCEPT !.pc = "store", !.crl = revoked[job[g].ca],
                                   !.overtaken = FALSE]
    <3>1. revoked[job[g].ca] \in SUBSET Serials
      BY <1>1, AfterRefreshIs DEF IInv, TypeOK
    <3>2. /\ j \in Jobs /\ j.pc = "store" /\ j.ca = job[g].ca /\ j.crl = revoked[job[g].ca]
      BY <1>1, <3>1 DEF Jobs
    <3>3. job' = [job EXCEPT ![g] = j]
      BY <1>1, <2>2 DEF ReadList, IInv, TypeOK
    <3> HIDE DEF j
    <3> QED BY <3>2, <3>3
  <2> QED BY <2>1, <2>2 DEF GenerateCRL
<1>3. job[g].ca \in CAs /\ job[g] # Idle
  BY <1>1, AfterRefreshIs
<1>4. TypeOK'
  BY <1>1, <1>2 DEF IInv, TypeOK
<1>5. /\ job'[g] = j
      /\ \A h \in Refreshers : h # g => job'[h] = job[h]
  BY <1>2 DEF IInv, TypeOK
<1>6. Works'
  BY <1>1, <1>2, <1>3, <1>5 DEF IInv, Works
<1>7. Holds'
  BY <1>1, <1>2, <1>3, <1>5 DEF IInv, Holds, NoOrphans
<1>8. NoOrphans'
  BY <1>1 DEF IInv, NoOrphans, NamedByConfig
<1>9. OneScheduler'
  BY <1>1, <1>3, <1>5 DEF IInv, OneScheduler, Refreshers
<1> QED BY <1>4, <1>6, <1>7, <1>8, <1>9 DEF IInv

LEMMA StoreCRLKeeps ==
  ASSUME IInv, NEW g \in Refreshers, StoreCRL(g) PROVE IInv'
<1>1. /\ ca' = ca /\ revoked' = revoked /\ config' = config /\ restarts' = restarts
      /\ cached' = cached \cup {job[g].ca}
      /\ crlCache' = [crlCache EXCEPT ![job[g].ca] = job[g].crl]
      /\ schedulers' = schedulers /\ interval' = interval /\ cancelled' = cancelled
      /\ loop' = loop /\ desired' = desired
      /\ job[g].pc = "store" /\ job[g] \in Jobs
  BY DEF StoreCRL, tables, IInv, TypeOK
<1>2. /\ job[g].ca \in CAs /\ job[g] # Idle /\ job[g].crl \in SUBSET Serials
      /\ job[g].crl \subseteq revoked[job[g].ca]
  BY <1>1, AfterRefreshIs DEF IInv, Holds, Jobs
<1>3. \A h \in Refreshers :
        IF h = g THEN job'[h] = AfterRefresh(g)
        ELSE IF job[h].pc = "store" /\ job[h].ca = job[g].ca
             THEN job'[h] = [job[h] EXCEPT !.overtaken = TRUE]
        ELSE job'[h] = job[h]
  BY DEF StoreCRL
<1>4. \A h \in Refreshers :
        h # g => /\ job'[h] \in Jobs /\ job'[h].pc = job[h].pc /\ job'[h].ca = job[h].ca
                 /\ job'[h].crl = job[h].crl
                 /\ job'[h].overtaken = (job[h].overtaken \/ (job[h].pc = "store" /\ job[h].ca = job[g].ca))
                 /\ job[h].pc # "store" => job'[h] = job[h]
  <2> TAKE h \in Refreshers
  <2>0. job[h] \in Jobs
    BY DEF IInv, TypeOK
  <2>1. CASE h # g /\ job[h].pc = "store" /\ job[h].ca = job[g].ca
    <3>1. job'[h] = [job[h] EXCEPT !.overtaken = TRUE]
      BY <1>3, <2>1
    <3> QED BY <2>0, <2>1, <3>1 DEF Jobs
  <2>2. CASE h # g /\ ~(job[h].pc = "store" /\ job[h].ca = job[g].ca)
    BY <1>3, <2>0, <2>2 DEF Jobs
  <2> QED BY <2>1, <2>2
<1>5. /\ job'[g] = AfterRefresh(g) /\ job'[g] \in Jobs
      /\ job'[g].pc \in {"idle", "refresh"}
      /\ job'[g].pc = "idle" => job'[g] = Idle
      /\ job'[g].pc # "idle" => job'[g].ca = job[g].ca
  <2>1. job'[g] = AfterRefresh(g)
    BY <1>3
  <2> QED BY <1>1, <2>1, AfterRefreshIs
<1>6. TypeOK'
  <2>1. job' \in [Refreshers -> Jobs]
    <3>1. \A h \in Refreshers : job'[h] \in Jobs
      BY <1>4, <1>5
    <3> QED BY <3>1 DEF StoreCRL
  <2>2. crlCache' \in [CAs -> SUBSET Serials] /\ cached' \subseteq CAs
    BY <1>1, <1>2 DEF IInv, TypeOK
  <2> QED BY <1>1, <2>1, <2>2 DEF IInv, TypeOK
<1>7. Works'
  BY <1>1, <1>2, <1>4, <1>5 DEF IInv, Works
<1>8. /\ crlCache'[job[g].ca] = job[g].crl
      /\ \A c \in CAs : c # job[g].ca => crlCache'[c] = crlCache[c]
  BY <1>1, <1>2 DEF IInv, TypeOK
<1>9. Holds'
  <2> SUFFICES ASSUME NEW h \in Refreshers, job'[h].pc = "store"
               PROVE  /\ job'[h].crl \subseteq revoked'[job'[h].ca]
                      /\ ~job'[h].overtaken => crlCache'[job'[h].ca] \subseteq job'[h].crl
    BY DEF Holds
  <2>1. h # g /\ job[h].pc = "store" /\ job[h].ca \in CAs
    BY <1>4, <1>5 DEF IInv, Works
  <2>2. /\ job'[h].crl = job[h].crl /\ job'[h].ca = job[h].ca
        /\ job'[h].overtaken = (job[h].overtaken \/ job[h].ca = job[g].ca)
    BY <1>4, <2>1
  <2>3. CASE job[h].ca = job[g].ca
    BY <1>1, <2>1, <2>2, <2>3 DEF IInv, Holds
  <2>4. CASE job[h].ca # job[g].ca
    BY <1>1, <1>8, <2>1, <2>2, <2>4 DEF IInv, Holds
  <2> QED BY <2>3, <2>4
<1>10. NoOrphans'
  BY <1>1, <1>2, <1>8 DEF IInv, NoOrphans, NamedByConfig
<1>11. OneScheduler'
  <2>1. \A h \in Refreshers : job'[h] # Idle => job[h] # Idle
    BY <1>2, <1>4, SomeJobs
  <2> QED BY <1>1, <2>1 DEF IInv, OneScheduler, Refreshers
<1> QED BY <1>6, <1>7, <1>9, <1>10, <1>11 DEF IInv

----------------------------------------------------------------------------
(* Schedulers.                                                              *)

LEMMA ExitSchedulerKeeps ==
  ASSUME IInv, NEW g \in Goroutines, ExitScheduler(g) PROVE IInv'
<1>1. /\ ca' = ca /\ revoked' = revoked /\ config' = config /\ restarts' = restarts
      /\ cached' = cached /\ crlCache' = crlCache
      /\ schedulers' = schedulers /\ loop' = loop /\ desired' = desired
      /\ job' = [job EXCEPT ![g] = Idle] /\ cancelled' = cancelled \ {g}
      /\ interval' = [interval EXCEPT ![g] = 0] /\ g \in Refreshers
  BY DEF ExitScheduler, tables, Refreshers
<1>2. TypeOK'
  BY <1>1, SomeJobs DEF IInv, TypeOK
<1>3. /\ job'[g] = Idle
      /\ \A h \in Refreshers : h # g => job'[h] = job[h]
  BY <1>1 DEF IInv, TypeOK
<1>4. Works' /\ Holds'
  BY <1>1, <1>3, SomeJobs DEF IInv, Works, Holds
<1>5. NoOrphans'
  BY <1>1 DEF IInv, NoOrphans, NamedByConfig
<1>6. OneScheduler'
  BY <1>1, <1>3 DEF IInv, OneScheduler, Refreshers
<1> QED BY <1>2, <1>4, <1>5, <1>6 DEF IInv

LEMMA SyncReadKeeps == ASSUME IInv, SyncRead PROVE IInv'
<1>1. /\ ca' = ca /\ revoked' = revoked /\ config' = config /\ restarts' = restarts
      /\ cached' = cached /\ crlCache' = crlCache /\ job' = job
      /\ schedulers' = schedulers /\ interval' = interval /\ cancelled' = cancelled
      /\ desired' = [c \in CAs |-> Wanted(c)] /\ loop' = "apply"
  BY DEF SyncRead, tables
<1>2. TypeOK'
  BY <1>1, WantedType DEF IInv, TypeOK
<1>3. Works' /\ Holds' /\ OneScheduler'
  BY <1>1 DEF IInv, Works, Holds, OneScheduler
<1>4. NoOrphans'
  BY <1>1 DEF IInv, NoOrphans, NamedByConfig
<1> QED BY <1>2, <1>3, <1>4 DEF IInv

\* The goroutine of a CA that is replaced or not wanted any more is told to
\* stop in the step that forgets its number.
LEMMA SyncApplyKeeps == ASSUME IInv, SyncApply PROVE IInv'
<1> DEFINE new == {<<c, NextNumber(c)>> : c \in {d \in CAs : Started(d)}}
<1>1. /\ ca' = ca /\ revoked' = revoked /\ config' = config /\ restarts' = restarts
      /\ cached' = cached /\ crlCache' = crlCache
      /\ cancelled' = cancelled \cup Stops
      /\ schedulers' = [c \in CAs |-> IF Started(c) THEN NextNumber(c)
                                      ELSE IF Outdated(c) THEN 0 ELSE schedulers[c]]
      /\ interval' = [g \in Goroutines |-> IF g \in new THEN desired[g[1]] ELSE interval[g]]
      /\ job' = [g \in Refreshers |-> IF g \in new THEN Refreshing(g[1]) ELSE job[g]]
      /\ loop' = "wait" /\ desired' = [c \in CAs |-> 0]
      /\ \A c \in CAs : Started(c) => FreeNumbers(c) # {}
  BY DEF SyncApply, tables
<1>2. ASSUME NEW g \in new
      PROVE  /\ g \in Goroutines /\ g[1] \in CAs /\ job[g] = Idle /\ Started(g[1])
             /\ g[2] = NextNumber(g[1])
  BY <1>1, FreeNumber DEF Goroutines
<1>3. ASSUME NEW c \in CAs, Started(c) PROVE <<c, NextNumber(c)>> \in new
  BY <1>3
<1> HIDE DEF new
<1>4. TypeOK'
  <2>1. schedulers' \in [CAs -> 0 .. MaxSchedulers]
    <3>1. ASSUME NEW c \in CAs
          PROVE  (IF Started(c) THEN NextNumber(c)
                  ELSE IF Outdated(c) THEN 0 ELSE schedulers[c]) \in 0 .. MaxSchedulers
      <4>1. Started(c) => NextNumber(c) \in 1 .. MaxSchedulers
        BY <1>1, FreeNumber
      <4>2. schedulers[c] \in 0 .. MaxSchedulers
        BY DEF IInv, TypeOK
      <4> QED BY <4>1, <4>2
    <3> QED BY <1>1, <3>1
  <2>2. interval' \in [Goroutines -> Intervals \cup {0}]
    BY <1>1, <1>2 DEF IInv, TypeOK
  <2>3. job' \in [Refreshers -> Jobs]
    BY <1>1, <1>2, SomeJobs DEF IInv, TypeOK
  <2>4. cancelled' \subseteq Goroutines
    <3>1. ASSUME NEW c \in CAs, Running(c) PROVE <<c, schedulers[c]>> \in Goroutines
      <4>1. schedulers[c] \in 1 .. MaxSchedulers
        BY <3>1 DEF IInv, TypeOK, Running
      <4> QED BY <4>1 DEF Goroutines
    <3>2. Stops \subseteq Goroutines
      BY <3>1 DEF Stops, GoroutinesOf, Outdated
    <3> QED BY <1>1, <3>2 DEF IInv, TypeOK
  <2> QED BY <1>1, <2>1, <2>2, <2>3, <2>4 DEF IInv, TypeOK
<1>5. \A g \in Refreshers :
        /\ g \notin new => job'[g] = job[g]
        /\ g \in new => job'[g].pc = "refresh" /\ job'[g].ca = g[1] /\ g[1] \in CAs
  BY <1>1, <1>2, SomeJobs
<1>6. Works' /\ Holds'
  BY <1>1, <1>5 DEF IInv, Works, Holds
<1>7. NoOrphans'
  BY <1>1 DEF IInv, NoOrphans, NamedByConfig
<1>8. OneScheduler'
  <2> SUFFICES ASSUME NEW g \in Goroutines, job'[g] # Idle, g \notin cancelled'
               PROVE  schedulers'[g[1]] = g[2]
    BY DEF OneScheduler
  <2>1. g[1] \in CAs /\ g[2] \in 1 .. MaxSchedulers /\ g = <<g[1], g[2]>>
    BY DEF Goroutines
  <2>2. CASE g \in new
    BY <1>1, <1>2, <2>1, <2>2
  <2>3. CASE g \notin new
    <3>1. g \in Refreshers /\ job[g] # Idle /\ g \notin cancelled /\ g \notin Stops
      BY <1>1, <1>5, <2>3 DEF Refreshers
    <3>2. schedulers[g[1]] = g[2] /\ Running(g[1])
      BY <2>1, <3>1 DEF IInv, OneScheduler, Running
    <3>3. ~Outdated(g[1])
      BY <2>1, <3>1, <3>2 DEF Stops, GoroutinesOf
    <3>4. ~Started(g[1])
      BY <3>2, <3>3 DEF Started
    <3> QED BY <1>1, <2>1, <3>2, <3>3, <3>4
  <2> QED BY <2>2, <2>3
<1> QED BY <1>4, <1>6, <1>7, <1>8 DEF IInv

LEMMA StopAllSchedulersKeeps == ASSUME IInv, StopAllSchedulers PROVE IInv'
<1>1. /\ ca' = ca /\ revoked' = revoked /\ config' = config /\ restarts' = restarts
      /\ cached' = cached /\ crlCache' = crlCache /\ job' = job
      /\ interval' = interval /\ desired' = desired /\ loop' = "stopped"
      /\ cancelled' = cancelled \cup GoroutinesOf({c \in CAs : Running(c)})
      /\ schedulers' = [c \in CAs |-> 0]
  BY DEF StopAllSchedulers, tables
<1>2. TypeOK'
  <2>1. cancelled' \subseteq Goroutines
    BY <1>1 DEF IInv, TypeOK, GoroutinesOf, Running, Goroutines
  <2> QED BY <1>1, <2>1 DEF IInv, TypeOK
<1>3. Works' /\ Holds'
  BY <1>1 DEF IInv, Works, Holds
<1>4. NoOrphans'
  BY <1>1 DEF IInv, NoOrphans, NamedByConfig
<1>5. OneScheduler'
  <2> SUFFICES ASSUME NEW g \in Goroutines, job[g] # Idle, g \notin cancelled'
               PROVE  FALSE
    BY <1>1 DEF OneScheduler
  <2>1. g[1] \in CAs /\ g[2] \in 1 .. MaxSchedulers /\ g = <<g[1], g[2]>>
    BY DEF Goroutines
  <2>2. schedulers[g[1]] = g[2]
    BY <1>1 DEF IInv, OneScheduler
  <2> QED BY <1>1, <2>1, <2>2 DEF GoroutinesOf, Running
<1> QED BY <1>2, <1>3, <1>4, <1>5 DEF IInv

LEMMA RestartKeeps == ASSUME IInv, Restart PROVE IInv'
<1>1. /\ ca' = ca /\ revoked' = revoked /\ config' = config
      /\ restarts' = restarts + 1 /\ restarts < MaxRestarts
      /\ cached' = {} /\ crlCache' = [c \in CAs |-> {}]
      /\ job' = [g \in Refreshers |-> Idle] /\ schedulers' = [c \in CAs |-> 0]
      /\ interval' = [g \in Goroutines |-> 0] /\ cancelled' = {}
      /\ loop' = "wait" /\ desired' = [c \in CAs |-> 0]
  BY DEF Restart, tables
<1>2. TypeOK'
  BY <1>1, SomeJobs DEF IInv, TypeOK
<1>3. \A g \in Refreshers : job'[g] = Idle
  BY <1>1
<1>4. Works' /\ Holds' /\ OneScheduler'
  BY <1>3, SomeJobs DEF Works, Holds, OneScheduler, Refreshers
<1>5. NoOrphans'
  BY <1>1 DEF IInv, NoOrphans, NamedByConfig
<1> QED BY <1>2, <1>4, <1>5 DEF IInv

LEMMA UnchangedKeeps == ASSUME IInv, UNCHANGED vars PROVE IInv'
<1>1. TypeOK'
  BY DEF IInv, TypeOK, vars
<1>2. Works' /\ Holds' /\ OneScheduler' /\ NoOrphans'
  BY DEF IInv, Works, Holds, OneScheduler, NoOrphans, NamedByConfig, vars
<1> QED BY <1>1, <1>2 DEF IInv

LEMMA NextInv == ASSUME IInv, [Next]_vars PROVE IInv'
<1>1. ASSUME Administration PROVE IInv'
  BY <1>1, CreateCAKeeps, DeleteCAKeeps, InsertRevokedKeeps, CreateServiceConfigKeeps,
     DeleteServiceConfigKeeps DEF Administration
<1>2. ASSUME NEW r \in Requests, NEW p \in Configs, PublicCRLByPath(r, p) PROVE IInv'
  <2>1. config[p] \in ServiceConfigs
    BY <1>2, SomeJobs DEF PublicCRLByPath, IInv, TypeOK
  <2>2. config[p].ca \in CAs /\ GetCRL(r, config[p].ca)
    BY <1>2, <2>1 DEF PublicCRLByPath, ServiceConfigs
  <2> QED BY <2>2, GetCRLKeeps
<1>3. ASSUME NEW g \in Refreshers, Refresh(g) PROVE IInv'
  BY <1>3, GenerateCRLKeeps, StoreCRLKeeps DEF Refresh
<1> QED BY <1>1, <1>2, <1>3, GetCRLKeeps, ExitSchedulerKeeps, SyncReadKeeps, SyncApplyKeeps,
           StopAllSchedulersKeeps, RestartKeeps, UnchangedKeeps DEF Next

----------------------------------------------------------------------------
(* The theorems.                                                            *)

\* The inductive invariant, in every state of every behaviour.
THEOREM Invariant == Spec => []IInv
<1> QED BY InitInv, NextInv, PTL DEF Spec

\* The tables and the server's memory have the shape the code gives them.
THEOREM TypeCorrect == Spec => []TypeOK
<1>1. IInv => TypeOK
  BY DEF IInv
<1> QED BY <1>1, Invariant, PTL

\* Whatever refreshes and restarts come in between, a CA that is deleted leaves no
\* entry, on its list or on a CRL in the cache, and no configuration, and of the
\* schedulers of a CA all but one have been told to stop (service.go:142-280).  That
\* these have ended, or that the cache forgets the CA, is not said: neither is so.
THEOREM NothingLeftOverCorrect == Spec => []NothingLeftOver
<1>1. IInv => NothingLeftOver
  BY DEF IInv, NothingLeftOver
<1> QED BY <1>1, Invariant, PTL

\* A CRL that is handed out grows only, but for a restart and for a refresh that
\* was overtaken by another of the same CA (service.go:142-178).
THEOREM LostByOverlapOnlyCorrect == Spec => LostByOverlapOnly
<1> DEFINE Kept(c) == \/ crlCache[c] \subseteq crlCache'[c]
                      \/ restarts' # restarts
                      \/ \E g \in Refreshers : /\ job[g].overtaken
                                               /\ job[g].ca = c
                                               /\ job'[g] # job[g]
<1>1. ASSUME IInv, Next, NEW c \in CAs PROVE Kept(c)
  <2>1. ASSUME NEW g \in Refreshers, StoreCRL(g) PROVE Kept(c)
    <3>1. /\ crlCache' = [crlCache EXCEPT ![job[g].ca] = job[g].crl]
          /\ job[g].pc = "store" /\ job'[g] = AfterRefresh(g)
      BY <2>1 DEF StoreCRL
    <3>2. CASE job[g].ca # c
      BY <1>1, <3>1, <3>2 DEF IInv, TypeOK
    <3>3. CASE job[g].ca = c /\ ~job[g].overtaken
      BY <1>1, <3>1, <3>3 DEF IInv, TypeOK, Holds
    <3>4. CASE job[g].ca = c /\ job[g].overtaken
      <4>1. job'[g] # job[g]
        BY <1>1, <3>1, AfterRefreshIs
      <4> QED BY <3>4, <4>1
    <3> QED BY <3>2, <3>3, <3>4
  <2>2. CASE Restart
    BY <1>1, <2>2 DEF Restart, IInv, TypeOK
  <2>3. CASE \/ Administration \/ SyncRead \/ SyncApply \/ StopAllSchedulers
             \/ \E r \in Requests, d \in CAs : GetCRL(r, d)
             \/ \E r \in Requests, p \in Configs : PublicCRLByPath(r, p)
             \/ \E g \in Refreshers : GenerateCRL(g)
             \/ \E g \in Goroutines : ExitScheduler(g)
    <3>1. crlCache' = crlCache
      BY <2>3 DEF Administration, CreateCA, DeleteCA, InsertRevoked, CreateServiceConfig,
         DeleteServiceConfig, SyncRead, SyncApply, StopAllSchedulers, GetCRL, PublicCRLByPath,
         GenerateCRL, ExitScheduler, memory, tables
    <3> QED BY <3>1
  <2> QED BY <1>1, <2>1, <2>2, <2>3 DEF Next, Refresh
<1>2. IInv /\ [Next]_vars => [\A c \in CAs : Kept(c)]_vars
  BY <1>1
<1> QED BY <1>2, Invariant, PTL DEF Spec, LostByOverlapOnly
=============================================================================
