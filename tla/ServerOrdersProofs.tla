-------------------------- MODULE ServerOrdersProofs --------------------------
(***************************************************************************)
(* Proofs about what users ask of the server: certificates (CertOrders), for *)
(* any number of requests, orders and applications, any amounts and any     *)
(* deposit; that it believes what they claim (Verification), for any number *)
(* of claimants, values, infos and requests, any limits and days; and the   *)
(* money they bring and take back (Payment), for any number of requests,    *)
(* recharges and refunds.                                                   *)
(***************************************************************************)
EXTENDS CertOrders, Verification, Payment, FiniteSetTheorems, TLAPS


(* What ties the parts together. *)

\* An approval marks the application before it touches the order.
MarkedFirst ==
    \A q \in Requests : pc[q] \in {"complete", "consume"} => app[arg[q]] = "approved"

\* As long as requests have taken turns there is one at most.
OneAtATime ==
    "overlap" \notin odd =>
        \A p, q \in Requests : pc[p] # "idle" /\ pc[q] # "idle" => p = q

\* A request about to freeze has found enough, and nobody has taken it since.
Covered ==
    "overlap" \notin odd =>
        \A q \in Requests : pc[q] = "freeze" => available >= Amount[arg[q]]

Rows == TypeOK /\ MarkedFirst /\ IssuedIsApproved
Turns == OneAtATime /\ Covered /\ NoOverdraft
IInv == Rows /\ MoneyConserved /\ Turns

LEMMA InitIInv == Init => IInv
BY IdsAssumption, NoneAssumption, AmountAssumption, DepositAssumption
   DEF Init, IInv, Rows, Turns, TypeOK, MarkedFirst, IssuedIsApproved, MoneyConserved,
       OneAtATime, Covered, NoOverdraft, OnOrder, OnApp

----------------------------------------------------------------------------
(* Orders. *)

LEMMA OrderingKeeps ==
  ASSUME IInv, NEW q \in Requests, Ordering(q) PROVE IInv'
<1> USE DEF Goto, Answered, Begins, rowVars, balanceVars
<1>0. /\ Rows /\ MoneyConserved /\ Turns /\ TypeOK
      /\ \A o \in Orders : Amount[o] \in Nat /\ o \notin Apps /\ o # None
  BY IdsAssumption, NoneAssumption, AmountAssumption DEF IInv, Rows
<1>1. Rows'
  <2>1. ASSUME NEW o \in Orders, CreateOrder(q, o) PROVE Rows'
    BY <1>0, <2>1 DEF CreateOrder, Rows, TypeOK, MarkedFirst, IssuedIsApproved,
       OnOrder, OnApp, Oddities
  <2>2. ASSUME NEW o \in Orders, PayOrder(q, o) PROVE Rows'
    BY <1>0, <2>2 DEF PayOrder, Rows, TypeOK, MarkedFirst, IssuedIsApproved,
       OnOrder, OnApp, Oddities
  <2>3. ASSUME NEW o \in Orders, CancelOrder(q, o) PROVE Rows'
    BY <1>0, <2>3 DEF CancelOrder, Rows, TypeOK, MarkedFirst, IssuedIsApproved,
       OnOrder, OnApp, Oddities
  <2>4. CASE Freeze(q)
    BY <1>0, <2>4 DEF Freeze, Move, Rows, TypeOK, MarkedFirst, IssuedIsApproved,
       OnOrder, OnApp
  <2>5. CASE InsertOrder(q) \/ Cancel(q)
    BY <1>0, <2>5 DEF InsertOrder, Cancel, Rows, TypeOK, MarkedFirst,
       IssuedIsApproved, OnOrder, OnApp
  <2> QED BY <2>1, <2>2, <2>3, <2>4, <2>5 DEF Ordering
<1>2. MoneyConserved'
  <2>1. CASE Freeze(q)
    <3>1. arg[q] \in Orders
      BY <1>0, <2>1 DEF Freeze, TypeOK, OnOrder
    <3> QED BY <1>0, <2>1, <3>1 DEF Freeze, Move, MoneyConserved, TypeOK
  <2>2. CASE ~Freeze(q)
    BY <1>0, <2>2 DEF Ordering, CreateOrder, PayOrder, CancelOrder, InsertOrder,
       Cancel, MoneyConserved
  <2> QED BY <2>1, <2>2
<1>3. Turns'
  <2>1. ASSUME NEW o \in Orders, CreateOrder(q, o) PROVE Turns'
    <3>1. "overlap" \notin odd' => Idle /\ "overlap" \notin odd
      BY <2>1 DEF CreateOrder
    <3> QED BY <1>0, <2>1, <3>1 DEF CreateOrder, Idle, TypeOK, Turns, OneAtATime,
            Covered, NoOverdraft
  <2>2. ASSUME NEW o \in Orders, PayOrder(q, o) \/ CancelOrder(q, o) PROVE Turns'
    <3>1. "overlap" \notin odd' => Idle /\ "overlap" \notin odd
      BY <2>2 DEF PayOrder, CancelOrder
    <3> QED BY <1>0, <2>2, <3>1 DEF PayOrder, CancelOrder, Idle, TypeOK, Turns,
            OneAtATime, Covered, NoOverdraft
  <2>3. CASE Freeze(q)
    <3>1. arg[q] \in Orders
      BY <1>0, <2>3 DEF Freeze, TypeOK, OnOrder
    <3> QED BY <1>0, <2>3, <3>1 DEF Freeze, Move, TypeOK, Turns, OneAtATime,
            Covered, NoOverdraft
  <2>4. CASE InsertOrder(q) \/ Cancel(q)
    BY <1>0, <2>4 DEF InsertOrder, Cancel, TypeOK, Turns, OneAtATime, Covered,
       NoOverdraft
  <2> QED BY <2>1, <2>2, <2>3, <2>4 DEF Ordering
<1> QED BY <1>1, <1>2, <1>3 DEF IInv

----------------------------------------------------------------------------
(* Applications. *)

LEMMA ApplyingKeeps ==
  ASSUME IInv, NEW q \in Requests, Applying(q) PROVE IInv'
<1> USE DEF Goto, Begins, rowVars, balanceVars
<1>0. /\ Rows /\ MoneyConserved /\ Turns /\ TypeOK
      /\ \A a \in Apps : a \notin Orders /\ a # None
  BY IdsAssumption, NoneAssumption DEF IInv, Rows
<1>1. Rows'
  <2>1. ASSUME NEW a \in Apps, NEW o \in Orders, CreateApplication(q, a, o)
        PROVE  Rows'
    BY <1>0, <2>1 DEF CreateApplication, Rows, TypeOK, MarkedFirst,
       IssuedIsApproved, OnOrder, OnApp, Oddities
  <2>2. ASSUME NEW a \in Apps, ApproveApplication(q, a) \/ RejectApplication(q, a)
        PROVE  Rows'
    <3>1. CASE ApproveApplication(q, a)
      BY <1>0, <3>1 DEF ApproveApplication, Rows, TypeOK, MarkedFirst,
         IssuedIsApproved, OnOrder, OnApp, Oddities
    <3>2. CASE RejectApplication(q, a)
      BY <1>0, <3>2 DEF RejectApplication, Rows, TypeOK, MarkedFirst,
         IssuedIsApproved, OnOrder, OnApp, Oddities
    <3> QED BY <2>2, <3>1, <3>2
  <2> QED BY <2>1, <2>2 DEF Applying
<1>2. MoneyConserved'
  BY <1>0 DEF Applying, CreateApplication, ApproveApplication,
     RejectApplication, MoneyConserved
<1>3. Turns'
  <2>1. "overlap" \notin odd' => Idle /\ "overlap" \notin odd
    BY DEF Applying, CreateApplication, ApproveApplication, RejectApplication
  <2>2. ASSUME NEW a \in Apps, NEW o \in Orders, CreateApplication(q, a, o)
        PROVE  Turns'
    BY <1>0, <2>1, <2>2 DEF CreateApplication, Idle, Turns, OneAtATime, Covered,
       NoOverdraft
  <2>3. ASSUME NEW a \in Apps, ApproveApplication(q, a) \/ RejectApplication(q, a)
        PROVE  Turns'
    BY <1>0, <2>1, <2>3 DEF ApproveApplication, RejectApplication, Idle, TypeOK,
       Turns, OneAtATime, Covered, NoOverdraft
  <2> QED BY <2>2, <2>3 DEF Applying
<1> QED BY <1>1, <1>2, <1>3 DEF IInv

\* The steps of a decision only add to the available balance.
LEMMA DecidingKeepsTurns ==
  ASSUME TypeOK, Turns, NEW q \in Requests, NEW at, NEW x, pc[q] # "idle",
         Goto(q, at, x), at # "freeze", available' \in Int,
         available' >= available, odd \subseteq odd'
  PROVE  Turns'
<1>1. CASE "overlap" \in odd'
  BY <1>1 DEF Turns, OneAtATime, Covered, NoOverdraft
<1>2. CASE "overlap" \notin odd'
  <2>1. "overlap" \notin odd
    BY <1>2
  <2>2. OneAtATime'
    BY <2>1 DEF Goto, TypeOK, Turns, OneAtATime
  <2>3. NoOverdraft'
    BY <2>1 DEF TypeOK, Turns, NoOverdraft
  <2>4. Covered'
    BY <2>1 DEF Goto, TypeOK, Turns, OneAtATime, Covered
  <2> QED BY <2>2, <2>3, <2>4 DEF Turns
<1> QED BY <1>1, <1>2

LEMMA DecidingKeeps ==
  ASSUME IInv, NEW q \in Requests, Approving(q) \/ Rejecting(q) \/ Fail(q)
  PROVE  IInv'
<1> USE DEF Goto, Answered, Dropped, Move, rowVars, balanceVars
<1>0. Rows /\ MoneyConserved /\ Turns /\ TypeOK
  BY DEF IInv, Rows
<1>1. ASSUME pc[q] \in OnApp
      PROVE  /\ arg[q] \in Apps /\ app[arg[q]] # "none"
             /\ orderOf[arg[q]] \in Orders /\ Amount[orderOf[arg[q]]] \in Nat
  BY <1>0, <1>1, AmountAssumption, DepositAssumption, NoneAssumption, IdsAssumption
     DEF TypeOK
<1>2. Rows'
  <2> USE <1>0, <1>1 DEF TypeOK, OnOrder, OnApp, Oddities
  <2>1. CASE IssueCert(q)
    BY <2>1 DEF IssueCert, CardOfNewCert, Rows, MarkedFirst, IssuedIsApproved
  <2>2. CASE Approve(q)
    BY <2>2 DEF Approve, Rows, MarkedFirst, IssuedIsApproved
  <2>3. CASE CompleteOrder(q)
    BY <2>3 DEF CompleteOrder, Rows, MarkedFirst, IssuedIsApproved
  <2>4. CASE Consume(q)
    BY <2>4 DEF Consume, Rows, MarkedFirst, IssuedIsApproved
  <2>5. CASE Reject(q)
    BY <2>5 DEF Reject, Rows, MarkedFirst, IssuedIsApproved
  <2>6. CASE Unfreeze(q)
    BY <2>6 DEF Unfreeze, Rows, MarkedFirst, IssuedIsApproved
  <2>7. CASE RejectOrder(q)
    BY <2>7 DEF RejectOrder, Rows, MarkedFirst, IssuedIsApproved
  <2>8. CASE Fail(q)
    BY <2>8 DEF Fail, Rows, MarkedFirst, IssuedIsApproved
  <2> QED BY <2>1, <2>2, <2>3, <2>4, <2>5, <2>6, <2>7, <2>8 DEF Approving, Rejecting
<1>3. MoneyConserved'
  <2>1. CASE Consume(q)
    BY <1>0, <1>1, <2>1 DEF Consume, MoneyConserved, TypeOK, OnApp
  <2>2. CASE Unfreeze(q)
    BY <1>0, <1>1, <2>2 DEF Unfreeze, MoneyConserved, TypeOK, OnApp
  <2>3. CASE ~Consume(q) /\ ~Unfreeze(q)
    BY <1>0, <2>3 DEF Approving, Rejecting, IssueCert, Approve, CompleteOrder,
       Reject, RejectOrder, Fail, MoneyConserved
  <2> QED BY <2>1, <2>2, <2>3
<1>4. Turns'
  <2>1. CASE IssueCert(q) \/ Approve(q) \/ CompleteOrder(q) \/ Reject(q)
             \/ RejectOrder(q) \/ Fail(q)
    BY <1>0, <2>1, DecidingKeepsTurns DEF IssueCert, Approve, CompleteOrder,
       Reject, RejectOrder, Fail, TypeOK
  <2>2. CASE Consume(q)
    <3>1. pc[q] # "idle" /\ Goto(q, "idle", None) /\ odd \subseteq odd'
      BY <2>2 DEF Consume
    <3>2. available' \in Int /\ available' >= available
      BY <1>0, <1>1, <2>2 DEF Consume, TypeOK, OnApp
    <3> QED BY <1>0, <3>1, <3>2, DecidingKeepsTurns
  <2>3. CASE Unfreeze(q)
    <3>1. pc[q] # "idle" /\ Goto(q, "close", arg[q]) /\ odd \subseteq odd'
      BY <2>3 DEF Unfreeze
    <3>2. available' \in Int /\ available' >= available
      BY <1>0, <1>1, <2>3 DEF Unfreeze, TypeOK, OnApp
    <3> QED BY <1>0, <3>1, <3>2, DecidingKeepsTurns
  <2> QED BY <2>1, <2>2, <2>3 DEF Approving, Rejecting
<1> QED BY <1>2, <1>3, <1>4 DEF IInv

LEMMA NextIInv == IInv /\ [Next]_vars => IInv'
<1>1. CASE Next
  BY <1>1, OrderingKeeps, ApplyingKeeps, DecidingKeeps DEF Next
<1>2. CASE UNCHANGED vars
  BY <1>2 DEF IInv, Rows, Turns, TypeOK, MarkedFirst, IssuedIsApproved,
     MoneyConserved, OneAtATime, Covered, NoOverdraft, vars, rowVars, balanceVars
<1> QED BY <1>1, <1>2

LEMMA Invariance == Spec => []IInv
BY InitIInv, NextIInv, PTL DEF Spec

----------------------------------------------------------------------------
(* Sums over sets of orders. *)

Pick(s) == CHOOSE x \in s : TRUE
\* What the fold of Cost computes: f[S] is the sum over S, taken element by element.
Summed(f, S) ==
    f = [s \in SUBSET S |-> IF s = {} THEN 0 ELSE Amount[Pick(s)] + f[s \ {Pick(s)}]]
OrderSets == FiniteSubsetsOf(Orders)

LEMMA CostIsSummed == \A S : Cost(S) = (CHOOSE f : Summed(f, S))[S]
BY Zenon DEF Cost, MapThenSumSet, MapThenFoldSet, Summed, Pick

LEMMA Picked == \A s : s # {} => Pick(s) \in s
BY DEF Pick

\* Among sets of orders that do something wrong there is one of which no smaller does.
LEMMA Least ==
  ASSUME NEW T, T \subseteq OrderSets, T # {}
  PROVE  \E s \in T : \A x \in s : s \ {x} \notin T
<1>1. PICK s \in T : \A t \in T : <<t, s>> \notin StrictSubsetOrdering(Orders)
  BY FS_StrictSubsetOrderingWellFounded, WFMin DEF OrderSets
<1>2. ASSUME NEW x \in s, s \ {x} \in T PROVE FALSE
  <2>1. s \in SUBSET Orders /\ s \ {x} \in SUBSET Orders
    BY <1>2 DEF OrderSets, FiniteSubsetsOf
  <2> QED BY <1>1, <1>2, <2>1 DEF StrictSubsetOrdering
<1> QED BY <1>2

LEMMA Less ==
  ASSUME NEW s \in OrderSets, NEW x PROVE s \ {x} \in OrderSets
BY FS_RemoveElement DEF OrderSets, FiniteSubsetsOf

LEMMA SummedAt ==
  ASSUME NEW f, NEW S, Summed(f, S), NEW s \in SUBSET S
  PROVE  f[s] = IF s = {} THEN 0 ELSE Amount[Pick(s)] + f[s \ {Pick(s)}]
BY Zenon DEF Summed

\* The sum of a set does not depend on the set whose sum it is a part of.
LEMMA SumsAgree ==
  ASSUME NEW f, NEW g, NEW S, NEW T, Summed(f, S), Summed(g, T),
         NEW s \in OrderSets, s \subseteq S, s \subseteq T
  PROVE  f[s] = g[s]
<1> DEFINE bad == {t \in OrderSets : t \subseteq S /\ t \subseteq T /\ f[t] # g[t]}
<1>1. CASE bad # {}
  <2>1. PICK t \in bad : \A x \in t : t \ {x} \notin bad
    BY <1>1, Least
  <2>2. t # {}
    BY SummedAt
  <2>3. t \ {Pick(t)} \notin bad
    BY <2>1, <2>2, Picked
  <2>4. f[t \ {Pick(t)}] = g[t \ {Pick(t)}]
    BY <2>3, Less
  <2>5. /\ f[t] = Amount[Pick(t)] + f[t \ {Pick(t)}]
        /\ g[t] = Amount[Pick(t)] + g[t \ {Pick(t)}]
    BY <2>2, SummedAt
  <2> QED BY <2>4, <2>5
<1> QED BY <1>1

\* Every finite set of orders has a sum.
LEMMA SumExists == ASSUME NEW S \in OrderSets PROVE \E f : Summed(f, S)
<1> DEFINE bad == {T \in OrderSets : \A f : ~Summed(f, T)}
<1>1. CASE bad # {}
  <2>1. PICK T \in bad : \A t \in bad : <<t, T>> \notin StrictSubsetOrdering(Orders)
    BY <1>1, FS_StrictSubsetOrderingWellFounded, WFMin DEF OrderSets
  <2> DEFINE F(t) == CHOOSE f : Summed(f, t)
             g == [s \in SUBSET T |-> IF s = {} THEN 0
                     ELSE Amount[Pick(s)] + F(s \ {Pick(s)})[s \ {Pick(s)}]]
  <2>2. ASSUME NEW t \in SUBSET T, t # T PROVE Summed(F(t), t) /\ t \in OrderSets
    <3>1. t \in OrderSets
      BY FS_Subset DEF OrderSets, FiniteSubsetsOf
    <3>2. t \notin bad
      BY <2>1, <2>2, <3>1 DEF StrictSubsetOrdering, OrderSets, FiniteSubsetsOf
    <3>3. PICK f : Summed(f, t)
      BY <3>1, <3>2
    <3> HIDE DEF bad
    <3> QED BY <3>1, <3>3
  <2> HIDE DEF bad, F
  <2>3. ASSUME NEW t \in SUBSET T, t # T PROVE g[t] = F(t)[t]
    <3>1. CASE t = {}
      <4>1. F(t)[t] = 0
        BY <2>2, <2>3, <3>1, SummedAt
      <4> QED BY <3>1, <4>1
    <3>2. CASE t # {}
      <4> DEFINE r == t \ {Pick(t)}
      <4>1. r \in SUBSET T /\ r # T /\ Pick(t) \in t
        BY <2>3, <3>2, Picked
      <4>2. F(t)[t] = Amount[Pick(t)] + F(t)[r]
        BY <2>2, <2>3, <3>2, SummedAt
      <4>3. F(t)[r] = F(r)[r]
        BY <2>2, <2>3, <4>1, SumsAgree
      <4> QED BY <3>2, <4>2, <4>3
    <3> QED BY <3>1, <3>2
  <2>4. ASSUME NEW s \in SUBSET T, s # {}
        PROVE  g[s] = Amount[Pick(s)] + g[s \ {Pick(s)}]
    <3>1. s \ {Pick(s)} \in SUBSET T /\ s \ {Pick(s)} # T
      BY <2>4, Picked
    <3> QED BY <2>3, <2>4, <3>1
  <2>5. Summed(g, T)
    <3>1. g = [s \in SUBSET T |-> IF s = {} THEN 0
                 ELSE Amount[Pick(s)] + g[s \ {Pick(s)}]]
      BY <2>4
    <3> QED BY <3>1 DEF Summed
  <2> QED BY <2>5 DEF bad
<1> QED BY <1>1

LEMMA CostSum ==
  ASSUME NEW S \in OrderSets
  PROVE  \A f : Summed(f, S) => Cost(S) = f[S]
<1> DEFINE g == CHOOSE f : Summed(f, S)
<1>1. Summed(g, S)
  BY SumExists
<1>2. Cost(S) = g[S]
  BY CostIsSummed
<1> HIDE DEF g
<1> QED BY <1>1, <1>2, SumsAgree

\* A sum is the amount of the element picked first and the sum of the others.
LEMMA CostPick ==
  ASSUME NEW S \in OrderSets, S # {}
  PROVE  Cost(S) = Amount[Pick(S)] + Cost(S \ {Pick(S)})
<1>1. PICK f : Summed(f, S)
  BY SumExists
<1> DEFINE r == S \ {Pick(S)}
<1>2. r \in OrderSets
  BY Less
<1>3. PICK g : Summed(g, r)
  BY <1>2, SumExists
<1>4. f[r] = g[r]
  BY <1>1, <1>2, <1>3, SumsAgree
<1>5. Cost(S) = f[S] /\ Cost(r) = g[r]
  BY <1>1, <1>2, <1>3, CostSum
<1>6. f[S] = Amount[Pick(S)] + f[r]
  BY <1>1, SummedAt
<1> QED BY <1>4, <1>5, <1>6

LEMMA CostNone == Cost({}) = 0
<1>1. {} \in OrderSets
  BY FS_EmptySet DEF OrderSets, FiniteSubsetsOf
<1>2. PICK f : Summed(f, {})
  BY <1>1, SumExists
<1>3. f[{}] = 0
  BY <1>2, SummedAt
<1> QED BY <1>1, <1>2, <1>3, CostSum

LEMMA CostNat == ASSUME NEW S \in OrderSets PROVE Cost(S) \in Nat
<1> DEFINE bad == {T \in OrderSets : Cost(T) \notin Nat}
<1>1. CASE bad # {}
  <2>1. PICK T \in bad : \A x \in T : T \ {x} \notin bad
    BY <1>1, Least
  <2>2. T # {}
    BY CostNone
  <2>3. Pick(T) \in T /\ T \ {Pick(T)} \in OrderSets /\ Amount[Pick(T)] \in Nat
    BY <2>2, Picked, Less, AmountAssumption DEF OrderSets, FiniteSubsetsOf
  <2>4. Cost(T \ {Pick(T)}) \in Nat
    BY <2>1, <2>3
  <2>5. Cost(T) = Amount[Pick(T)] + Cost(T \ {Pick(T)})
    BY <2>2, CostPick
  <2> QED BY <2>3, <2>4, <2>5
<1> QED BY <1>1

\* An order that joins adds its amount, whichever is picked first.
LEMMA CostWith ==
  ASSUME NEW S \in OrderSets, NEW o \in Orders, o \notin S
  PROVE  /\ S \cup {o} \in OrderSets
         /\ Cost(S \cup {o}) = Cost(S) + Amount[o]
<1> DEFINE bad == {T \in OrderSets : \E x \in Orders \ T :
                     Cost(T \cup {x}) # Cost(T) + Amount[x]}
<1>0. \A T \in OrderSets, x \in Orders : T \cup {x} \in OrderSets
  BY FS_AddElement DEF OrderSets, FiniteSubsetsOf
<1>1. CASE bad # {}
  <2>1. PICK T \in bad : \A x \in T : T \ {x} \notin bad
    BY <1>1, Least
  <2>2. PICK x \in Orders \ T : Cost(T \cup {x}) # Cost(T) + Amount[x]
    OBVIOUS
  <2> DEFINE U == T \cup {x}
             c == Pick(U)
  <2>3. U \in OrderSets /\ c \in U /\ U \subseteq Orders /\ c \in Orders
    BY <1>0, Picked DEF OrderSets, FiniteSubsetsOf
  <2>4. Cost(U) = Amount[c] + Cost(U \ {c})
    BY <2>3, CostPick
  <2> HIDE DEF c
  <2>5. c # x
    <3>1. CASE c = x
      <4>1. U \ {c} = T
        BY <3>1
      <4>2. Cost(T) \in Nat /\ Amount[x] \in Nat
        BY CostNat, AmountAssumption
      <4> QED BY <2>2, <2>4, <3>1, <4>1, <4>2
    <3> QED BY <3>1
  <2> DEFINE r == T \ {c}
  <2>6. c \in T /\ r \in OrderSets /\ r \notin bad
    BY <2>1, <2>3, <2>5, Less
  <2>7. /\ U \ {c} = r \cup {x} /\ T = r \cup {c}
        /\ x \in Orders \ r /\ c \in Orders \ r
    BY <2>3, <2>5, <2>6
  <2>8. Cost(r \cup {x}) = Cost(r) + Amount[x] /\ Cost(r \cup {c}) = Cost(r) + Amount[c]
    BY <2>6, <2>7
  <2>9. Cost(r) \in Nat /\ Amount[x] \in Nat /\ Amount[c] \in Nat
    BY <2>3, <2>6, CostNat, AmountAssumption
  <2>10. Cost(U) = Amount[c] + (Cost(r) + Amount[x])
    <3> HIDE DEF r, U, bad
    <3> QED BY <2>4, <2>7, <2>8
  <2>11. Cost(T) = Cost(r) + Amount[c]
    <3> HIDE DEF r, U, bad
    <3> QED BY <2>7, <2>8
  <2> HIDE DEF r, bad
  <2> QED BY <2>2, <2>9, <2>10, <2>11
<1> QED BY <1>0, <1>1

----------------------------------------------------------------------------
(* The ledger. *)

Approved == {o \in Orders : Decided(o, "approved")}
Held == {o \in Orders : /\ status[o] # "none"
                        /\ ~Decided(o, "approved") /\ ~Decided(o, "rejected")}

\* What a request at the statement "at" about x has yet to move: out of what is frozen
\* into what is consumed, and out of what is frozen altogether (for an order that is
\* being created: what was frozen before its row is there).
Owes(at, x) == IF at \in {"complete", "consume"} THEN Amount[orderOf[x]] ELSE 0
Keeps(at, x) ==
    IF at = "insert" THEN Amount[x]
    ELSE IF at \in {"complete", "consume", "unfreeze"} THEN Amount[orderOf[x]] ELSE 0
Stated(at, x) ==
    /\ consumed + Owes(at, x) <= Cost(Approved)
    /\ frozen >= Cost(Held) + Keeps(at, x)
    /\ odd = {} => /\ consumed + Owes(at, x) = Cost(Approved)
                   /\ frozen = Cost(Held) + Keeps(at, x)

\* What a request found, nobody has changed.
Found(at, x) ==
    /\ at \in {"freeze", "insert"} => status[x] = "none"
    /\ at = "cancel" => status[x] # "none"
    /\ at \in {"issue", "approve", "reject"} => app[x] = "pending"
\* The balance is the ledger of the orders, but for what is under way.
Booked ==
    /\ Idle => Stated("idle", None)
    /\ \A q \in Requests : pc[q] # "idle" => Found(pc[q], arg[q]) /\ Stated(pc[q], arg[q])
\* One application per order.
AppliedOnce ==
    \A a, b \in Apps : orderOf[a] \in Orders /\ orderOf[b] = orderOf[a] => a = b
Used == {o \in Orders : status[o] # "none"}
\* There are finitely many orders, and an application is for one of them.
AppliedFor ==
    /\ IsFiniteSet(Used)
    /\ \A a \in Apps : orderOf[a] \in Orders => status[orderOf[a]] # "none"
InTurn == odd \subseteq {"failure"}
Ledger == InTurn => AppliedOnce /\ Booked
LedgerInv == AppliedFor /\ Ledger

LEMMA AmountsNat == \A o \in Orders : Amount[o] \in Nat
BY AmountAssumption

LEMMA LedgerInit == Init => LedgerInv
<1> SUFFICES ASSUME Init PROVE LedgerInv
  OBVIOUS
<1>1. Used = {} /\ Approved = {} /\ Held = {}
  BY DEF Init, Used, Approved, Held, Decided
<1>2. IsFiniteSet({})
  BY FS_EmptySet
<1>3. AppliedFor /\ AppliedOnce
  BY <1>1, <1>2, NoneAssumption DEF AppliedFor, Init, AppliedOnce
<1>4. Stated("idle", None)
  BY <1>1, CostNone DEF Stated, Owes, Keeps, Init
<1> QED BY <1>3, <1>4 DEF LedgerInv, Ledger, Booked, Init

LEMMA LedgerSets ==
  ASSUME AppliedFor, TypeOK
  PROVE  /\ Approved \in OrderSets /\ Held \in OrderSets
         /\ Cost(Approved) \in Nat /\ Cost(Held) \in Nat
<1>1. Approved \subseteq Used /\ Held \subseteq Used /\ Used \subseteq Orders
  BY DEF Approved, Held, Used, Decided, AppliedFor
<1>2. IsFiniteSet(Approved) /\ IsFiniteSet(Held)
  BY <1>1, FS_Subset DEF AppliedFor
<1>3. Approved \in OrderSets /\ Held \in OrderSets
  BY <1>1, <1>2 DEF OrderSets, FiniteSubsetsOf
<1> QED BY <1>3, CostNat

LEMMA LedgerBefore ==
  ASSUME Ledger, NEW q \in Requests, InTurn, pc[q] = "idle" => Idle
  PROVE  AppliedOnce /\ Found(pc[q], arg[q]) /\ Stated(pc[q], arg[q])
BY DEF Ledger, Booked, Found, Stated, Owes, Keeps, Idle

\* As requests take turns, only the one that moves has something under way.
LEMMA LedgerAfter ==
  ASSUME TypeOK, OneAtATime, NEW q \in Requests, NEW at, NEW x,
         pc' = [pc EXCEPT ![q] = at], arg' = [arg EXCEPT ![q] = x],
         InTurn' => /\ InTurn
                    /\ pc[q] = "idle" => Idle
                    /\ AppliedOnce' /\ Found(at, x)' /\ Stated(at, x)'
  PROVE  Ledger'
<1> SUFFICES ASSUME InTurn' PROVE AppliedOnce' /\ Booked'
  BY DEF Ledger
<1>0. InTurn /\ (pc[q] = "idle" => Idle) /\ AppliedOnce' /\ Found(at, x)' /\ Stated(at, x)'
  OBVIOUS
<1>1. \A p \in Requests : p # q => pc'[p] = "idle"
  <2>1. "overlap" \notin odd
    BY <1>0 DEF InTurn
  <2> QED BY <1>0, <2>1 DEF OneAtATime, TypeOK, Idle
<1>2. pc'[q] = at /\ arg'[q] = x
  BY DEF TypeOK
<1>3. Idle' => at = "idle"
  BY <1>2 DEF Idle
<1>4. at = "idle" => Stated("idle", None)'
  <2>1. at = "idle" => Owes(at, x)' = Owes("idle", None)' /\ Keeps(at, x)' = Keeps("idle", None)'
    BY DEF Owes, Keeps
  <2> QED BY <1>0, <2>1 DEF Stated
<1>5. \A p \in Requests : pc'[p] # "idle" => Found(pc[p], arg[p])' /\ Stated(pc[p], arg[p])'
  BY <1>0, <1>1, <1>2
<1> QED BY <1>0, <1>3, <1>4, <1>5 DEF Booked

LEMMA SameRows ==
  ASSUME UNCHANGED <<app, orderOf>>,
         \A o \in Orders : status'[o] # "none" <=> status[o] # "none"
  PROVE  /\ Approved' = Approved /\ Held' = Held /\ Used' = Used
         /\ AppliedOnce' <=> AppliedOnce
         /\ AppliedFor => AppliedFor'
BY DEF Approved, Held, Used, Decided, AppliedOnce, AppliedFor

LEMMA OrderingBooks ==
  ASSUME IInv, LedgerInv, NEW q \in Requests, Ordering(q) PROVE LedgerInv'
<1> USE DEF Goto, Answered, Begins, rowVars, balanceVars, InTurn
<1>0. /\ TypeOK /\ OneAtATime /\ AppliedFor /\ Ledger
      /\ \A o \in Orders : Amount[o] \in Nat
      /\ Held \in OrderSets /\ Cost(Approved) \in Nat /\ Cost(Held) \in Nat
  BY AmountsNat, LedgerSets DEF IInv, Rows, Turns, LedgerInv
<1>1. ASSUME NEW o \in Orders, CreateOrder(q, o) PROVE LedgerInv'
  <2> DEFINE at == IF Amount[o] > 0 THEN "freeze" ELSE "insert"
  <2>1. Approved' = Approved /\ Held' = Held /\ AppliedFor' /\ (AppliedOnce' <=> AppliedOnce)
    BY <1>0, <1>1, SameRows DEF CreateOrder
  <2>2. ASSUME InTurn'
        PROVE  InTurn /\ odd' = odd /\ Idle /\ AppliedOnce /\ Stated(pc[q], arg[q])
    BY <1>0, <1>1, <2>2, LedgerBefore DEF CreateOrder
  <2>3. ASSUME InTurn' PROVE Found(at, o)' /\ Stated(at, o)'
    BY <1>0, <1>1, <2>1, <2>2, <2>3 DEF CreateOrder, Found, Stated, Owes, Keeps
  <2>4. pc' = [pc EXCEPT ![q] = at] /\ arg' = [arg EXCEPT ![q] = o]
    BY <1>1 DEF CreateOrder
  <2> HIDE DEF at
  <2>5. Ledger'
    BY <1>0, <2>1, <2>2, <2>3, <2>4, LedgerAfter
  <2> QED BY <2>1, <2>5 DEF LedgerInv
<1>2. ASSUME NEW o \in Orders, PayOrder(q, o) PROVE LedgerInv'
  <2>1. Approved' = Approved /\ Held' = Held /\ AppliedFor' /\ (AppliedOnce' <=> AppliedOnce)
    BY <1>0, <1>2, SameRows DEF PayOrder, TypeOK
  <2>2. ASSUME InTurn'
        PROVE  InTurn /\ odd' = odd /\ Idle /\ AppliedOnce /\ Stated(pc[q], arg[q])
    BY <1>0, <1>2, <2>2, LedgerBefore DEF PayOrder
  <2>3. ASSUME InTurn' PROVE Found(pc[q], arg[q])' /\ Stated(pc[q], arg[q])'
    BY <1>0, <1>2, <2>1, <2>2, <2>3 DEF PayOrder, Found, Stated, Owes, Keeps, Idle
  <2>4. pc' = [pc EXCEPT ![q] = pc[q]] /\ arg' = [arg EXCEPT ![q] = arg[q]]
    BY <1>0, <1>2 DEF PayOrder, TypeOK
  <2>5. pc[q]' = pc[q] /\ arg[q]' = arg[q]
    BY <1>2 DEF PayOrder
  <2>6. Ledger'
    BY <1>0, <2>1, <2>2, <2>3, <2>4, <2>5, LedgerAfter DEF Found, Stated, Owes, Keeps
  <2> QED BY <2>1, <2>6 DEF LedgerInv
<1>3. ASSUME NEW o \in Orders, CancelOrder(q, o) PROVE LedgerInv'
  <2>1. Approved' = Approved /\ Held' = Held /\ AppliedFor' /\ (AppliedOnce' <=> AppliedOnce)
    BY <1>0, <1>3, SameRows DEF CancelOrder
  <2>2. ASSUME InTurn'
        PROVE  InTurn /\ odd' = odd /\ Idle /\ AppliedOnce /\ Stated(pc[q], arg[q])
    BY <1>0, <1>3, <2>2, LedgerBefore DEF CancelOrder
  <2>3. ASSUME InTurn' PROVE Found("cancel", o)' /\ Stated("cancel", o)'
    BY <1>0, <1>3, <2>1, <2>2, <2>3 DEF CancelOrder, Found, Stated, Owes, Keeps
  <2>4. Ledger'
    BY <1>0, <1>3, <2>1, <2>2, <2>3, LedgerAfter DEF CancelOrder
  <2> QED BY <2>1, <2>4 DEF LedgerInv
<1>4. CASE Freeze(q)
  <2>0. PICK o \in Orders : o = arg[q]
    BY <1>0, <1>4 DEF Freeze, TypeOK, OnOrder
  <2>1. Approved' = Approved /\ Held' = Held /\ AppliedFor' /\ (AppliedOnce' <=> AppliedOnce)
    BY <1>0, <1>4, SameRows DEF Freeze
  <2>2. ASSUME InTurn'
        PROVE  InTurn /\ odd' = odd /\ AppliedOnce /\ Found("freeze", o) /\ Stated("freeze", o)
    BY <1>0, <1>4, <2>0, <2>2, LedgerBefore DEF Freeze
  <2>3. ASSUME InTurn' PROVE Found("insert", o)' /\ Stated("insert", o)'
    BY <1>0, <1>4, <2>0, <2>1, <2>2, <2>3
       DEF Freeze, Move, Found, Stated, Owes, Keeps, TypeOK
  <2>4. Ledger'
    BY <1>0, <1>4, <2>0, <2>1, <2>2, <2>3, LedgerAfter DEF Freeze
  <2> QED BY <2>1, <2>4 DEF LedgerInv
<1>5. CASE InsertOrder(q)
  <2>0. PICK o \in Orders : o = arg[q]
    BY <1>0, <1>5 DEF InsertOrder, TypeOK, OnOrder
  <2>1. AppliedFor' /\ (AppliedOnce' <=> AppliedOnce)
    <3>1. Used' = Used \cup {o}
      BY <1>0, <1>5, <2>0 DEF InsertOrder, Used, TypeOK
    <3>2. IsFiniteSet(Used')
      BY <1>0, <3>1, FS_AddElement DEF AppliedFor
    <3> QED BY <1>0, <1>5, <2>0, <3>2 DEF InsertOrder, AppliedFor, AppliedOnce, TypeOK
  <2>2. ASSUME InTurn'
        PROVE  InTurn /\ odd' = odd /\ AppliedOnce /\ Found("insert", o) /\ Stated("insert", o)
    BY <1>0, <1>5, <2>0, <2>2, LedgerBefore DEF InsertOrder
  <2>3. ASSUME InTurn' PROVE Found("idle", None)' /\ Stated("idle", None)'
    <3>1. status[o] = "none" /\ \A a \in Apps : orderOf[a] # o
      BY <1>0, <2>2, <2>3 DEF Found, AppliedFor
    <3>2. Approved' = Approved /\ Held' = Held \cup {o} /\ o \notin Held
      BY <1>0, <1>5, <2>0, <3>1 DEF InsertOrder, Approved, Held, Decided, TypeOK
    <3>3. Cost(Held') = Cost(Held) + Amount[o]
      BY <1>0, <3>2, CostWith
    <3> QED BY <1>0, <1>5, <2>2, <2>3, <3>2, <3>3
            DEF InsertOrder, Found, Stated, Owes, Keeps, TypeOK
  <2>4. Ledger'
    BY <1>0, <1>5, <2>1, <2>2, <2>3, LedgerAfter DEF InsertOrder
  <2> QED BY <2>1, <2>4 DEF LedgerInv
<1>6. CASE Cancel(q)
  <2>0. PICK o \in Orders : o = arg[q]
    BY <1>0, <1>6 DEF Cancel, TypeOK, OnOrder
  <2>1. AppliedFor' /\ (AppliedOnce' <=> AppliedOnce)
    <3>1. Used' = Used \cup {o}
      BY <1>0, <1>6, <2>0 DEF Cancel, Used, TypeOK
    <3>2. IsFiniteSet(Used')
      BY <1>0, <3>1, FS_AddElement DEF AppliedFor
    <3> QED BY <1>0, <1>6, <2>0, <3>2 DEF Cancel, AppliedFor, AppliedOnce, TypeOK
  <2>2. ASSUME InTurn'
        PROVE  InTurn /\ odd' = odd /\ AppliedOnce /\ Found("cancel", o) /\ Stated("cancel", o)
    BY <1>0, <1>6, <2>0, <2>2, LedgerBefore DEF Cancel
  <2>3. ASSUME InTurn' PROVE Found("idle", None)' /\ Stated("idle", None)'
    <3>1. Approved' = Approved /\ Held' = Held
      BY <1>0, <1>6, <2>0, <2>2, <2>3, SameRows DEF Cancel, TypeOK, Found
    <3> QED BY <1>0, <1>6, <2>2, <2>3, <3>1 DEF Cancel, Found, Stated, Owes, Keeps
  <2>4. Ledger'
    BY <1>0, <1>6, <2>1, <2>2, <2>3, LedgerAfter DEF Cancel
  <2> QED BY <2>1, <2>4 DEF LedgerInv
<1> QED BY <1>1, <1>2, <1>3, <1>4, <1>5, <1>6 DEF Ordering

LEMMA ApplyingBooks ==
  ASSUME IInv, LedgerInv, NEW q \in Requests, Applying(q) PROVE LedgerInv'
<1> USE DEF Goto, Answered, Begins, rowVars, balanceVars, InTurn
<1>0. TypeOK /\ OneAtATime /\ AppliedFor /\ Ledger
  BY DEF IInv, Rows, Turns, LedgerInv
<1>1. ASSUME NEW a \in Apps, NEW o \in Orders, CreateApplication(q, a, o)
      PROVE  LedgerInv'
  <2>1. Approved' = Approved /\ Held' = Held
    BY <1>0, <1>1 DEF CreateApplication, Approved, Held, Decided, TypeOK
  <2>2. AppliedFor'
    BY <1>0, <1>1 DEF CreateApplication, AppliedFor, Used, TypeOK
  <2>3. ASSUME InTurn'
        PROVE  InTurn /\ odd' = odd /\ Idle /\ AppliedOnce /\ Stated(pc[q], arg[q])
    BY <1>0, <1>1, <2>3, LedgerBefore DEF CreateApplication
  <2>4. ASSUME InTurn' PROVE AppliedOnce'
    <3>1. \A b \in Apps : orderOf[b] # o
      BY <1>1, <2>4 DEF CreateApplication
    <3>2. orderOf' = [orderOf EXCEPT ![a] = o] /\ AppliedOnce
      BY <1>1, <2>3, <2>4 DEF CreateApplication
    <3> QED BY <1>0, <3>1, <3>2 DEF AppliedOnce, TypeOK
  <2>5. ASSUME InTurn' PROVE Found("idle", arg[q])' /\ Stated("idle", arg[q])'
    BY <1>1, <2>1, <2>3, <2>5 DEF CreateApplication, Found, Stated, Owes, Keeps
  <2>6. pc' = [pc EXCEPT ![q] = "idle"] /\ arg' = [arg EXCEPT ![q] = arg[q]]
    BY <1>0, <1>1 DEF CreateApplication, TypeOK
  <2>7. Ledger'
    BY <1>0, <2>3, <2>4, <2>5, <2>6, LedgerAfter DEF Found, Stated, Owes, Keeps
  <2> QED BY <2>2, <2>7 DEF LedgerInv
<1>2. ASSUME NEW a \in Apps, ApproveApplication(q, a) \/ RejectApplication(q, a)
      PROVE  LedgerInv'
  <2>1. Approved' = Approved /\ Held' = Held /\ AppliedFor' /\ (AppliedOnce' <=> AppliedOnce)
    BY <1>0, <1>2, SameRows DEF ApproveApplication, RejectApplication
  <2>2. ASSUME InTurn'
        PROVE  InTurn /\ odd' = odd /\ Idle /\ AppliedOnce /\ Stated(pc[q], arg[q])
    <3>1. odd' = IF Idle THEN odd ELSE odd \cup {"overlap"}
      BY <1>2 DEF ApproveApplication, RejectApplication
    <3>2. InTurn /\ odd' = odd /\ Idle
      BY <2>2, <3>1
    <3> QED BY <1>0, <3>2, LedgerBefore
  <2>3. PICK at \in {"issue", "approve", "reject"} :
          pc' = [pc EXCEPT ![q] = at] /\ arg' = [arg EXCEPT ![q] = a]
    BY <1>2 DEF ApproveApplication, RejectApplication
  <2>4. ASSUME InTurn' PROVE Found(at, a)' /\ Stated(at, a)'
    BY <1>2, <2>1, <2>2, <2>4
       DEF ApproveApplication, RejectApplication, Found, Stated, Owes, Keeps
  <2>5. Ledger'
    BY <1>0, <1>2, <2>1, <2>2, <2>3, <2>4, LedgerAfter
       DEF ApproveApplication, RejectApplication
  <2> QED BY <2>1, <2>5 DEF LedgerInv
<1> QED BY <1>1, <1>2 DEF Applying

LEMMA DecidingBooks ==
  ASSUME IInv, LedgerInv, NEW q \in Requests, Approving(q) \/ Rejecting(q) \/ Fail(q)
  PROVE  LedgerInv'
<1> USE DEF Goto, Answered, rowVars, balanceVars, InTurn
<1>0. /\ TypeOK /\ OneAtATime /\ AppliedFor /\ Ledger
      /\ \A o \in Orders : Amount[o] \in Nat
      /\ Approved \in OrderSets /\ Held \in OrderSets
      /\ Cost(Approved) \in Nat /\ Cost(Held) \in Nat
  BY AmountsNat, LedgerSets DEF IInv, Rows, Turns, LedgerInv
\* What has not been moved stays frozen.
<1>1. CASE Fail(q)
  <2>1. Approved' = Approved /\ Held' = Held /\ AppliedFor' /\ (AppliedOnce' <=> AppliedOnce)
    BY <1>0, <1>1, SameRows DEF Fail
  <2>2. ASSUME InTurn'
        PROVE  InTurn /\ odd' # {} /\ AppliedOnce /\ Stated(pc[q], arg[q])
    BY <1>0, <1>1, <2>2, LedgerBefore DEF Fail
  <2>3. /\ Owes(pc[q], arg[q]) \in Nat /\ Keeps(pc[q], arg[q]) \in Nat
    BY <1>0, <1>1 DEF Fail, Owes, Keeps, TypeOK, OnOrder, OnApp
  <2>4. ASSUME InTurn' PROVE Found("idle", None)' /\ Stated("idle", None)'
    <3>1. /\ consumed + Owes(pc[q], arg[q]) <= Cost(Approved)
          /\ frozen >= Cost(Held) + Keeps(pc[q], arg[q])
      BY <2>2, <2>4 DEF Stated
    <3>2. consumed <= Cost(Approved) /\ frozen >= Cost(Held)
      BY <1>0, <2>3, <3>1 DEF TypeOK
    <3>3. /\ Owes("idle", None)' = 0 /\ Keeps("idle", None)' = 0 /\ odd' # {}
          /\ consumed' = consumed /\ frozen' = frozen
      BY <1>1, <2>2, <2>4 DEF Fail, Owes, Keeps
    <3> HIDE DEF InTurn
    <3> QED BY <1>0, <2>1, <3>2, <3>3 DEF Found, Stated, TypeOK
  <2>5. Ledger'
    BY <1>0, <1>1, <2>1, <2>2, <2>4, LedgerAfter DEF Fail
  <2> QED BY <2>1, <2>5 DEF LedgerInv
<1>2. CASE ~Fail(q)
  <2>1. pc[q] \in OnApp /\ pc[q] # "idle"
    BY <1>2 DEF Approving, Rejecting, IssueCert, Approve, CompleteOrder, Consume,
       Reject, Unfreeze, RejectOrder, OnApp
  <2>2. PICK a \in Apps : a = arg[q]
    BY <1>0, <2>1 DEF TypeOK
  <2>3. PICK o \in Orders : o = orderOf[a]
    BY <1>0, <2>1, <2>2 DEF TypeOK
  <2>4. app[a] # "none" /\ status[o] # "none" /\ Amount[o] \in Nat
    BY <1>0, <2>1, <2>2, <2>3 DEF TypeOK, AppliedFor
  <2>5. ASSUME InTurn
        PROVE  AppliedOnce /\ Found(pc[q], a) /\ Stated(pc[q], a)
    BY <1>0, <2>1, <2>2, <2>5, LedgerBefore
  <2>6. CASE IssueCert(q) \/ CompleteOrder(q) \/ RejectOrder(q)
    <3>1. Approved' = Approved /\ Held' = Held /\ AppliedFor' /\ (AppliedOnce' <=> AppliedOnce)
      BY <1>0, <2>2, <2>3, <2>4, <2>6, SameRows
         DEF IssueCert, CompleteOrder, RejectOrder, TypeOK
    <3>2. CASE IssueCert(q)
      <4>1. pc' = [pc EXCEPT ![q] = "idle"] /\ arg' = [arg EXCEPT ![q] = None]
        BY <3>2, NoneAssumption DEF IssueCert, CardOfNewCert
      <4>2. ASSUME InTurn' PROVE Found("idle", None)' /\ Stated("idle", None)'
        BY <2>5, <3>1, <3>2, <4>2 DEF IssueCert, Found, Stated, Owes, Keeps
      <4>3. Ledger'
        BY <1>0, <2>1, <2>5, <3>1, <3>2, <4>1, <4>2, LedgerAfter DEF IssueCert
      <4> QED BY <3>1, <4>3 DEF LedgerInv
    <3>3. CASE CompleteOrder(q)
      <4>1. ASSUME InTurn' PROVE Found("consume", a)' /\ Stated("consume", a)'
        BY <2>5, <3>1, <3>3, <4>1 DEF CompleteOrder, Found, Stated, Owes, Keeps
      <4>2. Ledger'
        BY <1>0, <2>1, <2>2, <2>5, <3>1, <3>3, <4>1, LedgerAfter DEF CompleteOrder
      <4> QED BY <3>1, <4>2 DEF LedgerInv
    <3>4. CASE RejectOrder(q)
      <4>1. ASSUME InTurn' PROVE Found("idle", None)' /\ Stated("idle", None)'
        BY <2>5, <3>1, <3>4, <4>1 DEF RejectOrder, Found, Stated, Owes, Keeps
      <4>2. Ledger'
        BY <1>0, <2>1, <2>5, <3>1, <3>4, <4>1, LedgerAfter DEF RejectOrder
      <4> QED BY <3>1, <4>2 DEF LedgerInv
    <3> QED BY <2>6, <3>2, <3>3, <3>4
  <2>7. ASSUME UNCHANGED <<status, orderOf>>
        PROVE  AppliedFor' /\ (AppliedOnce' <=> AppliedOnce)
    BY <1>0, <2>7 DEF AppliedFor, AppliedOnce, Used
  \* Who else decides on the order: nobody, as long as nothing odd happened.
  <2>8. ASSUME InTurn, app[a] = "pending", UNCHANGED <<status, orderOf>>,
               NEW how \in {"approved", "rejected"}, app' = [app EXCEPT ![a] = how]
        PROVE  /\ Held = Held' \cup {o} /\ o \notin Held'
               /\ Approved' = IF how = "approved" THEN Approved \cup {o} ELSE Approved
               /\ o \notin Approved
    <3>1. \A b \in Apps : orderOf[b] = o => b = a
      BY <2>3, <2>5, <2>8 DEF AppliedOnce
    <3>2. \A p \in Orders : p # o =>
            /\ Decided(p, "approved")' <=> Decided(p, "approved")
            /\ Decided(p, "rejected")' <=> Decided(p, "rejected")
      BY <1>0, <2>3, <2>8 DEF Decided, TypeOK
    <3>3. /\ ~Decided(o, "approved") /\ ~Decided(o, "rejected")
          /\ Decided(o, "approved")' <=> how = "approved"
          /\ Decided(o, "rejected")' <=> how = "rejected"
      BY <1>0, <2>3, <2>8, <3>1 DEF Decided, TypeOK
    <3> QED BY <2>4, <2>8, <3>2, <3>3 DEF Held, Approved
  <2>9. ASSUME NEW S \in OrderSets, NEW T, S = T \cup {o}, o \notin T
        PROVE  Cost(T) \in Nat /\ Cost(S) = Cost(T) + Amount[o]
    <3>1. T = S \ {o}
      BY <2>9
    <3>2. T \in OrderSets
      BY <3>1, Less
    <3> QED BY <2>9, <3>2, CostNat, CostWith
  <2>10. CASE Approve(q)
    <3>1. ASSUME InTurn' PROVE Found("complete", a)' /\ Stated("complete", a)'
      <4>1. InTurn /\ app[a] = "pending" /\ app' = [app EXCEPT ![a] = "approved"]
        BY <2>2, <2>5, <2>10, <3>1 DEF Approve, Found
      <4>2. /\ Held = Held' \cup {o} /\ o \notin Held'
            /\ Approved' = Approved \cup {o} /\ o \notin Approved
        BY <2>8, <2>10, <4>1 DEF Approve
      <4>3. Cost(Held') \in Nat /\ Cost(Held) = Cost(Held') + Amount[o]
        BY <1>0, <2>9, <4>2
      <4>4. Cost(Approved') = Cost(Approved) + Amount[o]
        BY <1>0, <4>2, CostWith
      <4>5. /\ consumed <= Cost(Approved) /\ frozen >= Cost(Held)
            /\ odd = {} => consumed = Cost(Approved) /\ frozen = Cost(Held)
        BY <1>0, <2>5, <2>10, <4>1 DEF Approve, Stated, Owes, Keeps, TypeOK
      <4>6. /\ Found("complete", a)' /\ Owes("complete", a)' = Amount[o] /\ Keeps("complete", a)' = Amount[o]
        BY <2>3, <2>10 DEF Approve, Found, Owes, Keeps
      <4>7. /\ consumed' + Amount[o] <= Cost(Approved') /\ frozen' >= Cost(Held') + Amount[o]
            /\ odd' = {} => /\ consumed' + Amount[o] = Cost(Approved')
                            /\ frozen' = Cost(Held') + Amount[o]
        BY <1>0, <2>4, <2>10, <4>3, <4>4, <4>5 DEF Approve, TypeOK
      <4> QED BY <4>6, <4>7 DEF Stated
    <3>2. Ledger'
      BY <1>0, <2>1, <2>2, <2>5, <2>7, <2>10, <3>1, LedgerAfter DEF Approve
    <3> QED BY <2>7, <2>10, <3>2 DEF LedgerInv, Approve
  <2>11. CASE Consume(q)
    <3>1. ASSUME InTurn' PROVE Found("idle", None)' /\ Stated("idle", None)'
      <4>1. /\ InTurn /\ UNCHANGED rowVars
            /\ \/ /\ odd' = odd
                  /\ consumed' = consumed + Amount[o] /\ frozen' = frozen - Amount[o]
               \/ odd' # {} /\ consumed' = consumed /\ frozen' = frozen
        BY <1>0, <2>2, <2>3, <2>4, <2>11, <3>1 DEF Consume, Dropped, Move, TypeOK
      <4>2. /\ consumed + Amount[o] <= Cost(Approved) /\ frozen >= Cost(Held) + Amount[o]
            /\ odd = {} => consumed + Amount[o] = Cost(Approved) /\ frozen = Cost(Held) + Amount[o]
        BY <2>3, <2>5, <2>11, <4>1 DEF Consume, Stated, Owes, Keeps
      <4>3. Approved' = Approved /\ Held' = Held
        BY <4>1, SameRows
      <4>6. /\ Found("idle", None)' /\ Owes("idle", None)' = 0 /\ Keeps("idle", None)' = 0
        BY <4>1 DEF Found, Owes, Keeps
      <4>7. /\ consumed' + 0 <= Cost(Approved') /\ frozen' >= Cost(Held') + 0
            /\ odd' = {} => /\ consumed' + 0 = Cost(Approved')
                            /\ frozen' = Cost(Held') + 0
        BY <1>0, <2>4, <4>1, <4>2, <4>3 DEF TypeOK
      <4> QED BY <4>6, <4>7 DEF Stated
    <3>2. Ledger'
      BY <1>0, <2>1, <2>5, <2>7, <2>11, <3>1, LedgerAfter DEF Consume, Dropped
    <3> QED BY <2>7, <2>11, <3>2 DEF LedgerInv, Consume
  <2>12. CASE Reject(q)
    <3> DEFINE at == IF Amount[o] > 0 THEN "unfreeze" ELSE "idle"
               x == IF Amount[o] > 0 THEN a ELSE None
    <3>1. ASSUME InTurn' PROVE Found(at, x)' /\ Stated(at, x)'
      <4>1. InTurn /\ app[a] = "pending" /\ app' = [app EXCEPT ![a] = "rejected"]
        BY <2>2, <2>5, <2>12, <3>1 DEF Reject, Found
      <4>2. Held = Held' \cup {o} /\ o \notin Held' /\ Approved' = Approved
        BY <2>8, <2>12, <4>1 DEF Reject
      <4>3. Cost(Held') \in Nat /\ Cost(Held) = Cost(Held') + Amount[o]
        BY <1>0, <2>9, <4>2
      <4>4. /\ consumed <= Cost(Approved) /\ frozen >= Cost(Held)
            /\ odd = {} => consumed = Cost(Approved) /\ frozen = Cost(Held)
        BY <1>0, <2>5, <2>12, <4>1 DEF Reject, Stated, Owes, Keeps, TypeOK
      <4>5. Keeps(at, x)' = Amount[o]
        BY <2>3, <2>4, <2>12 DEF Reject, Keeps
      <4>6. /\ Found(at, x)' /\ Owes(at, x)' = 0 /\ Keeps(at, x)' = Amount[o]
        BY <2>3, <2>12, <4>5 DEF Reject, Found, Owes, Keeps
      <4>7. /\ consumed' + 0 <= Cost(Approved') /\ frozen' >= Cost(Held') + Amount[o]
            /\ odd' = {} => /\ consumed' + 0 = Cost(Approved')
                            /\ frozen' = Cost(Held') + Amount[o]
        BY <1>0, <2>4, <2>12, <4>2, <4>3, <4>4 DEF Reject, TypeOK
      <4> QED BY <4>6, <4>7 DEF Stated
    <3>2. pc' = [pc EXCEPT ![q] = at] /\ arg' = [arg EXCEPT ![q] = x]
      BY <2>2, <2>3, <2>12 DEF Reject
    <3> HIDE DEF at, x
    <3>3. Ledger'
      BY <1>0, <2>1, <2>5, <2>7, <2>12, <3>1, <3>2, LedgerAfter DEF Reject
    <3> QED BY <2>7, <2>12, <3>3 DEF LedgerInv, Reject
  <2>13. CASE Unfreeze(q)
    <3>1. ASSUME InTurn' PROVE Found("close", a)' /\ Stated("close", a)'
      <4>1. /\ InTurn /\ UNCHANGED rowVars
            /\ consumed' = consumed
            /\ \/ odd' = odd /\ frozen' = frozen - Amount[o]
               \/ odd' # {} /\ frozen' = frozen
        BY <1>0, <2>2, <2>3, <2>4, <2>13, <3>1 DEF Unfreeze, Dropped, Move, TypeOK
      <4>2. /\ consumed <= Cost(Approved) /\ frozen >= Cost(Held) + Amount[o]
            /\ odd = {} => consumed = Cost(Approved) /\ frozen = Cost(Held) + Amount[o]
        BY <1>0, <2>3, <2>5, <2>13, <4>1 DEF Unfreeze, Stated, Owes, Keeps, TypeOK
      <4>3. Approved' = Approved /\ Held' = Held
        BY <4>1, SameRows
      <4>6. /\ Found("close", a)' /\ Owes("close", a)' = 0 /\ Keeps("close", a)' = 0
        BY <4>1 DEF Found, Owes, Keeps
      <4>7. /\ consumed' + 0 <= Cost(Approved') /\ frozen' >= Cost(Held') + 0
            /\ odd' = {} => /\ consumed' + 0 = Cost(Approved')
                            /\ frozen' = Cost(Held') + 0
        BY <1>0, <2>4, <4>1, <4>2, <4>3 DEF TypeOK
      <4> QED BY <4>6, <4>7 DEF Stated
    <3>2. Ledger'
      BY <1>0, <2>1, <2>2, <2>5, <2>7, <2>13, <3>1, LedgerAfter DEF Unfreeze, Dropped
    <3> QED BY <2>7, <2>13, <3>2 DEF LedgerInv, Unfreeze
  <2> QED BY <1>2, <2>6, <2>10, <2>11, <2>12, <2>13 DEF Approving, Rejecting
<1> QED BY <1>1, <1>2

LEMMA LedgerNext == IInv /\ LedgerInv /\ [Next]_vars => LedgerInv'
<1>1. CASE Next
  BY <1>1, OrderingBooks, ApplyingBooks, DecidingBooks DEF Next
<1>2. CASE UNCHANGED vars
  <2>1. ASSUME IInv, LedgerInv, UNCHANGED vars PROVE LedgerInv'
    <3>1. Approved' = Approved /\ Held' = Held /\ AppliedFor' /\ (AppliedOnce' <=> AppliedOnce)
      BY <2>1, SameRows DEF vars, rowVars, LedgerInv
    <3>2. Booked' <=> Booked
      BY <2>1, <3>1 DEF vars, rowVars, balanceVars, Booked, Idle, Found, Stated, Owes, Keeps
    <3> QED BY <2>1, <3>1, <3>2 DEF LedgerInv, Ledger, InTurn, vars
  <2> QED BY <1>2, <2>1
<1> QED BY <1>1, <1>2

----------------------------------------------------------------------------
\* Every variable keeps its type.
THEOREM TypeCorrect == Spec => []TypeOK
<1>1. IInv => TypeOK
  BY DEF IInv, Rows
<1> QED BY <1>1, Invariance, PTL

\* No statement of the order handlers makes or loses money, in any order.
THEOREM MoneyConservedCorrect == Spec => []MoneyConserved
<1>1. IInv => MoneyConserved
  BY DEF IInv
<1> QED BY <1>1, Invariance, PTL

\* An order is issued only through an approved application, whatever
\* approvals, rejections and cancellations race for it.
THEOREM IssuedIsApprovedCorrect == Spec => []IssuedIsApproved
<1>1. IInv => IssuedIsApproved
  BY DEF IInv, Rows
<1> QED BY <1>1, Invariance, PTL

\* Nobody overdraws while requests take turns, whichever of them fail.
THEOREM NoOverdraftCorrect == Spec => []NoOverdraft
<1>1. IInv => NoOverdraft
  BY DEF IInv, Turns
<1> QED BY <1>1, Invariance, PTL

\* No step takes an approval back.
THEOREM ApprovedFinalCorrect == Spec => [][ApprovedFinal]_vars
<1>1. IInv /\ [Next]_vars => [ApprovedFinal]_vars
  BY DEF ApprovedFinal, IInv, Rows, TypeOK, Next, vars, rowVars, Ordering, Applying, Approving,
     Rejecting, CreateOrder, PayOrder, CancelOrder, Freeze, InsertOrder, Cancel,
     CreateApplication, ApproveApplication, RejectApplication, IssueCert, Approve,
     CompleteOrder, Consume, Reject, Unfreeze, RejectOrder, Fail
<1> QED BY <1>1, Invariance, PTL DEF Spec

\* When requests take turns and no order is applied for twice, what is frozen is what
\* the open orders cost, the ones that were cancelled perhaps among them, and what
\* is consumed what the approved ones cost, to the cent; statements that fail leave
\* more frozen and less consumed.
THEOREM LedgerOfOrdersCorrect == Spec => []LedgerOfOrders
<1>1. LedgerInv /\ TypeOK => LedgerOfOrders
  <2> SUFFICES ASSUME LedgerInv, TypeOK, odd \subseteq {"failure"}, Idle
               PROVE  /\ consumed <= Cost({o \in Orders : Decided(o, "approved")})
                      /\ \E S \in SUBSET Cancelled :
                           /\ frozen >= Cost(Open \cup S)
                           /\ odd = {} =>
                                /\ consumed = Cost({o \in Orders : Decided(o, "approved")})
                                /\ frozen = Cost(Open \cup S)
    BY DEF LedgerOfOrders
  <2>1. Stated("idle", None) /\ Cost(Approved) \in Nat /\ Cost(Held) \in Nat
    BY LedgerSets DEF LedgerInv, Ledger, InTurn, Booked
  <2>2. /\ consumed <= Cost(Approved) /\ frozen >= Cost(Held)
        /\ odd = {} => consumed = Cost(Approved) /\ frozen = Cost(Held)
    BY <2>1 DEF Stated, Owes, Keeps, TypeOK
  <2>3. Held = Open \cup Cancelled
    BY DEF Held, Open, Cancelled, Undecided
  <2> QED BY <2>2, <2>3 DEF Approved
<1>2. Spec => []LedgerInv
  BY LedgerInit, LedgerNext, Invariance, PTL DEF Spec
<1>3. IInv => TypeOK
  BY DEF IInv, Rows
<1> QED BY <1>1, <1>2, <1>3, Invariance, PTL

\* The balance adds up, is not overdrawn while requests take turns, and is the ledger
\* of the orders while nothing went wrong either.
THEOREM BalanceHoldsCorrect == Spec => []BalanceHolds
<1>1. MoneyConserved /\ NoOverdraft /\ LedgerOfOrders => BalanceHolds
  BY DEF BalanceHolds
<1> QED BY <1>1, MoneyConservedCorrect, NoOverdraftCorrect, LedgerOfOrdersCorrect, PTL

\* An approval stands, and orders go on only through one.
THEOREM ApprovalsStandCorrect == Spec => ApprovalsStand
BY IssuedIsApprovedCorrect, ApprovedFinalCorrect, PTL DEF ApprovalsStand

----------------------------------------------------------------------------
(* Verification: the inductive invariant.                                   *)

\* A request that has begun names a claim, whose template has been there; one that
\* counts counts for a template.
JobNamed(j) == j.pc # "idle" =>
    /\ j.info \in Infos /\ j.claim \in Claims
    /\ j.claim.template # NoTemplate => template[j.claim.template] # "none"
    /\ j.pc = "count" => j.claim.template # NoTemplate

\* A row, and a request that has begun, name a claim, whose template has been
\* there; a request that counts counts for a template.
Named ==
    /\ \A i \in Infos : info[i].is # "none" =>
         /\ info[i].claim \in Claims
         /\ info[i].claim.template # NoTemplate =>
              template[info[i].claim.template] # "none"
    /\ \A r \in Checks : JobNamed(work[r])
    /\ \A i \in mails : info[i].is # "none"

\* A UUID is drawn once, and so far finitely many have been.
Alive == {i \in Infos : InfoThere(i)}
Fresh ==
    /\ IsFiniteSet(Alive)
    /\ \A r \in Checks : work[r].pc \in {"count", "insert"} =>
        /\ info[work[r].info].is = "none"
        /\ \A q \in Checks : work[q].pc \in {"count", "insert"} /\ q # r =>
             work[q].info # work[r].info

\* What is shown was shown, by the holder of the value, for a row of theirs.
Worlds ==
    /\ world \subseteq shown
    /\ \A place \in {"dns", "web"}, v \in Values, i \in Infos :
         <<place, v, i>> \in world =>
            info[i].is # "none" /\ info[i].claim.user = Controls[v]

\* The two halves of VerifiedWasProved.
Proved(i) ==
    \/ info[i].claim.type = "email" /\ Proof("mail", i) \in shown
    \/ /\ info[i].claim.user = Controls[info[i].claim.value]
       /\ \/ Proof("web", i) \in shown
          \/ info[i].claim.method = "txt" /\ Proof("dns", i) \in shown

DaysFit(i, t, days) ==
    IF t = NoTemplate THEN days = DefaultDays
    ELSE \/ days = TemplateDays(t)
         \/ /\ days = DefaultDays
            /\ template[t] = "deleted" \/ <<"days", i>> \in excused

\* A request that verifies works on a copy of the claim that is right still, and
\* once it has looked, on a proof.
JobProves(j) == j.pc \in {"look", "mark", "write"} =>
    /\ info[j.info].is # "none" /\ j.claim = info[j.info].claim
    /\ j.pc = "look" => j.place \in {"dns", "web"}
    /\ j.place = "dns" => j.claim.method = "txt"
    /\ j.pc # "look" => Proved(j.info)
    /\ j.pc = "write" /\ InfoThere(j.info) => DaysFit(j.info, j.claim.template, j.days)

Proving == \A r \in Checks : JobProves(work[r])

\* The rows of a key and those about to be inserted, against the limit.
Filled(key) == CountOf(key) + Cardinality(Inserting(key))
KeyOK(key) ==
    /\ IsFiniteSet(Counted(key))
    /\ template[key[2]] = "there" /\ Limit[<<key[2], key[3]>>] > 0 =>
         \/ Filled(key) <= Limit[<<key[2], key[3]>>]
         \/ key \in excused /\ Filled(key) <= Limit[<<key[2], key[3]>>] + Cardinality(Checks) - 1
Keys == Claimants \X Templates \X Types
Limited == \A key \in Keys : KeyOK(key)

InfosInv == InfosTypeOK /\ Named /\ Fresh /\ Worlds /\ Proving /\ VerifiedWasProved /\ Limited


----------------------------------------------------------------------------
(* The operators.                                                           *)

LEMMA InfoRecords ==
  /\ NoInfoRow \in InfoRows /\ NoInfoRow.is = "none"
  /\ NoWork \in Works /\ NoWork.pc = "idle"
BY DEF NoInfoRow, InfoRows, NoWork, Job, Works

LEMMA DaysTypes ==
  /\ DefaultDays \in Nat
  /\ \A t \in Templates : TemplateDays(t) \in Nat
BY DaysAssumption DEF DefaultDays, TemplateDays

\* VerifiedWasProved in the words of Proved and DaysFit.
Earned ==
    \A i \in Infos : info[i].is = "verified" =>
        Proved(i) /\ DaysFit(i, info[i].claim.template, info[i].days)
LEMMA VerifiedMeans == VerifiedWasProved <=> Earned
  BY DEF VerifiedWasProved, Earned, Proved, DaysFit
LEMMA VerifiedMeansNext == VerifiedWasProved' <=> Earned'
  BY VerifiedMeans, PTL

LEMMA ChecksFinite == Cardinality(Checks) \in Nat
  BY FS_CardinalityType, ChecksAssumption

\* The requests about to insert a row are finitely many, and no more than all.
LEMMA InsertingFinite ==
  ASSUME NEW key
  PROVE  /\ IsFiniteSet(Inserting(key)) /\ Cardinality(Inserting(key)) \in Nat
         /\ Cardinality(Inserting(key)) <= Cardinality(Checks)
         /\ Cardinality(Checks) \in Nat
<1>1. Inserting(key) \subseteq Checks
  BY DEF Inserting
<1>2. /\ IsFiniteSet(Inserting(key))
      /\ Cardinality(Inserting(key)) <= Cardinality(Checks)
  BY <1>1, FS_Subset, ChecksAssumption
<1> QED BY <1>2, FS_CardinalityType, ChecksAssumption

LEMMA InsertingFiniteNext ==
  ASSUME NEW key
  PROVE  /\ IsFiniteSet(Inserting(key)') /\ Cardinality(Inserting(key)') \in Nat
         /\ Cardinality(Inserting(key)') <= Cardinality(Checks)
<1>1. Inserting(key)' \subseteq Checks
  BY DEF Inserting
<1>2. /\ IsFiniteSet(Inserting(key)')
      /\ Cardinality(Inserting(key)') <= Cardinality(Checks)
  BY <1>1, FS_Subset, ChecksAssumption
<1> QED BY <1>2, FS_CardinalityType

\* A key stays within its limit when nothing is added to its rows or to the
\* requests about to insert one.
LEMMA KeyShrinks ==
  ASSUME NEW key, KeyOK(key), Counted(key)' \subseteq Counted(key),
         Inserting(key)' \subseteq Inserting(key),
         template'[key[2]] = "there" => template[key[2]] = "there",
         excused \subseteq excused',
         key[2] \in Templates, key[3] \in Types
  PROVE  KeyOK(key)'
<1>1. /\ IsFiniteSet(Counted(key)')
      /\ Cardinality(Counted(key)') \in Nat /\ Cardinality(Counted(key)) \in Nat
      /\ Cardinality(Counted(key)') <= Cardinality(Counted(key))
  BY FS_Subset, FS_CardinalityType DEF KeyOK
<1>2. /\ Cardinality(Inserting(key)') \in Nat /\ Cardinality(Inserting(key)) \in Nat
      /\ Cardinality(Inserting(key)') <= Cardinality(Inserting(key))
  BY FS_Subset, InsertingFinite, InsertingFiniteNext
<1>3. Cardinality(Checks) \in Nat /\ Limit[<<key[2], key[3]>>] \in Nat
  BY ChecksFinite, LimitAssumption
<1>4. /\ Filled(key) = Cardinality(Counted(key)) + Cardinality(Inserting(key))
      /\ Filled(key)' = Cardinality(Counted(key)') + Cardinality(Inserting(key)')
  BY DEF Filled, CountOf
<1>5. Filled(key)' <= Filled(key) /\ Filled(key) \in Nat /\ Filled(key)' \in Nat
  BY <1>1, <1>2, <1>4
<1> HIDE DEF Filled
<1>6. ASSUME template'[key[2]] = "there", Limit[<<key[2], key[3]>>] > 0
      PROVE  \/ Filled(key)' <= Limit[<<key[2], key[3]>>]
             \/ /\ key \in excused'
                /\ Filled(key)' <= Limit[<<key[2], key[3]>>] + Cardinality(Checks) - 1
  <2>1. \/ Filled(key) <= Limit[<<key[2], key[3]>>]
        \/ /\ key \in excused
           /\ Filled(key) <= Limit[<<key[2], key[3]>>] + Cardinality(Checks) - 1
    BY <1>6 DEF KeyOK
  <2> QED BY <1>3, <1>5, <2>1
<1> QED BY <1>1, <1>6 DEF KeyOK

LEMMA LimitedKeeps ==
  ASSUME Limited, excused \subseteq excused',
         \A t \in Templates : template'[t] = "there" => template[t] = "there",
         \A key \in Keys : /\ Counted(key)' \subseteq Counted(key)
                           /\ Inserting(key)' \subseteq Inserting(key)
  PROVE  Limited'
<1>1. ASSUME NEW key \in Keys PROVE KeyOK(key)'
  <2>1. key[2] \in Templates /\ key[3] \in Types /\ KeyOK(key)
    BY DEF Keys, Limited
  <2> QED BY <2>1, KeyShrinks
<1> QED BY <1>1 DEF Limited

----------------------------------------------------------------------------
(* Subjects and templates.                                                  *)

LEMMA SubjectsKeep ==
  ASSUME InfosInv, NEW u \in Claimants \cup Admins, NEW s \in Subjects,
         \/ u \in Claimants /\ SubmitSubject(u, s)
         \/ /\ u \in Admins
            /\ \E verdict \in {"approved", "rejected"} : ReviewSubject(u, s, verdict)
         \/ DeleteSubject(u, s)
  PROVE  InfosInv'
<1>1. /\ info' = info /\ template' = template /\ world' = world /\ mails' = mails
      /\ work' = work /\ shown' = shown /\ excused' = excused
  BY DEF SubmitSubject, ReviewSubject, DeleteSubject
<1>2. InfosTypeOK'
  <2> DEFINE Row == [is : {"none", "pending", "approved", "rejected", "deleted"},
                     user : Claimants \cup {Nobody}, by : Admins \cup {Nobody}]
             RowOK(x) == /\ x.is \in {"approved", "rejected"} => x.by # Nobody
                         /\ x.is = "pending" => x.by = Nobody
  <2>1. subject \in [Subjects -> Row] /\ \A x \in Subjects : RowOK(subject[x])
    BY DEF InfosInv, InfosTypeOK
  <2>2. subject' \in [Subjects -> Row] /\ \A y \in Subjects : RowOK(subject'[y])
    <3>1. CASE u \in Claimants /\ SubmitSubject(u, s)
      <4> DEFINE x == [is |-> "pending", user |-> u, by |-> Nobody]
      <4>1. x \in Row /\ RowOK(x)
        BY <3>1
      <4>2. subject' = [subject EXCEPT ![s] = x]
        BY <3>1 DEF SubmitSubject
      <4> HIDE DEF x, Row
      <4> QED BY <2>1, <4>1, <4>2
    <3>2. ASSUME u \in Admins, NEW verdict \in {"approved", "rejected"},
                 ReviewSubject(u, s, verdict)
          PROVE  subject' \in [Subjects -> Row] /\ \A y \in Subjects : RowOK(subject'[y])
      <4>1. subject' = [subject EXCEPT ![s].is = verdict, ![s].by = u]
        BY <3>2 DEF ReviewSubject
      <4>2. u # Nobody
        BY <3>2, InfosNullAssumption
      <4>3. subject' \in [Subjects -> Row]
        <5> DEFINE Is == {"none", "pending", "approved", "rejected", "deleted"}
                   User == Claimants \cup {Nobody}
                   By == Admins \cup {Nobody}
        <5>1. subject \in [Subjects -> [is : Is, user : User, by : By]]
          BY <2>1
        <5>2. verdict \in Is /\ u \in By
          BY <3>2
        <5> HIDE DEF Is, User, By
        <5>3. subject' \in [Subjects -> [is : Is, user : User, by : By]]
          BY <4>1, <5>1, <5>2
        <5> QED BY <5>3 DEF Is, User, By
      <4>4. /\ subject'[s].is = verdict /\ subject'[s].by = u
            /\ \A y \in Subjects : y # s => subject'[y] = subject[y]
        BY <2>1, <4>1
      <4>5. \A y \in Subjects : RowOK(subject'[y])
        BY <2>1, <3>2, <4>2, <4>4
      <4> QED BY <4>3, <4>5
    <3>3. CASE DeleteSubject(u, s)
      <4> DEFINE x == [subject[s] EXCEPT !.is = "deleted"]
      <4>1. x \in Row /\ RowOK(x)
        BY <2>1
      <4>2. subject' = [subject EXCEPT ![s] = x]
        BY <2>1, <3>3 DEF DeleteSubject
      <4> HIDE DEF x, Row
      <4> QED BY <2>1, <4>1, <4>2
    <3> QED BY <3>1, <3>2, <3>3
  <2> QED BY <1>1, <2>2 DEF InfosInv, InfosTypeOK, InfoThere
<1>3. Named' /\ Fresh' /\ Worlds'
  <2>1. Alive' = Alive
    BY <1>1 DEF Alive, InfoThere
  <2> QED BY <1>1, <2>1 DEF InfosInv, Named, JobNamed, Fresh, Worlds
<1>4. Proving' /\ VerifiedWasProved'
  BY <1>1 DEF InfosInv, Proving, JobProves, VerifiedWasProved, Proved, DaysFit, Proof, InfoThere
<1>5. Limited'
  <2>1. \A key : Counted(key)' = Counted(key) /\ Inserting(key)' = Inserting(key)
    BY <1>1 DEF Counted, RowsOf, Inserting, InfoThere
  <2> QED BY <1>1, <2>1, LimitedKeeps DEF InfosInv
<1> QED BY <1>2, <1>3, <1>4, <1>5 DEF InfosInv

LEMMA TemplatesKeep ==
  ASSUME InfosInv, NEW t \in Templates, CreateTemplate(t) \/ DeleteTemplate(t)
  PROVE  InfosInv'
<1>1. /\ subject' = subject /\ info' = info /\ world' = world /\ mails' = mails
      /\ work' = work /\ shown' = shown /\ excused' = excused
  BY DEF CreateTemplate, DeleteTemplate
<1>2. PICK x \in {"there", "deleted"} :
        /\ template' = [template EXCEPT ![t] = x]
        /\ x = "there" => template[t] = "none"
        /\ x = "deleted" => template[t] = "there"
  BY DEF CreateTemplate, DeleteTemplate
<1>3. /\ template' \in [Templates -> {"none", "there", "deleted"}]
      /\ \A r \in Templates : /\ template[r] # "none" => template'[r] # "none"
                              /\ template[r] = "deleted" => template'[r] = "deleted"
                              /\ r # t => template'[r] = template[r]
  BY <1>2 DEF InfosInv, InfosTypeOK
<1>4. InfosTypeOK'
  BY <1>1, <1>3 DEF InfosInv, InfosTypeOK, InfoThere
<1>5. Named' /\ Fresh' /\ Worlds'
  <2>1. Alive' = Alive
    BY <1>1 DEF Alive, InfoThere
  <2> QED BY <1>1, <1>3, <2>1 DEF InfosInv, Named, JobNamed, Fresh, Worlds, Claims
<1>6. ASSUME NEW days, NEW i, NEW u \in Templates \cup {NoTemplate}, DaysFit(i, u, days)
      PROVE  DaysFit(i, u, days)'
  BY <1>1, <1>3, <1>6 DEF DaysFit, TemplateDays
<1>7. Proving'
  <2> SUFFICES ASSUME NEW r \in Checks, work[r].pc \in {"look", "mark", "write"}
               PROVE  /\ Proved(work[r].info) => Proved(work[r].info)'
                      /\ DaysFit(work[r].info, work[r].claim.template, work[r].days) =>
                           DaysFit(work[r].info, work[r].claim.template, work[r].days)'
    BY <1>1 DEF InfosInv, Proving, JobProves, InfoThere
  <2>1. work[r].claim.template \in Templates \cup {NoTemplate}
    BY DEF InfosInv, Named, JobNamed, Claims
  <2> QED BY <1>1, <1>6, <2>1 DEF Proved, Proof
<1>8. VerifiedWasProved'
  <2>1. Earned
    BY VerifiedMeans DEF InfosInv
  <2>2. ASSUME NEW i \in Infos, info[i].is = "verified"
        PROVE  Proved(i)' /\ DaysFit(i, info[i].claim.template, info[i].days)'
    <3>1. info[i].claim.template \in Templates \cup {NoTemplate}
      BY <2>2 DEF InfosInv, Named, JobNamed, Claims
    <3> QED BY <1>1, <1>6, <2>1, <2>2, <3>1 DEF Earned, Proved, Proof
  <2>3. Earned'
    BY <1>1, <2>2 DEF Earned
  <2> QED BY <2>3, VerifiedMeansNext
<1>9. Limited'
  <2>1. \A key : Counted(key)' = Counted(key) /\ Inserting(key)' = Inserting(key)
    BY <1>1 DEF Counted, RowsOf, Inserting, InfoThere
  <2>2. CASE x = "deleted"
    <3>1. \A r \in Templates : template'[r] = "there" => template[r] = "there"
      BY <1>2, <1>3, <2>2 DEF InfosInv, InfosTypeOK
    <3> QED BY <1>1, <2>1, <3>1, LimitedKeeps DEF InfosInv
  <2>3. ASSUME x = "there", NEW key \in Keys PROVE KeyOK(key)'
    <3>0. key[2] \in Templates /\ key[3] \in Types /\ KeyOK(key)
      BY DEF Keys, InfosInv, Limited
    <3>1. CASE key[2] # t
      BY <1>1, <1>3, <2>1, <3>0, <3>1, KeyShrinks
    <3>2. CASE key[2] = t
      <4>1. key[2] # NoTemplate /\ template[key[2]] = "none"
        BY <1>2, <2>3, <3>0, <3>2, InfosNullAssumption
      <4>2. Counted(key) = {} /\ Inserting(key) = {}
        <5>1. ASSUME NEW i \in Counted(key) PROVE FALSE
          BY <4>1, <5>1 DEF Counted, RowsOf, Key, InfosInv, Named, JobNamed, InfoThere
        <5>2. ASSUME NEW r \in Inserting(key) PROVE FALSE
          BY <4>1, <5>2 DEF Inserting, Key, InfosInv, Named, JobNamed
        <5> QED BY <5>1, <5>2
      <4>3. Counted(key)' = {} /\ Inserting(key)' = {}
        BY <2>1, <4>2
      <4>4. Filled(key)' = 0 /\ IsFiniteSet(Counted(key)')
        BY <4>3, FS_EmptySet DEF Filled, CountOf
      <4>5. Limit[<<key[2], key[3]>>] \in Nat
        BY <3>0, LimitAssumption
      <4> QED BY <4>4, <4>5 DEF KeyOK
    <3> QED BY <3>1, <3>2
  <2> QED BY <1>2, <2>2, <2>3 DEF Limited
<1> QED BY <1>4, <1>5, <1>7, <1>8, <1>9 DEF InfosInv

----------------------------------------------------------------------------
(* Steps of the requests.                                                   *)

LEMMA InfosInitInv == InfosInit => InfosInv
<1> SUFFICES ASSUME InfosInit PROVE InfosInv
  OBVIOUS
<1>1. /\ \A i \in Infos : info[i] = NoInfoRow /\ ~InfoThere(i)
      /\ \A r \in Checks : work[r] = NoWork
      /\ world = {} /\ mails = {} /\ shown = {} /\ excused = {}
  BY InfoRecords DEF InfosInit, InfoThere
<1>2. subject \in [Subjects -> [is : {"none", "pending", "approved", "rejected", "deleted"},
                                user : Claimants \cup {Nobody}, by : Admins \cup {Nobody}]]
  BY DEF InfosInit
<1>3. \A s \in Subjects : subject[s].is = "none"
  BY DEF InfosInit
<1>4. info \in [Infos -> InfoRows] /\ work \in [Checks -> Works]
  BY InfoRecords DEF InfosInit
<1>5. template \in [Templates -> {"none", "there", "deleted"}]
  BY DEF InfosInit
<1>6. InfosTypeOK
  BY <1>1, <1>2, <1>3, <1>4, <1>5 DEF InfosTypeOK
<1>7. Named /\ Fresh /\ Worlds /\ Proving /\ VerifiedWasProved
  <2>1. Alive = {}
    BY <1>1 DEF Alive
  <2> QED BY <1>1, <2>1, InfoRecords, FS_EmptySet
      DEF Named, JobNamed, Fresh, Worlds, Proving, JobProves, VerifiedWasProved
<1>8. ASSUME NEW key \in Keys PROVE KeyOK(key)
  <2>1. Counted(key) = {}
    BY <1>1 DEF Counted, RowsOf
  <2>2. template[key[2]] = "none"
    BY DEF InfosInit, Keys
  <2> QED BY <2>1, <2>2, FS_EmptySet DEF KeyOK
<1> QED BY <1>6, <1>7, <1>8 DEF InfosInv, Limited

\* One request moves; rows, templates and what is shown stay.
LEMMA WorkMoves ==
  ASSUME InfosInv, NEW r \in Checks, NEW j \in Works,
         work' = [work EXCEPT ![r] = j],
         UNCHANGED <<subject, info, template, world, mails, shown>>,
         excused \subseteq excused', excused' \subseteq Excuses,
         JobNamed(j), JobProves(j)',
         j.pc \in {"count", "insert"} =>
            /\ info[j.info].is = "none"
            /\ \A q \in Checks : work[q].pc \in {"count", "insert"} /\ q # r =>
                 work[q].info # j.info
  PROVE  /\ InfosTypeOK' /\ Named' /\ Fresh' /\ Worlds' /\ Proving' /\ VerifiedWasProved'
<1>1. /\ work \in [Checks -> Works] /\ work' \in [Checks -> Works]
      /\ work'[r] = j /\ \A q \in Checks : q # r => work'[q] = work[q]
  BY DEF InfosInv, InfosTypeOK
<1>2. InfosTypeOK'
  BY <1>1 DEF InfosInv, InfosTypeOK, InfoThere
<1>3. Named' /\ Worlds'
  BY <1>1 DEF InfosInv, Named, JobNamed, Worlds
<1>4. Fresh'
  <2>1. Alive' = Alive
    BY DEF Alive, InfoThere
  <2> QED BY <1>1, <2>1 DEF InfosInv, Fresh
<1>5. Proving'
  <2> SUFFICES ASSUME NEW q \in Checks PROVE JobProves(work[q])'
    BY DEF Proving
  <2>1. q # r => JobProves(work[q]) /\ work'[q] = work[q]
    BY <1>1 DEF InfosInv, Proving
  <2>2. /\ \A i : Proved(i)' = Proved(i) /\ InfoThere(i)' = InfoThere(i)
        /\ \A k, t, days : DaysFit(k, t, days) => DaysFit(k, t, days)'
    BY DEF Proved, Proof, InfoThere, DaysFit
  <2>3. q # r => JobProves(work[q])'
    BY <2>1, <2>2 DEF JobProves
  <2>4. q = r => JobProves(work[q])'
    BY <1>1 DEF JobProves
  <2> QED BY <2>3, <2>4
<1>6. VerifiedWasProved'
  BY DEF InfosInv, VerifiedWasProved, Proof
<1> QED BY <1>2, <1>3, <1>4, <1>5, <1>6

LEMMA NoJob == JobProves(NoWork)'
  BY DEF JobProves, NoWork, Job

\* What a request may write stays right while rows and templates stay.
LEMMA JobKeepsProof ==
  ASSUME NEW j, JobProves(j), UNCHANGED <<info, template, shown>>, excused \subseteq excused'
  PROVE  JobProves(j)'
<1>1. \A i : Proved(i)' = Proved(i) /\ InfoThere(i)' = InfoThere(i)
  BY DEF Proved, Proof, InfoThere
<1>2. \A i, t, days : DaysFit(i, t, days) => DaysFit(i, t, days)'
  BY DEF DaysFit
<1> QED BY <1>1, <1>2 DEF JobProves

\* The limits when one request moves, and goes to insert only without having been
\* held against one.
LEMMA MoveKeepsLimits ==
  ASSUME InfosInv, NEW r \in Checks, NEW j \in Works,
         j.pc # "insert" \/ <<"limit", j.info>> \in excused',
         work' = [work EXCEPT ![r] = j], UNCHANGED <<info, template>>,
         excused \subseteq excused'
  PROVE  Limited'
<1>1. \A q \in Checks : q # r => work'[q] = work[q]
  BY DEF InfosInv, InfosTypeOK
<1>2. work'[r] = j
  BY DEF InfosInv, InfosTypeOK
<1>3. \A key : Inserting(key)' \subseteq Inserting(key)
  BY <1>1, <1>2 DEF Inserting
<1>4. \A key : Counted(key)' \subseteq Counted(key)
  BY DEF Counted, RowsOf, InfoThere
<1> QED BY <1>3, <1>4, LimitedKeeps DEF InfosInv

\* Claims stay; rows go, or are verified with a proof; requests end.
LEMMA RowsKeep ==
  ASSUME InfosInv, UNCHANGED <<subject, template, excused>>,
         info' \in [Infos -> InfoRows], work' \in [Checks -> Works],
         \A r \in Checks : work'[r] = work[r] \/ work'[r] = NoWork,
         \A i \in Infos :
            /\ info'[i].claim = info[i].claim
            /\ info'[i].is = "none" <=> info[i].is = "none"
            /\ InfoThere(i)' => InfoThere(i)
            /\ info'[i].is = "verified" =>
                 \/ info[i].is = "verified" /\ info'[i].days = info[i].days
                 \/ Proved(i) /\ DaysFit(i, info[i].claim.template, info'[i].days),
         mails' \subseteq mails, shown \subseteq shown', shown' \subseteq Proofs,
         Worlds'
  PROVE  InfosInv'
<1>1. world' \subseteq Proofs
  BY DEF Worlds
<1>2. mails' \subseteq Infos
  BY DEF InfosInv, InfosTypeOK
<1>3. InfosTypeOK'
  <2>1. \A i, j \in Infos :
            /\ InfoThere(i)' /\ InfoThere(j)'
            /\ \A f \in {"user", "type", "value"} : info'[i].claim[f] = info'[j].claim[f]
            => i = j
    BY DEF InfosInv, InfosTypeOK
  <2>2. \A s \in Subjects :
           /\ subject'[s].is \in {"approved", "rejected"} => subject'[s].by # Nobody
           /\ subject'[s].is = "pending" => subject'[s].by = Nobody
    BY DEF InfosInv, InfosTypeOK
  <2> QED BY <1>1, <1>2, <2>1, <2>2 DEF InfosInv, InfosTypeOK
<1>4. \A r \in Checks : work'[r].pc # "idle" => work'[r] = work[r]
  BY InfoRecords
<1>5. Named'
  <2>1. \A r \in Checks : JobNamed(work[r])'
    BY <1>4 DEF InfosInv, Named, JobNamed
  <2>2. \A i \in Infos : info'[i].is # "none" =>
         /\ info'[i].claim \in Claims
         /\ info'[i].claim.template # NoTemplate =>
              template'[info'[i].claim.template] # "none"
    BY DEF InfosInv, Named
  <2>3. \A i \in mails' : info'[i].is # "none"
    BY <1>2 DEF InfosInv, Named
  <2> QED BY <2>1, <2>2, <2>3 DEF Named
<1>6. Fresh'
  <2>0. IsFiniteSet(Alive')
    <3>1. Alive' \subseteq Alive
      BY DEF Alive
    <3> QED BY <3>1, FS_Subset DEF InfosInv, Fresh
  <2> SUFFICES ASSUME NEW r \in Checks, work'[r].pc \in {"count", "insert"}
               PROVE  /\ info'[work'[r].info].is = "none"
                      /\ \A q \in Checks : work'[q].pc \in {"count", "insert"} /\ q # r =>
                           work'[q].info # work'[r].info
    BY <2>0 DEF Fresh
  <2>1. work'[r] = work[r] /\ work[r].info \in Infos
    BY <1>4 DEF InfosInv, Named, JobNamed
  <2> QED BY <1>4, <2>1 DEF InfosInv, Fresh
<1>7. \A i \in Infos : Proved(i) => Proved(i)'
  BY DEF Proved, Proof
<1>8. Proving'
  <2> SUFFICES ASSUME NEW r \in Checks, work'[r].pc \in {"look", "mark", "write"}
               PROVE  JobProves(work[r])'
    BY DEF Proving, JobProves
  <2>1. work'[r] = work[r] /\ work[r].info \in Infos /\ JobProves(work[r])
    BY <1>4 DEF InfosInv, Named, JobNamed, Proving
  <2> QED BY <1>7, <2>1 DEF JobProves, DaysFit
<1>9. VerifiedWasProved'
  <2>1. Earned
    BY VerifiedMeans DEF InfosInv
  <2>2. Earned'
    BY <1>7, <2>1 DEF Earned, DaysFit
  <2> QED BY <2>2, VerifiedMeansNext
<1>10. Limited'
  <2>1. \A key : Inserting(key)' \subseteq Inserting(key)
    BY <1>4 DEF Inserting
  <2>2. \A key : Counted(key)' \subseteq Counted(key)
    BY DEF Counted, RowsOf, Key
  <2> QED BY <2>1, <2>2, LimitedKeeps DEF InfosInv
<1> QED BY <1>3, <1>5, <1>6, <1>8, <1>9, <1>10 DEF InfosInv

LEMMA CreateKeeps ==
  ASSUME InfosInv, NEW r \in Checks, NEW u \in Claimants, NEW i \in Infos,
         NEW type \in Types, NEW v \in Values, NEW asked \in {"txt", "http"},
         NEW t \in Templates \cup {NoTemplate}, Create(r, u, i, type, v, asked, t)
  PROVE  InfosInv'
<1> DEFINE claim == [user |-> u, type |-> type, value |-> v,
                     method |-> MethodOf(type, asked), template |-> t]
           limited == t # NoTemplate /\ template[t] = "there"
<1>0. PICK read \in BOOLEAN :
         /\ work' = [work EXCEPT ![r] =
                      Job(IF limited /\ read THEN "count" ELSE "insert", i, claim, "")]
         /\ excused' = IF limited /\ ~read THEN excused \cup {<<"limit", i>>} ELSE excused
  BY DEF Create
<1> PICK j : j = [pc |-> IF limited /\ read THEN "count" ELSE "insert", info |-> i,
                  claim |-> claim, place |-> "", days |-> 0]
  OBVIOUS
<1>1. MethodOf(type, asked) \in Methods
  BY DEF MethodOf, Types, Methods
<1>2. claim \in Claims /\ claim.template = t /\ Key(claim)[2] = t
  BY <1>1 DEF Claims, Key
<1> HIDE DEF claim
<1>3. j \in Works
  BY <1>2 DEF Works
<1>4. /\ j.info = i /\ j.claim = claim /\ j.pc \in {"count", "insert"}
      /\ j.pc = "count" <=> limited /\ read
  OBVIOUS
<1>5. work' = [work EXCEPT ![r] = j]
  BY <1>0 DEF Job
<1>6. /\ UNCHANGED <<subject, info, template, world, mails, shown>>
      /\ excused \subseteq excused' /\ excused' \subseteq Excuses
      /\ limited /\ ~read => <<"limit", i>> \in excused'
      /\ ~(limited /\ ~read) => excused' = excused
      /\ info[i].is = "none" /\ ~Started(i)
      /\ t # NoTemplate => template[t] # "none"
  <2>1. /\ UNCHANGED <<subject, info, template, world, mails, shown>>
        /\ info[i].is = "none" /\ ~Started(i)
        /\ t # NoTemplate => template[t] # "none"
    BY DEF Create
  <2>2. excused \subseteq Excuses /\ <<"limit", i>> \in Excuses
    BY DEF Excuses, InfosInv, InfosTypeOK
  <2> QED BY <1>0, <2>1, <2>2
<1>7. JobNamed(j) /\ JobProves(j)'
  BY <1>2, <1>4, <1>6 DEF JobNamed, JobProves
<1>8. /\ InfosTypeOK' /\ Named' /\ Fresh' /\ Worlds' /\ Proving' /\ VerifiedWasProved'
  <2>1. /\ info[j.info].is = "none"
        /\ \A q \in Checks : work[q].pc \in {"count", "insert"} /\ q # r =>
             work[q].info # j.info
    BY <1>4, <1>6 DEF Started
  <2> QED BY <1>3, <1>5, <1>6, <1>7, <2>1, WorkMoves
<1>9. ASSUME NEW key \in Keys PROVE KeyOK(key)'
  <2>0. key[2] \in Templates /\ key[3] \in Types /\ KeyOK(key)
    BY DEF Keys, InfosInv, Limited
  <2>1. Counted(key)' \subseteq Counted(key)
    BY <1>6 DEF Counted, RowsOf, InfoThere
  <2>2. /\ work'[r] = j /\ \A q \in Checks : q # r => work'[q] = work[q]
    BY <1>5 DEF InfosInv, InfosTypeOK
  <2>3. CASE ~(j.pc = "insert" /\ Key(claim) = key) \/ limited
    <3>1. r \notin Inserting(key)'
      BY <1>4, <1>6, <2>2, <2>3 DEF Inserting
    <3>2. Inserting(key)' \subseteq Inserting(key)
      BY <1>6, <2>2, <3>1 DEF Inserting
    <3> QED BY <1>6, <2>0, <2>1, <3>2, KeyShrinks
  <2>4. CASE j.pc = "insert" /\ Key(claim) = key /\ ~limited
    <3>1. key[2] = t /\ template[key[2]] # "there"
      <4>1. key[2] = t
        BY <1>2, <2>4
      <4>2. t # NoTemplate
        BY <2>0, <4>1, InfosNullAssumption
      <4> QED BY <2>4, <4>1, <4>2
    <3>2. Counted(key)' = Counted(key)
      BY <1>6, <2>4 DEF Counted, RowsOf, InfoThere
    <3> QED BY <1>6, <2>0, <3>1, <3>2 DEF KeyOK
  <2> QED BY <2>3, <2>4
<1> QED BY <1>8, <1>9 DEF InfosInv, Limited

LEMMA CountRowsKeeps ==
  ASSUME InfosInv, NEW r \in Checks, CountRows(r)
  PROVE  InfosInv'
<1> DEFINE claim == work[r].claim
<1>0. /\ work[r] \in Works /\ work[r].pc = "count" /\ claim \in Claims
      /\ JobNamed(work[r])
      /\ UNCHANGED <<subject, info, template, world, mails, shown>>
      /\ excused \subseteq Excuses
  BY DEF CountRows, InfosInv, InfosTypeOK, Named, JobNamed
<1>1. CASE /\ Admits(claim)
           /\ work' = [work EXCEPT ![r].pc = "insert"]
           /\ excused' = IF Inserting(Key(claim)) = {} THEN excused ELSE excused \cup {Key(claim)}
  <2> PICK j : j = [work[r] EXCEPT !.pc = "insert"]
    OBVIOUS
  <2>1. j \in Works
    BY <1>0 DEF Works
  <2>2. /\ j.pc = "insert" /\ j.info = work[r].info /\ j.claim = claim
    BY <1>0 DEF Works
  <2>3. work' = [work EXCEPT ![r] = j]
    BY <1>1 DEF InfosInv, InfosTypeOK
  <2>4. Key(claim) \in Excuses
    BY <1>0 DEF Key, Claims, Excuses
  <2>5. /\ excused' \subseteq Excuses
        /\ excused \subseteq excused'
    BY <1>0, <1>1, <2>4
  <2>6. JobNamed(j) /\ JobProves(j)'
    BY <1>0, <2>2 DEF JobNamed, JobProves
  <2>7. /\ info[j.info].is = "none"
        /\ \A q \in Checks : work[q].pc \in {"count", "insert"} /\ q # r =>
             work[q].info # j.info
    BY <1>0, <2>2 DEF InfosInv, Fresh
  <2>8. /\ InfosTypeOK' /\ Named' /\ Fresh' /\ Worlds' /\ Proving' /\ VerifiedWasProved'
    BY <1>0, <2>1, <2>3, <2>5, <2>6, <2>7, WorkMoves
  <2>9. ASSUME NEW key \in Keys PROVE KeyOK(key)'
    <3>0. key[2] \in Templates /\ key[3] \in Types /\ KeyOK(key)
      BY DEF Keys, InfosInv, Limited
    <3>1. Counted(key)' = Counted(key) /\ Key(claim) # <<"limit", j.info>>
           /\ \A i : <<"limit", i>> \in excused' <=> <<"limit", i>> \in excused
      <4>1. \A i : Key(claim) # <<"limit", i>>
        BY DEF Key
      <4> QED BY <1>0, <1>1, <4>1 DEF Counted, RowsOf, InfoThere
    <3>2. /\ work'[r] = j /\ \A q \in Checks : q # r => work'[q] = work[q]
      BY <2>3 DEF InfosInv, InfosTypeOK
    <3>3. CASE Key(claim) # key
      <4>1. Inserting(key)' \subseteq Inserting(key)
        BY <2>2, <2>5, <3>2, <3>3 DEF Inserting
      <4> QED BY <1>0, <2>5, <3>0, <3>1, <4>1, KeyShrinks
    <3>4. CASE Key(claim) = key
      <4>0. CASE <<"limit", j.info>> \in excused'
        <5>1. Inserting(key)' \subseteq Inserting(key)
          BY <2>2, <2>5, <3>2, <4>0 DEF Inserting
        <5> QED BY <1>0, <2>5, <3>0, <3>1, <5>1, KeyShrinks
      <4> SUFFICES ASSUME <<"limit", j.info>> \notin excused' PROVE KeyOK(key)'
        BY <4>0
      <4>1. Inserting(key)' = Inserting(key) \cup {r} /\ r \notin Inserting(key)
        BY <1>0, <2>2, <3>1, <3>2, <3>4 DEF Inserting
      <4>2. /\ Cardinality(Inserting(key)') = Cardinality(Inserting(key)) + 1
            /\ Cardinality(Inserting(key)) \in Nat
            /\ Cardinality(Inserting(key)') <= Cardinality(Checks)
            /\ Cardinality(Checks) \in Nat
        BY <4>1, FS_AddElement, InsertingFinite, InsertingFiniteNext
      <4>3. IsFiniteSet(Counted(key)') /\ CountOf(key)' = CountOf(key) /\ CountOf(key) \in Nat
        BY <3>0, <3>1, FS_CardinalityType DEF KeyOK, CountOf
      <4>4. Filled(key)' = CountOf(key) + Cardinality(Inserting(key)')
        BY <4>3 DEF Filled
      <4>5. Limit[<<key[2], key[3]>>] \in Nat /\ key = <<key[1], key[2], key[3]>>
        BY <3>0, LimitAssumption DEF Keys
      <4>6. key[2] = claim.template /\ key[3] = claim.type
        BY <3>4 DEF Key
      <4>7. Limit[<<key[2], key[3]>>] > 0 => CountOf(key) < Limit[<<key[2], key[3]>>]
        <5>1. RowsOf(key) \subseteq Alive /\ Counted(key) \subseteq RowsOf(key)
          BY DEF RowsOf, Alive, Counted
        <5>2. IsFiniteSet(RowsOf(key))
          BY <5>1, FS_Subset DEF InfosInv, Fresh
        <5>3. /\ Cardinality(Counted(key)) <= Cardinality(RowsOf(key))
              /\ Cardinality(RowsOf(key)) \in Nat
          BY <5>1, <5>2, FS_Subset, FS_CardinalityType
        <5>4. Limit[<<key[2], key[3]>>] > 0 => Cardinality(RowsOf(key)) < Limit[<<key[2], key[3]>>]
          BY <1>1, <3>4, <4>6 DEF Admits
        <5>5. CountOf(key) = Cardinality(Counted(key))
          BY DEF CountOf
        <5> QED BY <4>3, <4>5, <5>3, <5>4, <5>5
      <4>8. CASE Inserting(key) = {}
        <5>1. Cardinality(Inserting(key)') = 1
          BY <4>2, <4>8, FS_EmptySet
        <5> HIDE DEF Filled, CountOf
        <5>2. Limit[<<key[2], key[3]>>] > 0 => Filled(key)' <= Limit[<<key[2], key[3]>>]
          BY <4>3, <4>4, <4>5, <4>7, <5>1
        <5> QED BY <4>3, <5>2 DEF KeyOK
      <4>9. CASE Inserting(key) # {}
        <5>1. key \in excused'
          BY <1>1, <3>4, <4>9
        <5>2. Limit[<<key[2], key[3]>>] > 0 =>
                Filled(key)' <= Limit[<<key[2], key[3]>>] + Cardinality(Checks) - 1
          BY <4>2, <4>3, <4>4, <4>5, <4>7
        <5> QED BY <4>3, <5>1, <5>2 DEF KeyOK
      <4> QED BY <4>8, <4>9
    <3> QED BY <3>3, <3>4
  <2> QED BY <2>8, <2>9 DEF InfosInv, Limited
<1>2. CASE work' = [work EXCEPT ![r] = NoWork] /\ UNCHANGED excused
  <2>1. JobNamed(NoWork) /\ JobProves(NoWork)'
    BY InfoRecords, NoJob DEF JobNamed
  <2>2. /\ InfosTypeOK' /\ Named' /\ Fresh' /\ Worlds' /\ Proving' /\ VerifiedWasProved'
    BY <1>0, <1>2, <2>1, InfoRecords, WorkMoves
  <2>3. Limited'
    BY <1>0, <1>2, InfoRecords, MoveKeepsLimits
  <2> QED BY <2>2, <2>3 DEF InfosInv
<1>3. CASE /\ work' = [work EXCEPT ![r].pc = "insert"]
           /\ excused' = excused \cup {<<"limit", work[r].info>>}
  <2> PICK j : j = [work[r] EXCEPT !.pc = "insert"]
    OBVIOUS
  <2>1. j \in Works /\ j.pc = "insert" /\ j.info = work[r].info /\ j.claim = claim
    BY <1>0 DEF Works
  <2>2. work' = [work EXCEPT ![r] = j]
    BY <1>3 DEF InfosInv, InfosTypeOK
  <2>3. /\ excused \subseteq excused' /\ excused' \subseteq Excuses
        /\ <<"limit", j.info>> \in excused'
    BY <1>0, <1>3, <2>1 DEF Excuses, JobNamed
  <2>4. JobNamed(j) /\ JobProves(j)'
    BY <1>0, <2>1 DEF JobNamed, JobProves
  <2>5. /\ info[j.info].is = "none"
        /\ \A q \in Checks : work[q].pc \in {"count", "insert"} /\ q # r =>
             work[q].info # j.info
    BY <1>0, <2>1 DEF InfosInv, Fresh
  <2>6. /\ InfosTypeOK' /\ Named' /\ Fresh' /\ Worlds' /\ Proving' /\ VerifiedWasProved'
    BY <1>0, <2>1, <2>2, <2>3, <2>4, <2>5, WorkMoves
  <2>7. Limited'
    BY <1>0, <2>1, <2>2, <2>3, MoveKeepsLimits
  <2> QED BY <2>6, <2>7 DEF InfosInv
<1> QED BY <1>1, <1>2, <1>3 DEF CountRows

\* The requests that read a row, look, and read the days, and those that end.
LEMMA ChecksKeep ==
  ASSUME InfosInv, NEW r \in Checks, NEW i \in Infos,
         \/ \E place \in {"dns", "web"} : VerifyShown(r, i, place)
         \/ VerifyEmail(r, i) \/ Look(r) \/ ReadDays(r) \/ GivesUp(r)
  PROVE  InfosInv'
<1>0. /\ UNCHANGED <<subject, info, template, world, mails, shown>>
      /\ work[r] \in Works /\ JobNamed(work[r]) /\ JobProves(work[r])
      /\ info[i] \in InfoRows
  BY DEF VerifyShown, VerifyEmail, Look, ReadDays, GivesUp, InfosInv, InfosTypeOK, Named,
         Proving
<1>1. excused \subseteq excused' /\ excused' \subseteq Excuses
  <2>1. excused \subseteq Excuses /\ (work[r].pc = "mark" => work[r].info \in Infos)
    BY <1>0 DEF InfosInv, InfosTypeOK, JobNamed
  <2>2. \/ excused' = excused
        \/ work[r].pc = "mark" /\ excused' = excused \cup {<<"days", work[r].info>>}
    <3>1. CASE ReadDays(r)
      BY <3>1 DEF ReadDays
    <3>2. CASE ~ReadDays(r)
      BY <3>2 DEF VerifyShown, VerifyEmail, Look, GivesUp
    <3> QED BY <3>1, <3>2
  <2> QED BY <2>1, <2>2 DEF Excuses
<1>2. PICK j \in Works :
        /\ work' = [work EXCEPT ![r] = j]
        /\ j.pc \notin {"count", "insert"} /\ JobNamed(j) /\ JobProves(j)'
  <2>1. ASSUME NEW place \in {"dns", "web"}, VerifyShown(r, i, place)
        PROVE  \E j \in Works : 
                 /\ work' = [work EXCEPT ![r] = j]
                 /\ j.pc \notin {"count", "insert"} /\ JobNamed(j) /\ JobProves(j)'
    <3> PICK j : j = [pc |-> "look", info |-> i, claim |-> info[i].claim,
                      place |-> place, days |-> 0]
      OBVIOUS
    <3>1. work' = [work EXCEPT ![r] = j]
      BY <2>1 DEF VerifyShown, Job
    <3>2. /\ InfoThere(i) /\ info[i].is # "none" /\ info[i].claim \in Claims
          /\ info[i].claim.template # NoTemplate =>
               template[info[i].claim.template] # "none"
          /\ place = "dns" => info[i].claim.method = "txt"
      BY <2>1 DEF VerifyShown, InfoThere, InfosInv, Named
    <3>3. j \in Works
      BY <2>1, <3>2 DEF Works
    <3>4. JobNamed(j) /\ JobProves(j)
      BY <2>1, <3>2 DEF JobNamed, JobProves
    <3>5. JobProves(j)' /\ j.pc = "look"
      BY <1>0, <1>1, <3>4, JobKeepsProof
    <3> QED BY <3>1, <3>3, <3>4, <3>5
  <2>2. CASE VerifyEmail(r, i)
    <3> PICK j : j = [pc |-> "mark", info |-> i, claim |-> info[i].claim,
                      place |-> "", days |-> 0]
      OBVIOUS
    <3>1. work' = [work EXCEPT ![r] = j]
      BY <2>2 DEF VerifyEmail, Job
    <3>2. /\ InfoThere(i) /\ info[i].is # "none" /\ info[i].claim \in Claims
          /\ info[i].claim.template # NoTemplate =>
               template[info[i].claim.template] # "none"
          /\ Proved(i)
      BY <2>2 DEF VerifyEmail, InfoThere, InfosInv, Named, Proved
    <3>3. j \in Works
      BY <3>2 DEF Works
    <3>4. JobNamed(j) /\ JobProves(j)
      BY <3>2 DEF JobNamed, JobProves
    <3>5. JobProves(j)' /\ j.pc = "mark"
      BY <1>0, <1>1, <3>4, JobKeepsProof
    <3> QED BY <3>1, <3>3, <3>4, <3>5
  <2>3. CASE Look(r)
    <3>1. CASE ~Finds(r)
      <4>1. JobNamed(NoWork) /\ JobProves(NoWork)' /\ work' = [work EXCEPT ![r] = NoWork]
        BY <2>3, <3>1, InfoRecords, NoJob DEF JobNamed, Look
      <4> QED BY <4>1, InfoRecords
    <3>2. CASE Finds(r)
      <4> PICK j : j = [work[r] EXCEPT !.pc = "mark"]
        OBVIOUS
      <4>1. /\ j \in Works /\ j.pc = "mark" /\ j.info = work[r].info
            /\ j.claim = work[r].claim /\ j.place = work[r].place
        BY <1>0 DEF Works
      <4>2. work' = [work EXCEPT ![r] = j] /\ work[r].pc = "look"
        BY <2>3, <3>2 DEF Look, InfosInv, InfosTypeOK
      <4>3. /\ work[r].info \in Infos /\ work[r].claim \in Claims
            /\ work[r].claim = info[work[r].info].claim
            /\ info[work[r].info].is # "none" /\ work[r].place \in {"dns", "web"}
            /\ work[r].place = "dns" => work[r].claim.method = "txt"
        BY <1>0, <4>2 DEF JobNamed, JobProves
      <4>4. Proved(work[r].info)
        <5>1. <<work[r].place, work[r].claim.value, work[r].info>> \in world
          BY <3>2 DEF Finds
        <5>2. /\ <<work[r].place, work[r].claim.value, work[r].info>> \in shown
              /\ work[r].claim.user = Controls[work[r].claim.value]
          BY <4>3, <5>1 DEF InfosInv, Worlds, Claims
        <5> QED BY <4>3, <5>2 DEF Proved, Proof
      <4>5. JobNamed(j) /\ JobProves(j)
        BY <1>0, <4>1, <4>2, <4>3, <4>4 DEF JobNamed, JobProves
      <4>6. JobProves(j)'
        BY <1>0, <1>1, <4>5, JobKeepsProof
      <4> QED BY <4>1, <4>2, <4>5, <4>6
    <3> QED BY <3>1, <3>2
  <2>4. CASE ReadDays(r)
    <3> PICK t, k : t = work[r].claim.template /\ k = work[r].info
      OBVIOUS
    <3>1. /\ work[r].pc = "mark" /\ k \in Infos /\ work[r].claim \in Claims
          /\ work[r].claim = info[k].claim /\ info[k].is # "none"
          /\ work[r].place = "dns" => work[r].claim.method = "txt"
          /\ Proved(k) /\ t \in Templates \cup {NoTemplate}
          /\ t # NoTemplate => template[t] # "none"
      BY <1>0, <2>4 DEF ReadDays, JobNamed, JobProves, Claims
    <3>2. PICK days \in Nat :
             /\ work' = [work EXCEPT ![r].pc = "write", ![r].days = days]
             /\ InfoThere(k) => DaysFit(k, t, days)'
      <4> DEFINE known == InfoThere(k) /\ t # NoTemplate /\ template[t] = "there"
      <4>1. t \in Templates => template[t] \in {"none", "there", "deleted"}
        BY DEF InfosInv, InfosTypeOK
      <4>2. template' = template /\ TemplateDays(t)' = TemplateDays(t)
        BY <1>0 DEF TemplateDays, DefaultDays
      <4>3. CASE work' = [work EXCEPT ![r].pc = "write",
                            ![r].days = IF known THEN TemplateDays(t) ELSE DefaultDays]
        <5> PICK days : days = IF known THEN TemplateDays(t) ELSE DefaultDays
          OBVIOUS
        <5>1. days \in Nat
          BY <3>1, DaysTypes
        <5>2. InfoThere(k) => DaysFit(k, t, days)'
          BY <3>1, <4>1, <4>2 DEF DaysFit, DefaultDays
        <5> QED BY <4>3, <5>1, <5>2
      <4>4. CASE /\ known
                 /\ work' = [work EXCEPT ![r].pc = "write", ![r].days = DefaultDays]
                 /\ excused' = excused \cup {<<"days", k>>}
        <5>1. DaysFit(k, t, DefaultDays)'
          BY <4>4 DEF DaysFit, DefaultDays
        <5> QED BY <4>4, <5>1, DaysTypes
      <4> QED BY <2>4, <4>3, <4>4 DEF ReadDays
    <3> PICK j : j = [work[r] EXCEPT !.pc = "write", !.days = days]
      OBVIOUS
    <3>3. work' = [work EXCEPT ![r] = j]
      BY <3>2 DEF InfosInv, InfosTypeOK
    <3>4. /\ j \in Works /\ j.pc = "write" /\ j.info = k /\ j.days = days
          /\ j.claim = work[r].claim /\ j.place = work[r].place
      BY <1>0, <3>2 DEF Works
    <3>5. InfoThere(k)' = InfoThere(k) /\ Proved(k)' /\ info' = info
      BY <1>0, <3>1 DEF InfoThere, Proved, Proof
    <3>6. JobNamed(j)
      BY <1>0, <3>1, <3>4 DEF JobNamed
    <3>7. JobProves(j)'
      BY <3>1, <3>2, <3>4, <3>5 DEF JobProves
    <3> QED BY <3>3, <3>4, <3>6, <3>7
  <2>5. CASE GivesUp(r)
    <3>1. JobNamed(NoWork) /\ JobProves(NoWork)' /\ work' = [work EXCEPT ![r] = NoWork]
      BY <2>5, InfoRecords, NoJob DEF JobNamed, GivesUp
    <3> QED BY <3>1, InfoRecords
  <2> QED BY <2>1, <2>2, <2>3, <2>4, <2>5
<1>3. /\ InfosTypeOK' /\ Named' /\ Fresh' /\ Worlds' /\ Proving' /\ VerifiedWasProved'
  BY <1>0, <1>1, <1>2, WorkMoves
<1>4. Limited'
  BY <1>0, <1>1, <1>2, MoveKeepsLimits
<1> QED BY <1>3, <1>4 DEF InfosInv

LEMMA InsertRowKeeps ==
  ASSUME InfosInv, NEW r \in Checks, InsertRow(r)
  PROVE  InfosInv'
<1> PICK i, claim : i = work[r].info /\ claim = work[r].claim
  OBVIOUS
<1> DEFINE row == [is |-> "pending", claim |-> claim, days |-> 0]
<1>0. /\ work[r] \in Works /\ work[r].pc = "insert" /\ claim \in Claims /\ i \in Infos
      /\ info \in [Infos -> InfoRows] /\ work \in [Checks -> Works]
      /\ claim.template # NoTemplate => template[claim.template] # "none"
      /\ work' = [work EXCEPT ![r] = NoWork] /\ info[i].is = "none"
      /\ UNCHANGED <<subject, template, world, shown, excused>>
      /\ excused \subseteq Excuses
  BY DEF InsertRow, InfosInv, InfosTypeOK, Named, JobNamed, Fresh
<1>1. CASE UNCHANGED <<info, mails>>
  <2>1. JobNamed(NoWork) /\ JobProves(NoWork)'
    BY InfoRecords, NoJob DEF JobNamed
  <2>2. /\ InfosTypeOK' /\ Named' /\ Fresh' /\ Worlds' /\ Proving' /\ VerifiedWasProved'
    BY <1>0, <1>1, <2>1, InfoRecords, WorkMoves
  <2>3. Limited'
    BY <1>0, <1>1, InfoRecords, MoveKeepsLimits
  <2> QED BY <2>2, <2>3 DEF InfosInv
<1>2. CASE /\ ~Clashes(claim)
           /\ info' = [info EXCEPT ![i] = row]
           /\ mails' = IF claim.type = "email" THEN mails \cup {i} ELSE mails
  <2>1. row \in InfoRows /\ row.is = "pending" /\ row.claim = claim
    BY <1>0 DEF InfoRows
  <2> HIDE DEF row
  <2>2. /\ info' \in [Infos -> InfoRows] /\ info'[i] = row
        /\ \A k \in Infos : k # i => info'[k] = info[k]
    BY <1>0, <1>2, <2>1
  <2>3. /\ work' \in [Checks -> Works] /\ work'[r] = NoWork
        /\ \A q \in Checks : q # r => work'[q] = work[q]
    BY <1>0, InfoRecords DEF InfosInv, InfosTypeOK
  <2>4. \A q \in Checks : work'[q].pc # "idle" => q # r /\ work'[q] = work[q]
    BY <2>3, InfoRecords
  <2>5. mails' \subseteq mails \cup {i}
    BY <1>2
  <2>6. /\ InfoThere(i)' /\ ~InfoThere(i)
        /\ \A k \in Infos : k # i => (InfoThere(k)' <=> InfoThere(k))
    BY <1>0, <2>1, <2>2 DEF InfoThere
  <2>7. InfosTypeOK'
    <3>1. \A k, l \in Infos :
            /\ InfoThere(k)' /\ InfoThere(l)'
            /\ \A f \in {"user", "type", "value"} : info'[k].claim[f] = info'[l].claim[f]
            => k = l
      <4>1. \A k \in Infos : k # i /\ InfoThere(k)' =>
              \E f \in {"user", "type", "value"} : info'[k].claim[f] # info'[i].claim[f]
        BY <1>2, <2>1, <2>2, <2>6 DEF Clashes
      <4>2. \A k, l \in Infos : k # i /\ l # i =>
            (/\ InfoThere(k)' /\ InfoThere(l)'
             /\ \A f \in {"user", "type", "value"} : info'[k].claim[f] = info'[l].claim[f]
             => k = l)
        BY <2>2, <2>6 DEF InfosInv, InfosTypeOK
      <4> QED BY <4>1, <4>2
    <3>2. mails' \subseteq Infos
      BY <1>0, <2>5 DEF InfosInv, InfosTypeOK
    <3> QED BY <1>0, <2>2, <2>3, <3>1, <3>2 DEF InfosInv, InfosTypeOK
  <2>8. Named'
    <3>1. \A q \in Checks : JobNamed(work[q])'
      BY <1>0, <2>4 DEF InfosInv, Named, JobNamed
    <3>2. \A k \in Infos : info'[k].is # "none" =>
            /\ info'[k].claim \in Claims
            /\ info'[k].claim.template # NoTemplate =>
                 template'[info'[k].claim.template] # "none"
      BY <1>0, <2>1, <2>2 DEF InfosInv, Named
    <3>3. mails \subseteq Infos /\ \A k \in mails : info[k].is # "none"
      BY DEF InfosInv, InfosTypeOK, Named
    <3>4. \A k \in mails' : info'[k].is # "none"
      BY <2>1, <2>2, <2>5, <3>3
    <3> QED BY <3>1, <3>2, <3>4 DEF Named
  <2>9. Fresh'
    <3>0. IsFiniteSet(Alive')
      <4>1. Alive' \subseteq Alive \cup {i}
        BY <2>6 DEF Alive
      <4>2. IsFiniteSet(Alive \cup {i})
        BY FS_AddElement DEF InfosInv, Fresh
      <4> QED BY <4>1, <4>2, FS_Subset
    <3> SUFFICES ASSUME NEW q \in Checks, work'[q].pc \in {"count", "insert"}
                 PROVE  /\ info'[work'[q].info].is = "none"
                        /\ \A p \in Checks : work'[p].pc \in {"count", "insert"} /\ p # q =>
                             work'[p].info # work'[q].info
      BY <3>0 DEF Fresh
    <3>1. q # r /\ work'[q] = work[q] /\ work[q].info \in Infos /\ work[q].info # i
      BY <1>0, <2>4 DEF InfosInv, Named, JobNamed, Fresh
    <3> QED BY <2>2, <2>4, <3>1 DEF InfosInv, Fresh
  <2>10. Worlds'
    BY <1>0, <2>2 DEF InfosInv, Worlds
  <2>11. \A k \in Infos : k # i => Proved(k)' = Proved(k)
    BY <1>0, <2>2 DEF Proved, Proof
  <2>12. \A k, t, days : DaysFit(k, t, days) => DaysFit(k, t, days)'
    BY <1>0 DEF DaysFit
  <2>13. Proving'
    <3> SUFFICES ASSUME NEW q \in Checks, work'[q].pc \in {"look", "mark", "write"}
                 PROVE  JobProves(work[q])'
      BY DEF Proving, JobProves
    <3>1. work'[q] = work[q] /\ work[q].info \in Infos /\ JobProves(work[q])
      BY <2>4 DEF InfosInv, Named, JobNamed, Proving
    <3>2. work[q].info # i
      BY <1>0, <3>1 DEF JobProves
    <3> PICK j : j = work[q]
      OBVIOUS
    <3>3. InfoThere(j.info)' = InfoThere(j.info)
      BY <2>2, <3>1, <3>2 DEF InfoThere
    <3>4. info'[j.info] = info[j.info] /\ Proved(j.info)' = Proved(j.info)
      BY <2>2, <2>11, <3>1, <3>2
    <3>5. JobProves(j)'
      BY <2>12, <3>1, <3>3, <3>4 DEF JobProves
    <3> QED BY <3>1, <3>5 DEF JobProves
  <2>14. VerifiedWasProved'
    <3>1. Earned
      BY VerifiedMeans DEF InfosInv
    <3>2. ASSUME NEW k \in Infos, info'[k].is = "verified"
          PROVE  Proved(k)' /\ DaysFit(k, info[k].claim.template, info[k].days)'
      <4>1. k # i /\ info'[k] = info[k]
        BY <2>1, <2>2, <3>2
      <4> QED BY <1>0, <2>11, <3>1, <3>2, <4>1 DEF Earned, DaysFit
    <3>3. Earned'
      BY <3>2 DEF Earned
    <3> QED BY <3>3, VerifiedMeansNext
  <2>15. ASSUME NEW key \in Keys PROVE KeyOK(key)'
    <3>0. key[2] \in Templates /\ key[3] \in Types /\ KeyOK(key)
      BY DEF Keys, InfosInv, Limited
    <3>1. CASE Key(claim) # key
      <4>1. Counted(key)' \subseteq Counted(key)
        BY <1>0, <2>1, <2>2, <2>6, <3>1 DEF Counted, RowsOf, Key
      <4>2. Inserting(key)' \subseteq Inserting(key)
        BY <1>0, <2>4 DEF Inserting
      <4> QED BY <1>0, <3>0, <4>1, <4>2, KeyShrinks
    <3>2. CASE <<"limit", i>> \in excused
      <4>1. Counted(key)' \subseteq Counted(key)
        BY <1>0, <2>2, <2>6, <3>2 DEF Counted, RowsOf, Key
      <4>2. Inserting(key)' \subseteq Inserting(key)
        BY <1>0, <2>4 DEF Inserting
      <4> QED BY <1>0, <3>0, <4>1, <4>2, KeyShrinks
    <3>3. CASE Key(claim) = key /\ <<"limit", i>> \notin excused
      <4>1. Counted(key)' = Counted(key) \cup {i} /\ i \notin Counted(key)
        <5>1. Key(info'[i].claim) = key
          BY <2>1, <2>2, <3>3
        <5> QED BY <1>0, <2>2, <2>6, <3>3, <5>1 DEF Counted, RowsOf, Key
      <4>2. Inserting(key)' = Inserting(key) \ {r} /\ r \in Inserting(key)
        BY <1>0, <2>3, <2>4, <3>3, InfoRecords DEF Inserting
      <4>3. /\ IsFiniteSet(Counted(key)') /\ Cardinality(Counted(key)) \in Nat
            /\ Cardinality(Counted(key)') = Cardinality(Counted(key)) + 1
        <5>1. IsFiniteSet(Counted(key)) /\ Cardinality(Counted(key)) \in Nat
          BY <3>0, FS_CardinalityType DEF KeyOK
        <5>2. /\ IsFiniteSet(Counted(key) \cup {i})
              /\ Cardinality(Counted(key) \cup {i}) = Cardinality(Counted(key)) + 1
          BY <4>1, <5>1, FS_AddElement
        <5> QED BY <4>1, <5>1, <5>2
      <4>4. /\ Cardinality(Inserting(key)') = Cardinality(Inserting(key)) - 1
            /\ Cardinality(Inserting(key)) \in Nat
        BY <4>2, FS_RemoveElement, InsertingFinite
      <4>5. Filled(key)' = Filled(key)
        BY <4>3, <4>4 DEF Filled, CountOf
      <4> QED BY <1>0, <3>0, <4>3, <4>5 DEF KeyOK
    <3> QED BY <3>1, <3>2, <3>3
  <2> QED BY <2>7, <2>8, <2>9, <2>10, <2>13, <2>14, <2>15 DEF InfosInv, Limited
<1> QED BY <1>1, <1>2 DEF InsertRow

----------------------------------------------------------------------------
(* Steps on the rows, and the theorems.                                     *)

LEMMA RowStepsKeep ==
  ASSUME InfosInv,
         \/ \E i \in Infos : Mail(i) \/ DeleteInfo(i)
         \/ \E place \in {"dns", "web"}, v \in Values, i \in Infos : Publish(place, v, i)
         \/ \E proof \in world : Withdraw(proof)
         \/ \E r \in Checks : MarkVerified(r)
         \/ Crash \/ UNCHANGED infoVars
  PROVE  InfosInv'
<1>0. /\ info \in [Infos -> InfoRows] /\ work \in [Checks -> Works] /\ mails \subseteq Infos
      /\ shown \subseteq Proofs /\ Worlds
  BY DEF InfosInv, InfosTypeOK
<1>1. ASSUME NEW i \in Infos, Mail(i) PROVE InfosInv'
  <2>1. info[i].claim \in Claims
    BY <1>1 DEF Mail, InfosInv, Named
  <2>2. Proof("mail", i) \in Proofs
    BY <2>1 DEF Proof, Proofs, Claims
  <2>3. /\ UNCHANGED <<subject, info, template, world, work, excused>>
        /\ mails' \subseteq mails /\ shown \subseteq shown' /\ shown' \subseteq Proofs
    BY <1>0, <1>1, <2>2 DEF Mail
  <2>4. Worlds'
    BY <1>0, <2>3 DEF Worlds
  <2> QED BY <1>0, <2>3, <2>4, RowsKeep DEF InfoThere
<1>2. ASSUME NEW i \in Infos, DeleteInfo(i) PROVE InfosInv'
  <2> DEFINE row == [info[i] EXCEPT !.is = "deleted"]
  <2>1. /\ row \in InfoRows /\ row.is = "deleted" /\ row.claim = info[i].claim
    BY <1>0 DEF InfoRows
  <2>2. info' = [info EXCEPT ![i] = row] /\ info[i].is # "none"
    BY <1>0, <1>2 DEF DeleteInfo, InfoThere
  <2> HIDE DEF row
  <2>3. /\ info' \in [Infos -> InfoRows] /\ info'[i] = row
        /\ \A k \in Infos : k # i => info'[k] = info[k]
    BY <1>0, <2>1, <2>2
  <2>4. UNCHANGED <<subject, template, world, mails, work, shown, excused>>
    BY <1>2 DEF DeleteInfo
  <2>5. \A k \in Infos :
            /\ info'[k].claim = info[k].claim
            /\ info'[k].is = "none" <=> info[k].is = "none"
            /\ InfoThere(k)' => InfoThere(k)
            /\ info'[k].is = "verified" =>
                 info[k].is = "verified" /\ info'[k].days = info[k].days
    BY <2>1, <2>2, <2>3 DEF InfoThere
  <2>6. Worlds'
    BY <1>0, <2>4, <2>5 DEF Worlds
  <2> QED BY <1>0, <2>3, <2>4, <2>5, <2>6, RowsKeep
<1>3. ASSUME NEW place \in {"dns", "web"}, NEW v \in Values, NEW i \in Infos,
             Publish(place, v, i)
      PROVE  InfosInv'
  <2>1. /\ UNCHANGED <<subject, info, template, mails, work, excused>>
        /\ shown \subseteq shown' /\ shown' \subseteq Proofs
    BY <1>0, <1>3 DEF Publish, Proofs
  <2>2. Worlds'
    BY <1>0, <1>3 DEF Worlds, Publish, InfoThere
  <2> QED BY <1>0, <2>1, <2>2, RowsKeep DEF InfoThere
<1>4. ASSUME NEW proof \in world, Withdraw(proof) PROVE InfosInv'
  <2>1. UNCHANGED <<subject, info, template, mails, work, shown, excused>>
    BY <1>4 DEF Withdraw
  <2>2. Worlds'
    BY <1>0, <1>4 DEF Worlds, Withdraw
  <2> QED BY <1>0, <2>1, <2>2, RowsKeep DEF InfoThere
<1>5. ASSUME NEW r \in Checks, MarkVerified(r) PROVE InfosInv'
  <2> DEFINE i == work[r].info
  <2>1. /\ UNCHANGED <<subject, template, world, mails, shown, excused>>
        /\ work' = [work EXCEPT ![r] = NoWork] /\ work[r].pc = "write"
    BY <1>5 DEF MarkVerified
  <2>2. /\ i \in Infos /\ info[i].is # "none" /\ Proved(i)
        /\ InfoThere(i) => DaysFit(i, info[i].claim.template, work[r].days)
        /\ work[r].days \in Nat
    BY <1>0, <2>1 DEF InfosInv, Named, JobNamed, Proving, JobProves, Works
  <2>3. /\ work' \in [Checks -> Works]
        /\ \A q \in Checks : work'[q] = work[q] \/ work'[q] = NoWork
    BY <1>0, <2>1, InfoRecords
  <2>4. CASE ~InfoThere(i)
    <3>1. info' = info
      BY <1>5, <2>4 DEF MarkVerified
    <3>2. Worlds'
      BY <1>0, <2>1, <3>1 DEF Worlds
    <3> QED BY <1>0, <2>1, <2>3, <3>1, <3>2, RowsKeep DEF InfoThere
  <2>5. CASE InfoThere(i)
    <3> DEFINE row == [is |-> "verified", claim |-> info[i].claim, days |-> work[r].days]
    <3>1. info' = [info EXCEPT ![i].is = "verified", ![i].days = work[r].days]
      BY <1>5, <2>5 DEF MarkVerified
    <3>2. /\ \A k \in Infos : k # i => info'[k] = info[k]
          /\ info'[i].is = "verified" /\ info'[i].days = work[r].days
          /\ info'[i].claim = info[i].claim
      BY <1>0, <2>2, <3>1 DEF InfoRows
    <3>3. info' \in [Infos -> InfoRows]
      <4>1. info \in [Infos -> [is : {"none", "pending", "verified", "deleted"},
                                claim : Claims \cup {NoClaim}, days : Nat]]
        BY <1>0 DEF InfoRows
      <4>2. info' \in [Infos -> [is : {"none", "pending", "verified", "deleted"},
                                 claim : Claims \cup {NoClaim}, days : Nat]]
        BY <2>2, <3>1, <4>1
      <4> QED BY <4>2 DEF InfoRows
    <3>4. \A k \in Infos :
            /\ info'[k].claim = info[k].claim
            /\ info'[k].is = "none" <=> info[k].is = "none"
            /\ InfoThere(k)' => InfoThere(k)
            /\ info'[k].is = "verified" =>
                 \/ info[k].is = "verified" /\ info'[k].days = info[k].days
                 \/ Proved(k) /\ DaysFit(k, info[k].claim.template, info'[k].days)
      BY <2>2, <2>5, <3>2 DEF InfoThere
    <3>5. Worlds'
      BY <1>0, <2>1, <3>4 DEF Worlds
    <3> QED BY <1>0, <2>1, <2>3, <3>3, <3>4, <3>5, RowsKeep
  <2> QED BY <2>4, <2>5
<1>6. CASE Crash
  <2>1. /\ UNCHANGED <<subject, info, template, world, shown, excused>>
        /\ work' = [r \in Checks |-> NoWork] /\ mails' = {}
    BY <1>6 DEF Crash
  <2>2. work' \in [Checks -> Works] /\ \A r \in Checks : work'[r] = NoWork
    BY <2>1, InfoRecords
  <2>3. Worlds'
    BY <1>0, <2>1 DEF Worlds
  <2> QED BY <1>0, <2>1, <2>2, <2>3, RowsKeep DEF InfoThere
<1>7. CASE UNCHANGED infoVars
  <2>1. UNCHANGED <<subject, info, template, world, mails, work, shown, excused>>
    BY <1>7 DEF infoVars
  <2>2. Worlds'
    BY <1>0, <2>1 DEF Worlds
  <2> QED BY <1>0, <2>1, <2>2, RowsKeep DEF InfoThere
<1> QED BY <1>1, <1>2, <1>3, <1>4, <1>5, <1>6, <1>7

\* The invariant of verification: what a row and a request name has been there, a
\* request that has looked has found, and the rows of a key, with those about to be
\* inserted, are within its limit or one short of a row for each request more.
THEOREM InfosInvariant == InfosSpec => []InfosInv
<1>1. InfosInv /\ [InfosNext]_infoVars => InfosInv'
  <2> SUFFICES ASSUME InfosInv, [InfosNext]_infoVars PROVE InfosInv'
    OBVIOUS
  <2>1. ASSUME NEW u \in Claimants, NEW s \in Subjects, SubmitSubject(u, s) PROVE InfosInv'
    BY <2>1, SubjectsKeep
  <2>2. ASSUME NEW a \in Admins, NEW s \in Subjects, NEW verdict \in {"approved", "rejected"},
               ReviewSubject(a, s, verdict)
        PROVE  InfosInv'
    BY <2>2, SubjectsKeep
  <2>3. ASSUME NEW u \in Claimants \cup Admins, NEW s \in Subjects, DeleteSubject(u, s)
        PROVE  InfosInv'
    BY <2>3, SubjectsKeep
  <2>4. ASSUME NEW t \in Templates, CreateTemplate(t) \/ DeleteTemplate(t) PROVE InfosInv'
    BY <2>4, TemplatesKeep
  <2>5. ASSUME NEW r \in Checks, NEW u \in Claimants, NEW i \in Infos, NEW type \in Types,
               NEW v \in Values, NEW asked \in {"txt", "http"},
               NEW t \in Templates \cup {NoTemplate}, Create(r, u, i, type, v, asked, t)
        PROVE  InfosInv'
    BY <2>5, CreateKeeps
  <2>6. ASSUME NEW r \in Checks, CountRows(r) PROVE InfosInv'
    BY <2>6, CountRowsKeeps
  <2>7. ASSUME NEW r \in Checks, InsertRow(r) PROVE InfosInv'
    BY <2>7, InsertRowKeeps
  <2>8. ASSUME NEW r \in Checks, NEW i \in Infos,
               VerifyEmail(r, i) \/ \E place \in {"dns", "web"} : VerifyShown(r, i, place)
        PROVE  InfosInv'
    BY <2>8, ChecksKeep
  <2>9. ASSUME NEW r \in Checks, Look(r) \/ ReadDays(r) \/ GivesUp(r) PROVE InfosInv'
    <3>1. work[r].info \in Infos
      BY <2>9 DEF Look, ReadDays, GivesUp, InfosInv, Named, JobNamed
    <3> QED BY <2>9, <3>1, ChecksKeep
  <2>10. ASSUME NEW i \in Infos, Mail(i) \/ DeleteInfo(i) PROVE InfosInv'
    BY <2>10, RowStepsKeep
  <2>11. ASSUME NEW place \in {"dns", "web"}, NEW v \in Values, NEW i \in Infos,
                Publish(place, v, i)
         PROVE  InfosInv'
    BY <2>11, RowStepsKeep
  <2>12. ASSUME NEW proof \in world, Withdraw(proof) PROVE InfosInv'
    BY <2>12, RowStepsKeep
  <2>13. ASSUME NEW r \in Checks, MarkVerified(r) PROVE InfosInv'
    BY <2>13, RowStepsKeep
  <2>14. CASE Crash
    BY <2>14, RowStepsKeep
  <2>15. CASE UNCHANGED infoVars
    BY <2>15, RowStepsKeep
  <2> QED
    BY <2>1, <2>2, <2>3, <2>4, <2>5, <2>6, <2>7, <2>8, <2>9, <2>10, <2>11, <2>12, <2>13,
       <2>14, <2>15
    DEF InfosNext
<1> QED BY <1>1, InfosInitInv, PTL DEF InfosSpec

\* Reviews name their administrator, a user has one row for a value, and the rest
\* is of its type, with any number of users, values and requests.
THEOREM InfosTypeCorrect == InfosSpec => []InfosTypeOK
<1>1. InfosInv => InfosTypeOK
  BY DEF InfosInv
<1> QED BY <1>1, InfosInvariant, PTL

\* A verified info was proved: by its own token at its own value, shown by the holder
\* of the value, or by the code mailed there; and for as long as its template says.
THEOREM VerifiedWasProvedCorrect == InfosSpec => []VerifiedWasProved
<1>1. InfosInv => VerifiedWasProved
  BY DEF InfosInv
<1> QED BY <1>1, InfosInvariant, PTL

\* A template's limit holds, or two requests counted before one of them inserted, and
\* then it is passed by no more than all requests but one.
THEOREM LimitOrOverlapCorrect == InfosSpec => []LimitOrOverlap
<1>1. InfosInv => LimitOrOverlap
  <2> SUFFICES ASSUME InfosInv, NEW u \in Claimants, NEW t \in Templates, NEW type \in Types,
                      template[t] = "there", Limit[<<t, type>>] > 0
               PROVE  \/ CountOf(<<u, t, type>>) <= Limit[<<t, type>>]
                      \/ /\ <<u, t, type>> \in excused
                         /\ CountOf(<<u, t, type>>) <=
                              Limit[<<t, type>>] + Cardinality(Checks) - 1
    BY DEF LimitOrOverlap
  <2> DEFINE key == <<u, t, type>>
  <2>1. key \in Keys /\ key[2] = t /\ key[3] = type
    BY DEF Keys
  <2> HIDE DEF key
  <2>2. KeyOK(key)
    BY <2>1 DEF InfosInv, Limited
  <2>3. CountOf(key) \in Nat
    BY <2>2, FS_CardinalityType DEF KeyOK, CountOf
  <2>4. Cardinality(Inserting(key)) \in Nat /\ Cardinality(Checks) \in Nat
    BY InsertingFinite
  <2>5. Limit[<<t, type>>] \in Nat
    BY LimitAssumption
  <2>6. CountOf(key) <= Filled(key) /\ Filled(key) \in Nat
    BY <2>3, <2>4 DEF Filled
  <2> HIDE DEF Filled, CountOf
  <2>7. \/ Filled(key) <= Limit[<<t, type>>]
        \/ key \in excused /\ Filled(key) <= Limit[<<t, type>>] + Cardinality(Checks) - 1
    BY <2>1, <2>2 DEF KeyOK
  <2>8. \/ CountOf(key) <= Limit[<<t, type>>]
        \/ key \in excused /\ CountOf(key) <= Limit[<<t, type>>] + Cardinality(Checks) - 1
    BY <2>3, <2>4, <2>5, <2>6, <2>7
  <2> QED BY <2>8 DEF key
<1> QED BY <1>1, InfosInvariant, PTL
----------------------------------------------------------------------------
(* Payment: recharges and refunds.                                          *)



\* A transaction that may still commit has seen the order as it is.
SnapshotsHold ==
    \A q \in PayRequests :
        doing[q] = "credit" /\ q \in fresh => order[target[q]] = "pending"

\* A request for a refund has found the order paid.
AskForPaid ==
    \A q \in PayRequests : doing[q] \in {"count", "insert"} => order[target[q]] = "paid"

\* A decision is about a refund that exists; it is marked when recorded.
DecideKnown ==
    \A q \in PayRequests :
        /\ doing[q] \in AboutRefund => refund[target[q]] # "none"
        /\ doing[q] = "settle" => recorded[target[q]] > 0

\* The requests that have deducted a refund and not yet recorded it.
Recorders(r) == {q \in PayRequests : doing[q] = "record" /\ target[q] = r}

Accounted ==
    \A r \in Refunds : recorded[r] + Cardinality(Recorders(r)) <= deducted[r]

PaidIsRecorded == \A r \in Refunds : refund[r] = "paid" => recorded[r] > 0

PayInv == /\ PayTypeOK /\ CreditedOnce /\ RefundsArePaid /\ PaidIsRecorded
        /\ SnapshotsHold /\ AskForPaid /\ DecideKnown /\ Accounted

----------------------------------------------------------------------------
(* The requests between a deduction and its record. *)

LEMMA RecordersFinite ==
  \A r \in Refunds : IsFiniteSet(Recorders(r)) /\ Cardinality(Recorders(r)) \in Nat
<1> SUFFICES ASSUME NEW r \in Refunds
             PROVE  IsFiniteSet(Recorders(r)) /\ Cardinality(Recorders(r)) \in Nat
  OBVIOUS
<1>1. Recorders(r) \in SUBSET PayRequests
  BY DEF Recorders
<1>2. IsFiniteSet(Recorders(r))
  BY <1>1, FS_Subset, PayRequestsAssumption
<1> QED BY <1>2, FS_CardinalityType

\* A request that neither comes to the record nor leaves it.
LEMMA MoveKeepsAccounts ==
  ASSUME PayTypeOK, Accounted, NEW q \in PayRequests, NEW at, NEW x, PayGoto(q, at, x),
         doing[q] # "record", at # "record", UNCHANGED <<recorded, deducted>>
  PROVE  Accounted'
<1>1. \A r \in Refunds : Recorders(r)' = Recorders(r)
  BY DEF Recorders, PayGoto, PayTypeOK, OnTarget
<1> QED BY <1>1 DEF Accounted

LEMMA StayKeepsAccounts ==
  ASSUME Accounted, UNCHANGED <<doing, target, recorded, deducted>>
  PROVE  Accounted'
<1>1. \A r \in Refunds : Recorders(r)' = Recorders(r)
  BY DEF Recorders
<1> QED BY <1>1 DEF Accounted

----------------------------------------------------------------------------
LEMMA PayInitInv == PayInit => PayInv
<1> SUFFICES ASSUME PayInit PROVE PayInv
  OBVIOUS
<1>1. PayTypeOK
  BY DEF PayInit, PayTypeOK, OnTarget, AboutOrder, AboutRefund
<1>2. Accounted
  <2>1. \A r \in Refunds : Recorders(r) = {}
    BY DEF PayInit, Recorders
  <2>2. ASSUME NEW r \in Refunds PROVE recorded[r] + Cardinality(Recorders(r)) <= deducted[r]
    <3>1. recorded[r] = 0 /\ deducted[r] = 0
      BY DEF PayInit
    <3> QED BY <2>1, <3>1, FS_EmptySet
  <2> QED BY <2>2 DEF Accounted
<1> QED BY <1>1, <1>2 DEF PayInit, PayInv, CreditedOnce, RefundsArePaid,
        PaidIsRecorded, SnapshotsHold, AskForPaid, DecideKnown, AboutRefund

Parts == /\ PayTypeOK /\ CreditedOnce /\ RefundsArePaid /\ PaidIsRecorded
         /\ SnapshotsHold /\ AskForPaid /\ DecideKnown

(* Recharging. *)

LEMMA RechargingKeeps ==
  ASSUME PayInv, NEW q \in PayRequests, Recharging(q) PROVE PayInv'
<1> USE DEF PayTypeOK, OnTarget, CreditedOnce, RefundsArePaid, PaidIsRecorded,
            SnapshotsHold, AskForPaid, DecideKnown, AboutOrder, AboutRefund, PayGoto, PayAnswered, Commit,
            refundVars, orderVars
<1>1. ASSUME NEW o \in Recharges, CreateRechargeOrder(q, o) PROVE PayInv'
  <2>1. Parts'
    BY <1>1 DEF CreateRechargeOrder, Parts, PayInv
  <2>2. Accounted'
    BY <1>1, MoveKeepsAccounts DEF CreateRechargeOrder, PayInv
  <2> QED BY <2>1, <2>2 DEF Parts, PayInv
<1>2. ASSUME NEW o \in Recharges, Callback(q, o) PROVE PayInv'
  <2>1. Parts'
    BY <1>2 DEF Callback, CallbackIf, Parts, PayInv
  <2>2. Accounted'
    BY <1>2, MoveKeepsAccounts, StayKeepsAccounts DEF Callback, CallbackIf, PayInv
  <2> QED BY <2>1, <2>2 DEF Parts, PayInv
<1>3. CASE CreateLink(q)
  <2>1. Parts'
    BY <1>3 DEF CreateLink, Parts, PayInv
  <2>2. Accounted'
    BY <1>3, MoveKeepsAccounts DEF CreateLink, PayInv
  <2> QED BY <2>1, <2>2 DEF Parts, PayInv
<1>4. CASE CallbackCommit(q)
  <2>1. Parts'
    <3>1. PayTypeOK' /\ CreditedOnce' /\ RefundsArePaid' /\ PaidIsRecorded'
      <4>1. PayTypeOK'
        <5>1. target[q] \in Recharges /\ doing[q] = "credit"
          <6> HIDE DEF PayTypeOK, OnTarget, CreditedOnce, RefundsArePaid, PaidIsRecorded,
                       SnapshotsHold, AskForPaid, DecideKnown
          <6>1. OnTarget
            BY DEF PayInv, PayTypeOK
          <6> QED BY <1>4, <6>1 DEF CallbackCommit, OnTarget
        <5>2. /\ order' \in [Recharges -> {"none", "pending", "paid", "closed"}]
              /\ provider' \in [Recharges -> {"unknown", "open", "settled", "told"}]
              /\ credited' \in [Recharges -> Nat]
          BY <1>4, <5>1 DEF CallbackCommit, Credit, PayInv
        <5>3. /\ doing' = [doing EXCEPT ![q] = "idle"]
              /\ target' = [target EXCEPT ![q] = NoPayment]
              /\ fresh' = {} /\ UNCHANGED <<expired, refundVars>>
          BY <1>4 DEF CallbackCommit, Credit
        <5> QED BY <5>2, <5>3 DEF PayInv
      <4>2. CreditedOnce'
        BY <1>4 DEF CallbackCommit, Credit, PayInv
      <4>3. RefundsArePaid' /\ PaidIsRecorded'
        BY <1>4 DEF CallbackCommit, Credit, PayInv
      <4> QED BY <4>1, <4>2, <4>3
    <3>2. SnapshotsHold' /\ AskForPaid' /\ DecideKnown'
      BY <1>4 DEF CallbackCommit, Credit, PayInv
    <3> QED BY <3>1, <3>2 DEF Parts
  <2>2. Accounted'
    BY <1>4, MoveKeepsAccounts DEF CallbackCommit, Credit, PayInv
  <2> QED BY <2>1, <2>2 DEF Parts, PayInv
<1> QED BY <1>1, <1>2, <1>3, <1>4 DEF Recharging

\* The customer, the clock and the closing job.
LEMMA OthersKeep ==
  ASSUME PayInv, CloseExpiredOrders \/ \E o \in Recharges : Pay(o) \/ Expire(o)
  PROVE  PayInv'
<1>1. Parts'
  <2> USE DEF PayInv, PayTypeOK, OnTarget, CreditedOnce, RefundsArePaid, PaidIsRecorded,
              SnapshotsHold, AskForPaid, DecideKnown, AboutOrder, AboutRefund, Commit,
              refundVars, orderVars
  <2>1. ASSUME CloseExpiredOrders PROVE Parts'
    <3> HIDE DEF PayInv, PayTypeOK, OnTarget, CreditedOnce, RefundsArePaid, PaidIsRecorded,
                 SnapshotsHold, AskForPaid, DecideKnown
    <3>0. PayTypeOK /\ order \in [Recharges -> {"none", "pending", "paid", "closed"}]
      BY DEF PayInv, PayTypeOK
    <3>1. /\ \A o \in Recharges : \/ order'[o] = order[o]
                                  \/ order[o] = "pending" /\ order'[o] = "closed"
          /\ order' \in [Recharges -> {"none", "pending", "paid", "closed"}]
      BY <2>1, <3>0 DEF CloseExpiredOrders, Close
    <3>2. fresh' = {} /\ UNCHANGED <<expired, provider, credited, refundVars, doing, target>>
      BY <2>1 DEF CloseExpiredOrders, Close
    <3>3. PayTypeOK'
      BY <3>0, <3>1, <3>2 DEF PayTypeOK, OnTarget
    <3>4. CreditedOnce'
      BY <3>0, <3>1, <3>2 DEF PayInv, CreditedOnce
    <3>5. RefundsArePaid' /\ PaidIsRecorded' /\ SnapshotsHold'
      BY <3>2 DEF PayInv, RefundsArePaid, PaidIsRecorded, SnapshotsHold
    <3>6. AskForPaid'
      <4> SUFFICES ASSUME NEW q \in PayRequests, doing[q] \in {"count", "insert"}
                   PROVE  order'[target[q]] = "paid"
        BY <3>2 DEF AskForPaid
      <4>1. target[q] \in Recharges /\ order[target[q]] = "paid"
        <5>1. OnTarget /\ AskForPaid
          BY DEF PayInv, PayTypeOK
        <5> QED BY <5>1 DEF OnTarget, AskForPaid
      <4> QED BY <3>1, <4>1
    <3>7. DecideKnown'
      BY <3>2 DEF PayInv, DecideKnown
    <3> QED BY <3>3, <3>4, <3>5, <3>6, <3>7 DEF Parts
  <2>2. ASSUME NEW o \in Recharges, Pay(o) PROVE Parts'
    BY <2>2 DEF Pay, Parts
  <2>3. ASSUME NEW o \in Recharges, Expire(o) PROVE Parts'
    BY <2>3 DEF Expire, Parts
  <2> QED BY <2>1, <2>2, <2>3
<1>2. UNCHANGED <<doing, target, recorded, deducted>>
  BY DEF CloseExpiredOrders, Close, Pay, Expire, refundVars
<1> QED BY <1>1, <1>2, StayKeepsAccounts DEF Parts, PayInv

(* Refunds. *)

LEMMA RefundingKeeps ==
  ASSUME PayInv, NEW q \in PayRequests, Refunding(q) PROVE PayInv'
<1> USE DEF PayTypeOK, OnTarget, CreditedOnce, RefundsArePaid, PaidIsRecorded,
            SnapshotsHold, AskForPaid, DecideKnown, AboutOrder, AboutRefund, PayGoto, PayAnswered, Commit,
            refundVars, orderVars
<1>1. Parts'
  <2>1. ASSUME NEW o \in Recharges, RefundOrder(q, o) PROVE Parts'
    BY <2>1 DEF RefundOrder, Parts, PayInv
  <2>2. CASE RefundCount(q)
    BY <2>2 DEF RefundCount, Parts, PayInv
  <2>3. ASSUME NEW r \in Refunds, RefundInsert(q, r) PROVE Parts'
    <3>1. PayTypeOK' /\ CreditedOnce' /\ RefundsArePaid' /\ PaidIsRecorded'
      <4>4. target[q] \in Recharges /\ order[target[q]] = "paid"
        <5> HIDE DEF PayTypeOK, OnTarget, CreditedOnce, RefundsArePaid, PaidIsRecorded,
                     SnapshotsHold, DecideKnown
        <5>1. OnTarget /\ AskForPaid
          BY DEF PayInv, PayTypeOK
        <5> QED BY <2>3, <5>1 DEF RefundInsert, OnTarget, AskForPaid
      <4>0. /\ target[q] \in Recharges /\ order[target[q]] = "paid" /\ refund[r] = "none"
            /\ refund' = [refund EXCEPT ![r] = "pending"]
            /\ refundOf' = [refundOf EXCEPT ![r] = target[q]]
            /\ doing' = [doing EXCEPT ![q] = "idle"]
            /\ target' = [target EXCEPT ![q] = NoPayment]
            /\ fresh' = {} /\ UNCHANGED <<orderVars, deducted, recorded>>
        BY <2>3, <4>4 DEF RefundInsert
      <4>1. PayTypeOK'
        BY <4>0 DEF PayInv
      <4>2. CreditedOnce' /\ PaidIsRecorded'
        BY <4>0 DEF PayInv
      <4>3. RefundsArePaid'
        BY <4>0 DEF PayInv
      <4> QED BY <4>1, <4>2, <4>3
    <3>2. SnapshotsHold' /\ AskForPaid' /\ DecideKnown'
      BY <2>3 DEF RefundInsert, PayInv
    <3> QED BY <3>1, <3>2 DEF Parts
  <2> QED BY <2>1, <2>2, <2>3 DEF Refunding
<1>2. Accounted'
  BY MoveKeepsAccounts DEF Refunding, RefundOrder, RefundCount, RefundInsert, PayInv
<1> QED BY <1>1, <1>2 DEF Parts, PayInv

LEMMA PayDecidingKeeps ==
  ASSUME PayInv, NEW q \in PayRequests, Deciding(q) PROVE PayInv'
<1> USE DEF PayTypeOK, OnTarget, CreditedOnce, RefundsArePaid, PaidIsRecorded,
            SnapshotsHold, AskForPaid, DecideKnown, AboutOrder, AboutRefund, PayGoto, PayAnswered, Commit,
            refundVars, orderVars
<1>1. ASSUME NEW r \in Refunds, ApproveRefund(q, r) \/ RejectRefund(q, r)
      PROVE  PayInv'
  <2>1. Parts'
    BY <1>1 DEF ApproveRefund, RejectRefund, Parts, PayInv
  <2>2. Accounted'
    BY <1>1, MoveKeepsAccounts DEF ApproveRefund, RejectRefund, PayInv
  <2> QED BY <2>1, <2>2 DEF Parts, PayInv
<1>2. CASE Settle(q) \/ MarkFailed(q)
  <2>1. Parts'
    <3>1. PayTypeOK' /\ CreditedOnce' /\ RefundsArePaid' /\ PaidIsRecorded'
      <4>1. PayTypeOK'
        BY <1>2 DEF Settle, MarkFailed, PayInv
      <4>2. CreditedOnce' /\ PaidIsRecorded'
        BY <1>2 DEF Settle, MarkFailed, PayInv
      <4>3. RefundsArePaid'
        BY <1>2 DEF Settle, MarkFailed, PayInv
      <4> QED BY <4>1, <4>2, <4>3
    <3>2. SnapshotsHold' /\ AskForPaid' /\ DecideKnown'
      BY <1>2 DEF Settle, MarkFailed, PayInv
    <3> QED BY <3>1, <3>2 DEF Parts
  <2>2. Accounted'
    BY <1>2, MoveKeepsAccounts DEF Settle, MarkFailed, PayInv
  <2> QED BY <2>1, <2>2 DEF Parts, PayInv
<1>3. CASE Deduct(q)
  <2>1. Parts'
    BY <1>3 DEF Deduct, Parts, PayInv
  <2>2. Accounted'
    <3> SUFFICES ASSUME NEW r \in Refunds
                 PROVE (recorded[r] + Cardinality(Recorders(r)) <= deducted[r])'
      BY DEF Accounted
    <3>1. CASE r = target[q]
      <4>1. Recorders(r)' = Recorders(r) \cup {q} /\ q \notin Recorders(r)
        BY <1>3, <3>1 DEF Deduct, Recorders, PayInv
      <4>2. Cardinality(Recorders(r)') = Cardinality(Recorders(r)) + 1
        BY <4>1, RecordersFinite, FS_AddElement
      <4>3. recorded'[r] = recorded[r] /\ deducted'[r] = deducted[r] + 1
        BY <1>3, <3>1 DEF Deduct, PayInv
      <4>4. recorded[r] \in Nat /\ deducted[r] \in Nat
            /\ Cardinality(Recorders(r)) \in Nat
        BY RecordersFinite DEF PayInv
      <4> QED BY <4>2, <4>3, <4>4 DEF Accounted, PayInv
    <3>2. CASE r # target[q]
      <4>1. Recorders(r)' = Recorders(r)
        BY <1>3, <3>2 DEF Deduct, Recorders, PayInv
      <4>2. recorded'[r] = recorded[r] /\ deducted'[r] = deducted[r]
        BY <1>3, <3>2 DEF Deduct, PayInv
      <4> QED BY <4>1, <4>2 DEF Accounted, PayInv
    <3> QED BY <3>1, <3>2
  <2> QED BY <2>1, <2>2 DEF Parts, PayInv
<1>4. CASE Record(q)
  <2>1. Parts'
    BY <1>4 DEF Record, Parts, PayInv
  <2>2. Accounted'
    <3> SUFFICES ASSUME NEW r \in Refunds
                 PROVE (recorded[r] + Cardinality(Recorders(r)) <= deducted[r])'
      BY DEF Accounted
    <3>1. CASE r = target[q]
      <4>1. Recorders(r)' = Recorders(r) \ {q} /\ q \in Recorders(r)
        BY <1>4, <3>1 DEF Record, Recorders, PayInv
      <4>2. Cardinality(Recorders(r)') = Cardinality(Recorders(r)) - 1
        BY <4>1, RecordersFinite, FS_RemoveElement
      <4>3. recorded'[r] = recorded[r] + 1 /\ deducted'[r] = deducted[r]
        BY <1>4, <3>1 DEF Record, PayInv
      <4>4. recorded[r] \in Nat /\ deducted[r] \in Nat
            /\ Cardinality(Recorders(r)) \in Nat
        BY RecordersFinite DEF PayInv
      <4> QED BY <4>2, <4>3, <4>4 DEF Accounted, PayInv
    <3>2. CASE r # target[q]
      <4>1. Recorders(r)' = Recorders(r)
        BY <1>4, <3>2 DEF Record, Recorders, PayInv
      <4>2. recorded'[r] = recorded[r] /\ deducted'[r] = deducted[r]
        BY <1>4, <3>2 DEF Record, PayInv
      <4> QED BY <4>1, <4>2 DEF Accounted, PayInv
    <3> QED BY <3>1, <3>2
  <2> QED BY <2>1, <2>2 DEF Parts, PayInv
<1> QED BY <1>1, <1>2, <1>3, <1>4 DEF Deciding

\* A failure may leave a deduction that no one records.
LEMMA FailKeeps == ASSUME PayInv, NEW q \in PayRequests, PayFail(q) PROVE PayInv'
<1>1. Parts'
  BY DEF PayFail, Parts, PayInv, PayTypeOK, OnTarget, CreditedOnce, RefundsArePaid,
     PaidIsRecorded, SnapshotsHold, AskForPaid, DecideKnown, AboutOrder, AboutRefund,
     PayGoto, PayAnswered, refundVars, orderVars
<1>2. ASSUME NEW r \in Refunds
      PROVE (recorded[r] + Cardinality(Recorders(r)) <= deducted[r])'
  <2>1. Recorders(r)' \in SUBSET Recorders(r)
    BY DEF PayFail, Recorders, PayGoto, PayAnswered, PayInv, PayTypeOK, OnTarget
  <2>2. /\ Cardinality(Recorders(r)') <= Cardinality(Recorders(r))
        /\ IsFiniteSet(Recorders(r)')
    BY <2>1, RecordersFinite, FS_Subset
  <2>3. Cardinality(Recorders(r)') \in Nat /\ Cardinality(Recorders(r)) \in Nat
    BY <2>2, RecordersFinite, FS_CardinalityType
  <2>4. /\ recorded[r] \in Nat /\ deducted[r] \in Nat
        /\ recorded'[r] = recorded[r] /\ deducted'[r] = deducted[r]
    BY DEF PayFail, PayInv, PayTypeOK, refundVars
  <2> QED BY <2>2, <2>3, <2>4 DEF PayInv, Accounted
<1> QED BY <1>1, <1>2 DEF Parts, PayInv, Accounted

----------------------------------------------------------------------------
(* The theorems. *)

LEMMA StepKeepsIInv == PayInv /\ [PayNext]_payVars => PayInv'
<1> SUFFICES ASSUME PayInv, [PayNext]_payVars PROVE PayInv'
  OBVIOUS
<1>1. ASSUME NEW q \in PayRequests, Recharging(q) PROVE PayInv'
  BY <1>1, RechargingKeeps
<1>2. ASSUME NEW q \in PayRequests, Refunding(q) PROVE PayInv'
  BY <1>2, RefundingKeeps
<1>3. ASSUME NEW q \in PayRequests, Deciding(q) PROVE PayInv'
  BY <1>3, PayDecidingKeeps
<1>4. ASSUME NEW q \in PayRequests, PayFail(q) PROVE PayInv'
  BY <1>4, FailKeeps
<1>5. CASE CloseExpiredOrders \/ \E o \in Recharges : Pay(o) \/ Expire(o)
  BY <1>5, OthersKeep
<1>6. CASE UNCHANGED payVars
  <2>1. Parts'
    BY <1>6 DEF payVars, Parts, PayInv, PayTypeOK, OnTarget, CreditedOnce, RefundsArePaid,
       PaidIsRecorded, SnapshotsHold, AskForPaid, DecideKnown
  <2> QED BY <1>6, <2>1, StayKeepsAccounts DEF payVars, Parts, PayInv
<1> QED BY <1>1, <1>2, <1>3, <1>4, <1>5, <1>6 DEF PayNext

LEMMA Inductive == PaySpec => []PayInv
  BY PayInitInv, StepKeepsIInv, PTL DEF PaySpec

\* Every variable keeps its type.
THEOREM PayTypeCorrect == PaySpec => []PayTypeOK
<1>1. PayInv => PayTypeOK
  BY DEF PayInv
<1> QED BY <1>1, Inductive, PTL

\* However many callbacks race, a paid order is credited once.
THEOREM CreditedOnceCorrect == PaySpec => []CreditedOnce
<1>1. PayInv => CreditedOnce
  BY DEF PayInv
<1> QED BY <1>1, Inductive, PTL

\* Money goes back only for credited orders.
THEOREM RefundsCorrect == PaySpec => []RefundsArePaid
<1>1. PayInv => RefundsArePaid
  BY DEF PayInv
<1> QED BY <1>1, Inductive, PTL

\* A refund shown as paid is deducted and recorded, and records never exceed
\* deductions.
THEOREM PaidIsDeductedCorrect == PaySpec => []PaidIsDeducted
<1>1. ASSUME PayInv PROVE PaidIsDeducted
  <2>1. \A r \in Refunds : recorded[r] <= deducted[r]
    BY <1>1, RecordersFinite DEF PayInv, PayTypeOK, Accounted
  <2> QED BY <1>1, <2>1 DEF PayInv, PaidIsRecorded, PaidIsDeducted
<1> QED BY <1>1, Inductive, PTL

\* Paid and closed orders stay so.
THEOREM OrdersFinalCorrect == PaySpec => OrdersFinal
<1>1. ASSUME PayInv, PayNext, NEW o \in Recharges, order[o] \in {"paid", "closed"}
      PROVE  order'[o] = order[o]
  <2>1. ASSUME NEW q \in PayRequests, CallbackCommit(q) PROVE order'[o] = order[o]
    BY <1>1, <2>1 DEF PayInv, PayTypeOK, OnTarget, SnapshotsHold, AboutOrder,
       CallbackCommit, Credit
  <2>2. ASSUME NEW q \in PayRequests, NEW p \in Recharges, CreateRechargeOrder(q, p)
        PROVE  order'[o] = order[o]
    BY <1>1, <2>2 DEF PayInv, PayTypeOK, OnTarget, CreateRechargeOrder
  <2>3. CASE CloseExpiredOrders
    BY <1>1, <2>3 DEF CloseExpiredOrders, Close
  <2>4. CASE order' = order
    BY <2>4
  <2> QED BY <1>1, <2>1, <2>2, <2>3, <2>4 DEF PayNext, Recharging, Refunding,
          Deciding, PayFail, Callback, CallbackIf, CreateLink, Pay, Expire, RefundOrder,
          RefundCount, RefundInsert, ApproveRefund, RejectRefund, Deduct,
          Record, Settle, MarkFailed, orderVars
<1>2. PayInv /\ [PayNext]_payVars =>
        [\A o \in Recharges :
           order[o] \in {"paid", "closed"} => order'[o] = order[o]]_payVars
  BY <1>1
<1> QED BY <1>2, Inductive, PTL DEF PaySpec, OrdersFinal

\* The refunds add up, wherever an approval stops.
THEOREM RefundsAccountedCorrect == PaySpec => []RefundsAccounted
<1>1. RefundsArePaid /\ PaidIsDeducted => RefundsAccounted
  BY DEF RefundsAccounted
<1> QED BY <1>1, RefundsCorrect, PaidIsDeductedCorrect, PTL
=============================================================================
