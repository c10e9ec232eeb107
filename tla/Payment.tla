------------------------------ MODULE Payment ------------------------------
(***************************************************************************)
(* Recharge orders and refunds of the card server: CreateRechargeOrder,     *)
(* HandleCallback, CloseExpiredOrders and CreateRefund of                  *)
(* internal/payment/service.go and the administrator's refund handlers of   *)
(* internal/api/handler_payment.go.                                         *)
(*                                                                         *)
(* Every HTTP request and the closing job use a pooled connection of their  *)
(* own to SQLite in WAL mode.  A statement outside a transaction commits on *)
(* its own.  HandleCallback is a deferred transaction: it reads from the    *)
(* snapshot of its first SELECT and cannot write once another connection    *)
(* has committed after that snapshot (SQLITE_BUSY_SNAPSHOT).  No busy       *)
(* timeout is set: any statement may fail, and so may a request's context.  *)
(*                                                                         *)
(* user_balances is kept by its lines: how often the amount of an order has *)
(* been added to its owner's balance and that of a refund taken off.        *)
(***************************************************************************)
EXTENDS Naturals, FiniteSets

CONSTANTS
    PayRequests,       \* HTTP requests in progress
    Recharges,         \* order numbers the server may draw
    Refunds,        \* refund UUIDs the server may draw
    NoPayment,           \* no order, no refund
    MaxDeductions   \* bound on the deductions of one refund

ASSUME PayIdsAssumption == Recharges \cap Refunds = {}
ASSUME NoPaymentAssumption == NoPayment \notin Recharges \cup Refunds
ASSUME DeductionsAssumption == MaxDeductions \in Nat
ASSUME PayRequestsAssumption == IsFiniteSet(PayRequests)

VARIABLES
    order,      \* recharge_orders.status; "none" is no row
    expired,    \* orders whose expires_at has passed
    provider,   \* what the payment provider knows of an order
    refund,     \* refund_requests.status; "none" is no row
    refundOf,   \* refund_requests.order_no
    credited,   \* additions of an order's amount to the balance
    deducted,   \* deductions of a refund's amount from the balance
    recorded,   \* consume_records of a refund
    doing,         \* the statement a request is about to execute
    target,        \* the order or refund it is about
    fresh       \* requests whose transaction reads the latest commit

orderVars == <<order, expired, provider, credited>>
refundVars == <<refund, refundOf, deducted, recorded>>
payVars == <<order, expired, provider, refund, refundOf, credited, deducted,
          recorded, doing, target, fresh>>

AboutOrder == {"link", "credit", "count", "insert"}
AboutRefund == {"deduct", "record", "settle", "reject"}

\* A request is about an order or a refund, as it goes on.
OnTarget ==
    \A q \in PayRequests : /\ doing[q] \in AboutOrder => target[q] \in Recharges
                           /\ doing[q] \in AboutRefund => target[q] \in Refunds

PayTypeOK ==
    /\ order \in [Recharges -> {"none", "pending", "paid", "closed"}]
    /\ expired \subseteq Recharges
    /\ provider \in [Recharges -> {"unknown", "open", "settled", "told"}]
    /\ refund \in [Refunds -> {"none", "pending", "paid", "failed"}]
    /\ refundOf \in [Refunds -> Recharges \cup {NoPayment}]
    /\ credited \in [Recharges -> Nat]
    /\ deducted \in [Refunds -> Nat]
    /\ recorded \in [Refunds -> Nat]
    /\ doing \in [PayRequests -> {"idle"} \cup AboutOrder \cup AboutRefund]
    /\ target \in [PayRequests -> Recharges \cup Refunds \cup {NoPayment}]
    /\ fresh \subseteq PayRequests
    /\ OnTarget
    /\ \A r \in Refunds : refund[r] # "none" => refundOf[r] \in Recharges

PayInit ==
    /\ order = [o \in Recharges |-> "none"]
    /\ expired = {}
    /\ provider = [o \in Recharges |-> "unknown"]
    /\ refund = [r \in Refunds |-> "none"]
    /\ refundOf = [r \in Refunds |-> NoPayment]
    /\ credited = [o \in Recharges |-> 0]
    /\ deducted = [r \in Refunds |-> 0]
    /\ recorded = [r \in Refunds |-> 0]
    /\ doing = [q \in PayRequests |-> "idle"]
    /\ target = [q \in PayRequests |-> NoPayment]
    /\ fresh = {}

\* A request goes on to its next statement, or has been answered.
PayGoto(q, at, x) ==
    /\ doing' = [doing EXCEPT ![q] = at]
    /\ target' = [target EXCEPT ![q] = x]
PayAnswered(q) == PayGoto(q, "idle", NoPayment)

\* A write has been committed: every open snapshot is old now.
Commit == fresh' = {}

----------------------------------------------------------------------------
(* Recharging. *)

\* The order is inserted before the payment is opened at the provider.
CreateRechargeOrder(q, o) ==
    /\ doing[q] = "idle" /\ order[o] = "none"
    /\ order' = [order EXCEPT ![o] = "pending"]
    /\ Commit
    /\ PayGoto(q, "link", o)
    /\ UNCHANGED <<expired, provider, credited, refundVars>>

CreateLink(q) ==
    /\ doing[q] = "link"
    /\ provider' = [provider EXCEPT ![target[q]] = "open"]
    /\ PayAnswered(q)
    /\ UNCHANGED <<order, expired, credited, refundVars, fresh>>

\* The customer pays; the link knows nothing of the order's expiry.
Pay(o) ==
    /\ provider[o] = "open"
    /\ provider' = [provider EXCEPT ![o] = "settled"]
    /\ UNCHANGED <<order, expired, credited, refundVars, doing, target, fresh>>

\* The provider notifies the server until it has been answered "success",
\* and may still send a copy after that.  The transaction goes on if the
\* order is in S.
CallbackIf(q, o, S) ==
    /\ doing[q] = "idle" /\ provider[o] \in {"settled", "told"}
    /\ IF order[o] \in S
       THEN /\ PayGoto(q, "credit", o)
            /\ fresh' = fresh \cup {q}
            /\ UNCHANGED provider
       ELSE /\ \E heard \in BOOLEAN :
                 provider' = IF heard THEN [provider EXCEPT ![o] = "told"]
                                      ELSE provider
            /\ UNCHANGED <<doing, target, fresh>>
    /\ UNCHANGED <<order, expired, credited, refundVars>>

\* A variant that takes the money of a closed order too.
CallbackUnlessPaid(q, o) == CallbackIf(q, o, {"pending", "closed"})

Callback(q, o) == CallbackIf(q, o, {"pending"})

Credit(q) ==
    LET o == target[q] IN
    /\ order' = [order EXCEPT ![o] = "paid"]
    /\ credited' = [credited EXCEPT ![o] = credited[o] + 1]
    /\ \E heard \in BOOLEAN :
         provider' = IF heard THEN [provider EXCEPT ![o] = "told"]
                              ELSE provider
    /\ Commit
    /\ PayAnswered(q)
    /\ UNCHANGED <<expired, refundVars>>

\* A variant that reads the status before it begins the transaction.
CallbackReadsOutside(q) ==
    /\ doing[q] = "credit"
    /\ credited[target[q]] < MaxDeductions
    /\ Credit(q)

\* From the first UPDATE to COMMIT the transaction holds the write lock.
CallbackCommit(q) ==
    /\ doing[q] = "credit" /\ q \in fresh
    /\ Credit(q)

Expire(o) ==
    /\ order[o] = "pending" /\ o \notin expired
    /\ expired' = expired \cup {o}
    /\ UNCHANGED <<order, provider, credited, refundVars, doing, target, fresh>>

Close(S) ==
    /\ S # {}
    /\ order' = [o \in Recharges |-> IF o \in S THEN "closed" ELSE order[o]]
    /\ Commit
    /\ UNCHANGED <<expired, provider, credited, refundVars, doing, target>>

\* A variant that leaves the orders whose payment was opened to the callback.
CloseUnopened ==
    Close({o \in expired : order[o] = "pending" /\ provider[o] = "unknown"})

\* One UPDATE, every five minutes.
CloseExpiredOrders == Close({o \in expired : order[o] = "pending"})

----------------------------------------------------------------------------
(* Asking for a refund: three statements. *)

RefundOrder(q, o) ==
    /\ doing[q] = "idle" /\ order[o] = "paid"
    /\ PayGoto(q, "count", o)
    /\ UNCHANGED <<orderVars, refundVars, fresh>>

\* The refunds that bar another one for their order.
Barring(o) == {r \in Refunds : refundOf[r] = o /\ refund[r] \in {"pending", "paid"}}

RefundCount(q) ==
    /\ doing[q] = "count"
    /\ IF Barring(target[q]) = {} THEN PayGoto(q, "insert", target[q]) ELSE PayAnswered(q)
    /\ UNCHANGED <<orderVars, refundVars, fresh>>

RefundInsert(q, r) ==
    /\ doing[q] = "insert" /\ refund[r] = "none"
    /\ refund' = [refund EXCEPT ![r] = "pending"]
    /\ refundOf' = [refundOf EXCEPT ![r] = target[q]]
    /\ Commit
    /\ PayAnswered(q)
    /\ UNCHANGED <<orderVars, deducted, recorded>>

----------------------------------------------------------------------------
(* Deciding a refund: statements that commit one by one.  (ApproveRefund of  *)
(* the payment service, which makes one transaction of them, has no caller.) *)

\* A variant that marks the refund before it takes the money off.
ApproveMarksFirst(q, r) ==
    /\ doing[q] = "idle" /\ refund[r] = "pending"
    /\ refund' = [refund EXCEPT ![r] = "paid"]
    /\ Commit
    /\ PayGoto(q, "deduct", r)
    /\ UNCHANGED <<orderVars, refundOf, deducted, recorded>>

ApproveRefund(q, r) ==
    /\ doing[q] = "idle" /\ refund[r] = "pending"
    /\ PayGoto(q, "deduct", r)
    /\ UNCHANGED <<orderVars, refundVars, fresh>>

Deduct(q) ==
    /\ doing[q] = "deduct" /\ deducted[target[q]] < MaxDeductions
    /\ deducted' = [deducted EXCEPT ![target[q]] = deducted[target[q]] + 1]
    /\ Commit
    /\ PayGoto(q, "record", target[q])
    /\ UNCHANGED <<orderVars, refund, refundOf, recorded>>

Record(q) ==
    /\ doing[q] = "record"
    /\ recorded' = [recorded EXCEPT ![target[q]] = recorded[target[q]] + 1]
    /\ Commit
    /\ PayGoto(q, "settle", target[q])
    /\ UNCHANGED <<orderVars, refund, refundOf, deducted>>

Settle(q) ==
    /\ doing[q] = "settle"
    /\ refund' = [refund EXCEPT ![target[q]] = "paid"]
    /\ Commit
    /\ PayAnswered(q)
    /\ UNCHANGED <<orderVars, refundOf, deducted, recorded>>

RejectRefund(q, r) ==
    /\ doing[q] = "idle" /\ refund[r] = "pending"
    /\ PayGoto(q, "reject", r)
    /\ UNCHANGED <<orderVars, refundVars, fresh>>

MarkFailed(q) ==
    /\ doing[q] = "reject"
    /\ refund' = [refund EXCEPT ![target[q]] = "failed"]
    /\ Commit
    /\ PayAnswered(q)
    /\ UNCHANGED <<orderVars, refundOf, deducted, recorded>>

\* A statement or the provider fails, another part of the server commits in
\* the middle of the transaction, the client hangs up, the server stops: what
\* has been committed stays, an open transaction is rolled back.
PayFail(q) ==
    /\ doing[q] # "idle"
    /\ PayAnswered(q)
    /\ fresh' = fresh \ {q}
    /\ UNCHANGED <<orderVars, refundVars>>

----------------------------------------------------------------------------
Recharging(q) ==
    \/ \E o \in Recharges : CreateRechargeOrder(q, o) \/ Callback(q, o)
    \/ CreateLink(q) \/ CallbackCommit(q)
Refunding(q) ==
    \/ \E o \in Recharges : RefundOrder(q, o)
    \/ RefundCount(q)
    \/ \E r \in Refunds : RefundInsert(q, r)
Deciding(q) ==
    \/ \E r \in Refunds : ApproveRefund(q, r) \/ RejectRefund(q, r)
    \/ Deduct(q) \/ Record(q) \/ Settle(q) \/ MarkFailed(q)

PayNext ==
    \/ \E q \in PayRequests : Recharging(q) \/ Refunding(q) \/ Deciding(q) \/ PayFail(q)
    \/ \E o \in Recharges : Pay(o) \/ Expire(o)
    \/ CloseExpiredOrders

PaySpec == PayInit /\ [][PayNext]_payVars

\* Thirty minutes pass, and the ticker goes on (main.go:110-122); an UPDATE
\* that fails is tried again at the next tick.
PayFairSpec == PaySpec /\ WF_payVars(CloseExpiredOrders)
                 /\ \A o \in Recharges : WF_payVars(Expire(o))

----------------------------------------------------------------------------
(* Properties. *)

\* A paid order is credited exactly once and no other order at all, however
\* many copies of the callback race each other and the closing job, and
\* wherever one of them fails.
CreditedOnce ==
    \A o \in Recharges : credited[o] = IF order[o] = "paid" THEN 1 ELSE 0

\* Paid and closed are final: a late callback does not revive a closed order
\* and the closing job does not close one paid a moment ago.
OrdersFinal ==
    [][\A o \in Recharges :
         order[o] \in {"paid", "closed"} => order'[o] = order[o]]_payVars

\* Money goes back only for an order that was credited.
RefundsArePaid ==
    \A r \in Refunds :
        refund[r] # "none" \/ deducted[r] > 0 =>
            refundOf[r] \in Recharges /\ credited[refundOf[r]] > 0

\* A refund shown as paid has been taken off the balance, and the user finds
\* a record of it; a record never stands for money that was not taken.
PaidIsDeducted ==
    \A r \in Refunds :
        /\ refund[r] = "paid" => recorded[r] > 0
        /\ recorded[r] <= deducted[r]

\* The refunds add up: money goes back for credited orders alone, and what a user
\* is told was paid back has been taken off the balance and recorded, wherever an
\* approval stops (payment/service.go, the refund handlers).
RefundsAccounted == RefundsArePaid /\ PaidIsDeducted

\* No order stays pending for ever.
PendingEnds ==
    \A o \in Recharges : order[o] = "pending" ~> order[o] \in {"paid", "closed"}
=============================================================================
