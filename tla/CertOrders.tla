----------------------------- MODULE CertOrders -----------------------------
(***************************************************************************)
(* Certificate orders of the card server: CreateOrder, PayOrder,            *)
(* CancelOrder, CreateApplication, ApproveApplication and                  *)
(* RejectApplication of internal/workflow/service.go, over the balance row  *)
(* of one user.                                                            *)
(*                                                                         *)
(* Every request runs on a goroutine and a pooled connection of its own,    *)
(* and every SQL statement commits by itself: a request is the sequence of  *)
(* its statements, and can end between any two of them.                    *)
(***************************************************************************)
EXTENDS Integers, FiniteSetsExt

CONSTANTS
    Requests,   \* HTTP requests in progress
    Orders,     \* order UUIDs the server may draw
    Apps,       \* application UUIDs the server may draw
    Cards,      \* rows of the cards table
    None,       \* no order, no application, no card
    Amount,     \* amount_cents of an order
    Deposit     \* what the user has recharged

ASSUME IdsAssumption == Orders \cap Apps = {}
ASSUME NoneAssumption == None \notin Orders \cup Apps \cup Cards
ASSUME AmountAssumption == Amount \in [Orders -> Nat]
ASSUME DepositAssumption == Deposit \in Nat

VARIABLES
    auto,       \* whether the service was built with a CA (NewService)
    status,     \* cert_orders.status; "none" is no row
    app,        \* cert_applications.status; "none" is no row
    orderOf,    \* cert_applications.order_uuid
    available,  \* user_balances.available_cents
    frozen,     \* user_balances.frozen_cents
    consumed,   \* user_balances.total_consume
    pc,         \* the statement a request is about to execute
    arg,        \* the order or application it is about
    odd         \* history: what was out of the ordinary so far

rowVars == <<status, app, orderOf>>
balanceVars == <<available, frozen, consumed>>
vars == <<auto, rowVars, balanceVars, pc, arg, odd>>

OnOrder == {"freeze", "insert", "cancel"}
OnApp == {"issue", "approve", "complete", "consume", "reject", "unfreeze", "close"}

\* Requests that overlapped, statements that failed, and second applications
\* for one order.
Oddities == {"overlap", "failure", "second"}

TypeOK ==
    /\ auto \in BOOLEAN
    /\ status \in [Orders -> {"none", "pending_payment", "paid", "issued",
                              "completed", "rejected", "cancelled"}]
    /\ app \in [Apps -> {"none", "pending", "approved", "rejected"}]
    /\ orderOf \in [Apps -> Orders \cup {None}]
    /\ available \in Int /\ frozen \in Int /\ consumed \in Int
    /\ pc \in [Requests -> {"idle"} \cup OnOrder \cup OnApp]
    /\ arg \in [Requests -> Orders \cup Apps \cup {None}]
    /\ odd \subseteq Oddities
    /\ \A q \in Requests :
         /\ pc[q] \in OnOrder => arg[q] \in Orders
         /\ pc[q] \in OnApp => arg[q] \in Apps /\ app[arg[q]] # "none"
    /\ \A a \in Apps : app[a] # "none" => orderOf[a] \in Orders

Init ==
    /\ auto \in BOOLEAN
    /\ status = [o \in Orders |-> "none"]
    /\ app = [a \in Apps |-> "none"]
    /\ orderOf = [a \in Apps |-> None]
    /\ available = Deposit /\ frozen = 0 /\ consumed = 0
    /\ pc = [q \in Requests |-> "idle"]
    /\ arg = [q \in Requests |-> None]
    /\ odd = {}

Idle == \A q \in Requests : pc[q] = "idle"

Goto(q, at, x) ==
    /\ pc' = [pc EXCEPT ![q] = at]
    /\ arg' = [arg EXCEPT ![q] = x]
    /\ UNCHANGED auto
Answered(q) == Goto(q, "idle", None)

\* A request begins.
Begins(q) ==
    /\ pc[q] = "idle"
    /\ odd' = IF Idle THEN odd ELSE odd \cup {"overlap"}

\* An UPDATE whose error is dropped (nolint:errcheck) has been executed or not.
Dropped(done) == odd' = IF done THEN odd ELSE odd \cup {"failure"}

\* One UPDATE of the balance row.
Move(toAvailable, toFrozen, toConsumed) ==
    /\ available' = available + toAvailable
    /\ frozen' = frozen + toFrozen
    /\ consumed' = consumed + toConsumed

----------------------------------------------------------------------------
(* Orders. *)

\* The balance is checked for an order that costs something.
CreateOrder(q, o) ==
    /\ Begins(q)
    /\ status[o] = "none" /\ \A p \in Requests : arg[p] # o
    /\ Amount[o] > 0 => available >= Amount[o]
    /\ Goto(q, IF Amount[o] > 0 THEN "freeze" ELSE "insert", o)
    /\ UNCHANGED <<rowVars, balanceVars>>

Freeze(q) ==
    /\ pc[q] = "freeze"
    /\ Move(-Amount[arg[q]], Amount[arg[q]], 0)
    /\ Goto(q, "insert", arg[q])
    /\ UNCHANGED <<rowVars, odd>>

InsertOrder(q) ==
    /\ pc[q] = "insert"
    /\ status' = [status EXCEPT ![arg[q]] = "pending_payment"]
    /\ Answered(q)
    /\ UNCHANGED <<app, orderOf, balanceVars, odd>>

PayOrder(q, o) ==
    /\ Begins(q)
    /\ status[o] = "pending_payment"
    /\ status' = [status EXCEPT ![o] = "paid"]
    /\ UNCHANGED <<auto, app, orderOf, balanceVars, pc, arg>>

CancelOrder(q, o) ==
    /\ Begins(q)
    /\ status[o] \notin {"none", "completed", "cancelled"}
    /\ Goto(q, "cancel", o)
    /\ UNCHANGED <<rowVars, balanceVars>>

\* GetOrder does not read frozen_cents: there is nothing to give back.
Cancel(q) ==
    /\ pc[q] = "cancel"
    /\ status' = [status EXCEPT ![arg[q]] = "cancelled"]
    /\ Answered(q)
    /\ UNCHANGED <<app, orderOf, balanceVars, odd>>

----------------------------------------------------------------------------
(* Applications. *)

\* The foreign key asks for an order, in any state.
CreateApplication(q, a, o) ==
    /\ pc[q] = "idle"
    /\ app[a] = "none" /\ status[o] # "none"
    /\ app' = [app EXCEPT ![a] = "pending"]
    /\ orderOf' = [orderOf EXCEPT ![a] = o]
    /\ odd' = odd \cup (IF Idle THEN {} ELSE {"overlap"})
                  \cup (IF \E b \in Apps : orderOf[b] = o THEN {"second"} ELSE {})
    /\ UNCHANGED <<auto, status, balanceVars, pc, arg>>

\* A variant that approves what is approved already.
ApproveUnlessRejected(q, a) ==
    /\ Begins(q)
    /\ app[a] \in {"pending", "approved"}
    /\ Goto(q, IF auto THEN "issue" ELSE "approve", a)
    /\ UNCHANGED <<rowVars, balanceVars>>

ApproveApplication(q, a) ==
    /\ Begins(q)
    /\ app[a] = "pending"
    /\ Goto(q, IF auto THEN "issue" ELSE "approve", a)
    /\ UNCHANGED <<rowVars, balanceVars>>

\* The certificate is stored without a card, and certificates.card_uuid is a
\* foreign key that SQLite enforces here.
CardOfNewCert == None
IssueCert(q) ==
    /\ pc[q] = "issue"
    /\ IF CardOfNewCert \in Cards THEN Goto(q, "approve", arg[q]) ELSE Answered(q)
    /\ UNCHANGED <<rowVars, balanceVars, odd>>

Approve(q) ==
    /\ pc[q] = "approve"
    /\ app' = [app EXCEPT ![arg[q]] = "approved"]
    /\ Goto(q, "complete", arg[q])
    /\ UNCHANGED <<status, orderOf, balanceVars, odd>>

CompleteOrder(q) ==
    /\ pc[q] = "complete"
    /\ status' = [status EXCEPT ![orderOf[arg[q]]] =
                     IF auto THEN "completed" ELSE "issued"]
    /\ Goto(q, "consume", arg[q])
    /\ UNCHANGED <<app, orderOf, balanceVars, odd>>

Consume(q) ==
    LET n == Amount[orderOf[arg[q]]] IN
    /\ pc[q] = "consume"
    /\ \E done \in BOOLEAN :
         /\ Dropped(done)
         /\ IF done THEN Move(0, -n, n) ELSE UNCHANGED balanceVars
    /\ Answered(q)
    /\ UNCHANGED rowVars

RejectApplication(q, a) ==
    /\ Begins(q)
    /\ app[a] = "pending"
    /\ Goto(q, "reject", a)
    /\ UNCHANGED <<rowVars, balanceVars>>

\* A variant without the condition.
RejectAnyway(q) ==
    LET a == arg[q] IN
    /\ pc[q] = "reject"
    /\ app' = [app EXCEPT ![a] = "rejected"]
    /\ IF Amount[orderOf[a]] > 0 THEN Goto(q, "unfreeze", a) ELSE Answered(q)
    /\ UNCHANGED <<status, orderOf, balanceVars, odd>>

\* The UPDATE has a condition; how many rows it changed is not looked at.
Reject(q) ==
    LET a == arg[q] IN
    /\ pc[q] = "reject"
    /\ app' = IF app[a] = "pending" THEN [app EXCEPT ![a] = "rejected"] ELSE app
    /\ IF Amount[orderOf[a]] > 0 THEN Goto(q, "unfreeze", a) ELSE Answered(q)
    /\ UNCHANGED <<status, orderOf, balanceVars, odd>>

Unfreeze(q) ==
    LET n == Amount[orderOf[arg[q]]] IN
    /\ pc[q] = "unfreeze"
    /\ \E done \in BOOLEAN :
         /\ Dropped(done)
         /\ IF done THEN Move(n, -n, 0) ELSE UNCHANGED balanceVars
    /\ Goto(q, "close", arg[q])
    /\ UNCHANGED rowVars

RejectOrder(q) ==
    /\ pc[q] = "close"
    /\ status' = [status EXCEPT ![orderOf[arg[q]]] = "rejected"]
    /\ Answered(q)
    /\ UNCHANGED <<app, orderOf, balanceVars, odd>>

\* A statement fails, the client hangs up, the server stops: what has been
\* committed stays.
Fail(q) ==
    /\ pc[q] # "idle"
    /\ Answered(q)
    /\ odd' = odd \cup {"failure"}
    /\ UNCHANGED <<rowVars, balanceVars>>

----------------------------------------------------------------------------
Ordering(q) ==
    \/ \E o \in Orders : CreateOrder(q, o) \/ PayOrder(q, o) \/ CancelOrder(q, o)
    \/ Freeze(q) \/ InsertOrder(q) \/ Cancel(q)
Applying(q) ==
    \E a \in Apps :
        \/ \E o \in Orders : CreateApplication(q, a, o)
        \/ ApproveApplication(q, a) \/ RejectApplication(q, a)
Approving(q) == IssueCert(q) \/ Approve(q) \/ CompleteOrder(q) \/ Consume(q)
Rejecting(q) == Reject(q) \/ Unfreeze(q) \/ RejectOrder(q)

Next == \E q \in Requests :
            Ordering(q) \/ Applying(q) \/ Approving(q) \/ Rejecting(q) \/ Fail(q)

Spec == Init /\ [][Next]_vars

----------------------------------------------------------------------------
(* Properties. *)

\* Freezing, consuming and giving back only move money between the columns of
\* the balance, however requests overlap and wherever they stop.
MoneyConserved == available + frozen + consumed = Deposit

\* An order is issued or completed only through an application of its own
\* that was approved, and no rejection that comes later takes that back.
IssuedIsApproved ==
    \A o \in Orders : status[o] \in {"issued", "completed"} =>
        \E a \in Apps : orderOf[a] = o /\ app[a] = "approved"

\* An approval is final, although a rejection may have read the application
\* before: its UPDATE looks again.
ApprovedFinal == \A a \in Apps : app[a] = "approved" => app'[a] = "approved"

\* The balance check covers the freeze when requests take turns: whatever
\* fails half way and whatever is applied for twice, nobody overdraws.
NoOverdraft == "overlap" \notin odd => available >= 0

Cost(S) == MapThenSumSet(LAMBDA o : Amount[o], S)
Decided(o, how) == \E a \in Apps : orderOf[a] = o /\ app[a] = how

\* Orders of which nothing is decided: whether an order that was cancelled keeps its
\* amount is left open, see CancelledIsUnfrozen.
Undecided(o) == status[o] # "none" /\ ~Decided(o, "approved") /\ ~Decided(o, "rejected")
Open == {o \in Orders : Undecided(o) /\ status[o] # "cancelled"}
Cancelled == {o \in Orders : Undecided(o) /\ status[o] = "cancelled"}

\* When requests take turns and no order is applied for twice, the balance row is
\* the ledger of the orders: the amount of an order is frozen from its creation
\* until its application is decided, and consumed if that is an approval.  A
\* statement that fails, or whose error is dropped (service.go:65, :269, :530),
\* leaves more frozen and less consumed than that, never the reverse.
LedgerOfOrders ==
    odd \subseteq {"failure"} /\ Idle =>
        LET spent == Cost({o \in Orders : Decided(o, "approved")})
        IN  /\ consumed <= spent
            /\ \E S \in SUBSET Cancelled :
                  /\ frozen >= Cost(Open \cup S)
                  /\ odd = {} => consumed = spent /\ frozen = Cost(Open \cup S)

\* The balance row adds up, pays for no more than was recharged while requests take
\* turns, and is the ledger of the orders (CreateOrder, ApproveApplication,
\* RejectApplication).
BalanceHolds == MoneyConserved /\ NoOverdraft /\ LedgerOfOrders

\* What CancelOrder says of itself (service.go:581, "cancels an order (unfreezes the
\* amount)"): when nothing went wrong, what is frozen is the amounts of the open
\* orders.  The order it reads has no frozen_cents (GetOrder, service.go:77), so
\* the statement that would give the amount back never runs.
CancelledIsUnfrozen == odd = {} /\ Idle => frozen = Cost(Open)

\* An approval stands: no rejection that read the application earlier takes it
\* back, and an order goes on only through one.
ApprovalsStand == [][IssuedIsApproved' /\ ApprovedFinal]_vars
=============================================================================
