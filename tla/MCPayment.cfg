SPECIFICATION PayFairSpec
CONSTANTS
    PayRequests = {q1, q2, q3}
    Recharges = {o1}
    Refunds = {r1, r2}
    NoPayment = NoPayment
    MaxDeductions = 2
INVARIANTS
    CreditedOnce
    RefundsAccounted
PROPERTIES
    OrdersFinal
    PendingEnds
CHECK_DEADLOCK FALSE
