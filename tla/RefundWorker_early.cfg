SPECIFICATION Spec
CONSTANTS
    Refunds = {r1}
    Workers = {w1, w2}
    NoRefund = NoRefund
    MaxAttempts = 3
SYMMETRY Interchangeable
INVARIANTS AckedIsProcessed
CHECK_DEADLOCK FALSE
