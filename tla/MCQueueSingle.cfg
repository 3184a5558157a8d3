\* One worker, as deployed, that may die twice.
SPECIFICATION Spec
CONSTANTS
    c1 = c1
    c2 = c2
    Calcs = {c1, c2}
    Workers = {w1}
    NoCalc = NoCalc
    MaxAttempts = 2
    Verdict <- MCVerdict
    Eligible = {c1}
    Failing = {c1, c2}
    Cancellable = {c1, c2}
    MaxCrashes = 2
    MaxLapses = 1
    MaxLostAcks = 0
INVARIANTS
    QueueInv
    ResultIsFinal
    AttemptsBounded
CHECK_DEADLOCK FALSE
