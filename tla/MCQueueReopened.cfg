\* One worker whose final commit is applied without an acknowledgement.
SPECIFICATION Spec
CONSTANTS
    c1 = c1
    c2 = c2
    Calcs = {c1}
    Workers = {w1}
    NoCalc = NoCalc
    MaxAttempts = 2
    Verdict <- MCVerdict
    Eligible = {c1}
    Failing = {}
    Cancellable = {}
    MaxCrashes = 0
    MaxLapses = 0
    MaxLostAcks = 1
INVARIANTS
    ResultIsFinal
CHECK_DEADLOCK FALSE
