\* A cancellation requested while the worker handles a failure.
SPECIFICATION Spec
CONSTANTS
    c1 = c1
    c2 = c2
    Calcs = {c1}
    Workers = {w1}
    NoCalc = NoCalc
    MaxAttempts = 2
    Verdict <- MCVerdict
    Eligible = {c1}
    Failing = {c1}
    Cancellable = {c1}
    MaxCrashes = 0
    MaxLapses = 0
    MaxLostAcks = 0
PROPERTIES
    CancellationIsFinal
CHECK_DEADLOCK FALSE
