\* One worker that dies once and is restarted at once.
SPECIFICATION FairSpec
CONSTANTS
    c1 = c1
    c2 = c2
    Calcs = {c1}
    Workers = {w1}
    NoCalc = NoCalc
    MaxAttempts = 2
    Verdict <- MCVerdict
    Eligible = {c1}
    Failing = {}
    Cancellable = {}
    MaxCrashes = 1
    MaxLapses = 0
    MaxLostAcks = 0
PROPERTIES
    AbandonedJobIsRecovered
CHECK_DEADLOCK FALSE
