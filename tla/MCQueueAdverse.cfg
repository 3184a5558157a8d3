\* Two workers, crashes, lost heartbeats and lost acknowledgements.
SPECIFICATION Spec
CONSTANTS
    c1 = c1
    c2 = c2
    Calcs = {c1}
    Workers = {w1, w2}
    NoCalc = NoCalc
    MaxAttempts = 2
    Verdict <- MCVerdict
    Eligible = {c1}
    Failing = {c1}
    Cancellable = {c1}
    MaxCrashes = 1
    MaxLapses = 1
    MaxLostAcks = 1
INVARIANTS
    TypeOK
    ApprovedIsEligible
    VerdictHasResult
    ErrorAfterLastAttempt
CHECK_DEADLOCK FALSE
