\* Two workers, two calculations that may fail and one that may be cancelled.
SPECIFICATION FairSpec
CONSTANTS
    c1 = c1
    c2 = c2
    Calcs = {c1, c2, c3}
    Workers = {w1, w2}
    NoCalc = NoCalc
    MaxAttempts = 2
    Verdict <- MCVerdict
    Eligible = {c1}
    Failing = {c1, c3}
    Cancellable = {c2}
    MaxCrashes = 0
    MaxLapses = 0
    MaxLostAcks = 0
INVARIANTS
    OneExecutor
    CompletedOnce
    AgreementInv
PROPERTIES
    ImplementsLifecycle
    QueuedIsSettled
CHECK_DEADLOCK FALSE
