\* Edits of a version by two editors, or the life of two versions of one editor.
SPECIFICATION MCSpec
CONSTANTS
    e = e
    Nodes = {n, m}
    Payloads = {a, b}
    One = One
    Shared = {v3}
    First = {e1}
    Versions = {v1, v2, v3}
    Rows = {p, n, m, e, sc}
    Payload = p
    Scenarios = {sc}
    Values <- MCValues
    Ends <- MCEnds
    Absent = Absent
    Sound <- MCSound
    Editors = {e1, e2}
    Authors <- MCAuthors
    Reviewers = {r1, r2}
    NoVersion = NoVersion
    NoRow = NoRow
INVARIANTS
    TypeOK
    HashIsCurrent
    NoDanglingRow
PROPERTIES
    ApprovedIsValid
SYMMETRY Interchangeable
CHECK_DEADLOCK FALSE
