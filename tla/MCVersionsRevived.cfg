\* An approval and the archiving of the same draft.
SPECIFICATION Spec
CONSTANTS
    e = e
    Nodes = {n}
    Payloads = {a}
    One = One
    Shared = {}
    First = {e1}
    Versions = {v1}
    Rows = {p, n, e}
    Payload = p
    Scenarios = {}
    Values <- MCValues
    Ends <- MCEnds
    Absent = Absent
    Sound <- MCSound
    Editors = {e1}
    Authors <- MCAuthors
    Reviewers = {r1}
    NoVersion = NoVersion
    NoRow = NoRow
PROPERTIES
    ArchivedIsFinal
CHECK_DEADLOCK FALSE
