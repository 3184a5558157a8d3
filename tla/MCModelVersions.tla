--------------------------- MODULE MCModelVersions ---------------------------
(***************************************************************************)
(* Instances of ModelVersions for TLC: nodes, an edge e that starts at one *)
(* of them, scenarios and the payload.                                     *)
(***************************************************************************)
EXTENDS ModelVersions, FiniteSets, TLC

CONSTANTS
    e, Nodes, Payloads, One,
    Shared,  \* the versions that every request may edit
    First    \* the requests that may edit the others

\* The edge holds the node it starts at.
MCValues == [r \in Rows |-> IF r = e THEN Nodes
                            ELSE IF r = Payload THEN Payloads ELSE {One}]
MCEnds   == [r \in Rows |-> [x \in MCValues[r] |-> IF r = e THEN {x} ELSE {}]]

\* A network needs an edge.
MCSound == {S \in SUBSET Rows : e \in S}

MCAuthors == [v \in Versions |-> IF v \in Shared THEN Editors ELSE First]

\* Nodes and reviewers are interchangeable.
Interchangeable == Permutations(Nodes) \cup Permutations(Reviewers)

\* One behaviour asks one of two questions: what edits of a shared version do to
\* its rows, without a review, with one payload and one status of the project; or
\* what becomes of versions that have one author, with one node at a time and no
\* scenario.
Touched(r) == (\E v \in Versions : Has(content[v], r)) \/ (\E s \in Editors : row[s] = r)
EditsOfShared ==
    /\ project = "draft"
    /\ \A v \in Versions \ Shared : ~Exists(v)
    /\ \A s \in Reviewers : pc[s] = "idle"
    /\ \A v \in Shared : content[v][Payload] \in {Absent, CHOOSE x \in Payloads : TRUE}
    /\ \A s \in Editors : row[s] # Payload
LifeOfOthers ==
    /\ \A v \in Shared : ~Exists(v)
    /\ \A r \in Scenarios : ~Touched(r)
    /\ Cardinality({n \in Nodes : Touched(n)}) \in {0, 1}
MCSpec == Init /\ [][Next /\ (EditsOfShared \/ LifeOfOthers)']_vars
=============================================================================
