------------------------- MODULE ModelVersionsProofs -------------------------
(***************************************************************************)
(* Proofs about ModelVersions, for any number of versions, rows and        *)
(* requests: types, no dangling row, and, on a version with one author, a  *)
(* current hash and approvals of valid networks only.                      *)
(***************************************************************************)
EXTENDS ModelVersions, TLAPS

Editing == {"editing", "written"}

\* What a request has in hand, from its first read to its commit.
SessionInv ==
    \A s \in Sessions :
        /\ pc[s] # "idle" => target[s] \in Versions /\ Exists(target[s])
        /\ pc[s] \in Editing =>
              /\ s \in Editors /\ s \in Authors[target[s]]
              /\ row[s] \in Rows
              /\ value[s] \in Values[row[s]] \/ (row[s] \in Network /\ Deletes(s))
              /\ Deletes(s) => ~creates[s]
        /\ pc[s] \in {"approving", "checked"} => s \in Reviewers
        /\ DOMAIN newHash[s] = Hashed

\* A row that is flushed and not committed: what it references is there and is
\* not being deleted, and what it deletes is not referenced.
WrittenInv ==
    /\ \A s \in Sessions : pc[s] = "written" =>
          /\ \A q \in EndsNeeded(s) : Has(content[target[s]], q)
          /\ Deletes(s) => \A q \in Rows : row[s] \notin References(content[target[s]], q)
    /\ \A s, t \in Sessions :
          /\ pc[s] = "written" /\ pc[t] = "written" /\ target[s] = target[t]
          /\ Deletes(t)
          => row[t] \notin EndsNeeded(s)

RowsInv == NoDanglingRow /\ WrittenInv

\* The content a request that has written is about to commit.
Written(s) == [content[target[s]] EXCEPT ![row[s]] = value[s]]

\* The only author of a version has loaded what the version still holds.
SeenInv ==
    \A s \in Sessions : pc[s] \in Editing /\ SoleAuthor(target[s]) =>
        /\ seenHash[s] = hash[target[s]]
        /\ seenPayload[s] = content[target[s]][Payload]
        /\ pc[s] = "written" => newHash[s] = FullHash(Written(s))

HashInv == HashIsCurrent /\ SeenInv

\* A version is valid from the decision to approve it to the approval.
CheckedInv ==
    \A s \in Sessions : pc[s] = "checked" /\ SoleAuthor(target[s]) => Valid(target[s])

-----------------------------------------------------------------------------
LEMMA InitTypes == Init => TypeOK /\ SessionInv
  BY VersionsAssumption
  DEF Init, TypeOK, VersionTypes, SessionTypes, SessionInv, ProjectStatuses, Statuses, Contents,
      Blank, FullHash, Hashed, Editing, Sessions

\* Requests on the project and new versions.
LEMMA AddKeepsTypes ==
    ASSUME TypeOK, SessionInv, NEW v \in Versions, NEW c \in Contents, NEW h,
           Payload \in DOMAIN h, Add(v, c, h)
    PROVE  TypeOK' /\ SessionInv'
<1>1. TypeOK'
  BY DEF TypeOK, VersionTypes, SessionTypes, Add, projectVars, sessionVars, editVars, Statuses
<1>2. SessionInv'
  BY DEF TypeOK, VersionTypes, SessionInv, Add, Exists, Deletes, sessionVars, editVars
<1> QED BY <1>1, <1>2

LEMMA ReleaseKeepsTypes ==
    ASSUME TypeOK, SessionInv, NEW s \in Sessions, Release(s), UNCHANGED projectVars,
           VersionTypes', \A v \in Versions : Payload \in DOMAIN hash'[v],
           \A v \in Versions : Exists(v) => Exists(v)'
    PROVE  TypeOK' /\ SessionInv'
<1>1. SessionTypes' /\ (\A t \in Sessions : pc'[t] # "idle" => target'[t] \in Versions)
  BY DEF TypeOK, SessionTypes, Release, Statuses
<1>2. TypeOK'
  BY <1>1 DEF TypeOK, projectVars
<1>3. SessionInv'
  BY DEF TypeOK, SessionTypes, SessionInv, Release, Deletes, FullHash, Editing
<1> QED BY <1>2, <1>3

LEMMA CommittedContent ==
    ASSUME TypeOK, SessionInv, NEW s \in Sessions, pc[s] = "written",
           content' = [content EXCEPT ![target[s]] = [@ EXCEPT ![row[s]] = value[s]]]
    PROVE  /\ target[s] \in Versions /\ row[s] \in Rows
           /\ content[target[s]] \in Contents /\ Written(s) \in Contents
           /\ content' = [content EXCEPT ![target[s]] = Written(s)]
<1>1. /\ target[s] \in Versions /\ row[s] \in Rows
      /\ value[s] \in Values[row[s]] \cup {Absent}
      /\ content \in [Versions -> Contents]
  BY DEF TypeOK, VersionTypes, SessionInv, Editing, Deletes
<1>2. content[target[s]] \in Contents
  BY <1>1
<1>3. Written(s) \in Contents
  BY <1>1, <1>2 DEF Written, Contents, AllValues
<1> QED BY <1>1, <1>2, <1>3 DEF Written

LEMMA EditKeepsTypes ==
    ASSUME TypeOK, SessionInv, NEW s \in Editors, Edit(s)
    PROVE  TypeOK' /\ SessionInv'
<1> s \in Sessions
  BY DEF Sessions
<1>1. ASSUME NEW v \in Versions, s \in Authors[v], NEW r \in Rows,
             NEW x \in AllValues \cup {Absent}, NEW new \in BOOLEAN, BeginEdit(s, v, r, x, new)
      PROVE  TypeOK' /\ SessionInv'
  <2>1. TypeOK'
    BY <1>1 DEF TypeOK, VersionTypes, SessionTypes, BeginEdit, projectVars, versionVars
  <2>2. SessionInv'
    BY <1>1 DEF TypeOK, VersionTypes, SessionTypes, SessionInv, BeginEdit, versionVars, Exists,
                Deletes, Editing
  <2> QED BY <2>1, <2>2
<1>2. CASE WriteRow(s)
  <2>1. TypeOK'
    BY <1>2 DEF TypeOK, VersionTypes, SessionTypes, WriteRow, projectVars, versionVars
  <2>2. SessionInv'
    BY <1>2 DEF TypeOK, VersionTypes, SessionTypes, SessionInv, WriteRow, versionVars, Exists,
                Deletes, Editing, HashSeenBy
  <2> QED BY <2>1, <2>2
<1>3. CASE CommitEdit(s)
  <2>1. VersionTypes'
    BY <1>3, CommittedContent DEF TypeOK, VersionTypes, CommitEdit, projectVars
  <2>2. /\ \A v \in Versions : Payload \in DOMAIN hash'[v]
        /\ \A v \in Versions : Exists(v) => Exists(v)'
    BY <1>3, VersionsAssumption DEF TypeOK, SessionInv, CommitEdit, Exists, Hashed
  <2> QED BY <1>3, <2>1, <2>2, ReleaseKeepsTypes DEF CommitEdit
<1> QED BY <1>1, <1>2, <1>3 DEF Edit

LEMMA ReviewKeepsTypes ==
    ASSUME TypeOK, SessionInv, NEW s \in Reviewers, Review(s)
    PROVE  TypeOK' /\ SessionInv'
<1> s \in Sessions
  BY DEF Sessions
<1>1. ASSUME NEW v \in Versions, BeginApproval(s, v) PROVE TypeOK' /\ SessionInv'
  <2>1. TypeOK'
    BY <1>1 DEF TypeOK, VersionTypes, SessionTypes, BeginApproval, projectVars, versionVars,
                editVars
  <2>2. SessionInv'
    BY <1>1 DEF TypeOK, VersionTypes, SessionTypes, SessionInv, BeginApproval, versionVars,
                editVars, Exists, Deletes, Editing
  <2> QED BY <2>1, <2>2
<1>2. CASE CheckApproval(s)
  <2>1. TypeOK'
    BY <1>2 DEF TypeOK, VersionTypes, SessionTypes, CheckApproval, projectVars, versionVars,
                editVars
  <2>2. SessionInv'
    BY <1>2 DEF TypeOK, VersionTypes, SessionTypes, SessionInv, CheckApproval, versionVars,
                editVars, Exists, Deletes, Editing
  <2> QED BY <2>1, <2>2
<1>3. CASE Approve(s)
  <2>1. /\ VersionTypes' /\ (\A v \in Versions : Payload \in DOMAIN hash'[v])
        /\ \A v \in Versions : Exists(v) => Exists(v)'
    BY <1>3 DEF TypeOK, VersionTypes, SessionTypes, Approve, projectVars, Exists, Statuses
  <2> QED BY <1>3, <2>1, ReleaseKeepsTypes DEF Approve
<1> QED BY <1>1, <1>2, <1>3 DEF Review

LEMMA NextKeepsTypes == TypeOK /\ SessionInv /\ [Next]_vars => TypeOK' /\ SessionInv'
<1> SUFFICES ASSUME TypeOK, SessionInv, [Next]_vars PROVE TypeOK' /\ SessionInv'
  OBVIOUS
<1>1. CASE ActivateProject \/ ArchiveProject \/ RestoreProject
  <2>1. TypeOK'
    BY <1>1 DEF TypeOK, VersionTypes, SessionTypes, ActivateProject, ArchiveProject,
                RestoreProject, versionVars, sessionVars, editVars, ProjectStatuses
  <2>2. SessionInv'
    BY <1>1 DEF SessionInv, ActivateProject, ArchiveProject, RestoreProject, versionVars,
                sessionVars, editVars, Exists, Deletes
  <2> QED BY <2>1, <2>2
<1>2. ASSUME NEW v \in Versions, NEW x \in Values[Payload], Create(v, x)
      PROVE  TypeOK' /\ SessionInv'
  <2> DEFINE c == [Blank EXCEPT ![Payload] = x]
  <2>1. c \in Contents
    BY VersionsAssumption DEF Contents, Blank, AllValues
  <2>2. Payload \in DOMAIN BareHash(c) /\ Add(v, c, BareHash(c))
    BY <1>2 DEF Create, BareHash
  <2> QED BY <2>1, <2>2, AddKeepsTypes
<1>3. ASSUME NEW v \in Versions, NEW source \in Versions, Clone(v, source)
      PROVE  TypeOK' /\ SessionInv'
  <2>1. content[source] \in Contents
    BY DEF TypeOK, VersionTypes
  <2>2. /\ Payload \in DOMAIN FullHash(content[source])
        /\ Add(v, content[source], FullHash(content[source]))
    BY <1>3, VersionsAssumption DEF Clone, FullHash, Hashed
  <2> QED BY <2>1, <2>2, AddKeepsTypes
<1>4. ASSUME NEW v \in Versions, Archive(v) PROVE TypeOK' /\ SessionInv'
  <2>1. TypeOK'
    BY <1>4 DEF TypeOK, VersionTypes, SessionTypes, Archive, projectVars, sessionVars, editVars,
                Statuses
  <2>2. SessionInv'
    BY <1>4 DEF TypeOK, VersionTypes, SessionInv, Archive, sessionVars, editVars, Exists, Deletes
  <2> QED BY <2>1, <2>2
<1>5. ASSUME NEW s \in Sessions, Abandon(s) PROVE TypeOK' /\ SessionInv'
  <2>1. /\ VersionTypes' /\ (\A v \in Versions : Payload \in DOMAIN hash'[v])
        /\ UNCHANGED projectVars /\ (\A v \in Versions : Exists(v) => Exists(v)')
    BY <1>5 DEF TypeOK, VersionTypes, Abandon, projectVars, versionVars, Exists
  <2> QED BY <1>5, <2>1, ReleaseKeepsTypes DEF Abandon
<1>6. CASE UNCHANGED vars
  <2>1. TypeOK'
    BY <1>6 DEF TypeOK, VersionTypes, SessionTypes, vars, projectVars, versionVars, sessionVars,
                editVars
  <2>2. SessionInv'
    BY <1>6 DEF SessionInv, vars, versionVars, sessionVars, editVars, Exists, Deletes
  <2> QED BY <2>1, <2>2
<1> QED BY <1>1, <1>2, <1>3, <1>4, <1>5, <1>6, EditKeepsTypes, ReviewKeepsTypes DEF Next

\* Types, whatever the requests do: a project remembers its previous status
\* exactly while it is archived, and a request under way works on a version that
\* exists, as one of its authors if it edits.
THEOREM TypeCorrect == Spec => [](TypeOK /\ SessionInv)
  BY InitTypes, NextKeepsTypes, PTL DEF Spec

-----------------------------------------------------------------------------
\* No dangling row.

LEMMA InitRows == Init => RowsInv
  BY VersionsAssumption
  DEF Init, RowsInv, NoDanglingRow, WrittenInv, References, Has, Blank, Sessions

\* A step that leaves the contents and what has been written.
LEMMA RowsUndisturbed ==
    ASSUME RowsInv, UNCHANGED content,
           \A s \in Sessions : pc'[s] = "written" =>
              /\ pc[s] = "written" /\ target'[s] = target[s]
              /\ row'[s] = row[s] /\ value'[s] = value[s]
    PROVE  RowsInv'
<1>1. NoDanglingRow'
  BY DEF RowsInv, NoDanglingRow, References, Has
<1>2. WrittenInv'
  BY DEF RowsInv, WrittenInv, References, Has, EndsNeeded, Deletes
<1> QED BY <1>1, <1>2 DEF RowsInv

\* A new version holds no dangling row, and nobody works on it yet.
LEMMA AddKeepsRows ==
    ASSUME TypeOK, SessionInv, RowsInv, NEW v \in Versions, NEW c \in Contents, NEW h,
           Add(v, c, h), \A r \in Rows : \A q \in References(c, r) : Has(c, q)
    PROVE  RowsInv'
<1>1. /\ \A s \in Sessions : pc[s] # "idle" => target[s] # v
      /\ UNCHANGED <<pc, target, row, value>>
      /\ content' = [content EXCEPT ![v] = c] /\ content \in [Versions -> Contents]
      /\ \A s \in Sessions : pc[s] # "idle" => target[s] \in Versions
  BY DEF SessionInv, Add, Exists, sessionVars, editVars, TypeOK, VersionTypes
<1>2. NoDanglingRow'
  BY <1>1 DEF RowsInv, NoDanglingRow, References, Has
<1>3. \A s \in Sessions : pc[s] = "written" => content'[target[s]] = content[target[s]]
  BY <1>1
<1>4. WrittenInv'
  BY <1>1, <1>3 DEF RowsInv, WrittenInv, References, Has, EndsNeeded, Deletes
<1> QED BY <1>2, <1>4 DEF RowsInv

\* A row is flushed only when the locks of PostgreSQL let it through.
LEMMA WriteKeepsRows ==
    ASSUME TypeOK, SessionInv, RowsInv, NEW s \in Editors, WriteRow(s)
    PROVE  RowsInv'
<1>1. /\ s \in Sessions /\ DOMAIN pc = Sessions /\ pc' = [pc EXCEPT ![s] = "written"]
      /\ pc[s] = "editing"
      /\ UNCHANGED <<content, target, row, value>>
      /\ \A t \in Editors \ {s} : ~Blocks(t, s)
      /\ \A t \in Sessions : pc[t] = "written" => t \in Editors
  BY DEF WriteRow, TypeOK, SessionTypes, SessionInv, Editing, Sessions, versionVars
<1>2. NoDanglingRow'
  BY <1>1 DEF RowsInv, NoDanglingRow, References, Has
<1>3. /\ \A q \in EndsNeeded(s) : Has(content[target[s]], q)
      /\ Deletes(s) => \A q \in Rows : row[s] \notin References(content[target[s]], q)
      /\ Deletes(s) => row[s] \notin EndsNeeded(s)
  BY DEF WriteRow, Accepted, EndsNeeded
<1>4. \A t \in Sessions \ {s} : pc[t] = "written" /\ target[t] = target[s] =>
         /\ Deletes(t) => row[t] \notin EndsNeeded(s)
         /\ Deletes(s) => row[s] \notin EndsNeeded(t)
  BY <1>1 DEF Blocks
<1>5. WrittenInv'
  BY <1>1, <1>3, <1>4 DEF RowsInv, WrittenInv, References, Has, EndsNeeded, Deletes
<1> QED BY <1>2, <1>5 DEF RowsInv

LEMMA CommitKeepsRows ==
    ASSUME TypeOK, SessionInv, RowsInv, NEW s \in Editors, CommitEdit(s)
    PROVE  RowsInv'
<1> DEFINE v == target[s]  r == row[s]  c == Written(s)
<1>1. /\ s \in Sessions /\ v \in Versions /\ r \in Rows /\ pc[s] = "written"
      /\ content[v] \in Contents /\ c \in Contents
      /\ content' = [content EXCEPT ![v] = c] /\ content \in [Versions -> Contents]
  BY CommittedContent DEF CommitEdit, Sessions, TypeOK, VersionTypes
<1>2. /\ \A t \in Sessions : pc'[t] = "written" =>
            /\ t # s /\ pc[t] = "written" /\ target'[t] = target[t]
            /\ row'[t] = row[t] /\ value'[t] = value[t]
      /\ \A t \in Sessions : pc[t] = "written" => target[t] \in Versions
  BY <1>1 DEF CommitEdit, Release, TypeOK, SessionTypes
<1>3. \A q \in Rows \ {r} : c[q] = content[v][q]
  BY <1>1 DEF Written, Contents
<1>4. c[r] = value[s]
  BY <1>1 DEF Written, Contents
<1>5. \A q \in Rows \ {r} : References(c, q) = References(content[v], q) /\ (Has(c, q) <=> Has(content[v], q))
  BY <1>3 DEF References, Has
<1>6. References(c, r) = EndsNeeded(s) /\ (Has(c, r) <=> ~Deletes(s))
  BY <1>4 DEF References, Has, EndsNeeded, Deletes
<1>7. /\ \A q \in EndsNeeded(s) : Has(content[v], q)
      /\ Deletes(s) => \A q \in Rows : r \notin References(content[v], q)
      /\ \A q \in Rows : \A x \in References(content[v], q) : Has(content[v], x)
  BY <1>1 DEF RowsInv, WrittenInv, NoDanglingRow
<1>8. \A q \in Rows : References(c, q) \subseteq Rows
  BY <1>1, VersionsAssumption DEF References, Has, Contents, Network
<1>9. \A q \in Rows : \A x \in References(c, q) : Has(c, x)
  <2> SUFFICES ASSUME NEW q \in Rows, NEW x \in References(c, q) PROVE Has(c, x)
    OBVIOUS
  <2>1. CASE x = r
    BY <2>1, <1>1, <1>5, <1>6, <1>7 DEF EndsNeeded
  <2>2. CASE x # r
    BY <2>2, <1>1, <1>5, <1>6, <1>7, <1>8
  <2> QED BY <2>1, <2>2
<1>10. NoDanglingRow'
  <2>1. \A u \in Versions : content'[u] = IF u = v THEN c ELSE content[u]
    BY <1>1
  <2> QED BY <2>1, <1>9 DEF NoDanglingRow, RowsInv, References, Has
<1>11. ASSUME NEW t \in Sessions, pc'[t] = "written"
       PROVE  /\ \A q \in EndsNeeded(t) : Has(content'[target[t]], q)
              /\ Deletes(t) => \A q \in Rows : row[t] \notin References(content'[target[t]], q)
  <2>1. /\ \A q \in EndsNeeded(t) : Has(content[target[t]], q)
        /\ Deletes(t) => \A q \in Rows : row[t] \notin References(content[target[t]], q)
        /\ t # s /\ pc[t] = "written" /\ target[t] \in Versions
    BY <1>2, <1>11 DEF RowsInv, WrittenInv
  <2>2. CASE target[t] # v
    BY <2>1, <2>2, <1>1
  <2>3. CASE target[t] = v
    <3>1. content'[target[t]] = c
      BY <2>3, <1>1
    <3>2. /\ Deletes(t) => row[t] \notin EndsNeeded(s)
          /\ Deletes(s) => r \notin EndsNeeded(t)
      BY <1>1, <2>1, <2>3 DEF RowsInv, WrittenInv
    <3>3. EndsNeeded(t) \subseteq Rows
      BY <2>1, VersionsAssumption DEF EndsNeeded, Deletes, SessionInv, Editing, Network
    <3>4. \A q \in EndsNeeded(t) : Has(c, q)
      BY <3>2, <3>3, <2>1, <2>3, <1>5, <1>6
    <3>5. Deletes(t) => \A q \in Rows : row[t] \notin References(c, q)
      BY <3>2, <2>1, <2>3, <1>5, <1>6
    <3> QED BY <3>1, <3>4, <3>5
  <2> QED BY <2>2, <2>3
<1>12. WrittenInv'
  <2>1. \A t \in Sessions : pc'[t] = "written" =>
           EndsNeeded(t)' = EndsNeeded(t) /\ Deletes(t)' = Deletes(t)
    BY <1>2 DEF EndsNeeded, Deletes
  <2> QED BY <2>1, <1>2, <1>11 DEF WrittenInv, RowsInv, References, Has
<1> QED BY <1>10, <1>12 DEF RowsInv

LEMMA NextKeepsRows == TypeOK /\ SessionInv /\ RowsInv /\ [Next]_vars => RowsInv'
<1> SUFFICES ASSUME TypeOK, SessionInv, RowsInv, [Next]_vars PROVE RowsInv'
  OBVIOUS
<1>1. CASE ActivateProject \/ ArchiveProject \/ RestoreProject \/ UNCHANGED vars
           \/ \E v \in Versions : Archive(v)
  BY <1>1, RowsUndisturbed
  DEF ActivateProject, ArchiveProject, RestoreProject, Archive, vars, versionVars, sessionVars,
      editVars
<1>2. ASSUME NEW v \in Versions, NEW x \in Values[Payload], Create(v, x) PROVE RowsInv'
  <2> DEFINE c == [Blank EXCEPT ![Payload] = x]
  <2>1. c \in Contents
    BY VersionsAssumption DEF Contents, Blank, AllValues
  <2>2. \A r \in Rows : References(c, r) = {}
    BY VersionsAssumption DEF References, Has, Blank
  <2> QED BY <1>2, <2>1, <2>2, AddKeepsRows DEF Create
<1>3. ASSUME NEW v \in Versions, NEW source \in Versions, Clone(v, source) PROVE RowsInv'
  <2>1. content[source] \in Contents
    BY DEF TypeOK, VersionTypes
  <2>2. \A r \in Rows : \A q \in References(content[source], r) : Has(content[source], q)
    BY DEF RowsInv, NoDanglingRow
  <2> QED BY <1>3, <2>1, <2>2, AddKeepsRows DEF Clone
<1>4. ASSUME NEW s \in Sessions, Abandon(s) PROVE RowsInv'
  BY <1>4, RowsUndisturbed DEF Abandon, Release, TypeOK, SessionTypes, versionVars
<1>5. ASSUME NEW s \in Editors, Edit(s) PROVE RowsInv'
  <2>1. ASSUME NEW v \in Versions, NEW r \in Rows, NEW x \in AllValues \cup {Absent},
               NEW new \in BOOLEAN, BeginEdit(s, v, r, x, new)
        PROVE  RowsInv'
    BY <2>1, RowsUndisturbed DEF BeginEdit, TypeOK, SessionTypes, versionVars
  <2> QED BY <1>5, <2>1, WriteKeepsRows, CommitKeepsRows DEF Edit
<1>6. ASSUME NEW s \in Reviewers, Review(s) PROVE RowsInv'
  BY <1>6, RowsUndisturbed
  DEF Review, BeginApproval, CheckApproval, Approve, Release, TypeOK, SessionTypes, versionVars,
      editVars
<1> QED BY <1>1, <1>2, <1>3, <1>4, <1>5, <1>6 DEF Next

\* However creations, updates and deletions interleave, no committed row of a
\* network references a missing one.
THEOREM RowsAreWhole == Spec => []NoDanglingRow
<1>1. Init => TypeOK /\ SessionInv /\ RowsInv
  BY InitTypes, InitRows
<1>2. TypeOK /\ SessionInv /\ RowsInv /\ [Next]_vars => (TypeOK /\ SessionInv /\ RowsInv)'
  BY NextKeepsTypes, NextKeepsRows
<1>3. RowsInv => NoDanglingRow
  BY DEF RowsInv
<1> QED BY <1>1, <1>2, <1>3, PTL DEF Spec

-----------------------------------------------------------------------------
\* The hash of a version with one author.

LEMMA InitHash == Init => HashInv /\ CheckedInv
  BY DEF Init, HashInv, HashIsCurrent, SeenInv, CheckedInv, Exists, Editing, Sessions

\* A step that leaves every version and what the editors have loaded.
LEMMA HashUndisturbed ==
    ASSUME HashInv, UNCHANGED <<content, hash>>,
           \A v \in Versions : Exists(v)' => Exists(v),
           \A s \in Sessions : pc'[s] \in Editing =>
              /\ pc'[s] = pc[s] /\ target'[s] = target[s]
              /\ row'[s] = row[s] /\ value'[s] = value[s] /\ newHash'[s] = newHash[s]
              /\ seenHash'[s] = seenHash[s] /\ seenPayload'[s] = seenPayload[s]
    PROVE  HashInv'
<1>1. HashIsCurrent'
  BY DEF HashInv, HashIsCurrent, SoleAuthor
<1>2. SeenInv'
  BY DEF HashInv, SeenInv, SoleAuthor, Written
<1> QED BY <1>1, <1>2 DEF HashInv

LEMMA CheckedUndisturbed ==
    ASSUME CheckedInv, UNCHANGED content,
           \A s \in Sessions : pc'[s] = "checked" => pc[s] = "checked" /\ target'[s] = target[s]
    PROVE  CheckedInv'
  BY DEF CheckedInv, SoleAuthor, Valid

\* A new version carries the hash of what it holds.
LEMMA AddKeepsHash ==
    ASSUME TypeOK, SessionInv, HashInv, CheckedInv, NEW v \in Versions, NEW c \in Contents, NEW h,
           Add(v, c, h), h = FullHash(c) \/ (h = BareHash(c) /\ Present(c) = {})
    PROVE  HashInv' /\ CheckedInv'
<1>1. /\ \A s \in Sessions : pc[s] # "idle" => target[s] # v /\ target[s] \in Versions
      /\ UNCHANGED <<pc, target, row, value, seenHash, seenPayload, newHash>>
      /\ content' = [content EXCEPT ![v] = c] /\ hash' = [hash EXCEPT ![v] = h]
      /\ \A u \in Versions \ {v} : (Exists(u)' <=> Exists(u))
      /\ content \in [Versions -> Contents]
  BY DEF SessionInv, Add, Exists, sessionVars, editVars, TypeOK, VersionTypes
<1>2. \A u \in Versions \ {v} : content'[u] = content[u] /\ hash'[u] = hash[u]
  BY <1>1 DEF Add
<1>3. content'[v] = c /\ hash'[v] = h
  BY <1>1 DEF TypeOK, VersionTypes
<1>4. HashIsCurrent'
  BY <1>1, <1>2, <1>3 DEF HashInv, HashIsCurrent, SoleAuthor
<1>5. SeenInv'
  BY <1>1, <1>2 DEF HashInv, SeenInv, SoleAuthor, Written, Editing
<1>6. CheckedInv'
  BY <1>1, <1>2 DEF CheckedInv, SoleAuthor, Valid
<1> QED BY <1>4, <1>5, <1>6 DEF HashInv

\* refresh_model_hash sees what is about to be committed.
LEMMA HashSeenIsWritten ==
    ASSUME TypeOK, SessionInv, NEW s \in Sessions, pc[s] \in Editing,
           seenPayload[s] = content[target[s]][Payload]
    PROVE  HashSeenBy(s) = FullHash(Written(s))
<1>1. content[target[s]] \in Contents /\ row[s] \in Rows
  BY DEF TypeOK, VersionTypes, SessionInv, Editing
<1>2. \A q \in Hashed : q \in Rows
  BY VersionsAssumption DEF Hashed
<1>3. \A q \in Rows : Written(s)[q] = IF q = row[s] THEN value[s] ELSE content[target[s]][q]
  BY <1>1 DEF Written, Contents
<1> QED BY <1>2, <1>3 DEF HashSeenBy, FullHash

\* Nobody else edits the version of a sole author.
LEMMA AuthorIsAlone ==
    ASSUME SessionInv, NEW s \in Sessions, pc[s] \in Editing, SoleAuthor(target[s]),
           NEW t \in Sessions, pc[t] \in Editing, target[t] = target[s]
    PROVE  t = s
  BY DEF SessionInv, SoleAuthor

LEMMA BeginKeepsHash ==
    ASSUME TypeOK, SessionInv, HashInv, CheckedInv, NEW s \in Editors, NEW v \in Versions,
           NEW r \in Rows, NEW x \in AllValues \cup {Absent}, NEW new \in BOOLEAN,
           BeginEdit(s, v, r, x, new)
    PROVE  HashInv' /\ CheckedInv'
<1>1. /\ s \in Sessions /\ UNCHANGED <<status, content, hash, newHash>>
      /\ pc' = [pc EXCEPT ![s] = "editing"] /\ target' = [target EXCEPT ![s] = v]
      /\ row' = [row EXCEPT ![s] = r] /\ value' = [value EXCEPT ![s] = x]
      /\ seenPayload' = [seenPayload EXCEPT ![s] = content[v][Payload]]
      /\ seenHash' = [seenHash EXCEPT ![s] = hash[v]]
  BY DEF BeginEdit, Sessions, versionVars
<1>2. HashIsCurrent'
  BY <1>1 DEF HashInv, HashIsCurrent, SoleAuthor, Exists
<1>3. SeenInv'
  BY <1>1 DEF HashInv, SeenInv, SoleAuthor, Written, TypeOK, SessionTypes, Editing
<1>4. CheckedInv'
  BY <1>1, CheckedUndisturbed DEF TypeOK, SessionTypes
<1> QED BY <1>2, <1>3, <1>4 DEF HashInv

LEMMA WriteKeepsHash ==
    ASSUME TypeOK, SessionInv, HashInv, CheckedInv, NEW s \in Editors, WriteRow(s)
    PROVE  HashInv' /\ CheckedInv'
<1>1. /\ s \in Sessions /\ pc[s] = "editing"
      /\ UNCHANGED <<status, content, hash, target, row, value, seenPayload, seenHash>>
      /\ pc' = [pc EXCEPT ![s] = "written"] /\ newHash' = [newHash EXCEPT ![s] = HashSeenBy(s)]
  BY DEF WriteRow, Sessions, versionVars
<1>2. HashIsCurrent'
  BY <1>1 DEF HashInv, HashIsCurrent, SoleAuthor, Exists
<1>3. SoleAuthor(target[s]) => HashSeenBy(s) = FullHash(Written(s))
  BY <1>1, HashSeenIsWritten DEF HashInv, SeenInv, Editing
<1>4. SeenInv'
  BY <1>1, <1>3 DEF HashInv, SeenInv, SoleAuthor, Written, TypeOK, SessionTypes, Editing
<1>5. CheckedInv'
  BY <1>1, CheckedUndisturbed DEF TypeOK, SessionTypes
<1> QED BY <1>2, <1>4, <1>5 DEF HashInv

\* What a commit makes of a version with one author: its hash is current again,
\* and if the hash is not written its network is what it was, or empty.
LEMMA CommittedHash ==
    ASSUME TypeOK, SessionInv, HashInv, NEW s \in Sessions, pc[s] = "written",
           SoleAuthor(target[s])
    PROVE  /\ WritesHash(s) => newHash[s] = FullHash(Written(s))
           /\ ~WritesHash(s) =>
                 /\ \/ hash[target[s]] = FullHash(Written(s))
                    \/ hash[target[s]] = BareHash(Written(s)) /\ Present(Written(s)) = {}
                 /\ \/ Present(Written(s)) = Present(content[target[s]])
                    \/ Present(Written(s)) = {}
<1> DEFINE v == target[s]  b == content[v]  c == Written(s)
<1>1. /\ v \in Versions /\ Exists(v) /\ b \in Contents /\ row[s] \in Rows
      /\ seenHash[s] = hash[v] /\ newHash[s] = FullHash(c)
      /\ hash[v] = FullHash(b) \/ (hash[v] = BareHash(b) /\ Present(b) = {})
  BY DEF TypeOK, VersionTypes, SessionInv, HashInv, SeenInv, HashIsCurrent, Editing
<1>2. \A q \in Rows : c[q] = IF q = row[s] THEN value[s] ELSE b[q]
  BY <1>1 DEF Written, Contents
<1>3. CASE row[s] \in Scenarios
  <2>1. FullHash(c) = FullHash(b)
    BY <1>2, <1>3 DEF FullHash, Hashed
  <2>2. BareHash(c) = BareHash(b)
    BY <1>2, <1>3, VersionsAssumption DEF BareHash
  <2>3. Present(c) = Present(b)
    BY <1>2, <1>3 DEF Present, Network, Has
  <2> QED BY <1>1, <1>3, <2>1, <2>2, <2>3 DEF WritesHash
<1>4. CASE newHash[s] = seenHash[s]
  <2>1. hash[v] = FullHash(c)
    BY <1>1, <1>4
  <2>2. CASE FullHash(b) = FullHash(c)
    <3>1. \A q \in Hashed : b[q] = c[q]
      BY <2>2 DEF FullHash
    <3>2. Present(c) = Present(b)
      BY <3>1 DEF Present, Network, Hashed, Has
    <3> QED BY <2>1, <3>2, <1>4 DEF WritesHash
  <2>3. CASE BareHash(b) = FullHash(c)
    <3>1. Hashed = {Payload}
      BY <2>3 DEF FullHash, BareHash
    <3>2. Present(c) = {}
      BY <3>1 DEF Present, Network, Hashed
    <3> QED BY <2>1, <3>2, <1>4 DEF WritesHash
  <2> QED BY <1>1, <2>1, <2>2, <2>3
<1>5. CASE row[s] \notin Scenarios /\ newHash[s] # seenHash[s]
  BY <1>1, <1>5 DEF WritesHash
<1> QED BY <1>3, <1>4, <1>5

LEMMA CommitKeepsHash ==
    ASSUME TypeOK, SessionInv, HashInv, CheckedInv, NEW s \in Editors, CommitEdit(s)
    PROVE  HashInv' /\ CheckedInv'
<1> DEFINE v == target[s]  c == Written(s)
<1>1. /\ s \in Sessions /\ v \in Versions /\ pc[s] = "written" /\ UNCHANGED status
      /\ content' = [content EXCEPT ![v] = c] /\ content \in [Versions -> Contents]
      /\ hash' = (IF WritesHash(s) THEN [hash EXCEPT ![v] = newHash[s]] ELSE hash)
      /\ DOMAIN hash = Versions
      /\ WritesHash(s) => ~VersionLocked(v)
  BY CommittedContent DEF CommitEdit, WritesVersion, Sessions, TypeOK, VersionTypes
<1>2. /\ \A u \in Versions \ {v} : content'[u] = content[u] /\ hash'[u] = hash[u]
      /\ content'[v] = c
      /\ hash'[v] = IF WritesHash(s) THEN newHash[s] ELSE hash[v]
  BY <1>1
<1>3. \A t \in Sessions : pc'[t] # "idle" =>
         /\ t # s /\ pc'[t] = pc[t] /\ target'[t] = target[t] /\ target[t] \in Versions
         /\ row'[t] = row[t] /\ value'[t] = value[t] /\ newHash'[t] = newHash[t]
         /\ seenHash'[t] = seenHash[t] /\ seenPayload'[t] = seenPayload[t]
  BY <1>1 DEF CommitEdit, Release, TypeOK, SessionTypes
<1>4. HashIsCurrent'
  <2>1. SoleAuthor(v) => \/ hash'[v] = FullHash(c)
                         \/ hash'[v] = BareHash(c) /\ Present(c) = {}
    BY <1>1, <1>2, CommittedHash
  <2> QED BY <1>1, <1>2, <2>1 DEF HashInv, HashIsCurrent, SoleAuthor, Exists
<1>5. SeenInv'
  <2>1. ASSUME NEW t \in Sessions, pc'[t] \in Editing, SoleAuthor(target'[t])
        PROVE  target[t] # v /\ pc[t] \in Editing /\ SoleAuthor(target[t])
    BY <1>1, <1>3, <2>1, AuthorIsAlone DEF Editing
  <2>2. ASSUME NEW t \in Sessions, pc'[t] \in Editing, SoleAuthor(target'[t])
        PROVE  /\ Written(t)' = Written(t)
               /\ hash'[target'[t]] = hash[target[t]]
               /\ content'[target'[t]][Payload] = content[target[t]][Payload]
    BY <1>2, <1>3, <2>1, <2>2 DEF Written, Editing
  <2> QED BY <1>3, <2>1, <2>2 DEF HashInv, SeenInv, SoleAuthor, Editing
<1>6. CheckedInv'
  <2> SUFFICES ASSUME NEW t \in Sessions, pc'[t] = "checked", SoleAuthor(target'[t])
               PROVE  Valid(target[t])'
    BY DEF CheckedInv, SoleAuthor
  <2>1. /\ pc[t] = "checked" /\ target'[t] = target[t] /\ target[t] \in Versions
        /\ Valid(target[t]) /\ t \in Reviewers
    BY <1>3 DEF CheckedInv, SessionInv
  <2>2. CASE target[t] # v
    BY <1>2, <2>1, <2>2 DEF Valid
  <2>3. CASE target[t] = v
    <3>1. ~WritesHash(s)
      BY <1>1, <2>1, <2>3 DEF VersionLocked
    <3>2. Present(c) = Present(content[v]) \/ Present(c) = {}
      BY <1>1, <2>1, <2>3, <3>1, CommittedHash
    <3> QED BY <1>2, <2>1, <2>3, <3>2 DEF Valid
  <2> QED BY <2>2, <2>3
<1> QED BY <1>4, <1>5, <1>6 DEF HashInv

LEMMA ReviewKeepsHash ==
    ASSUME TypeOK, SessionInv, HashInv, CheckedInv, NEW s \in Reviewers, Review(s)
    PROVE  HashInv' /\ CheckedInv'
<1> s \in Sessions
  BY DEF Sessions
<1>1. ASSUME NEW v \in Versions, BeginApproval(s, v) PROVE HashInv' /\ CheckedInv'
  BY <1>1, HashUndisturbed, CheckedUndisturbed
  DEF BeginApproval, versionVars, editVars, TypeOK, SessionTypes, Exists, Editing
<1>2. CASE CheckApproval(s)
  <2>1. HashInv'
    BY <1>2, HashUndisturbed
    DEF CheckApproval, versionVars, editVars, TypeOK, SessionTypes, Exists, Editing
  <2>2. CheckedInv'
    BY <1>2 DEF CheckApproval, CheckedInv, versionVars, SoleAuthor, Valid, TypeOK, SessionTypes
  <2> QED BY <2>1, <2>2
<1>3. CASE Approve(s)
  <2>1. \A v \in Versions : Exists(v)' => Exists(v)
    BY <1>3 DEF Approve, Exists, TypeOK, VersionTypes, SessionInv
  <2> QED BY <1>3, <2>1, HashUndisturbed, CheckedUndisturbed
          DEF Approve, Release, TypeOK, SessionTypes, Editing
<1> QED BY <1>1, <1>2, <1>3 DEF Review

LEMMA NextKeepsHash ==
    TypeOK /\ SessionInv /\ HashInv /\ CheckedInv /\ [Next]_vars => HashInv' /\ CheckedInv'
<1> SUFFICES ASSUME TypeOK, SessionInv, HashInv, CheckedInv, [Next]_vars
             PROVE  HashInv' /\ CheckedInv'
  OBVIOUS
<1>1. CASE ActivateProject \/ ArchiveProject \/ RestoreProject \/ UNCHANGED vars
  BY <1>1, HashUndisturbed, CheckedUndisturbed
  DEF ActivateProject, ArchiveProject, RestoreProject, vars, versionVars, sessionVars, editVars,
      Exists
<1>2. ASSUME NEW v \in Versions, Archive(v) PROVE HashInv' /\ CheckedInv'
  <2>1. \A u \in Versions : Exists(u)' => Exists(u)
    BY <1>2 DEF Archive, Exists, TypeOK, VersionTypes
  <2> QED BY <1>2, <2>1, HashUndisturbed, CheckedUndisturbed DEF Archive, sessionVars, editVars
<1>3. ASSUME NEW v \in Versions, NEW x \in Values[Payload], Create(v, x)
      PROVE  HashInv' /\ CheckedInv'
  <2> DEFINE c == [Blank EXCEPT ![Payload] = x]
  <2>1. c \in Contents
    BY VersionsAssumption DEF Contents, Blank, AllValues
  <2>2. Present(c) = {}
    BY VersionsAssumption DEF Present, Network, Has, Blank
  <2>3. Add(v, c, BareHash(c))
    BY <1>3 DEF Create
  <2> QED BY <2>1, <2>2, <2>3, AddKeepsHash
<1>4. ASSUME NEW v \in Versions, NEW source \in Versions, Clone(v, source)
      PROVE  HashInv' /\ CheckedInv'
  BY <1>4, AddKeepsHash DEF Clone, TypeOK, VersionTypes
<1>5. ASSUME NEW s \in Sessions, Abandon(s) PROVE HashInv' /\ CheckedInv'
  BY <1>5, HashUndisturbed, CheckedUndisturbed
  DEF Abandon, Release, TypeOK, SessionTypes, versionVars, Exists, Editing
<1>6. ASSUME NEW s \in Editors, Edit(s) PROVE HashInv' /\ CheckedInv'
  BY <1>6, BeginKeepsHash, WriteKeepsHash, CommitKeepsHash DEF Edit
<1> QED BY <1>1, <1>2, <1>3, <1>4, <1>5, <1>6, ReviewKeepsHash DEF Next

\* content_hash is current on every version that one request at a time edits.
THEOREM HashesAreCurrent == Spec => []HashIsCurrent
<1>1. Init => TypeOK /\ SessionInv /\ HashInv /\ CheckedInv
  BY InitTypes, InitHash
<1>2. TypeOK /\ SessionInv /\ HashInv /\ CheckedInv /\ [Next]_vars
      => (TypeOK /\ SessionInv /\ HashInv /\ CheckedInv)'
  BY NextKeepsTypes, NextKeepsHash
<1>3. HashInv => HashIsCurrent
  BY DEF HashInv
<1> QED BY <1>1, <1>2, <1>3, PTL DEF Spec

LEMMA ApprovalIsValid ==
    ASSUME TypeOK, SessionInv, CheckedInv, [Next]_vars, NEW v \in Versions, SoleAuthor(v),
           status[v] # "approved", status'[v] = "approved"
    PROVE  Valid(v)'
<1>1. PICK s \in Reviewers : Approve(s)
  <2>1. ~(ActivateProject \/ ArchiveProject \/ RestoreProject \/ UNCHANGED vars)
    BY DEF ActivateProject, ArchiveProject, RestoreProject, vars, versionVars
  <2>2. \A u \in Versions : ~Archive(u)
    BY DEF Archive, TypeOK, VersionTypes
  <2>3. \A u \in Versions : \A c, h : ~Add(u, c, h)
    BY DEF Add, TypeOK, VersionTypes
  <2>4. \A s \in Sessions : ~Abandon(s)
    BY DEF Abandon, versionVars
  <2>5. \A s \in Editors : ~Edit(s)
    BY DEF Edit, BeginEdit, WriteRow, CommitEdit, versionVars
  <2>6. \A s \in Reviewers : (\A u \in Versions : ~BeginApproval(s, u)) /\ ~CheckApproval(s)
    BY DEF BeginApproval, CheckApproval, versionVars
  <2> QED BY <2>1, <2>2, <2>3, <2>4, <2>5, <2>6 DEF Next, Create, Clone, Review
<1>2. target[s] = v /\ s \in Sessions /\ pc[s] = "checked"
  BY <1>1 DEF Approve, TypeOK, VersionTypes, Sessions
<1>3. Valid(v) /\ content' = content
  BY <1>1, <1>2 DEF CheckedInv, Approve
<1> QED BY <1>3 DEF Valid

\* A version with one author is approved with the network that was validated:
\* the lock on its row is enough, because every edit of the network writes it.
THEOREM ApprovalsAreValid == Spec => ApprovedIsValid
<1>1. Init => TypeOK /\ SessionInv /\ HashInv /\ CheckedInv
  BY InitTypes, InitHash
<1>2. TypeOK /\ SessionInv /\ HashInv /\ CheckedInv /\ [Next]_vars
      => (TypeOK /\ SessionInv /\ HashInv /\ CheckedInv)'
  BY NextKeepsTypes, NextKeepsHash
<1>3. TypeOK /\ SessionInv /\ CheckedInv /\ [Next]_vars =>
         [\A v \in Versions :
             SoleAuthor(v) /\ status[v] # "approved" /\ status'[v] = "approved"
                => Valid(v)']_vars
  BY ApprovalIsValid
<1> QED BY <1>1, <1>2, <1>3, PTL DEF Spec, ApprovedIsValid
=============================================================================
