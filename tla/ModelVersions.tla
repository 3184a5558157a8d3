---------------------------- MODULE ModelVersions ----------------------------
(***************************************************************************)
(* One project, its model versions and the rows of their networks: the     *)
(* requests of services/core.py and services/network.py that edit a draft, *)
(* approve it, archive it and clone it.                                    *)
(*                                                                         *)
(* Granularity.  A request is one transaction at READ COMMITTED.  An edit  *)
(* reads the status of the version without a lock, then flushes its row    *)
(* and computes content_hash from what it can see, then commits.  An       *)
(* approval loads the version, waits for the locks of the project and of   *)
(* the version, decides, then commits.  Requests that lock before they     *)
(* read are one action.                                                    *)
(*                                                                         *)
(* A content maps each row to a value: the payload of the version, the     *)
(* scenarios, and the nodes, edges and assets of the network.  The hash is *)
(* modelled by the content it was computed from.                           *)
(***************************************************************************)
CONSTANTS
    Versions,   \* model version identifiers
    Rows,       \* everything a version holds
    Payload,    \* the row that stands for model_versions.payload
    Scenarios,  \* rows that are scenarios: not part of the hash
    Values,     \* Values[r]: what row r may hold
    Ends,       \* Ends[r][x]: the rows that r, holding x, references by foreign keys
    Absent,     \* no such row
    Sound,      \* the sets of network rows validate_network accepts
    Editors,    \* API requests that edit, as many as may run at once
    Authors,    \* Authors[v]: the requests that may edit version v
    Reviewers,  \* API requests that approve
    NoVersion, NoRow

Network  == Rows \ (Scenarios \cup {Payload})
Hashed   == Rows \ Scenarios
Sessions == Editors \cup Reviewers

Statuses        == {"absent", "draft", "approved", "archived"}
ProjectStatuses == {"draft", "active", "archived"}
AllValues == UNION {Values[r] : r \in Rows}
Contents  == {c \in [Rows -> AllValues \cup {Absent}] :
                \A r \in Rows : c[r] \in Values[r] \cup {Absent}}

ASSUME VersionsAssumption ==
    /\ Payload \in Rows /\ Scenarios \subseteq Rows \ {Payload}
    /\ \A r \in Rows : /\ Absent \notin Values[r]
                       /\ Ends[r] \in [Values[r] -> SUBSET (Network \ {r})]
    /\ \A x \in Values[Payload] : Ends[Payload][x] = {}
    /\ Authors \in [Versions -> SUBSET Editors]
    /\ NoVersion \notin Versions /\ NoRow \notin Rows

VARIABLES
    project,       \* projects.status
    archivedFrom,  \* projects.archived_from_status
    status,        \* model_versions.status ("absent": no row)
    content,       \* the committed rows of each version
    hash,          \* model_versions.content_hash
    pc,            \* where each request stands
    target,        \* the version it works on
    row, value, creates,        \* the edit it makes
    seenPayload, seenHash,      \* what an edit has loaded of the version
    newHash,       \* the hash it has computed
    seenStatus     \* what an approval has loaded of the version

projectVars == <<project, archivedFrom>>
versionVars == <<status, content, hash>>
editVars    == <<row, value, creates, seenPayload, seenHash, newHash>>
sessionVars == <<pc, target, editVars, seenStatus>>
vars == <<projectVars, versionVars, sessionVars>>

Exists(v) == status[v] # "absent"
Has(c, r) == c[r] # Absent
Blank     == [r \in Rows |-> Absent]

\* The rows that row r of content c references.
References(c, r) == IF Has(c, r) THEN Ends[r][c[r]] ELSE {}

\* refresh_model_hash covers the payload and the network; the hash that
\* create_model_version computes covers the bare payload.
FullHash(c) == [r \in Hashed |-> c[r]]
BareHash(c) == [r \in {Payload} |-> c[r]]

\* Mutation of VersionLocked: an approval locks the project only.
VersionUnlocked(v) == FALSE

\* FOR UPDATE, held by an approval that has decided and not committed.
VersionLocked(v) == \E s \in Reviewers : pc[s] = "checked" /\ target[s] = v
ProjectLocked    == \E s \in Reviewers : pc[s] = "checked"

Init ==
    /\ project = "draft" /\ archivedFrom = "none"
    /\ status = [v \in Versions |-> "absent"]
    /\ content = [v \in Versions |-> Blank]
    /\ hash = [v \in Versions |-> FullHash(Blank)]
    /\ pc = [s \in Sessions |-> "idle"]
    /\ target = [s \in Sessions |-> NoVersion]
    /\ row = [s \in Sessions |-> NoRow]
    /\ value = [s \in Sessions |-> Absent]
    /\ creates = [s \in Sessions |-> FALSE]
    /\ seenPayload = [s \in Sessions |-> Absent]
    /\ seenHash = [s \in Sessions |-> FullHash(Blank)]
    /\ newHash = [s \in Sessions |-> FullHash(Blank)]
    /\ seenStatus = [s \in Sessions |-> "absent"]

(***************************************************************************)
(* The project.  Each request locks the row before it reads it.            *)
(***************************************************************************)
ActivateProject ==
    /\ ~ProjectLocked
    /\ project = "draft"
    /\ project' = "active"
    /\ UNCHANGED <<archivedFrom, versionVars, sessionVars>>

ArchiveProject ==
    /\ ~ProjectLocked
    /\ project # "archived"
    /\ project' = "archived"
    /\ archivedFrom' = project
    /\ UNCHANGED <<versionVars, sessionVars>>

\* Mutation of RestoreProject: the previous status is kept.
RestoreRemembering ==
    /\ ~ProjectLocked
    /\ project = "archived"
    /\ project' = archivedFrom
    /\ UNCHANGED <<archivedFrom, versionVars, sessionVars>>

RestoreProject ==
    /\ ~ProjectLocked
    /\ project = "archived"
    /\ project' = archivedFrom
    /\ archivedFrom' = "none"
    /\ UNCHANGED <<versionVars, sessionVars>>

(***************************************************************************)
(* Creation of versions, under the lock of the project.                    *)
(***************************************************************************)

Add(v, c, h) ==
    /\ ~ProjectLocked
    /\ status[v] = "absent"
    /\ project # "archived"
    /\ status' = [status EXCEPT ![v] = "draft"]
    /\ content' = [content EXCEPT ![v] = c]
    /\ hash' = [hash EXCEPT ![v] = h]
    /\ UNCHANGED <<projectVars, sessionVars>>

\* create_model_version.
Create(v, payload) ==
    LET c == [Blank EXCEPT ![Payload] = payload]
    IN  Add(v, c, BareHash(c))

\* clone_model_version: payload, network and scenarios are copied, whatever the
\* status of the source, and the hash is computed on the copy.
Clone(v, source) ==
    /\ Exists(source)
    /\ Add(v, content[source], FullHash(content[source]))

(***************************************************************************)
(* Edits of a draft: nodes, edges, assets, scenarios, payload.             *)
(***************************************************************************)
Release(s) ==
    /\ pc' = [pc EXCEPT ![s] = "idle"]
    /\ target' = [target EXCEPT ![s] = NoVersion]
    /\ row' = [row EXCEPT ![s] = NoRow]
    /\ value' = [value EXCEPT ![s] = Absent]
    /\ creates' = [creates EXCEPT ![s] = FALSE]
    /\ seenPayload' = [seenPayload EXCEPT ![s] = Absent]
    /\ seenHash' = [seenHash EXCEPT ![s] = FullHash(Blank)]
    /\ newHash' = [newHash EXCEPT ![s] = FullHash(Blank)]
    /\ seenStatus' = [seenStatus EXCEPT ![s] = "absent"]

\* The version is loaded and must be a draft.  A row is created, given another
\* value or deleted (value Absent); a payload is only replaced, and there is no
\* request that deletes a scenario.  An update that changes nothing writes nothing.
BeginEdit(s, v, r, x, new) ==
    /\ pc[s] = "idle"
    /\ status[v] = "draft"
    /\ x \in Values[r] \/ (r \in Network /\ x = Absent)
    /\ IF new THEN r # Payload /\ x # Absent
              ELSE Has(content[v], r) /\ x # content[v][r]
    /\ pc' = [pc EXCEPT ![s] = "editing"]
    /\ target' = [target EXCEPT ![s] = v]
    /\ row' = [row EXCEPT ![s] = r]
    /\ value' = [value EXCEPT ![s] = x]
    /\ creates' = [creates EXCEPT ![s] = new]
    /\ seenPayload' = [seenPayload EXCEPT ![s] = content[v][Payload]]
    /\ seenHash' = [seenHash EXCEPT ![s] = hash[v]]
    /\ UNCHANGED <<projectVars, versionVars, newHash, seenStatus>>

Deletes(s)    == value[s] = Absent
EndsNeeded(s) == IF Deletes(s) THEN {} ELSE Ends[row[s]][value[s]]

\* Mutation of Blocks: the ends of a row are checked, but are no foreign keys.
BlocksSameRow(t, s) ==
    pc[t] = "written" /\ target[t] = target[s] /\ row[t] = row[s] /\ row[s] # Payload

\* Row locks of PostgreSQL: what request t has flushed makes s wait.
Blocks(t, s) ==
    /\ pc[t] = "written" /\ target[t] = target[s]
    /\ \/ row[t] = row[s] /\ row[s] # Payload
       \/ Deletes(t) /\ row[t] \in EndsNeeded(s)
       \/ Deletes(s) /\ row[s] \in EndsNeeded(t)

\* The checks of the service and the constraints of the tables, on the rows
\* that are committed.
Accepted(s) ==
    LET c == content[target[s]] IN
    /\ \A q \in EndsNeeded(s) : Has(c, q)
    /\ creates[s] => ~Has(c, row[s])
    /\ Deletes(s) => \A q \in Rows : row[s] \notin References(c, q)
    /\ ~creates[s] /\ ~Deletes(s) => Has(c, row[s])

\* refresh_model_hash: the payload as it was loaded, the rows as they are now.
HashSeenBy(s) ==
    [q \in Hashed |-> IF q = row[s] THEN value[s]
                      ELSE IF q = Payload THEN seenPayload[s]
                      ELSE content[target[s]][q]]

\* The row is flushed, not committed, and the hash computed.  An insertion
\* needs a key lock on the version.
WriteRow(s) ==
    /\ pc[s] = "editing"
    /\ \A t \in Editors \ {s} : ~Blocks(t, s)
    /\ creates[s] => ~VersionLocked(target[s])
    /\ Accepted(s)
    /\ newHash' = [newHash EXCEPT ![s] = HashSeenBy(s)]
    /\ pc' = [pc EXCEPT ![s] = "written"]
    /\ UNCHANGED <<projectVars, versionVars, target, row, value, creates,
                   seenPayload, seenHash, seenStatus>>

\* Mutation of CommitEdit: the hash is not refreshed.
CommitUnhashed(s) ==
    /\ pc[s] = "written"
    /\ content' = [content EXCEPT ![target[s]] = [@ EXCEPT ![row[s]] = value[s]]]
    /\ Release(s)
    /\ UNCHANGED <<projectVars, status, hash>>

\* A scenario leaves the hash alone, and a hash equal to the one loaded is not
\* written.
WritesHash(s) == row[s] \notin Scenarios /\ newHash[s] # seenHash[s]

\* The payload and the hash are columns of the version.
WritesVersion(s) == row[s] = Payload \/ WritesHash(s)

\* The row is committed, with the hash: an update of the version.
CommitEdit(s) ==
    LET v == target[s] IN
    /\ pc[s] = "written"
    /\ WritesVersion(s) => ~VersionLocked(v)
    /\ content' = [content EXCEPT ![v] = [@ EXCEPT ![row[s]] = value[s]]]
    /\ hash' = IF WritesHash(s) THEN [hash EXCEPT ![v] = newHash[s]] ELSE hash
    /\ Release(s)
    /\ UNCHANGED <<projectVars, status>>

\* A refused, failed or abandoned request is rolled back.
Abandon(s) ==
    /\ pc[s] # "idle"
    /\ Release(s)
    /\ UNCHANGED <<projectVars, versionVars>>

(***************************************************************************)
(* Approval and archiving.                                                 *)
(***************************************************************************)

\* A row inserted and not yet committed holds a key lock on its version.
Inserting(v) == \E t \in Editors : pc[t] = "written" /\ target[t] = v /\ creates[t]

\* validate_network, for a version that has a network.
Present(c) == {r \in Network : Has(c, r)}
Valid(v)   == Present(content[v]) = {} \/ Present(content[v]) \in Sound

\* approve_model_version loads the version ...
BeginApproval(s, v) ==
    /\ pc[s] = "idle"
    /\ Exists(v)
    /\ pc' = [pc EXCEPT ![s] = "approving"]
    /\ target' = [target EXCEPT ![s] = v]
    /\ seenStatus' = [seenStatus EXCEPT ![s] = status[v]]
    /\ UNCHANGED <<projectVars, versionVars, editVars>>

\* ... locks the project and the version, and decides.  The second select does
\* not refresh the version that is loaded already.
CheckApproval(s) ==
    LET v == target[s] IN
    /\ pc[s] = "approving"
    /\ ~ProjectLocked /\ ~Inserting(v)
    /\ seenStatus[s] = "draft"
    /\ Valid(v)
    /\ \A u \in Versions \ {v} : status[u] # "approved"
    /\ pc' = [pc EXCEPT ![s] = "checked"]
    /\ UNCHANGED <<projectVars, versionVars, target, editVars, seenStatus>>

\* The commit; a unique index allows one approved version of a project.
Approve(s) ==
    LET v == target[s] IN
    /\ pc[s] = "checked"
    /\ \A u \in Versions \ {v} : status[u] # "approved"
    /\ status' = [status EXCEPT ![v] = "approved"]
    /\ Release(s)
    /\ UNCHANGED <<projectVars, content, hash>>

\* archive_model_version locks the version, then reads it.
Archive(v) ==
    /\ ~VersionLocked(v) /\ ~Inserting(v)
    /\ status[v] \in {"draft", "approved"}
    /\ status' = [status EXCEPT ![v] = "archived"]
    /\ UNCHANGED <<projectVars, content, hash, sessionVars>>

-----------------------------------------------------------------------------
Edit(s) ==
    \/ \E v \in {u \in Versions : s \in Authors[u]},
          r \in Rows, x \in AllValues \cup {Absent}, new \in BOOLEAN :
             BeginEdit(s, v, r, x, new)
    \/ WriteRow(s) \/ CommitEdit(s)

Review(s) ==
    \/ \E v \in Versions : BeginApproval(s, v)
    \/ CheckApproval(s) \/ Approve(s)

Next ==
    \/ ActivateProject \/ ArchiveProject \/ RestoreProject
    \/ \E v \in Versions, x \in Values[Payload] : Create(v, x)
    \/ \E v, source \in Versions : Clone(v, source)
    \/ \E v \in Versions : Archive(v)
    \/ \E s \in Editors : Edit(s)
    \/ \E s \in Reviewers : Review(s)
    \/ \E s \in Sessions : Abandon(s)

Spec == Init /\ [][Next]_vars

-----------------------------------------------------------------------------
VersionTypes ==
    /\ project \in ProjectStatuses /\ archivedFrom \in {"none", "draft", "active"}
    /\ status \in [Versions -> Statuses]
    /\ content \in [Versions -> Contents]
    /\ DOMAIN hash = Versions

SessionTypes ==
    /\ pc \in [Sessions -> {"idle", "editing", "written", "approving", "checked"}]
    /\ target \in [Sessions -> Versions \cup {NoVersion}]
    /\ row \in [Sessions -> Rows \cup {NoRow}]
    /\ value \in [Sessions -> AllValues \cup {Absent}]
    /\ creates \in [Sessions -> BOOLEAN]
    /\ DOMAIN seenPayload = Sessions
    /\ DOMAIN seenHash = Sessions /\ DOMAIN newHash = Sessions
    /\ seenStatus \in [Sessions -> Statuses]

\* Types; the hash of a version covers its payload at least; a project has a
\* previous status exactly while it is archived (constraint archive_state_valid).
TypeOK ==
    /\ VersionTypes /\ SessionTypes
    /\ \A v \in Versions : Payload \in DOMAIN hash[v]
    /\ project = "archived" <=> archivedFrom # "none"
    /\ \A s \in Sessions : pc[s] # "idle" => target[s] \in Versions

\* No row of a version references a row that is missing, however creations and
\* deletions interleave.
NoDanglingRow ==
    \A v \in Versions, r \in Rows :
        \A q \in References(content[v], r) : Has(content[v], q)

SoleAuthor(v) == \A s, t \in Authors[v] : s = t

\* content_hash is the hash of what the version holds, on a version that one
\* request at a time edits, whatever is approved, archived or cloned meanwhile.
HashIsCurrent ==
    \A v \in Versions : Exists(v) /\ SoleAuthor(v) =>
        \/ hash[v] = FullHash(content[v])
        \/ hash[v] = BareHash(content[v]) /\ Present(content[v]) = {}

\* The network a version is approved with is one that validate_network accepts:
\* no edit is committed between the validation and the approval, because every
\* edit of the network updates the hash of the version, whose row is locked.
ApprovedIsValid ==
    [][\A v \in Versions :
          SoleAuthor(v) /\ status[v] # "approved" /\ status'[v] = "approved"
              => Valid(v)']_vars

\* Nothing a version holds changes once it is approved or archived: an edit that
\* was accepted on the draft must not be committed after the approval.
ApprovedIsImmutable ==
    [][\A v \in Versions :
          status[v] \in {"approved", "archived"} => content'[v] = content[v]]_vars

\* Only a draft is approved, however long the approval waits for its locks: an
\* archived version stays archived.
ArchivedIsFinal ==
    [][\A v \in Versions : status[v] = "archived" => status'[v] = "archived"]_vars
=============================================================================
