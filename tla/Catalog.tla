------------------------------- MODULE Catalog -------------------------------
(***************************************************************************)
(* services/catalog.py: the versions of a fluid, a pump, a valve, a        *)
(* material or an accessory, from draft to approved to archived.           *)
(*                                                                         *)
(* A request is one transaction at READ COMMITTED: it reads a row without  *)
(* locking it, decides, and writes at its flush the columns it changed,    *)
(* right before it commits.  Two curators may have read the same row.      *)
(***************************************************************************)
EXTENDS Quantities, FiniteSets

CONSTANTS
    Curators,
    Codes,
    Contents,    \* contents of new items: [name, body, source]
    Revisions,   \* fields of the content that a request changes
    Canonical,   \* body -> the body with its defaults, or Refused
    MaxVersions,
    MaxWrites    \* requests that commit

\* A revision says nothing of the status.
ASSUME RevisionAssumption == \A change \in Revisions : "status" \notin DOMAIN change

VARIABLES
    shelf,      \* <<code, version>> -> row
    bench,      \* curator -> the request, with the row as it was read, or None
    approvalHashes,  \* <<code, version>> -> the hash in the audit event of its approval
    retired,    \* rows with an audit event of their archiving
    writes

catalogVars == <<shelf, bench, approvalHashes, retired, writes>>

Archived == [status |-> "archived"]

\* _canonical_payload: the code and the name are written into the payload.
CanonicalPayload(code, label, body) == [id |-> code, name |-> label, body |-> Canonical[body]]

Content(row) == <<row.parent, row.code, row.name, row.version, row.payload, row.source>>

\* _fingerprint.
Fingerprinted(row) == [row EXCEPT !.hash = Content(row)]

NewItem(code, version, parent, label, body, origin) ==
    Fingerprinted([code |-> code, version |-> version, parent |-> parent, status |-> "draft", name |-> label,
            payload |-> CanonicalPayload(code, label, body), source |-> origin, hash |-> None])

\* The fields a request sets: none of them, some of them.
Chosen(changes, field, otherwise) == IF field \in DOMAIN changes THEN changes[field] ELSE otherwise

Changes == Revisions \cup {Archived, [status |-> "draft"]} \cup {Put(change, "status", "archived") : change \in Revisions}

\* update_catalog_item of a draft.
Redrafted(row, changes) ==
    LET label == Chosen(changes, "name", row.name)
        body  == Chosen(changes, "body", row.payload.body)
    IN  Fingerprinted([row EXCEPT !.name = label, !.payload = CanonicalPayload(row.code, label, body),
                           !.source = Chosen(changes, "source", @), !.status = Chosen(changes, "status", @)])

\* Only a draft changes; an approved version is archived and nothing else.
UpdateIsAllowed(row, changes) ==
    \/ row.status = "approved" /\ changes = Archived
    \/ row.status = "draft" /\ Canonical[Chosen(changes, "body", row.payload.body)] # Refused

Updated(row, changes) ==
    IF row.status = "approved" THEN [row EXCEPT !.status = "archived"] ELSE Redrafted(row, changes)

\* Mutation of Flushed: the row is written whole, as the request has it.
FlushedWhole(now, seen, wanted) == wanted

\* The columns that differ from what was read are written on the row as it is.
Flushed(now, seen, wanted) ==
    [field \in DOMAIN now |-> IF wanted[field] = seen[field] THEN now[field] ELSE wanted[field]]

-----------------------------------------------------------------------------
CatalogInit ==
    /\ shelf = <<>> /\ bench = [c \in Curators |-> None]
    /\ approvalHashes = <<>> /\ retired = {} /\ writes = 0

Opened(kind, item, changes) ==
    [kind |-> kind, item |-> item, changes |-> changes, seen |-> shelf[item], latest |-> None]

Asks(c, call) ==
    /\ bench[c] = None /\ writes < MaxWrites
    /\ bench' = [bench EXCEPT ![c] = call]
    /\ UNCHANGED <<shelf, approvalHashes, retired, writes>>

\* get_catalog_item, in a request to update, to approve or to derive a version; what the row
\* does not allow is refused at once.
ReadToUpdate(c) ==
    \E item \in DOMAIN shelf, changes \in Changes :
        UpdateIsAllowed(shelf[item], changes) /\ Asks(c, Opened("update", item, changes))
ReadToApprove(c) ==
    \E item \in DOMAIN shelf : shelf[item].status = "draft" /\ Asks(c, Opened("approve", item, <<>>))
ReadToDerive(c) ==
    \E item \in DOMAIN shelf, changes \in Revisions \cup {<<>>} :
        /\ Canonical[Chosen(changes, "body", shelf[item].payload.body)] # Refused
        /\ Asks(c, Opened("derive", item, changes))

\* The maximum of the versions, by a second statement.
ReadLatest(c) ==
    /\ bench[c] # None /\ bench[c].kind = "derive" /\ bench[c].latest = None
    /\ LET code == bench[c].item[1]
       IN  bench' = [bench EXCEPT ![c].latest = Cardinality({item \in DOMAIN shelf : item[1] = code})]
    /\ UNCHANGED <<shelf, approvalHashes, retired, writes>>

Commits(c, kind) == bench[c] # None /\ bench[c].kind = kind /\ writes < MaxWrites
Committed(c) == bench' = [bench EXCEPT ![c] = None] /\ writes' = writes + 1

Write(item, seen, wanted) == shelf' = [shelf EXCEPT ![item] = Flushed(@, seen, wanted)]

CreateItem(c) ==
    /\ bench[c] = None /\ writes < MaxWrites
    /\ \E code \in Codes, new \in Contents :
        /\ Canonical[new.body] # Refused /\ <<code, 1>> \notin DOMAIN shelf
        /\ shelf' = Put(shelf, <<code, 1>>, NewItem(code, 1, None, new.name, new.body, new.source))
    /\ writes' = writes + 1
    /\ UNCHANGED <<bench, approvalHashes, retired>>

UpdateItem(c) ==
    /\ Commits(c, "update")
    /\ LET call == bench[c]
           wanted  == Updated(call.seen, call.changes)
       IN  /\ Write(call.item, call.seen, wanted)
           /\ retired' = IF wanted.status = "archived" THEN retired \cup {call.item} ELSE retired
    /\ Committed(c) /\ UNCHANGED approvalHashes

ApproveItem(c) ==
    /\ Commits(c, "approve")
    /\ LET call == bench[c]
       IN  /\ Write(call.item, call.seen, [call.seen EXCEPT !.status = "approved"])
           /\ approvalHashes' = Put(approvalHashes, call.item, call.seen.hash)
    /\ Committed(c) /\ UNCHANGED retired

\* The unique constraint refuses a version that exists: the transaction is rolled back.
DeriveItem(c) ==
    /\ Commits(c, "derive") /\ bench[c].latest # None
    /\ LET call == bench[c]
           parent  == call.seen
           item    == <<parent.code, call.latest + 1>>
       IN  /\ item \notin DOMAIN shelf /\ item[2] <= MaxVersions
           /\ shelf' = Put(shelf, item, NewItem(parent.code, item[2], call.item, Chosen(call.changes, "name", parent.name),
                                                Chosen(call.changes, "body", parent.payload.body),
                                                Chosen(call.changes, "source", parent.source)))
    /\ Committed(c) /\ UNCHANGED <<approvalHashes, retired>>

\* A request that fails leaves nothing.
Abandon(c) ==
    /\ bench[c] # None
    /\ bench' = [bench EXCEPT ![c] = None]
    /\ UNCHANGED <<shelf, approvalHashes, retired, writes>>

CatalogNext ==
    \E c \in Curators :
        \/ CreateItem(c) \/ ReadToUpdate(c) \/ ReadToApprove(c) \/ ReadToDerive(c) \/ ReadLatest(c)
        \/ UpdateItem(c) \/ ApproveItem(c) \/ DeriveItem(c) \/ Abandon(c)
CatalogSpec == CatalogInit /\ [][CatalogNext]_catalogVars

-----------------------------------------------------------------------------
\* Versions of a code follow each other and derive from an earlier one of the same code.
VersionsFollow(code) ==
    LET rows == {item \in DOMAIN shelf : item[1] = code}
    IN  /\ {item[2] : item \in rows} = 1..Cardinality(rows)
        /\ \A item \in rows : shelf[item].parent # None =>
               shelf[item].parent[1] = code /\ shelf[item].parent[2] < item[2]

\* However requests interleave, the versions of a code are numbered without a gap, and none
\* that was approved or archived is a draft again: a request that read the row as a draft writes
\* the columns it changed and leaves the status another one has given it.
CatalogVersionsFollow ==
    /\ \A code \in Codes : VersionsFollow(code)
    /\ \A item \in DOMAIN approvalHashes \cup retired : shelf[item].status # "draft"

\* A request to update that read the version as a draft and has not committed.
ReadAsDraft(item) ==
    \E c \in Curators :
        bench[c] # None /\ bench[c].kind = "update" /\ bench[c].item = item /\ bench[c].seen.status = "draft"

\* Versions follow, and the content of one, and the hash of it, change no more once it is
\* approved or archived and every update that began before that has ended: no request that
\* begins later rewrites it.  Those that began before do: see ApprovedItemIsImmutable.
CatalogIsKept ==
    [][/\ CatalogVersionsFollow'
       /\ \A item \in DOMAIN shelf :
              shelf[item].status # "draft" /\ ~ReadAsDraft(item) =>
                  /\ ~ReadAsDraft(item)'
                  /\ Content(shelf'[item]) = Content(shelf[item])
                  /\ shelf'[item].hash = shelf[item].hash]_catalogVars

\* "Une version approuvée est immuable": the content of an approved version does not change.
ApprovedItemIsImmutable ==
    [][\A item \in DOMAIN shelf :
          shelf[item].status = "approved" => Content(shelf'[item]) = Content(shelf[item])]_catalogVars
=============================================================================
