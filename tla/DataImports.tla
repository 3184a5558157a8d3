----------------------------- MODULE DataImports -----------------------------
(***************************************************************************)
(* services/data_import.py: a file is previewed, its columns are mapped,   *)
(* and its rows are imported under an idempotency key, a new import        *)
(* replacing the rows of the last.                                         *)
(*                                                                         *)
(* Requests read the data set without a lock, and SQLAlchemy writes the    *)
(* columns they changed only.  An import deletes the rows its statement    *)
(* sees and inserts the rows of the file; the key (data set, source row)   *)
(* makes it wait for another import that has inserted, and fail when there *)
(* are rows it did not delete.                                             *)
(***************************************************************************)
EXTENDS Quantities, Sequences

CONSTANTS
    File,       \* the rows, each [cells, unit, quality]: the numbers of its columns, each of
                \* which may be None (no number) or NaN
    NaN,
    Infinite,   \* an integer that stands for a number that is not finite
    Scale,      \* unit -> its factor to the SI unit; unknown units are not in its domain
    Mappings,   \* mappings an author may set: [kind, column, unit]
    Columns,    \* columns of the file
    Importers,  \* requests that import, each sent once
    Key,        \* importer -> its idempotency key
    Authors,    \* requests that preview or map
    MaxEdits    \* requests each author makes

\* What stands for no number is no integer, a row that is recorded is something.
ASSUME ImportAssumption ==
    /\ MaxEdits \in Nat /\ Infinite \in Int /\ None \notin Int /\ NaN \notin Int
    /\ File # <<>> /\ Len(File) \in Nat /\ DOMAIN File = 1..Len(File)
    /\ \A n \in DOMAIN File, c \in Columns : File[n].cells[c] \in Int \cup {None, NaN}
    /\ \A m \in Mappings : m.column \in Columns
    /\ \A unit \in DOMAIN Scale : Scale[unit] \in Int

VARIABLES
    dataset,   \* [kind, status, preview, mapping]
    stored,    \* the imports whose rows are committed
    imported,  \* importer -> its DatasetImport, or None
    importing, \* importer -> [stage, saw, mapping, deleted]
    editing,   \* author -> the request under way, or None
    edits

importVars == <<dataset, stored, imported, importing, editing, edits>>

-----------------------------------------------------------------------------
\* The rows.

\* The kinds of which a column must increase from row to row.  That of measurements is their
\* value, and need not.
Monotone == {"profile", "pump_curve", "strapping"}

Qualities == {"good", "uncertain", "bad", "substituted", "estimated"}

IsNumber(v) == v # None
IsFinite(v) == v \notin {None, NaN, Infinite}

\* The unit of the mapping, else the SI unit; the value of a measurement may have its own.
UnitOf(row, mapping) ==
    IF mapping.unit # None THEN mapping.unit
    ELSE IF mapping.kind = "measurements" THEN row.unit ELSE None

UnitKnown(row, mapping) == UnitOf(row, mapping) = None \/ UnitOf(row, mapping) \in DOMAIN Scale

\* _normalize_row: what is not finite is an error, and is kept.
Normalized(row, mapping) ==
    LET x == row.cells[mapping.column]
    IN  IF IsFinite(x) /\ UnitOf(row, mapping) # None /\ UnitKnown(row, mapping)
        THEN x * Scale[UnitOf(row, mapping)] ELSE x

RowError(row, mapping) ==
    \/ ~IsFinite(row.cells[mapping.column])
    \/ ~UnitKnown(row, mapping)
    \/ row.quality \notin Qualities

Position(n, mapping) == Normalized(File[n], mapping)

\* previous_values: the last number of the rows before, rejected or not.
Previous(n, mapping) ==
    LET before == {k \in 1..(n - 1) : IsNumber(Position(k, mapping))} IN
    IF before = {} THEN None ELSE Position(CHOOSE k \in before : \A j \in before : j <= k, mapping)

\* _append_row_monotonicity_errors; no comparison with NaN holds.
NotIncreasing(n, mapping) ==
    /\ mapping.kind \in Monotone
    /\ {Position(n, mapping), Previous(n, mapping)} \cap {None, NaN} = {}
    /\ Position(n, mapping) <= Previous(n, mapping)

AcceptedRows(mapping) == {n \in DOMAIN File : ~RowError(File[n], mapping) /\ ~NotIncreasing(n, mapping)}

Completed(mapping) == AcceptedRows(mapping) = DOMAIN File

\* What an import of the file counts, for each mapping.
ImportOf == [m \in Mappings |-> [accepted |-> AcceptedRows(m), completed |-> Completed(m)]]

DatasetImport(m) == [mapping |-> m, counted |-> ImportOf[m]]

ASSUME RecordAssumption == \A m \in Mappings : DatasetImport(m) # None

-----------------------------------------------------------------------------
Idle == [stage |-> "idle", saw |-> None, mapping |-> None, deleted |-> {}]

ImportInit ==
    /\ dataset \in {[kind |-> m.kind, status |-> "uploaded", preview |-> FALSE, mapping |-> None] : m \in Mappings}
    /\ stored = {}
    /\ imported = [i \in Importers |-> None]
    /\ importing = [i \in Importers |-> Idle]
    /\ editing = [a \in Authors |-> None]
    /\ edits = [a \in Authors |-> 0]

\* preview_dataset at any time, set_mapping once there is a preview.
BeginEdition(a) ==
    /\ editing[a] = None /\ edits[a] < MaxEdits
    /\ \E m \in {None} \cup {x \in Mappings : dataset.preview /\ x.kind = dataset.kind} :
           editing' = [editing EXCEPT ![a] = [mapping |-> m, saw |-> dataset.status]]
    /\ edits' = [edits EXCEPT ![a] = @ + 1]
    /\ UNCHANGED <<dataset, stored, imported, importing>>

\* The status is in the UPDATE when it differs from the one that was loaded.
Written(saw, status) == IF saw = status THEN dataset.status ELSE status

EndEdition(a) ==
    /\ editing[a] # None
    /\ dataset' = IF editing[a].mapping = None
                  THEN [dataset EXCEPT !.preview = TRUE, !.status = Written(editing[a].saw, "previewed")]
                  ELSE [dataset EXCEPT !.mapping = editing[a].mapping, !.status = Written(editing[a].saw, "mapped")]
    /\ editing' = [editing EXCEPT ![a] = None]
    /\ UNCHANGED <<stored, imported, importing, edits>>

KeyIsUsed(i) == \E j \in Importers : imported[j] # None /\ Key[j] = Key[i]

\* A key that was used is answered with its import, whatever the data set has become.
AnswerExisting(i) ==
    /\ importing[i].stage = "idle" /\ KeyIsUsed(i)
    /\ importing' = [importing EXCEPT ![i].stage = "answered"]
    /\ UNCHANGED <<dataset, stored, imported, editing, edits>>

BeginImport(i) ==
    /\ importing[i].stage = "idle" /\ ~KeyIsUsed(i)
    /\ dataset.status \in {"mapped", "imported", "failed"} /\ dataset.mapping # None
    /\ importing' = [importing EXCEPT ![i] = [stage |-> "begun", saw |-> dataset.status,
                                              mapping |-> dataset.mapping, deleted |-> {}]]
    /\ UNCHANGED <<dataset, stored, imported, editing, edits>>

\* The snapshot of the DELETE, which may then wait for the rows.
DeleteRows(i) ==
    /\ importing[i].stage = "begun"
    /\ importing' = [importing EXCEPT ![i].stage = "deleting", ![i].deleted = stored]
    /\ UNCHANGED <<dataset, stored, imported, editing, edits>>

\* Mutation of RowsCollide: the rows have no key.
RowsNeverCollide(i) == FALSE

RowsCollide(i) == ~(stored \subseteq importing[i].deleted)

\* The row of the import has its own key, which a concurrent retry may have taken.
Collides(i) == RowsCollide(i) \/ KeyIsUsed(i)

InsertRows(i) ==
    /\ importing[i].stage = "deleting"
    /\ \A j \in Importers : importing[j].stage # "inserted"
    /\ ~Collides(i)
    /\ importing' = [importing EXCEPT ![i].stage = "inserted"]
    /\ UNCHANGED <<dataset, stored, imported, editing, edits>>

RefuseRows(i) ==
    /\ importing[i].stage = "deleting" /\ Collides(i)
    /\ importing' = [importing EXCEPT ![i].stage = "refused"]
    /\ UNCHANGED <<dataset, stored, imported, editing, edits>>

CommitImport(i) ==
    /\ importing[i].stage = "inserted"
    /\ LET m == importing[i].mapping IN
       /\ imported' = [imported EXCEPT ![i] = DatasetImport(m)]
       /\ dataset' = [dataset EXCEPT !.status = Written(importing[i].saw, IF ImportOf[m].completed THEN "imported" ELSE "failed")]
    /\ stored' = (stored \ importing[i].deleted) \cup {i}
    /\ importing' = [importing EXCEPT ![i].stage = "answered"]
    /\ UNCHANGED <<editing, edits>>

\* The request fails; a client that sends it again is another importer with its key.
AbortImport(i) ==
    /\ importing[i].stage \in {"begun", "deleting", "inserted"}
    /\ importing' = [importing EXCEPT ![i].stage = "refused"]
    /\ UNCHANGED <<dataset, stored, imported, editing, edits>>

ImportStep(i) == DeleteRows(i) \/ InsertRows(i) \/ RefuseRows(i) \/ CommitImport(i)

ImportNext ==
    \/ \E a \in Authors : BeginEdition(a) \/ EndEdition(a)
    \/ \E i \in Importers : \/ AnswerExisting(i) \/ BeginImport(i) \/ ImportStep(i)
                            \/ AbortImport(i)

ImportSpec == ImportInit /\ [][ImportNext]_importVars

-----------------------------------------------------------------------------
\* Types; a key has one import, and a data set that has a mapping was previewed.
ImportTypeOK ==
    /\ dataset.status \in {"uploaded", "previewed", "mapped", "imported", "failed"}
    /\ dataset.mapping \in Mappings \cup {None} /\ (dataset.mapping # None => dataset.preview)
    /\ \A i, j \in Importers : imported[i] # None /\ imported[j] # None /\ Key[i] = Key[j] => i = j
    /\ edits \in [Authors -> 0..MaxEdits]

\* The rows of a data set are those of one import that is recorded, never a mixture of two:
\* however imports, retries and edits of the mapping overlap.
RowsAreOneImport ==
    /\ stored = {} <=> \A i \in Importers : imported[i] = None
    /\ \A i, j \in stored : i = j
    /\ \A i \in stored : imported[i] # None

\* A completed import of a profile, a pump curve or a table of volumes can be interpolated:
\* its positions are finite and increase strictly from row to row.
CompletedIsMonotone ==
    \A i \in Importers : imported[i] # None /\ imported[i].counted.completed =>
        LET m == imported[i].mapping IN
        /\ \A n \in DOMAIN File : IsFinite(Position(n, m)) /\ UnitKnown(File[n], m)
        /\ m.kind \in Monotone => \A k, n \in DOMAIN File : k < n => Position(k, m) < Position(n, m)

\* A data set that says it is imported holds one import, and one that can be used.
DatasetIsOneImport == RowsAreOneImport /\ CompletedIsMonotone

\* Every import that has begun ends: it never waits for ever for the rows of another.
ImportsEnd == <>[](\A i \in Importers : importing[i].stage \in {"idle", "answered", "refused"})
=============================================================================
