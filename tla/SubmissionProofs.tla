-------------------------- MODULE SubmissionProofs --------------------------
(***************************************************************************)
(* Theorems of Submissions, for any clients, whatever they ask for and     *)
(* however often their requests fail and are sent again, of DataImports,   *)
(* for every file, every set of mappings and all requests that overlap,    *)
(* and of Packages, for all documents and every edit of them.              *)
(***************************************************************************)
EXTENDS Submissions, DataImports, Packages, OrderLemmas

(***************************************************************************)
(* Submissions: one row for one request.                                   *)
(***************************************************************************)

IsReport(c) == Intent[c].kind = "report"

Shape ==
    /\ DOMAIN frozen = Clients /\ DOMAIN answer = Clients
    /\ \A c \in Clients : answer[c] = Reply(answer[c].kind, answer[c].row)

\* One transaction at most holds a key, and no row has it yet.
KeysAreHeld ==
    /\ \A c, d \in Clients : step[c] = "inserted" /\ step[d] = "inserted" /\ SameKey(c, d) => c = d
    /\ \A c \in Clients : step[c] = "inserted" => Existing(c) = {}

\* The try that made a row is over.
RowsAreFinished ==
    \A r \in rows : \E d \in Clients, n \in Nat :
        r.by = <<d, n>> /\ (n < tries[d] \/ (n = tries[d] /\ step[d] = "done"))

\* Who looks again will find a row.
LoserFindsRow == \A c \in Clients : step[c] = "again" => Existing(c) # {}

AnswersAreRows ==
    \A c \in Clients : Answered(c) => answer[c].row \in Existing(c) /\ answer[c].row.content = frozen[c]

\* The object of a try is stored when its row is about to be, and not before.
StoredInTime ==
    /\ \A c \in Clients : step[c] \in {"inserting", "inserted"} /\ IsReport(c) => Attempt(c) \in objects
    /\ \A c \in Clients : step[c] \in {"idle", "looking", "storing", "again"} => Attempt(c) \notin objects
    /\ \A o \in objects : \E d \in Clients, n \in Nat : o = <<d, n>> /\ n <= tries[d]

SubmissionInv ==
    /\ SubmissionTypeOK /\ Shape /\ KeysAreHeld /\ RowsAreFinished /\ LoserFindsRow
    /\ AnswersAreRows /\ ConflictIsReal /\ StoredInTime /\ ObjectsFollowRows

-----------------------------------------------------------------------------
\* Only reports are in their table.
LEMMA ReportTable ==
    ASSUME NEW c \in Clients
    PROVE  Table(c) = "reports" <=> IsReport(c)
<1>1. CASE Intent[c].kind \in {"queue", "rerun"}
  <2>1. Table(c) = "calculations"
    BY <1>1, Zenon DEF Table
  <2> QED
    BY <1>1, <2>1 DEF IsReport
<1>2. CASE Intent[c].kind = "report"
  <2>1. Table(c) = "reports"
    BY <1>2 DEF Table
  <2> QED
    BY <1>2, <2>1 DEF IsReport
<1>3. CASE Intent[c].kind = "record"
  <2>1. Table(c) = "records"
    BY <1>3 DEF Table
  <2> QED
    BY <1>3, <2>1 DEF IsReport
<1> QED
  BY <1>1, <1>2, <1>3, SubmissionAssumption

\* The table and the key of a request never change.
LEMMA TableStays == ASSUME NEW c PROVE Table(c)' = Table(c)
  BY Zenon DEF Table

LEMMA InitHolds == SubmissionInit => SubmissionInv
<1> SUFFICES ASSUME SubmissionInit PROVE SubmissionInv
  OBVIOUS
<1>1. SubmissionTypeOK
  BY SubmissionAssumption DEF SubmissionInit, SubmissionTypeOK, SubmissionSteps, Unanswered, Reply
<1>2. Shape
  BY DEF SubmissionInit, Shape, Reply, Unanswered
<1>3. KeysAreHeld /\ RowsAreFinished /\ LoserFindsRow
  BY DEF SubmissionInit, KeysAreHeld, RowsAreFinished, LoserFindsRow
<1>4. AnswersAreRows /\ ConflictIsReal
  BY DEF SubmissionInit, AnswersAreRows, ConflictIsReal, Answered, Unanswered, Reply
<1>5. StoredInTime /\ ObjectsFollowRows
  BY DEF SubmissionInit, StoredInTime, ObjectsFollowRows, ReportsHaveObjects, OrphansComeFromFailures
<1> QED
  BY <1>1, <1>2, <1>3, <1>4, <1>5 DEF SubmissionInv

-----------------------------------------------------------------------------
\* What the step of one client leaves alone: the other clients, the tries and the rows.
OnlyClient(c) ==
    /\ draft' \in 0..MaxDraft /\ tries' = tries
    /\ step' \in [Clients -> SubmissionSteps] /\ DOMAIN answer' = Clients /\ DOMAIN frozen' = Clients
    /\ \A d \in Clients \ {c} : step'[d] = step[d] /\ answer'[d] = answer[d] /\ frozen'[d] = frozen[d]
    /\ objects' \in {objects, objects \cup {Attempt(c)}, objects \ {Attempt(c)}}

\* What the step must establish for the client itself.
ClientIsRight(c) ==
    /\ answer'[c] = Reply(answer'[c].kind, answer'[c].row)
    /\ step'[c] = "done" <=> answer'[c] # Unanswered
    /\ step'[c] = "inserted" =>
          Existing(c)' = {} /\ \A d \in Clients : SameKey(c, d) => step[d] # "inserted"
    /\ step'[c] = "again" => Existing(c)' # {}
    /\ answer'[c].kind = "row" => answer'[c].row \in Existing(c)' /\ answer'[c].row.content = frozen'[c]
    /\ answer'[c].kind = "conflict" /\ Intent[c].kind \in {"queue", "report"} =>
          \E r \in Existing(c)' : r.content # frozen'[c]
    /\ step'[c] \in {"inserting", "inserted"} /\ IsReport(c) => Attempt(c) \in objects'
    /\ step'[c] \in {"idle", "looking", "storing", "again"} => Attempt(c) \notin objects'
    /\ step'[c] = "done" /\ Attempt(c) \in objects' => answer'[c].kind = "lost"

LEMMA ClientKeeps ==
    ASSUME SubmissionInv, NEW c \in Clients, step[c] # "done", rows' = rows, OnlyClient(c), ClientIsRight(c)
    PROVE  SubmissionInv'
<1>1. \A d \in Clients : Existing(d)' = Existing(d)
  BY TableStays DEF Existing
<1>2. \A d \in Clients : Attempt(d)' = Attempt(d)
  BY DEF OnlyClient, Attempt
<1>3. SubmissionTypeOK'
  BY DEF SubmissionInv, SubmissionTypeOK, OnlyClient, ClientIsRight, Unanswered, Reply
<1>4. Shape'
  BY DEF SubmissionInv, Shape, OnlyClient, ClientIsRight, Reply
<1>5. KeysAreHeld'
  <2>1. \A d, e \in Clients : SameKey(d, e)' = SameKey(d, e) /\ (SameKey(d, e) <=> SameKey(e, d))
    BY TableStays DEF SameKey
  <2> QED
    BY <1>1, <2>1 DEF SubmissionInv, KeysAreHeld, OnlyClient, ClientIsRight
<1>6. RowsAreFinished'
  BY DEF SubmissionInv, RowsAreFinished, OnlyClient
<1>7. LoserFindsRow'
  BY <1>1 DEF SubmissionInv, LoserFindsRow, OnlyClient, ClientIsRight
<1>8. AnswersAreRows'
  BY <1>1 DEF SubmissionInv, AnswersAreRows, Answered, OnlyClient, ClientIsRight
<1>9. ConflictIsReal'
  BY <1>1 DEF SubmissionInv, ConflictIsReal, OnlyClient, ClientIsRight
<1>10. StoredInTime'
  BY <1>2 DEF SubmissionInv, SubmissionTypeOK, StoredInTime, IsReport, OnlyClient, ClientIsRight, Attempt
<1>11. ReportsHaveObjects'
  <2>1. \A r \in rows : r.by # Attempt(c)
    BY DEF SubmissionInv, RowsAreFinished, Attempt, SubmissionTypeOK
  <2> QED
    BY <2>1 DEF SubmissionInv, ObjectsFollowRows, ReportsHaveObjects, OnlyClient
<1>12. OrphansComeFromFailures'
  BY DEF SubmissionInv, ObjectsFollowRows, OrphansComeFromFailures, SubmissionTypeOK, StoredInTime, OnlyClient, ClientIsRight, Attempt
<1> QED
  BY <1>3, <1>4, <1>5, <1>6, <1>7, <1>8, <1>9, <1>10, <1>11, <1>12 DEF SubmissionInv, ObjectsFollowRows

-----------------------------------------------------------------------------
\* A step that leaves the answer alone, and one that gives it.
LEMMA Becoming ==
    ASSUME SubmissionInv, NEW c \in Clients, NEW s \in SubmissionSteps \ {"done"}, step[c] # "done", Become(c, s)
    PROVE  /\ step' \in [Clients -> SubmissionSteps] /\ step'[c] = s /\ \A d \in Clients \ {c} : step'[d] = step[d]
           /\ answer' = answer /\ answer[c] = Unanswered /\ answer[c].kind = "none"
           /\ answer[c] = Reply(answer[c].kind, answer[c].row)
  BY DEF SubmissionInv, SubmissionTypeOK, Shape, Become, Unanswered, Reply

LEMMA Answering ==
    ASSUME SubmissionInv, NEW c \in Clients, NEW kind \in {"row", "lost", "conflict", "error"}, NEW r,
           Answer(c, Reply(kind, r))
    PROVE  /\ step' \in [Clients -> SubmissionSteps] /\ step'[c] = "done"
           /\ DOMAIN answer' = Clients /\ answer'[c] = Reply(kind, r) /\ answer'[c].kind = kind /\ answer'[c].row = r
           /\ answer'[c] # Unanswered /\ answer'[c] = Reply(answer'[c].kind, answer'[c].row)
           /\ \A d \in Clients \ {c} : step'[d] = step[d] /\ answer'[d] = answer[d]
  BY DEF SubmissionInv, SubmissionTypeOK, Shape, Answer, Unanswered, Reply, SubmissionSteps

LEMMA DenialKeeps ==
    ASSUME SubmissionInv, NEW c \in Clients, NEW why \in {"lost", "conflict", "error"}, step[c] # "done", Deny(c, why),
           why = "conflict" => \E r \in Existing(c) : r.content # frozen[c],
           why # "lost" => Attempt(c) \notin objects,
           UNCHANGED <<draft, frozen, tries, rows, objects>>
    PROVE  SubmissionInv'
<1>1. /\ step' \in [Clients -> SubmissionSteps] /\ step'[c] = "done" /\ DOMAIN answer' = Clients
      /\ answer'[c].kind = why /\ answer'[c] # Unanswered /\ answer'[c] = Reply(answer'[c].kind, answer'[c].row)
      /\ \A d \in Clients \ {c} : step'[d] = step[d] /\ answer'[d] = answer[d]
  BY Answering DEF Deny
<1>2. Existing(c)' = Existing(c) /\ Attempt(c)' = Attempt(c)
  BY TableStays DEF Existing, Attempt
<1>3. OnlyClient(c)
  BY <1>1 DEF OnlyClient, SubmissionInv, SubmissionTypeOK, Shape
<1>4. ClientIsRight(c)
  BY <1>1, <1>2 DEF ClientIsRight
<1> QED
  BY <1>3, <1>4, ClientKeeps

LEMMA DecisionKeeps ==
    ASSUME SubmissionInv, NEW c \in Clients, step[c] \in {"looking", "again"}, NEW r \in Existing(c), Decide(c, r),
           UNCHANGED <<draft, frozen, tries, rows, objects>>
    PROVE  SubmissionInv'
<1>0. Attempt(c) \notin objects
  BY DEF SubmissionInv, StoredInTime
<1>1. CASE r.content # frozen[c]
  BY <1>0, <1>1, DenialKeeps DEF Decide
<1>2. CASE r.content = frozen[c]
  <2>1. /\ step' \in [Clients -> SubmissionSteps] /\ step'[c] = "done" /\ DOMAIN answer' = Clients
        /\ answer'[c].kind = "row" /\ answer'[c].row = r /\ answer'[c] # Unanswered
        /\ answer'[c] = Reply(answer'[c].kind, answer'[c].row)
        /\ \A d \in Clients \ {c} : step'[d] = step[d] /\ answer'[d] = answer[d]
    BY <1>2, Answering DEF Decide
  <2>2. Existing(c)' = Existing(c)
    BY TableStays DEF Existing
  <2>3. OnlyClient(c)
    BY <2>1 DEF OnlyClient, SubmissionInv, SubmissionTypeOK, Shape
  <2>4. ClientIsRight(c)
    BY <1>0, <1>2, <2>1, <2>2 DEF ClientIsRight
  <2> QED
    BY <2>3, <2>4, ClientKeeps
<1> QED
  BY <1>1, <1>2

\* A step that goes on: what it must establish for its client.
LEMMA MoveKeeps ==
    ASSUME SubmissionInv, NEW c \in Clients, NEW s \in SubmissionSteps \ {"done"}, step[c] # "done", Become(c, s),
           draft' = draft, tries' = tries, rows' = rows, DOMAIN frozen' = Clients,
           \A d \in Clients \ {c} : frozen'[d] = frozen[d],
           objects' \in {objects, objects \cup {Attempt(c)}, objects \ {Attempt(c)}},
           s = "inserted" => Existing(c) = {} /\ \A d \in Clients : SameKey(c, d) => step[d] # "inserted",
           s = "again" => Existing(c) # {},
           s \in {"inserting", "inserted"} /\ IsReport(c) => Attempt(c) \in objects',
           s \in {"idle", "looking", "storing", "again"} => Attempt(c) \notin objects'
    PROVE  SubmissionInv'
<1>1. /\ step' \in [Clients -> SubmissionSteps] /\ step'[c] = s /\ \A d \in Clients \ {c} : step'[d] = step[d]
      /\ answer' = answer /\ answer[c] = Unanswered /\ answer[c].kind = "none"
      /\ answer[c] = Reply(answer[c].kind, answer[c].row)
  BY Becoming
<1>2. Existing(c)' = Existing(c)
  BY TableStays DEF Existing
<1>3. OnlyClient(c)
  BY <1>1 DEF OnlyClient, SubmissionInv, SubmissionTypeOK, Shape
<1>4. ClientIsRight(c)
  BY <1>1, <1>2 DEF ClientIsRight
<1> QED
  BY <1>3, <1>4, ClientKeeps

-----------------------------------------------------------------------------
LEMMA FreezeKeeps == ASSUME SubmissionInv, NEW c \in Clients, Freeze(c) PROVE SubmissionInv'
<1>1. DOMAIN frozen' = Clients /\ \A d \in Clients \ {c} : frozen'[d] = frozen[d]
  BY DEF Freeze, SubmissionInv, Shape
<1>2. Attempt(c) \notin objects
  BY DEF SubmissionInv, StoredInTime, Freeze
<1> QED
  BY <1>1, <1>2, MoveKeeps DEF Freeze, SubmissionSteps

LEMMA FindExistingKeeps == ASSUME SubmissionInv, NEW c \in Clients, FindExisting(c) PROVE SubmissionInv'
  BY DecisionKeeps DEF FindExisting

LEMMA FindNothingKeeps == ASSUME SubmissionInv, NEW c \in Clients, FindNothing(c) PROVE SubmissionInv'
<1>1. DOMAIN frozen' = Clients /\ Attempt(c) \notin objects
  BY DEF SubmissionInv, StoredInTime, Shape, FindNothing
<1> QED
  BY <1>1, MoveKeeps DEF FindNothing, SubmissionSteps, IsReport

LEMMA PutObjectKeeps == ASSUME SubmissionInv, NEW c \in Clients, PutObject(c) PROVE SubmissionInv'
<1>1. DOMAIN frozen' = Clients
  BY DEF SubmissionInv, Shape, PutObject
<1> QED
  BY <1>1, MoveKeeps DEF PutObject, SubmissionSteps

LEMMA InsertKeeps == ASSUME SubmissionInv, NEW c \in Clients, Insert(c) PROVE SubmissionInv'
<1>1. DOMAIN frozen' = Clients /\ (IsReport(c) => Attempt(c) \in objects)
  BY DEF SubmissionInv, StoredInTime, Shape, Insert
<1> QED
  BY <1>1, MoveKeeps DEF Insert, SubmissionSteps

LEMMA CollideKeeps == ASSUME SubmissionInv, NEW c \in Clients, Collide(c) PROVE SubmissionInv'
<1>1. DOMAIN frozen' = Clients /\ Existing(c) # {} /\ step[c] = "inserting" /\ objects' = objects \ {Attempt(c)}
      /\ UNCHANGED <<draft, frozen, tries, rows>>
  BY DEF SubmissionInv, Shape, Collide
<1>2. CASE Intent[c].kind \in {"queue", "report"}
  <2>1. Become(c, "again")
    BY <1>2, Zenon DEF Collide
  <2> QED
    BY <1>1, <2>1, MoveKeeps DEF SubmissionSteps
<1>3. CASE Intent[c].kind \notin {"queue", "report"}
  <2>1. PICK why \in {"error", "conflict"} : Deny(c, why)
    <3>1. CASE Intent[c].kind = "rerun"
      BY <1>3, <3>1, Zenon DEF Collide
    <3>2. CASE Intent[c].kind # "rerun"
      BY <1>3, <3>2, Zenon DEF Collide
    <3> QED
      BY <3>1, <3>2
  <2>2. /\ step' \in [Clients -> SubmissionSteps] /\ step'[c] = "done" /\ DOMAIN answer' = Clients
        /\ answer'[c].kind = why /\ answer'[c] # Unanswered /\ answer'[c] = Reply(answer'[c].kind, answer'[c].row)
        /\ \A d \in Clients \ {c} : step'[d] = step[d] /\ answer'[d] = answer[d]
    BY <2>1, Answering DEF Deny
  <2>3. Existing(c)' = Existing(c)
    BY <1>1, TableStays DEF Existing
  <2>4. OnlyClient(c)
    BY <1>1, <2>2 DEF OnlyClient, SubmissionInv, SubmissionTypeOK, Shape
  <2>5. ClientIsRight(c)
    BY <1>1, <1>3, <2>2, <2>3 DEF ClientIsRight
  <2> QED
    BY <1>1, <2>4, <2>5, ClientKeeps
<1> QED
  BY <1>2, <1>3

LEMMA LookAgainKeeps == ASSUME SubmissionInv, NEW c \in Clients, LookAgain(c) PROVE SubmissionInv'
<1>1. Existing(c) # {}
  BY DEF SubmissionInv, LoserFindsRow, LookAgain
<1> QED
  BY <1>1, DecisionKeeps DEF LookAgain

LEMMA FailRequestKeeps == ASSUME SubmissionInv, NEW c \in Clients, FailRequest(c) PROVE SubmissionInv'
  BY DenialKeeps DEF FailRequest

LEMMA EditDraftKeeps == ASSUME SubmissionInv, EditDraft PROVE SubmissionInv'
<1>1. \A d : Existing(d)' = Existing(d) /\ Attempt(d)' = Attempt(d)
  BY TableStays DEF Existing, Attempt, EditDraft
<1>2. \A d, e : SameKey(d, e)' = SameKey(d, e)
  BY TableStays DEF SameKey
<1>3. SubmissionTypeOK'
  BY SubmissionAssumption DEF SubmissionInv, SubmissionTypeOK, EditDraft
<1>4. Shape' /\ RowsAreFinished' /\ ReportsHaveObjects' /\ OrphansComeFromFailures'
  BY DEF SubmissionInv, EditDraft, Shape, RowsAreFinished, ObjectsFollowRows, ReportsHaveObjects, OrphansComeFromFailures
<1>5. KeysAreHeld' /\ LoserFindsRow' /\ AnswersAreRows' /\ ConflictIsReal' /\ StoredInTime'
  BY <1>1, <1>2 DEF SubmissionInv, EditDraft, KeysAreHeld, LoserFindsRow, AnswersAreRows, Answered, ConflictIsReal,
                    StoredInTime, IsReport
<1> QED
  BY <1>3, <1>4, <1>5 DEF SubmissionInv, ObjectsFollowRows

LEMMA RetryKeeps == ASSUME SubmissionInv, NEW c \in Clients, Retry(c) PROVE SubmissionInv'
<1>1. \A d \in Clients : Existing(d)' = Existing(d)
  BY TableStays DEF Existing, Retry
<1>2. \A d, e : SameKey(d, e)' = SameKey(d, e)
  BY TableStays DEF SameKey
<1>3. /\ tries' \in [Clients -> 1..MaxTries] /\ tries'[c] = tries[c] + 1 /\ tries[c] \in Nat
      /\ \A d \in Clients \ {c} : tries'[d] = tries[d] /\ step'[d] = step[d] /\ answer'[d] = answer[d] /\ frozen'[d] = frozen[d]
      /\ step' \in [Clients -> SubmissionSteps] /\ step'[c] = "idle" /\ answer'[c] = Unanswered
      /\ DOMAIN answer' = Clients /\ DOMAIN frozen' = Clients
      /\ step[c] = "done" /\ UNCHANGED <<draft, rows, objects>>
  BY SubmissionAssumption DEF SubmissionInv, SubmissionTypeOK, Shape, SubmissionSteps, Retry
<1>4. answer'[c].kind = "none" /\ answer'[c] = Reply(answer'[c].kind, answer'[c].row)
  BY <1>3 DEF Unanswered, Reply
<1>5. SubmissionTypeOK' /\ Shape'
  BY <1>3, <1>4 DEF SubmissionInv, SubmissionTypeOK, Shape
<1>6. KeysAreHeld' /\ LoserFindsRow' /\ AnswersAreRows' /\ ConflictIsReal'
  BY <1>1, <1>2, <1>3, <1>4 DEF SubmissionInv, KeysAreHeld, LoserFindsRow, AnswersAreRows, Answered, ConflictIsReal
<1>7. RowsAreFinished'
  <2> SUFFICES ASSUME NEW r \in rows
               PROVE  \E d \in Clients, n \in Nat :
                          r.by = <<d, n>> /\ (n < tries'[d] \/ (n = tries'[d] /\ step'[d] = "done"))
    BY <1>3 DEF RowsAreFinished
  <2>1. PICK d \in Clients, n \in Nat : r.by = <<d, n>> /\ (n < tries[d] \/ (n = tries[d] /\ step[d] = "done"))
    BY DEF SubmissionInv, RowsAreFinished
  <2>2. n < tries'[d] \/ (n = tries'[d] /\ step'[d] = "done")
    BY <1>3, <2>1
  <2> QED
    BY <2>1, <2>2
<1>8. StoredInTime'
  <2>1. Attempt(c)' \notin objects
    BY <1>3 DEF SubmissionInv, StoredInTime, Attempt
  <2>2. \A d \in Clients \ {c} : Attempt(d)' = Attempt(d)
    BY <1>3 DEF Attempt
  <2>3. \A o \in objects : \E d \in Clients, n \in Nat : o = <<d, n>> /\ n <= tries'[d]
    <3> SUFFICES ASSUME NEW o \in objects PROVE \E d \in Clients, n \in Nat : o = <<d, n>> /\ n <= tries'[d]
      OBVIOUS
    <3>1. PICK d \in Clients, n \in Nat : o = <<d, n>> /\ n <= tries[d]
      BY DEF SubmissionInv, StoredInTime
    <3>2. n <= tries'[d]
      BY <1>3, <3>1
    <3> QED
      BY <3>1, <3>2
  <2> QED
    BY <1>3, <2>1, <2>2, <2>3 DEF SubmissionInv, StoredInTime, IsReport
<1>9. ObjectsFollowRows'
  <2>1. ReportsHaveObjects'
    BY <1>3 DEF SubmissionInv, ObjectsFollowRows, ReportsHaveObjects
  <2>2. OrphansComeFromFailures'
    <3> SUFFICES ASSUME NEW o \in objects, ~ \E r \in rows : r.by = o
                 PROVE  \/ tries'[o[1]] > o[2]
                        \/ step'[o[1]] # "done" /\ step'[o[1]] # "again"
                        \/ answer'[o[1]].kind = "lost"
      BY <1>3 DEF OrphansComeFromFailures
    <3>1. PICK d \in Clients, n \in Nat : o = <<d, n>> /\ n <= tries[d]
      BY DEF SubmissionInv, StoredInTime
    <3> QED
      BY <1>3, <3>1 DEF SubmissionInv, ObjectsFollowRows, OrphansComeFromFailures
  <2> QED
    BY <2>1, <2>2 DEF ObjectsFollowRows
<1> QED
  BY <1>5, <1>6, <1>7, <1>8, <1>9 DEF SubmissionInv

\* The commit: the only step that adds a row, under a key that has none.
LEMMA CommitKeeps == ASSUME SubmissionInv, NEW c \in Clients, Commit(c) PROVE SubmissionInv'
<1> DEFINE row == Row(c)
<1>1. /\ row.table = Table(c) /\ row.key = Intent[c].key /\ row.content = frozen[c] /\ row.by = Attempt(c)
  BY DEF Row
<1>2. /\ step[c] = "inserted" /\ rows' = rows \cup {row} /\ UNCHANGED <<draft, frozen, tries, objects>>
  BY DEF Commit
<1> HIDE DEF row
<1>3. PICK a \in {Reply("row", row), Reply("lost", None)} : Answer(c, a)
  BY DEF Commit, row
<1>4. /\ step' \in [Clients -> SubmissionSteps] /\ step'[c] = "done" /\ DOMAIN answer' = Clients
      /\ answer'[c] # Unanswered /\ answer'[c] = Reply(answer'[c].kind, answer'[c].row)
      /\ answer'[c].kind \in {"row", "lost"} /\ (answer'[c].kind = "row" => answer'[c].row = row)
      /\ \A d \in Clients \ {c} : step'[d] = step[d] /\ answer'[d] = answer[d]
  BY <1>3, Answering
<1>5. \A d \in Clients : /\ SameKey(c, d) => Existing(d)' = Existing(d) \cup {row}
                         /\ ~SameKey(c, d) => Existing(d)' = Existing(d)
  BY <1>1, <1>2, TableStays DEF Existing, SameKey
<1>6. \A d, e : SameKey(d, e)' = SameKey(d, e)
  BY TableStays DEF SameKey
<1>7. \A d \in Clients : Attempt(d)' = Attempt(d)
  BY <1>2 DEF Attempt
<1>8. Existing(c) = {}
  BY <1>2 DEF SubmissionInv, KeysAreHeld
<1>9. SubmissionTypeOK'
  <2>1. \A q \in rows : ~(q.table = row.table /\ q.key = row.key)
    BY <1>1, <1>8 DEF Existing
  <2>2. \A q, r \in rows' : q.table = r.table /\ q.key = r.key => q = r
    BY <1>2, <2>1 DEF SubmissionInv, SubmissionTypeOK
  <2>3. \A d \in Clients : step'[d] = "done" <=> answer'[d] # Unanswered
    BY <1>4 DEF SubmissionInv, SubmissionTypeOK
  <2> QED
    BY <1>2, <1>4, <2>2, <2>3 DEF SubmissionInv, SubmissionTypeOK, Unanswered, Reply
<1>10. Shape'
  BY <1>2, <1>4 DEF SubmissionInv, Shape, Reply
<1>11. KeysAreHeld'
  <2>1. \A d \in Clients : step'[d] = "inserted" => d # c /\ step[d] = "inserted"
    BY <1>4
  <2>2. \A d \in Clients : step'[d] = "inserted" => ~SameKey(c, d)
    BY <1>2, <2>1 DEF SubmissionInv, KeysAreHeld
  <2> QED
    BY <1>5, <1>6, <2>1, <2>2 DEF SubmissionInv, KeysAreHeld
<1>12. RowsAreFinished'
  <2>1. tries[c] \in Nat /\ row.by = <<c, tries[c]>>
    BY <1>1 DEF SubmissionInv, SubmissionTypeOK, Attempt
  <2> SUFFICES ASSUME NEW r \in rows
               PROVE  \E d \in Clients, n \in Nat :
                          r.by = <<d, n>> /\ (n < tries[d] \/ (n = tries[d] /\ step'[d] = "done"))
    BY <1>2, <1>4, <2>1 DEF RowsAreFinished
  <2>2. PICK d \in Clients, n \in Nat : r.by = <<d, n>> /\ (n < tries[d] \/ (n = tries[d] /\ step[d] = "done"))
    BY DEF SubmissionInv, RowsAreFinished
  <2> QED
    BY <1>4, <2>2
<1>13. LoserFindsRow'
  BY <1>4, <1>5 DEF SubmissionInv, LoserFindsRow
<1>14. AnswersAreRows'
  <2>1. row \in Existing(c)'
    BY <1>5 DEF SameKey
  <2> QED
    BY <1>1, <1>2, <1>4, <1>5, <2>1 DEF SubmissionInv, AnswersAreRows, Answered
<1>15. ConflictIsReal'
  BY <1>2, <1>4, <1>5 DEF SubmissionInv, ConflictIsReal
<1>16. StoredInTime'
  BY <1>2, <1>4, <1>7 DEF SubmissionInv, StoredInTime, IsReport
<1>17. ReportsHaveObjects'
  <2>1. row.table = "reports" => row.by \in objects
    BY <1>1, <1>2, ReportTable DEF SubmissionInv, StoredInTime
  <2> QED
    BY <1>2, <2>1 DEF SubmissionInv, ObjectsFollowRows, ReportsHaveObjects
<1>18. OrphansComeFromFailures'
  <2> SUFFICES ASSUME NEW o \in objects, ~ \E r \in rows \cup {row} : r.by = o
               PROVE  \/ tries[o[1]] > o[2]
                      \/ step'[o[1]] # "done" /\ step'[o[1]] # "again"
                      \/ answer'[o[1]].kind = "lost"
    BY <1>2 DEF OrphansComeFromFailures
  <2>1. PICK d \in Clients, n \in Nat : o = <<d, n>> /\ n <= tries[d]
    BY DEF SubmissionInv, StoredInTime
  <2>2. CASE d # c
    BY <1>4, <2>1, <2>2 DEF SubmissionInv, ObjectsFollowRows, OrphansComeFromFailures
  <2>3. CASE d = c
    <3>1. n # tries[c]
      BY <1>1, <2>1, <2>3 DEF Attempt
    <3> QED
      BY <2>1, <2>3, <3>1 DEF SubmissionInv, SubmissionTypeOK
  <2> QED
    BY <2>2, <2>3
<1> QED
  BY <1>9, <1>10, <1>11, <1>12, <1>13, <1>14, <1>15, <1>16, <1>17, <1>18 DEF SubmissionInv, ObjectsFollowRows

-----------------------------------------------------------------------------
LEMMA SubmissionInvariant == SubmissionSpec => []SubmissionInv
<1>1. SubmissionInit => SubmissionInv
  BY InitHolds
<1>2. SubmissionInv /\ [SubmissionNext]_submissionVars => SubmissionInv'
  <2> SUFFICES ASSUME SubmissionInv, [SubmissionNext]_submissionVars PROVE SubmissionInv'
    OBVIOUS
  <2>1. CASE EditDraft
    BY <2>1, EditDraftKeeps
  <2>2. ASSUME NEW c \in Clients, ClientNext(c) PROVE SubmissionInv'
    BY <2>2, FreezeKeeps, FindExistingKeeps, FindNothingKeeps, PutObjectKeeps, InsertKeeps, CollideKeeps,
       LookAgainKeeps, CommitKeeps, FailRequestKeeps, RetryKeeps DEF ClientNext, SubmissionStep
  <2>3. CASE UNCHANGED submissionVars
    <3>1. \A d : Existing(d)' = Existing(d) /\ Attempt(d)' = Attempt(d)
      BY <2>3, TableStays DEF submissionVars, Existing, Attempt
    <3>2. \A d, e : SameKey(d, e)' = SameKey(d, e)
      BY TableStays DEF SameKey
    <3> QED
      BY <2>3, <3>1, <3>2
         DEF submissionVars, SubmissionInv, SubmissionTypeOK, Shape, KeysAreHeld, RowsAreFinished, LoserFindsRow,
             AnswersAreRows, Answered, ConflictIsReal, StoredInTime, IsReport, ObjectsFollowRows, ReportsHaveObjects,
             OrphansComeFromFailures
  <2> QED
    BY <2>1, <2>2, <2>3 DEF SubmissionNext
<1> QED
  BY <1>1, <1>2, PTL DEF SubmissionSpec

\* Types; a key of a table has one row, however many requests race for it.
THEOREM SubmissionTypes == SubmissionSpec => []SubmissionTypeOK
<1>1. SubmissionInv => SubmissionTypeOK
  BY DEF SubmissionInv
<1> QED
  BY <1>1, SubmissionInvariant, PTL

\* Answers under one key name one committed row with what was asked for, and a calculation or
\* a report is refused for a conflict only when another content has its key.
THEOREM TrueAnswers == SubmissionSpec => []AnswersAreTrue
<1>1. SubmissionInv => AnswersAreTrue
  <2> SUFFICES ASSUME SubmissionInv PROVE AnswersAgree
    BY DEF SubmissionInv, AnswersAreTrue
  <2>1. \A c \in Clients : Answered(c) =>
            answer[c].row \in rows /\ answer[c].row.table = Table(c) /\ answer[c].row.key = Intent[c].key
    BY DEF SubmissionInv, AnswersAreRows, Existing
  <2>2. \A c, d \in Clients : Answered(c) /\ Answered(d) /\ SameKey(c, d) => answer[c].row = answer[d].row
    BY <2>1 DEF SubmissionInv, SubmissionTypeOK, SameKey
  <2>3. \A c \in Clients : Answered(c) => answer[c] = Reply("row", answer[c].row)
    BY DEF SubmissionInv, Shape, Answered
  <2>4. \A c, d \in Clients : Answered(c) /\ Answered(d) /\ SameKey(c, d) => answer[c] = answer[d]
    BY <2>2, <2>3
  <2> QED
    BY <2>1, <2>4 DEF SubmissionInv, AnswersAreRows, AnswersAgree
<1> QED
  BY <1>1, SubmissionInvariant, PTL

\* A recorded report has its object, and an object without a row is that of a request that
\* failed or goes on.
THEOREM StoredReports == SubmissionSpec => []ObjectsFollowRows
<1>1. SubmissionInv => ObjectsFollowRows
  BY DEF SubmissionInv
<1> QED
  BY <1>1, SubmissionInvariant, PTL

-----------------------------------------------------------------------------
(***************************************************************************)
(* DataImports: the rows of a data set are those of one recorded import,   *)
(* and those of a completed import can be interpolated.                    *)
(***************************************************************************)

(***************************************************************************)
(* The rows of a file.                                                     *)
(***************************************************************************)

\* No conversion to the SI unit leaves the range of the numbers.  A factor that makes
\* a finite number infinite is not an error of the row (_normalize_row).
ConversionsAreFinite ==
    \A n \in DOMAIN File, c \in Columns, unit \in DOMAIN Scale :
        IsFinite(File[n].cells[c]) => IsFinite(File[n].cells[c] * Scale[unit])

LEMMA AcceptedPosition ==
    ASSUME ConversionsAreFinite, NEW m \in Mappings, Completed(m), NEW n \in DOMAIN File
    PROVE  /\ Position(n, m) \in Int /\ IsFinite(Position(n, m)) /\ UnitKnown(File[n], m)
           /\ ~NotIncreasing(n, m)
<1>1. ~RowError(File[n], m) /\ ~NotIncreasing(n, m)
  BY DEF Completed, AcceptedRows
<1>2. /\ IsFinite(File[n].cells[m.column]) /\ UnitKnown(File[n], m)
      /\ m.column \in Columns /\ File[n].cells[m.column] \in Int
  BY <1>1, ImportAssumption DEF RowError, IsFinite
<1>3. CASE UnitOf(File[n], m) = None
  BY <1>1, <1>2, <1>3 DEF Position, Normalized
<1>4. CASE UnitOf(File[n], m) # None
  <2>1. UnitOf(File[n], m) \in DOMAIN Scale
    BY <1>2, <1>4 DEF UnitKnown
  <2>2. Position(n, m) = File[n].cells[m.column] * Scale[UnitOf(File[n], m)]
    BY <1>2, <1>4 DEF Position, Normalized
  <2>3. Position(n, m) \in Int
    BY <1>2, <2>1, <2>2, ImportAssumption
  <2> QED
    BY <1>1, <1>2, <2>1, <2>2, <2>3 DEF ConversionsAreFinite
<1> QED
  BY <1>3, <1>4

\* Among numbers, the previous one is that of the row before.
LEMMA PreviousPosition ==
    ASSUME NEW m, \A k \in DOMAIN File : Position(k, m) \in Int, NEW n \in DOMAIN File, n >= 2
    PROVE  Previous(n, m) = Position(n - 1, m)
<1> DEFINE before == {k \in 1..(n - 1) : IsNumber(Position(k, m))}
<1>1. n \in Nat /\ n \in 1..Len(File) /\ Len(File) \in Nat /\ 1..(n - 1) \subseteq DOMAIN File
  BY ImportAssumption
<1>2. before = 1..(n - 1)
  BY <1>1, ImportAssumption DEF IsNumber
<1>3. before # {} /\ n - 1 \in before /\ \A j \in before : j <= n - 1
  BY <1>1, <1>2
<1>4. (CHOOSE k \in before : \A j \in before : j <= k) = n - 1
  <2>1. \A k \in before : (\A j \in before : j <= k) => k = n - 1
    BY <1>1, <1>2, <1>3
  <2> HIDE DEF before
  <2> QED
    BY <1>3, <2>1
<1> QED
  BY <1>3, <1>4 DEF Previous

LEMMA CompletedIncreases ==
    ASSUME ConversionsAreFinite, NEW m \in Mappings, Completed(m), m.kind \in Monotone
    PROVE  \A k, n \in DOMAIN File : k < n => Position(k, m) < Position(n, m)
<1> DEFINE f == [n \in DOMAIN File |-> Position(n, m)]
<1>1. Len(File) \in Nat /\ DOMAIN File = 1..Len(File) /\ None \notin Int /\ NaN \notin Int
  BY ImportAssumption
<1>2. \A n \in DOMAIN File : Position(n, m) \in Int /\ ~NotIncreasing(n, m)
  BY AcceptedPosition
<1>3. ASSUME NEW n \in 2..Len(File) PROVE Position(n - 1, m) < Position(n, m)
  <2>1. n \in DOMAIN File /\ n - 1 \in DOMAIN File /\ n >= 2
    BY <1>1
  <2>2. Previous(n, m) = Position(n - 1, m)
    BY <1>2, <2>1, PreviousPosition
  <2>3. Position(n, m) \in Int /\ Position(n - 1, m) \in Int
    BY <1>2, <2>1
  <2>4. {Position(n, m), Previous(n, m)} \cap {None, NaN} = {}
    BY <1>1, <2>2, <2>3
  <2>5. ~(Position(n, m) <= Previous(n, m))
    BY <1>2, <2>1, <2>4 DEF NotIncreasing
  <2> QED
    BY <2>2, <2>3, <2>5
<1>4. /\ \A n \in 1..Len(File) : f[n] = Position(n, m) /\ f[n] \in Int
      /\ \A n \in 2..Len(File) : f[n - 1] < f[n]
  <2>1. \A n \in 1..Len(File) : f[n] = Position(n, m) /\ f[n] \in Int
    BY <1>1, <1>2
  <2>2. ASSUME NEW n \in 2..Len(File) PROVE f[n - 1] < f[n]
    <3>1. n \in 1..Len(File) /\ n - 1 \in 1..Len(File)
      BY <1>1
    <3> QED
      BY <1>3, <2>1, <3>1
  <2> QED
    BY <2>1, <2>2
<1> HIDE DEF f
<1>5. \A k, n \in 1..Len(File) : k < n => f[k] < f[n]
  BY <1>1, <1>4, IncreasingByOne
<1> QED
  BY <1>1, <1>4, <1>5

(***************************************************************************)
(* The requests.                                                           *)
(***************************************************************************)
Statuses  == {"uploaded", "previewed", "mapped", "imported", "failed"}
UnderWay  == {"begun", "deleting", "inserted"}

Calls ==
    [stage : UnderWay \cup {"idle", "answered", "refused"}, saw : Statuses \cup {None},
     mapping : Mappings \cup {None}, deleted : SUBSET Importers]

Kinds == {m.kind : m \in Mappings}

DatasetShape ==
    /\ dataset \in [kind : Kinds, status : Statuses, preview : BOOLEAN, mapping : Mappings \cup {None}]
    /\ dataset.mapping # None => dataset.preview

RequestShape ==
    /\ importing \in [Importers -> Calls]
    /\ \A i \in Importers :
          importing[i].stage \in UnderWay => importing[i].saw \in Statuses /\ importing[i].mapping \in Mappings
    /\ DOMAIN editing = Authors
    /\ \A a \in Authors : editing[a] # None =>
          /\ editing[a].saw \in Statuses /\ editing[a].mapping \in Mappings \cup {None}
          /\ editing[a].mapping # None => dataset.preview
    /\ edits \in [Authors -> 0..MaxEdits]

\* An import that has inserted is alone, replaces every row there is, and has a key that
\* no other import used: the database has refused whatever would break that.
InsertionHolds ==
    \A i \in Importers : importing[i].stage = "inserted" =>
        /\ stored \subseteq importing[i].deleted /\ ~KeyIsUsed(i)
        /\ \A j \in Importers : importing[j].stage = "inserted" => j = i

RecordsHold ==
    /\ DOMAIN imported = Importers /\ stored \subseteq Importers
    /\ \A i \in Importers : imported[i] # None => \E m \in Mappings : imported[i] = DatasetImport(m)
    /\ \A i, j \in Importers : imported[i] # None /\ imported[j] # None /\ Key[i] = Key[j] => i = j

ImportInv == DatasetShape /\ RequestShape /\ InsertionHolds /\ RecordsHold /\ RowsAreOneImport

LEMMA ImportStarts == ImportInit => ImportInv
<1> SUFFICES ASSUME ImportInit PROVE ImportInv
  OBVIOUS
<1>1. DatasetShape
  <2>1. PICK m \in Mappings : dataset = [kind |-> m.kind, status |-> "uploaded", preview |-> FALSE, mapping |-> None]
    BY DEF ImportInit
  <2>2. m.kind \in Kinds
    BY DEF Kinds
  <2> QED
    BY <2>1, <2>2 DEF DatasetShape, Statuses
<1>2. RequestShape
  <2>1. Idle \in Calls /\ Idle.stage \notin UnderWay
    BY DEF Idle, Calls, UnderWay
  <2>2. importing \in [Importers -> Calls] /\ \A i \in Importers : importing[i] = Idle
    BY <2>1 DEF ImportInit
  <2>3. /\ DOMAIN editing = Authors /\ \A a \in Authors : editing[a] = None
        /\ edits \in [Authors -> 0..MaxEdits]
    BY ImportAssumption DEF ImportInit
  <2> QED
    BY <2>1, <2>2, <2>3 DEF RequestShape
<1>3. InsertionHolds /\ RecordsHold /\ RowsAreOneImport
  <2>1. \A i \in Importers : importing[i].stage = "idle" /\ imported[i] = None
    BY DEF ImportInit, Idle
  <2>2. DOMAIN imported = Importers /\ stored = {}
    BY DEF ImportInit
  <2> QED
    BY <2>1, <2>2 DEF InsertionHolds, RecordsHold, RowsAreOneImport
<1> QED
  BY <1>1, <1>2, <1>3 DEF ImportInv

LEMMA EditionKeeps ==
    ASSUME ImportInv, NEW a \in Authors, BeginEdition(a) \/ EndEdition(a)
    PROVE  ImportInv'
<1>1. UNCHANGED <<stored, imported, importing>>
  BY DEF BeginEdition, EndEdition
<1>2. (InsertionHolds /\ RecordsHold /\ RowsAreOneImport)'
  BY <1>1 DEF ImportInv, InsertionHolds, RecordsHold, RowsAreOneImport, KeyIsUsed
<1>3. CASE BeginEdition(a)
  <2>1. PICK m \in {None} \cup {x \in Mappings : dataset.preview /\ x.kind = dataset.kind} :
            editing' = [editing EXCEPT ![a] = [mapping |-> m, saw |-> dataset.status]]
    BY <1>3 DEF BeginEdition
  <2>2. /\ edits' = [edits EXCEPT ![a] = @ + 1] /\ edits[a] < MaxEdits
        /\ UNCHANGED dataset
    BY <1>3 DEF BeginEdition
  <2>3. edits' \in [Authors -> 0..MaxEdits]
    BY <2>2, ImportAssumption DEF ImportInv, RequestShape
  <2>4. dataset.status \in Statuses /\ m \in Mappings \cup {None} /\ (m # None => dataset.preview)
    BY <2>1 DEF ImportInv, DatasetShape
  <2>5. RequestShape'
    BY <1>1, <2>1, <2>2, <2>3, <2>4 DEF ImportInv, RequestShape
  <2> QED
    BY <1>2, <2>2, <2>5 DEF ImportInv, DatasetShape
<1>4. CASE EndEdition(a)
  <2>1. /\ editing[a] # None /\ editing' = [editing EXCEPT ![a] = None] /\ edits' = edits
        /\ editing[a].mapping \in Mappings \cup {None}
        /\ editing[a].mapping # None => dataset.preview
    BY <1>4 DEF EndEdition, ImportInv, RequestShape
  <2>2. /\ dataset' \in [kind : Kinds, status : Statuses, preview : BOOLEAN, mapping : Mappings \cup {None}]
        /\ \/ editing[a].mapping = None /\ dataset'.preview = TRUE /\ dataset'.mapping = dataset.mapping
           \/ editing[a].mapping # None /\ dataset'.preview = dataset.preview /\ dataset'.mapping = editing[a].mapping
    <3>1. PICK s \in Statuses :
              dataset' = IF editing[a].mapping = None
                         THEN [dataset EXCEPT !.preview = TRUE, !.status = s]
                         ELSE [dataset EXCEPT !.mapping = editing[a].mapping, !.status = s]
      BY <1>4 DEF EndEdition, ImportInv, DatasetShape, Statuses, Written
    <3>2. dataset \in [kind : Kinds, status : Statuses, preview : BOOLEAN, mapping : Mappings \cup {None}]
      BY DEF ImportInv, DatasetShape
    <3>3. CASE editing[a].mapping = None
      BY <3>1, <3>2, <3>3
    <3>4. CASE editing[a].mapping # None
      BY <2>1, <3>1, <3>2, <3>4
    <3> QED
      BY <3>3, <3>4
  <2>3. DatasetShape' /\ (dataset.preview => dataset'.preview)
    BY <2>1, <2>2 DEF ImportInv, DatasetShape
  <2>4. RequestShape'
    BY <1>1, <2>1, <2>3 DEF ImportInv, RequestShape
  <2> QED
    BY <1>2, <2>3, <2>4 DEF ImportInv
<1> QED
  BY <1>3, <1>4

\* A step of a request that commits nothing.
LEMMA RequestKeeps ==
    ASSUME ImportInv, NEW i \in Importers,
           \/ AnswerExisting(i) \/ BeginImport(i) \/ DeleteRows(i) \/ InsertRows(i)
           \/ RefuseRows(i) \/ AbortImport(i)
    PROVE  ImportInv'
<1>1. UNCHANGED <<dataset, stored, imported, editing, edits>>
  BY DEF AnswerExisting, BeginImport, DeleteRows, InsertRows, RefuseRows, AbortImport
<1>2. (DatasetShape /\ RecordsHold /\ RowsAreOneImport)'
  BY <1>1 DEF ImportInv, DatasetShape, RecordsHold, RowsAreOneImport
<1>3. /\ importing \in [Importers -> Calls] /\ importing[i] \in Calls
      /\ importing[i].stage \in UnderWay => importing[i].saw \in Statuses /\ importing[i].mapping \in Mappings
  BY DEF ImportInv, RequestShape
<1>4. PICK r \in Calls :
               /\ importing' = [importing EXCEPT ![i] = r]
               /\ r.stage \in UnderWay => r.saw \in Statuses /\ r.mapping \in Mappings
               /\ r.stage = "inserted" =>
                     /\ stored \subseteq r.deleted /\ ~KeyIsUsed(i)
                     /\ \A j \in Importers : importing[j].stage # "inserted"
  <2>1. CASE BeginImport(i)
    <3> DEFINE r == [stage |-> "begun", saw |-> dataset.status, mapping |-> dataset.mapping, deleted |-> {}]
    <3>1. importing' = [importing EXCEPT ![i] = r]
      BY <2>1 DEF BeginImport
    <3>2. dataset.status \in Statuses /\ dataset.mapping \in Mappings
      BY <2>1 DEF BeginImport, ImportInv, DatasetShape
    <3>3. r \in Calls /\ r.saw \in Statuses /\ r.mapping \in Mappings /\ r.stage # "inserted"
      BY <3>2 DEF Calls, UnderWay
    <3> HIDE DEF r
    <3> QED
      BY <3>1, <3>3
  <2>2. CASE DeleteRows(i)
    <3> DEFINE r == [importing[i] EXCEPT !.stage = "deleting", !.deleted = stored]
    <3>1. importing' = [importing EXCEPT ![i] = r] /\ importing[i].stage \in UnderWay
      BY <2>2, <1>3 DEF DeleteRows, UnderWay
    <3>2. stored \in SUBSET Importers
      BY DEF ImportInv, RecordsHold
    <3>3. /\ r \in Calls /\ r.saw = importing[i].saw /\ r.mapping = importing[i].mapping
          /\ r.stage # "inserted"
      BY <1>3, <3>2 DEF Calls, UnderWay
    <3> HIDE DEF r
    <3> QED
      BY <1>3, <3>1, <3>3
  <2>3. CASE \/ AnswerExisting(i) \/ InsertRows(i) \/ RefuseRows(i) \/ AbortImport(i)
    <3>1. PICK s : /\ importing' = [importing EXCEPT ![i].stage = s]
                   /\ \/ s \in {"answered", "refused"}
                      \/ /\ s = "inserted" /\ importing[i].stage = "deleting" /\ ~Collides(i)
                         /\ \A j \in Importers : importing[j].stage # "inserted"
      BY <2>3 DEF AnswerExisting, InsertRows, RefuseRows, AbortImport
    <3> DEFINE r == [importing[i] EXCEPT !.stage = s]
    <3>2. importing' = [importing EXCEPT ![i] = r]
      BY <1>3, <3>1
    <3>3. /\ r \in Calls /\ r.stage = s /\ r.saw = importing[i].saw
          /\ r.mapping = importing[i].mapping /\ r.deleted = importing[i].deleted
      BY <1>3, <3>1 DEF Calls, UnderWay
    <3>4. s = "inserted" => stored \subseteq importing[i].deleted /\ ~KeyIsUsed(i)
      BY <3>1 DEF Collides, RowsCollide
    <3>5. s \in UnderWay => importing[i].saw \in Statuses /\ importing[i].mapping \in Mappings
      BY <1>3, <3>1 DEF UnderWay
    <3> HIDE DEF r
    <3> QED
      BY <3>1, <3>2, <3>3, <3>4, <3>5
  <2> QED
    BY <2>1, <2>2, <2>3
<1>5. \A j \in Importers : importing'[j] = IF j = i THEN r ELSE importing[j]
  BY <1>3, <1>4
<1>6. RequestShape'
  <2>1. importing' \in [Importers -> Calls]
    BY <1>3, <1>4
  <2> QED
    BY <1>1, <1>4, <1>5, <2>1 DEF ImportInv, RequestShape
<1>7. InsertionHolds'
  BY <1>1, <1>4, <1>5 DEF ImportInv, InsertionHolds, KeyIsUsed
<1> QED
  BY <1>2, <1>6, <1>7, <1>1 DEF ImportInv

\* The commit of an import makes its rows the only ones.
LEMMA ImportCommitKeeps ==
    ASSUME ImportInv, NEW i \in Importers, CommitImport(i)
    PROVE  ImportInv'
<1>1. /\ importing[i].stage = "inserted" /\ importing[i].mapping \in Mappings
      /\ stored \subseteq importing[i].deleted /\ ~KeyIsUsed(i)
      /\ \A j \in Importers : importing[j].stage = "inserted" => j = i
      /\ importing[i].saw \in Statuses
  BY DEF CommitImport, ImportInv, InsertionHolds, RequestShape, UnderWay
<1>2. /\ imported' = [imported EXCEPT ![i] = DatasetImport(importing[i].mapping)]
      /\ stored' = {i}
      /\ importing' = [importing EXCEPT ![i].stage = "answered"]
      /\ UNCHANGED <<editing, edits>>
  BY <1>1 DEF CommitImport
<1>3. DatasetImport(importing[i].mapping) # None
  BY <1>1, RecordAssumption
<1>4. DatasetShape' /\ dataset'.preview = dataset.preview
  <2>1. PICK s \in Statuses : dataset' = [dataset EXCEPT !.status = s]
    BY DEF CommitImport, Written, Statuses, ImportInv, DatasetShape
  <2>2. dataset' = [kind |-> dataset.kind, status |-> s, preview |-> dataset.preview, mapping |-> dataset.mapping]
    BY <2>1 DEF ImportInv, DatasetShape
  <2> QED
    BY <2>2 DEF ImportInv, DatasetShape
<1>5. RequestShape'
  <2>1. importing' \in [Importers -> Calls] /\ importing'[i].stage = "answered"
    BY <1>2 DEF ImportInv, RequestShape, Calls
  <2>2. \A j \in Importers \ {i} : importing'[j] = importing[j]
    BY <1>2 DEF ImportInv, RequestShape
  <2> QED
    BY <1>2, <1>4, <2>1, <2>2 DEF ImportInv, RequestShape, UnderWay
<1>6. RecordsHold'
  <2>1. \A j \in Importers \ {i} : imported'[j] = imported[j] /\ (imported[j] # None => Key[j] # Key[i])
    BY <1>1, <1>2 DEF ImportInv, RecordsHold, KeyIsUsed
  <2>2. imported'[i] = DatasetImport(importing[i].mapping)
    BY <1>2 DEF ImportInv, RecordsHold
  <2>3. \A j \in Importers : imported'[j] # None => \E m \in Mappings : imported'[j] = DatasetImport(m)
    BY <1>1, <2>1, <2>2 DEF ImportInv, RecordsHold
  <2>4. \A j, k \in Importers : imported'[j] # None /\ imported'[k] # None /\ Key[j] = Key[k] => j = k
    BY <2>1 DEF ImportInv, RecordsHold
  <2> QED
    BY <1>2, <2>3, <2>4 DEF ImportInv, RecordsHold
<1>7. RowsAreOneImport'
  BY <1>2, <1>3 DEF ImportInv, RecordsHold, RowsAreOneImport
<1>8. InsertionHolds'
  BY <1>1, <1>2 DEF ImportInv, RequestShape, InsertionHolds
<1> QED
  BY <1>4, <1>5, <1>6, <1>7, <1>8 DEF ImportInv

LEMMA ImportInvKept ==
    ASSUME ImportInv, [ImportNext]_importVars
    PROVE  ImportInv'
<1>1. CASE UNCHANGED importVars
  BY <1>1
     DEF importVars, ImportInv, DatasetShape, RequestShape, InsertionHolds, RecordsHold,
         RowsAreOneImport, KeyIsUsed
<1> QED
  BY <1>1, EditionKeeps, RequestKeeps, ImportCommitKeeps DEF ImportNext, ImportStep

LEMMA ImportsAreSafe == ImportSpec => []ImportInv
<1> QED
  BY ImportStarts, ImportInvKept, PTL DEF ImportSpec

\* Types; one import for a key, whatever retries overlap (import_dataset).
THEOREM ImportTypes == ImportSpec => []ImportTypeOK
<1>1. ImportInv => ImportTypeOK
  BY DEF ImportInv, DatasetShape, RequestShape, RecordsHold, ImportTypeOK, Statuses
<1> QED
  BY <1>1, ImportsAreSafe, PTL

\* The rows stored are those of one recorded import (import_dataset).
THEOREM WholeImports == ImportSpec => []RowsAreOneImport
<1>1. ImportInv => RowsAreOneImport
  BY DEF ImportInv
<1> QED
  BY <1>1, ImportsAreSafe, PTL

\* ... and those of a completed import can be interpolated, where no conversion of a unit
\* overflows (_append_row_monotonicity_errors, _normalize_row).
THEOREM UsableDatasets == ASSUME ConversionsAreFinite PROVE ImportSpec => []DatasetIsOneImport
<1>1. ASSUME ImportInv PROVE CompletedIsMonotone
  <2> SUFFICES ASSUME NEW i \in Importers, imported[i] # None, imported[i].counted.completed
               PROVE  LET m == imported[i].mapping IN
                      /\ \A n \in DOMAIN File : IsFinite(Position(n, m)) /\ UnitKnown(File[n], m)
                      /\ m.kind \in Monotone => \A k, n \in DOMAIN File : k < n => Position(k, m) < Position(n, m)
    BY DEF CompletedIsMonotone
  <2>1. PICK m \in Mappings : imported[i] = DatasetImport(m)
    BY <1>1 DEF ImportInv, RecordsHold
  <2>2. imported[i].mapping = m /\ Completed(m)
    BY <2>1 DEF DatasetImport, ImportOf
  <2> QED
    BY <2>2, AcceptedPosition, CompletedIncreases
<1>2. ImportInv => DatasetIsOneImport
  BY <1>1 DEF ImportInv, DatasetIsOneImport
<1> QED
  BY <1>2, ImportsAreSafe, PTL

(***************************************************************************)
(* The classes.  Each field that is read is written, its default is read   *)
(* as itself, and the classes nest four deep.                              *)
(***************************************************************************)
\* What is nested in an object of a class, and its class.
KinOf(c) ==
    IF c \in {"table"} THEN [points |-> "table_point"] ELSE IF c = "pump_model" THEN [curve |-> "curve"]
    ELSE IF c = "segment" THEN [fittings |-> "fitting"] ELSE IF c = "strapping" THEN [points |-> "gauge"]
    ELSE IF c = "group" THEN [pumps |-> "pump"] ELSE IF c = "profile" THEN [points |-> "profile_point"]
    ELSE IF c = "scenario" THEN [pump_overrides |-> "pump_override", station_overrides |-> "station_override",
                                 segment_overrides |-> "segment_override", solver |-> "solver"]
    ELSE IF c = "fluid" THEN [density_table |-> "table", kinematic_viscosity_table |-> "table",
                              vapor_pressure_table |-> "table"]
    ELSE IF c = "tank" THEN [strapping |-> "strapping", levels |-> "levels"]
    ELSE IF c = "station" THEN [groups |-> "group"] ELSE IF c = "equipment" THEN [pump_models |-> "pump_model"]
    ELSE IF c = "network" THEN [segments |-> "segment", profile |-> "profile", stations |-> "station",
                                injections |-> "injection", origin_tank |-> "tank", destination_tank |-> "tank"]
    ELSE IF c = "input" THEN [manifest |-> "manifest", network |-> "network", fluid |-> "fluid",
                              scenario |-> "scenario", rules |-> "rules", provenance |-> "provenance"]
    ELSE [k \in {} |-> k]

\* A rule reads what is nested, or a scalar whose default is read as itself.
IsRule(rule, name, kin) ==
    IF name \in DOMAIN kin THEN rule.type = "nested" /\ rule.class = kin[name]
    ELSE /\ rule.type # "nested" /\ rule.need \in {"required", "optional", "default"}
         /\ rule.need = "optional" => rule.default = None
         /\ rule.need = "default" => rule.default \in Int
AreRules(rules, kin) == \A n \in DOMAIN rules : IsRule(rules[n], n, kin)

\* Tables of rules are joined.
LEMMA JoinedRules ==
    ASSUME NEW S, NEW kin, \A t \in S : AreRules(t, kin)
    PROVE  AreRules(Join(S), kin) /\ DOMAIN Join(S) = UNION {DOMAIN t : t \in S}
BY DEF Join, AreRules

\* The classes by their depth.
Leaves == {"table_point", "curve", "gauge", "levels", "fitting", "pump", "profile_point", "injection", "solver",
           "pump_override", "station_override", "segment_override", "provenance", "manifest", "rules"}
Branches == Leaves \cup {"table", "pump_model", "segment", "strapping", "group", "profile", "scenario"}
Trunks   == Branches \cup {"fluid", "tank", "station"}
Roots    == Trunks \cup {"network"}
Classes  == Roots \cup {"input"}

\* The rules of a class, and the names of its fields.
AreRulesOf(rules, c, names) == AreRules(rules, KinOf(c)) /\ DOMAIN rules \subseteq names

\* The rules of a class are those of its tables.
LEMMA ClassRules ==
    ASSUME NEW S, NEW c, NEW names, \A t \in S : AreRules(t, KinOf(c)) /\ DOMAIN t \subseteq names
    PROVE  AreRulesOf(Join(S), c, names)
<1>1. AreRules(Join(S), KinOf(c)) /\ DOMAIN Join(S) = UNION {DOMAIN t : t \in S}
  BY JoinedRules
<1> QED
  BY <1>1 DEF AreRulesOf

\* The rules of each class are rules, and the fields they read are written.
LEMMA TableRules ==
    /\ AreRulesOf(TableFields["table"], "table", TableWritten)
    /\ AreRulesOf(TableFields["table_point"], "table_point", PointWritten)
<1>1. AreRulesOf(TableFields["table"], "table", TableWritten)
  BY ClassRules, PackageAssumption
  DEF TableFields, TableWritten, KinOf, AreRules, IsRule, Required, Nullable, Default, StatusField, Rule,
         One, FullList, List, Perhaps, Nest
<1>2. AreRulesOf(TableFields["table_point"], "table_point", PointWritten)
  BY ClassRules, PackageAssumption
  DEF TableFields, PointWritten, KinOf, AreRules, IsRule, Required, Nullable, Default, StatusField, Rule,
         One, FullList, List, Perhaps, Nest
<1> QED
  BY <1>1, <1>2

LEMMA FluidRules == AreRulesOf(FluidFields["fluid"], "fluid", FluidWritten)
  BY ClassRules, PackageAssumption
  DEF FluidFields, FluidWritten, KinOf, AreRules, IsRule, Required, Nullable, Default, StatusField, Rule,
         One, FullList, List, Perhaps, Nest

LEMMA PumpModelRules ==
    /\ AreRulesOf(PumpModelFields["curve"], "curve", CurveWritten)
    /\ AreRulesOf(PumpModelFields["pump_model"], "pump_model", PumpModelWritten)
<1>1. AreRulesOf(PumpModelFields["curve"], "curve", CurveWritten)
  BY ClassRules, PackageAssumption
  DEF PumpModelFields, CurveWritten, KinOf, AreRules, IsRule, Required, Nullable, Default, StatusField,
         Rule, One, FullList, List, Perhaps, Nest
<1>2. AreRulesOf(PumpModelFields["pump_model"], "pump_model", PumpModelWritten)
  BY ClassRules, PackageAssumption
  DEF PumpModelFields, PumpModelWritten, KinOf, AreRules, IsRule, Required, Nullable, Default,
         StatusField, Rule, One, FullList, List, Perhaps, Nest
<1> QED
  BY <1>1, <1>2

LEMMA FittingRules == AreRulesOf(FittingFields["fitting"], "fitting", FittingWritten)
  BY ClassRules, PackageAssumption
  DEF FittingFields, FittingWritten, KinOf, AreRules, IsRule, Required, Nullable, Default, StatusField,
         Rule, One, FullList, List, Perhaps, Nest

LEMMA SegmentRules == AreRulesOf(SegmentFields["segment"], "segment", SegmentWritten)
  BY ClassRules, PackageAssumption
  DEF SegmentFields, SegmentWritten, KinOf, AreRules, IsRule, Required, Nullable, Default, StatusField,
         Rule, One, FullList, List, Perhaps, Nest

LEMMA TankRules ==
    /\ AreRulesOf(TankFields["gauge"], "gauge", StrappingWritten["gauge"])
    /\ AreRulesOf(TankFields["strapping"], "strapping", StrappingWritten["strapping"])
    /\ AreRulesOf(TankFields["levels"], "levels", LevelsWritten)
    /\ AreRulesOf(TankFields["tank"], "tank", TankWritten)
<1>1. AreRulesOf(TankFields["gauge"], "gauge", StrappingWritten["gauge"])
  BY PackageAssumption
  DEF AreRulesOf, TankFields, StrappingWritten, KinOf, AreRules, IsRule, Required, Nullable, Default, StatusField,
         Rule, One, FullList, List, Perhaps, Nest
<1>2. AreRulesOf(TankFields["strapping"], "strapping", StrappingWritten["strapping"])
  BY PackageAssumption
  DEF AreRulesOf, TankFields, StrappingWritten, KinOf, AreRules, IsRule, Required, Nullable, Default, StatusField,
         Rule, One, FullList, List, Perhaps, Nest
<1>3. AreRulesOf(TankFields["levels"], "levels", LevelsWritten)
  BY ClassRules, PackageAssumption
  DEF TankFields, LevelsWritten, KinOf, AreRules, IsRule, Required, Nullable, Default, StatusField, Rule,
         One, FullList, List, Perhaps, Nest
<1>4. AreRulesOf(TankFields["tank"], "tank", TankWritten)
  BY ClassRules, PackageAssumption
  DEF TankFields, TankWritten, KinOf, AreRules, IsRule, Required, Nullable, Default, StatusField, Rule,
         One, FullList, List, Perhaps, Nest
<1> QED
  BY <1>1, <1>2, <1>3, <1>4

LEMMA PumpRules == AreRulesOf(PumpFields["pump"], "pump", PumpWritten)
  BY ClassRules, PackageAssumption
  DEF PumpFields, PumpWritten, KinOf, AreRules, IsRule, Required, Nullable, Default, StatusField, Rule,
         One, FullList, List, Perhaps, Nest

LEMMA StationRules ==
    /\ AreRulesOf(StationFields["group"], "group", GroupWritten)
    /\ AreRulesOf(StationFields["station"], "station", StationWritten)
<1>1. AreRulesOf(StationFields["group"], "group", GroupWritten)
  BY ClassRules, PackageAssumption
  DEF StationFields, GroupWritten, KinOf, AreRules, IsRule, Required, Nullable, Default, StatusField,
         Rule, One, FullList, List, Perhaps, Nest
<1>2. AreRulesOf(StationFields["station"], "station", StationWritten)
  BY ClassRules, PackageAssumption
  DEF StationFields, StationWritten, KinOf, AreRules, IsRule, Required, Nullable, Default, StatusField,
         Rule, One, FullList, List, Perhaps, Nest
<1> QED
  BY <1>1, <1>2

LEMMA NetworkRules ==
    /\ AreRulesOf(NetworkFields["profile_point"], "profile_point", ProfileWritten["profile_point"])
    /\ AreRulesOf(NetworkFields["profile"], "profile", ProfileWritten["profile"])
    /\ AreRulesOf(NetworkFields["injection"], "injection", InjectionWritten)
    /\ AreRulesOf(NetworkFields["network"], "network", NetworkWritten)
<1>1. AreRulesOf(NetworkFields["profile_point"], "profile_point", ProfileWritten["profile_point"])
  BY ClassRules, PackageAssumption
  DEF NetworkFields, ProfileWritten, KinOf, AreRules, IsRule, Required, Nullable, Default, StatusField,
         Rule, One, FullList, List, Perhaps, Nest
<1>2. AreRulesOf(NetworkFields["profile"], "profile", ProfileWritten["profile"])
  BY PackageAssumption
  DEF AreRulesOf, NetworkFields, ProfileWritten, KinOf, AreRules, IsRule, Required, Nullable, Default, StatusField,
         Rule, One, FullList, List, Perhaps, Nest
<1>3. AreRulesOf(NetworkFields["injection"], "injection", InjectionWritten)
  BY ClassRules, PackageAssumption
  DEF NetworkFields, InjectionWritten, KinOf, AreRules, IsRule, Required, Nullable, Default, StatusField,
         Rule, One, FullList, List, Perhaps, Nest
<1>4. AreRulesOf(NetworkFields["network"], "network", NetworkWritten)
  BY ClassRules, PackageAssumption
  DEF NetworkFields, NetworkWritten, KinOf, AreRules, IsRule, Required, Nullable, Default, StatusField,
         Rule, One, FullList, List, Perhaps, Nest
<1> QED
  BY <1>1, <1>2, <1>3, <1>4

LEMMA SolverRules == AreRulesOf(SolverFields["solver"], "solver", SolverWritten)
  BY ClassRules, PackageAssumption
  DEF SolverFields, SolverWritten, KinOf, AreRules, IsRule, Required, Nullable, Default, StatusField,
         Rule, One, FullList, List, Perhaps, Nest

LEMMA ScenarioRules ==
    /\ AreRulesOf(ScenarioFields["pump_override"], "pump_override", OverridesWritten["pump_override"])
    /\ AreRulesOf(ScenarioFields["station_override"], "station_override", OverridesWritten["station_override"])
    /\ AreRulesOf(ScenarioFields["segment_override"], "segment_override", OverridesWritten["segment_override"])
    /\ AreRulesOf(ScenarioFields["scenario"], "scenario", ScenarioWritten)
<1>1. AreRulesOf(ScenarioFields["pump_override"], "pump_override", OverridesWritten["pump_override"])
  BY ClassRules, PackageAssumption
  DEF ScenarioFields, OverridesWritten, KinOf, AreRules, IsRule, Required, Nullable, Default, StatusField,
         Rule, One, FullList, List, Perhaps, Nest
<1>2. AreRulesOf(ScenarioFields["station_override"], "station_override", OverridesWritten["station_override"])
  BY ClassRules, PackageAssumption
  DEF ScenarioFields, OverridesWritten, KinOf, AreRules, IsRule, Required, Nullable, Default, StatusField,
         Rule, One, FullList, List, Perhaps, Nest
<1>3. AreRulesOf(ScenarioFields["segment_override"], "segment_override", OverridesWritten["segment_override"])
  BY ClassRules, PackageAssumption
  DEF ScenarioFields, OverridesWritten, KinOf, AreRules, IsRule, Required, Nullable, Default, StatusField,
         Rule, One, FullList, List, Perhaps, Nest
<1>4. AreRulesOf(ScenarioFields["scenario"], "scenario", ScenarioWritten)
  BY ClassRules, PackageAssumption
  DEF ScenarioFields, ScenarioWritten, KinOf, AreRules, IsRule, Required, Nullable, Default, StatusField,
         Rule, One, FullList, List, Perhaps, Nest
<1> QED
  BY <1>1, <1>2, <1>3, <1>4

LEMMA ProvenanceRules == AreRulesOf(ProvenanceFields["provenance"], "provenance", ProvenanceWritten)
  BY ClassRules, PackageAssumption
  DEF ProvenanceFields, ProvenanceWritten, KinOf, AreRules, IsRule, Required, Nullable, Default,
         StatusField, Rule, One, FullList, List, Perhaps, Nest

LEMMA InputRules ==
    /\ AreRulesOf(InputFields["equipment"], "equipment", {"pump_models"})
    /\ AreRulesOf(InputFields["manifest"], "manifest", InputWritten["manifest"])
    /\ AreRulesOf(InputFields["rules"], "rules", InputWritten["rules"])
    /\ AreRulesOf(InputFields["input"], "input", InputWritten["input"])
<1>1. AreRulesOf(InputFields["equipment"], "equipment", {"pump_models"})
  BY PackageAssumption
  DEF AreRulesOf, InputFields, KinOf, AreRules, IsRule, Required, Nullable, Default, StatusField, Rule, One, FullList,
         List, Perhaps, Nest
<1>2. AreRulesOf(InputFields["manifest"], "manifest", InputWritten["manifest"])
  BY PackageAssumption
  DEF AreRulesOf, InputFields, InputWritten, KinOf, AreRules, IsRule, Required, Nullable, Default, StatusField, Rule,
         One, FullList, List, Perhaps, Nest
<1>3. AreRulesOf(InputFields["rules"], "rules", InputWritten["rules"])
  BY ClassRules, PackageAssumption
  DEF InputFields, InputWritten, KinOf, AreRules, IsRule, Required, Nullable, Default, StatusField, Rule,
         One, FullList, List, Perhaps, Nest
<1>4. AreRulesOf(InputFields["input"], "input", InputWritten["input"])
  BY ClassRules, PackageAssumption
  DEF InputFields, InputWritten, KinOf, AreRules, IsRule, Required, Nullable, Default, StatusField, Rule,
         One, FullList, List, Perhaps, Nest
<1> QED
  BY <1>1, <1>2, <1>3, <1>4

\* What a table gives is what is joined gives, unless another table gives something else.
GivenBy(joined, t, n) == n \in DOMAIN joined /\ joined[n] = t[n]

\* A rule that one table gives is the rule of the class.
LEMMA JoinedGives ==
    ASSUME NEW S, NEW t \in S, NEW n \in DOMAIN t, \A u \in S : n \in DOMAIN u => u[n] = t[n]
    PROVE  GivenBy(Join(S), t, n)
BY DEF Join, GivenBy

\* The classes that a table describes.
LEMMA Tables ==
    /\ DOMAIN TableFields = {"table", "table_point"}
    /\ DOMAIN FluidFields = {"fluid"}
    /\ DOMAIN PumpModelFields = {"curve", "pump_model"}
    /\ DOMAIN FittingFields = {"fitting"}
    /\ DOMAIN SegmentFields = {"segment"}
    /\ DOMAIN TankFields = {"gauge", "strapping", "levels", "tank"}
    /\ DOMAIN PumpFields = {"pump"}
    /\ DOMAIN StationFields = {"group", "station"}
    /\ DOMAIN NetworkFields = {"profile_point", "profile", "injection", "network"}
    /\ DOMAIN SolverFields = {"solver"}
    /\ DOMAIN ScenarioFields = {"pump_override", "station_override", "segment_override", "scenario"}
    /\ DOMAIN ProvenanceFields = {"provenance"}
    /\ DOMAIN InputFields = {"equipment", "manifest", "rules", "input"}
BY DEF TableFields, FluidFields, PumpModelFields, FittingFields, SegmentFields, TankFields, PumpFields, StationFields, NetworkFields, SolverFields, ScenarioFields, ProvenanceFields, InputFields

\* The fields of a class are those of the table of its part of the model.
LEMMA FieldsGiven ==
    /\ \A c \in {"table", "table_point"} : GivenBy(Fields, TableFields, c)
    /\ \A c \in {"fluid"} : GivenBy(Fields, FluidFields, c)
    /\ \A c \in {"curve", "pump_model"} : GivenBy(Fields, PumpModelFields, c)
    /\ \A c \in {"fitting"} : GivenBy(Fields, FittingFields, c)
    /\ \A c \in {"segment"} : GivenBy(Fields, SegmentFields, c)
    /\ \A c \in {"gauge", "strapping", "levels", "tank"} : GivenBy(Fields, TankFields, c)
    /\ \A c \in {"pump"} : GivenBy(Fields, PumpFields, c)
    /\ \A c \in {"group", "station"} : GivenBy(Fields, StationFields, c)
    /\ \A c \in {"profile_point", "profile", "injection", "network"} : GivenBy(Fields, NetworkFields, c)
    /\ \A c \in {"solver"} : GivenBy(Fields, SolverFields, c)
    /\ \A c \in {"pump_override", "station_override", "segment_override", "scenario"} : GivenBy(Fields, ScenarioFields, c)
    /\ \A c \in {"provenance"} : GivenBy(Fields, ProvenanceFields, c)
    /\ \A c \in {"equipment", "manifest", "rules", "input"} : GivenBy(Fields, InputFields, c)
<1> DEFINE tables == {TableFields, FluidFields, PumpModelFields, FittingFields, SegmentFields, TankFields, PumpFields,
                      StationFields, NetworkFields, SolverFields, ScenarioFields, ProvenanceFields, InputFields}
<1>a. ASSUME NEW t \in tables, NEW c \in DOMAIN t, \A u \in tables : c \in DOMAIN u => u = t
      PROVE  GivenBy(Fields, t, c)
  <2>1. Fields = Join(tables)
    BY DEF Fields
  <2> HIDE DEF tables
  <2> QED
    BY <1>a, <2>1, JoinedGives
<1>1. \A c \in {"table", "table_point"} : GivenBy(Fields, TableFields, c)
  BY <1>a, Tables
<1>2. \A c \in {"fluid"} : GivenBy(Fields, FluidFields, c)
  BY <1>a, Tables
<1>3. \A c \in {"curve", "pump_model"} : GivenBy(Fields, PumpModelFields, c)
  BY <1>a, Tables
<1>4. \A c \in {"fitting"} : GivenBy(Fields, FittingFields, c)
  BY <1>a, Tables
<1>5. \A c \in {"segment"} : GivenBy(Fields, SegmentFields, c)
  BY <1>a, Tables
<1>6. \A c \in {"gauge", "strapping", "levels", "tank"} : GivenBy(Fields, TankFields, c)
  BY <1>a, Tables
<1>7. \A c \in {"pump"} : GivenBy(Fields, PumpFields, c)
  BY <1>a, Tables
<1>8. \A c \in {"group", "station"} : GivenBy(Fields, StationFields, c)
  BY <1>a, Tables
<1>9. \A c \in {"profile_point", "profile", "injection", "network"} : GivenBy(Fields, NetworkFields, c)
  BY <1>a, Tables
<1>10. \A c \in {"solver"} : GivenBy(Fields, SolverFields, c)
  BY <1>a, Tables
<1>11. \A c \in {"pump_override", "station_override", "segment_override", "scenario"} : GivenBy(Fields, ScenarioFields, c)
  BY <1>a, Tables
<1>12. \A c \in {"provenance"} : GivenBy(Fields, ProvenanceFields, c)
  BY <1>a, Tables
<1>13. \A c \in {"equipment", "manifest", "rules", "input"} : GivenBy(Fields, InputFields, c)
  BY <1>a, Tables
<1> QED
  BY <1>1, <1>2, <1>3, <1>4, <1>5, <1>6, <1>7, <1>8, <1>9, <1>10, <1>11, <1>12, <1>13

\* Each field that is read of a class is written of it, and what is nested is of the classes below.
LEMMA FieldsAreWritten ==
    \A c \in Classes : AreRules(Fields[c], KinOf(c)) /\ DOMAIN Fields[c] \subseteq WrittenFields[c]
<1>1. \A c \in {"table", "table_point"} : AreRulesOf(Fields[c], c, WrittenFields[c])
  BY FieldsGiven, TableRules DEF GivenBy, WrittenFields
<1>2. \A c \in {"fluid"} : AreRulesOf(Fields[c], c, WrittenFields[c])
  BY FieldsGiven, FluidRules DEF GivenBy, WrittenFields
<1>3. \A c \in {"curve", "pump_model"} : AreRulesOf(Fields[c], c, WrittenFields[c])
  BY FieldsGiven, PumpModelRules DEF GivenBy, WrittenFields
<1>4. \A c \in {"fitting"} : AreRulesOf(Fields[c], c, WrittenFields[c])
  BY FieldsGiven, FittingRules DEF GivenBy, WrittenFields
<1>5. \A c \in {"segment"} : AreRulesOf(Fields[c], c, WrittenFields[c])
  BY FieldsGiven, SegmentRules DEF GivenBy, WrittenFields
<1>6. \A c \in {"gauge", "strapping", "levels", "tank"} : AreRulesOf(Fields[c], c, WrittenFields[c])
  BY FieldsGiven, TankRules DEF GivenBy, WrittenFields
<1>7. \A c \in {"pump"} : AreRulesOf(Fields[c], c, WrittenFields[c])
  BY FieldsGiven, PumpRules DEF GivenBy, WrittenFields
<1>8. \A c \in {"group", "station"} : AreRulesOf(Fields[c], c, WrittenFields[c])
  BY FieldsGiven, StationRules DEF GivenBy, WrittenFields
<1>9. \A c \in {"profile_point", "profile", "injection", "network"} : AreRulesOf(Fields[c], c, WrittenFields[c])
  BY FieldsGiven, NetworkRules DEF GivenBy, WrittenFields
<1>10. \A c \in {"solver"} : AreRulesOf(Fields[c], c, WrittenFields[c])
  BY FieldsGiven, SolverRules DEF GivenBy, WrittenFields
<1>11. \A c \in {"pump_override", "station_override", "segment_override", "scenario"} : AreRulesOf(Fields[c], c, WrittenFields[c])
  BY FieldsGiven, ScenarioRules DEF GivenBy, WrittenFields
<1>12. \A c \in {"provenance"} : AreRulesOf(Fields[c], c, WrittenFields[c])
  BY FieldsGiven, ProvenanceRules DEF GivenBy, WrittenFields
<1>13. \A c \in {"manifest", "rules", "input"} : AreRulesOf(Fields[c], c, WrittenFields[c])
  BY FieldsGiven, InputRules DEF GivenBy, WrittenFields
<1> QED
  BY <1>1, <1>2, <1>3, <1>4, <1>5, <1>6, <1>7, <1>8, <1>9, <1>10, <1>11, <1>12, <1>13 DEF Classes, Roots, Trunks, Branches, Leaves, AreRulesOf

(***************************************************************************)
(* A sort that is stable is a permutation, and leaves what is sorted.      *)
(***************************************************************************)
Places(key, s, i) == {j \in DOMAIN s : Precedes(s, key, j, i)}
IsSortable(key, s) == s \in Seq(Range(s)) /\ \A r \in Range(s) : r.own[key] \in Int

\* Sorting permutes: each row of the list is in its place, and nothing else is.
LEMMA SortPermutes ==
    ASSUME NEW key, NEW s, IsSortable(key, s)
    PROVE  /\ DOMAIN By(key, s) = DOMAIN s /\ DOMAIN s = 1..Len(s) /\ Len(s) \in Nat
           /\ \A n \in DOMAIN s : By(key, s)[n] \in Range(s)
           /\ \A m, n \in DOMAIN s : m <= n => By(key, s)[m].own[key] <= By(key, s)[n].own[key]
<1> DEFINE D == DOMAIN s
           R == {p \in D \X D : Precedes(s, key, p[1], p[2])}
           at(n) == CHOOSE i \in D : Cardinality(Places(key, s, i)) = n - 1
<1>1. Len(s) \in Nat /\ D = 1..Len(s) /\ \A i \in D : s[i] \in Range(s)
  BY DEF IsSortable, Range
<1>2. IsFiniteSet(D) /\ Cardinality(D) = Len(s)
  BY <1>1, FS_Interval
<1>3. \A i, j \in D : <<i, j>> \in R <=> Precedes(s, key, i, j)
  OBVIOUS
<1>4. \A i \in D : s[i].own[key] \in Int
  BY <1>1 DEF IsSortable
<1>5. StrictOrder(R, D)
  <2> HIDE DEF R
  <2>1. \A i, j \in D : <<i, j>> \in R <=> s[i].own[key] < s[j].own[key] \/ (s[i].own[key] = s[j].own[key] /\ i < j)
    BY <1>3 DEF Precedes
  <2> QED
    BY <1>1, <1>4, <2>1 DEF StrictOrder
<1>6. \A i \in D : RankIn(R, D, i) = Cardinality(Places(key, s, i))
  <2>1. \A i \in D : {j \in D : <<j, i>> \in R} = Places(key, s, i)
    BY <1>3 DEF Places
  <2> HIDE DEF R
  <2> QED
    BY <2>1 DEF RankIn
<1> HIDE DEF R
<1>7. \A n \in D : at(n) \in D /\ RankIn(R, D, at(n)) = n - 1
  <2> TAKE n \in D
  <2>1. n - 1 \in 0..(Cardinality(D) - 1)
    BY <1>1, <1>2
  <2>2. \E i \in D : RankIn(R, D, i) = n - 1
    BY <1>2, <1>5, <2>1, Ranks
  <2>3. \E i \in D : Cardinality(Places(key, s, i)) = n - 1
    BY <1>6, <2>2
  <2> QED
    BY <1>6, <2>3
<1>8. DOMAIN By(key, s) = D /\ \A n \in D : By(key, s)[n] = s[at(n)]
  BY DEF By, Places
<1> HIDE DEF at
<1>9. \A m, n \in D : m <= n => s[at(m)].own[key] <= s[at(n)].own[key]
  <2> SUFFICES ASSUME NEW m \in D, NEW n \in D, m <= n PROVE s[at(m)].own[key] <= s[at(n)].own[key]
    OBVIOUS
  <2>1. ~ <<at(n), at(m)>> \in R
    <3>1. <<at(n), at(m)>> \in R => RankIn(R, D, at(n)) < RankIn(R, D, at(m))
      BY <1>2, <1>5, <1>7, Ranks
    <3> QED
      BY <1>1, <1>7, <3>1
  <2> QED
    BY <1>3, <1>4, <1>7, <2>1 DEF Precedes
<1> QED
  BY <1>1, <1>7, <1>8, <1>9

\* There are n numbers up to n.
LEMMA CountUpTo ==
    ASSUME NEW k \in Nat
    PROVE  Cardinality(1..k) = k
<1>1. IsFiniteSet(1..k) /\ Cardinality(1..k) = IF 1 > k THEN 0 ELSE k - 1 + 1
  BY FS_Interval
<1> QED
  BY <1>1

\* A list in order stays as it is: what precedes the nth row are the n - 1 before it.
LEMMA SortedStays ==
    ASSUME NEW key, NEW t, NEW N \in Nat, DOMAIN t = 1..N, t = [n \in 1..N |-> t[n]],
           \A n \in 1..N : t[n].own[key] \in Int,
           \A m, n \in 1..N : m <= n => t[m].own[key] <= t[n].own[key]
    PROVE  By(key, t) = t
<1>1. \A i, j \in 1..N : Precedes(t, key, j, i) <=> j < i
  BY DEF Precedes
<1>2. \A i \in 1..N : Cardinality(Places(key, t, i)) = i - 1
  <2> TAKE i \in 1..N
  <2>1. Places(key, t, i) = 1..(i - 1)
    BY <1>1 DEF Places
  <2>2. Cardinality(1..(i - 1)) = i - 1
    <3> DEFINE k == i - 1
    <3>1. k \in Nat
      OBVIOUS
    <3> HIDE DEF k
    <3>2. Cardinality(1..k) = k
      BY <3>1, CountUpTo
    <3> QED
      BY <3>2 DEF k
  <2> QED
    BY <2>1, <2>2
<1>3. \A n \in 1..N : (CHOOSE i \in DOMAIN t : Cardinality(Places(key, t, i)) = n - 1) = n
  <2> TAKE n \in 1..N
  <2>1. \A i \in DOMAIN t : Cardinality(Places(key, t, i)) = n - 1 <=> i = n
    BY <1>2
  <2> QED
    BY <2>1
<1>4. By(key, t) = [n \in 1..N |-> t[CHOOSE i \in DOMAIN t : Cardinality(Places(key, t, i)) = n - 1]]
  BY DEF By, Places
<1> QED
  BY <1>3, <1>4

\* What is nested in an object is of the classes of its kin.
LEMMA NestedIsKin ==
    ASSUME NEW c \in Classes
    PROVE  /\ \A k \in Nested(c) : k \in DOMAIN KinOf(c) /\ Part(c, k) = KinOf(c)[k]
           /\ \A k \in Scalars(c) : k \notin DOMAIN KinOf(c)
           /\ Scalars(c) \cup Nested(c) = DOMAIN Fields[c] /\ Scalars(c) \cap Nested(c) = {}
<1>1. \A n \in DOMAIN Fields[c] : IsRule(Fields[c][n], n, KinOf(c))
  BY FieldsAreWritten DEF AreRules
<1> QED
  BY <1>1 DEF IsRule, Nested, Scalars, Part, ScalarNames, NestedNames

\* What is nested in a class of one depth is a class of the depth below.
LEMMA Depths ==
    /\ \A c \in Leaves : Nested(c) = {}
    /\ \A c \in Branches : \A k \in Nested(c) : Part(c, k) \in Leaves
    /\ \A c \in Trunks : \A k \in Nested(c) : Part(c, k) \in Branches
    /\ \A c \in Roots : \A k \in Nested(c) : Part(c, k) \in Trunks
    /\ \A c \in Classes : \A k \in Nested(c) : Part(c, k) \in Roots
<1>1. Leaves \subseteq Classes /\ Branches \subseteq Classes /\ Trunks \subseteq Classes /\ Roots \subseteq Classes
  BY DEF Classes, Roots, Trunks, Branches
<1>2. \A c \in Leaves : Nested(c) = {}
  <2>1. \A c \in Leaves : DOMAIN KinOf(c) = {}
    BY DEF Leaves, KinOf
  <2> QED
    BY <1>1, <2>1, NestedIsKin
<1>3. \A c \in {"table", "pump_model", "segment", "strapping", "group", "profile", "scenario"} :
        \A k \in DOMAIN KinOf(c) : KinOf(c)[k] \in Leaves
  BY DEF KinOf, Leaves
<1>4. \A c \in {"fluid", "tank", "station"} : \A k \in DOMAIN KinOf(c) : KinOf(c)[k] \in Branches
  BY DEF KinOf, Branches, Leaves
<1>5. \A k \in DOMAIN KinOf("network") : KinOf("network")[k] \in Trunks
  BY DEF KinOf, Trunks, Branches, Leaves
<1>6. \A k \in DOMAIN KinOf("input") : KinOf("input")[k] \in Roots
  BY DEF KinOf, Roots, Trunks, Branches, Leaves
<1>7. \A c \in Branches : \A k \in Nested(c) : Part(c, k) \in Leaves
  BY <1>1, <1>2, <1>3, NestedIsKin DEF Branches
<1>8. \A c \in Trunks : \A k \in Nested(c) : Part(c, k) \in Branches
  BY <1>1, <1>4, <1>7, NestedIsKin DEF Trunks, Branches
<1>9. \A c \in Roots : \A k \in Nested(c) : Part(c, k) \in Trunks
  BY <1>1, <1>5, <1>8, NestedIsKin DEF Roots, Trunks
<1>10. \A c \in Classes : \A k \in Nested(c) : Part(c, k) \in Roots
  BY <1>1, <1>6, <1>9, NestedIsKin DEF Classes, Roots
<1> QED
  BY <1>2, <1>7, <1>8, <1>9, <1>10

\* The fields the proofs name.
LEMMA FieldsNamed ==
    /\ Fields["network"]["segments"] = Rule("required", <<>>, "nested", "segment")
    /\ Fields["network"]["stations"] = Rule("default", <<>>, "nested", "station")
    /\ Fields["network"]["injections"] = Rule("default", <<>>, "nested", "injection")
    /\ {"segments", "stations", "injections"} \subseteq Nested("network")
    /\ "groups" \in Nested("station") /\ "pumps" \in Nested("group")
    /\ Fields["input"]["network"] = Rule("required", <<>>, "nested", "network") /\ "network" \in Nested("input")
    /\ "sequence" \in Scalars("segment") /\ Fields["segment"]["sequence"] = Rule("default", 0, "other", None)
    /\ "chainage" \in Scalars("station") /\ Fields["station"]["chainage"] = Rule("required", None, "number", None)
    /\ "chainage" \in Scalars("injection") /\ Fields["injection"]["chainage"] = Rule("required", None, "number", None)
    /\ "model_id" \in Scalars("pump") /\ Fields["pump"]["model_id"].type = "text"
    /\ "id" \in Scalars("pump_model") /\ Fields["pump_model"]["id"].type = "text"
    /\ Nested("equipment") = {"pump_models"} /\ Scalars("equipment") = {} /\ Part("equipment", "pump_models") = "pump_model"
    /\ Scalars("input") = {}
<1>1. GivenBy(NetworkFields["network"], FullList("segments", "segment"), "segments")
  BY JoinedGives DEF NetworkFields, Required, Nullable, Rule, One, FullList, List, Perhaps, Nest
<1>2. GivenBy(NetworkFields["network"], List("stations", "station"), "stations")
  BY JoinedGives DEF NetworkFields, Required, Nullable, Rule, One, FullList, List, Perhaps, Nest
<1>3. GivenBy(NetworkFields["network"], List("injections", "injection"), "injections")
  BY JoinedGives DEF NetworkFields, Required, Nullable, Rule, One, FullList, List, Perhaps, Nest
<1>4. GivenBy(StationFields["station"], List("groups", "group"), "groups")
  BY JoinedGives DEF StationFields, Required, Nullable, Default, StatusField, Rule, List, Nest
<1>5. GivenBy(StationFields["group"], List("pumps", "pump"), "pumps")
  BY JoinedGives DEF StationFields, Required, Nullable, Rule, List, Nest
<1>6. GivenBy(InputFields["input"], One("network", "network"), "network")
  BY JoinedGives DEF InputFields, Rule, One, FullList, Nest
<1>7. GivenBy(SegmentFields["segment"], Default("sequence", 0, "other"), "sequence")
  <2> DEFINE sequence == Default("sequence", 0, "other")
             others == {Required({"id"}, "text"), Required({"length", "inner_diameter", "roughness"}, "number"),
                        Default("start_chainage", 0, "number"),
                        Nullable({"outer_diameter", "wall_thickness", "maop", "minimum_pressure"}, "number"),
                        Nullable({"material", "label"}, "text"), StatusField, List("fittings", "fitting")}
  <2>1. SegmentFields["segment"] = Join({sequence} \cup others)
    <3>1. SegmentFields["segment"] = Join({Required({"id"}, "text"), Default("sequence", 0, "other"),
          Required({"length", "inner_diameter", "roughness"}, "number"), Default("start_chainage", 0, "number"),
          Nullable({"outer_diameter", "wall_thickness", "maop", "minimum_pressure"}, "number"),
          Nullable({"material", "label"}, "text"), StatusField, List("fittings", "fitting")})
      BY DEF SegmentFields
    <3>2. {Required({"id"}, "text"), Default("sequence", 0, "other"),
          Required({"length", "inner_diameter", "roughness"}, "number"), Default("start_chainage", 0, "number"),
          Nullable({"outer_diameter", "wall_thickness", "maop", "minimum_pressure"}, "number"),
          Nullable({"material", "label"}, "text"), StatusField, List("fittings", "fitting")} = {sequence} \cup others
      OBVIOUS
    <3> QED
      BY <3>1, <3>2
  <2>2. \A u \in others : "sequence" \notin DOMAIN u
    BY DEF Required, Nullable, Default, StatusField, List, Nest
  <2>3. "sequence" \in DOMAIN sequence
    BY DEF Default
  <2> HIDE DEF others, sequence
  <2>4. \A u \in {sequence} \cup others : "sequence" \in DOMAIN u => u["sequence"] = sequence["sequence"]
    BY <2>2
  <2>5. GivenBy(Join({sequence} \cup others), sequence, "sequence")
    BY <2>3, <2>4, JoinedGives
  <2> QED
    BY <2>1, <2>5 DEF sequence
<1>8. GivenBy(StationFields["station"], Required({"chainage", "elevation"}, "number"), "chainage")
  <2> DEFINE place == Required({"chainage", "elevation"}, "number")
             tables == {Required({"id", "name"}, "text"), place, List("groups", "group"),
                        Default("arrangement", 0, "other"), StatusField, Nullable({"label"}, "text"),
                        Nullable({"suction_pressure_min", "discharge_pressure_max", "suction_line_diameter"}, "number"),
                        Default("suction_line_k", 0, "number"), Default("bypass_k", 0, "number"),
                        Default("drive_efficiency", Whole, "number")}
  <2>1. StationFields["station"] = Join(tables)
    BY DEF StationFields
  <2>2. "chainage" \in DOMAIN place /\ place \in tables
    BY DEF Required
  <2>3. \A u \in tables : u = place \/ "chainage" \notin DOMAIN u
    <3> DEFINE far == {"id", "name", "groups", "arrangement", "status", "label", "suction_pressure_min",
                       "discharge_pressure_max", "suction_line_diameter", "suction_line_k", "bypass_k", "drive_efficiency"}
    <3>1. \A u \in tables : u = place \/ DOMAIN u \subseteq far
      BY DEF Required, Nullable, Default, StatusField, List, Nest
    <3> QED
      BY <3>1
  <2> HIDE DEF tables, place
  <2>4. GivenBy(Join(tables), place, "chainage")
    BY <2>2, <2>3, JoinedGives
  <2> QED
    BY <2>1, <2>4 DEF place
<1>9. GivenBy(NetworkFields["injection"], Required({"chainage", "flow"}, "number"), "chainage")
  BY JoinedGives DEF NetworkFields, Required, Nullable, Default, StatusField, Rule
<1>10. GivenBy(PumpFields["pump"], Required({"id", "model_id"}, "text"), "model_id")
  BY JoinedGives DEF PumpFields, Required, Nullable, Default, StatusField, Rule
<1>11. GivenBy(PumpModelFields["pump_model"], Required({"id", "name"}, "text"), "id")
  BY JoinedGives DEF PumpModelFields, Required, Nullable, Default, One, FullList, Nest, Rule
<1>12. /\ Fields["network"] = NetworkFields["network"] /\ Fields["injection"] = NetworkFields["injection"]
       /\ Fields["station"] = StationFields["station"] /\ Fields["group"] = StationFields["group"]
       /\ Fields["input"] = InputFields["input"] /\ Fields["segment"] = SegmentFields["segment"]
       /\ Fields["pump"] = PumpFields["pump"] /\ Fields["pump_model"] = PumpModelFields["pump_model"]
       /\ Fields["equipment"] = InputFields["equipment"]
  BY FieldsGiven DEF GivenBy
<1>13. /\ Nested("equipment") = {"pump_models"} /\ Scalars("equipment") = {}
       /\ Part("equipment", "pump_models") = "pump_model"
  <2>1. Fields["equipment"] = [n \in {"pump_models"} |-> Rule("default", <<>>, "nested", "pump_model")]
    BY <1>12 DEF InputFields, List, Nest
  <2> QED
    BY <2>1 DEF Nested, Scalars, Part, Rule, ScalarNames, NestedNames
<1>14. Scalars("input") = {}
  <2>1. DOMAIN Fields["input"] \subseteq DOMAIN KinOf("input")
    <3>1. DOMAIN Fields["input"] \subseteq WrittenFields["input"]
      BY FieldsAreWritten DEF Classes
    <3>2. WrittenFields["input"] = DOMAIN KinOf("input")
      BY DEF WrittenFields, InputWritten, KinOf
    <3> QED
      BY <3>1, <3>2
  <2> QED
    BY <2>1, NestedIsKin DEF Classes, Scalars, ScalarNames
<1> USE DEF GivenBy, Nested, Scalars, ScalarNames, NestedNames
<1>15. /\ Fields["network"]["segments"] = Rule("required", <<>>, "nested", "segment")
       /\ Fields["network"]["stations"] = Rule("default", <<>>, "nested", "station")
       /\ Fields["network"]["injections"] = Rule("default", <<>>, "nested", "injection")
       /\ {"segments", "stations", "injections"} \subseteq Nested("network")
  BY <1>1, <1>2, <1>3, <1>12 DEF FullList, List, Nest, Rule
<1>16. "groups" \in Nested("station") /\ "pumps" \in Nested("group")
  BY <1>4, <1>5, <1>12 DEF FullList, List, Nest, Rule
<1>17. Fields["input"]["network"] = Rule("required", <<>>, "nested", "network") /\ "network" \in Nested("input")
  BY <1>6, <1>12 DEF One, FullList, Nest, Rule
<1>18. /\ "sequence" \in Scalars("segment") /\ Fields["segment"]["sequence"] = Rule("default", 0, "other", None)
       /\ "chainage" \in Scalars("station") /\ Fields["station"]["chainage"] = Rule("required", None, "number", None)
       /\ "chainage" \in Scalars("injection") /\ Fields["injection"]["chainage"] = Rule("required", None, "number", None)
  BY <1>7, <1>8, <1>9, <1>12 DEF Required, Default, Rule
<1>19. /\ "model_id" \in Scalars("pump") /\ Fields["pump"]["model_id"].type = "text"
       /\ "id" \in Scalars("pump_model") /\ Fields["pump_model"]["id"].type = "text"
  BY <1>10, <1>11, <1>12 DEF Required, Rule
<1> QED
  BY <1>13, <1>14, <1>15, <1>16, <1>17, <1>18, <1>19

\* Scalars that are read again as they are.
OwnSettled(c, own) ==
    /\ DOMAIN own = Scalars(c) /\ own = [f \in Scalars(c) |-> own[f]]
    /\ \A f \in Scalars(c) : own[f] # Refused
    /\ \A doc : doc.own = own => \A f \in Scalars(c) : Taken(Fields[c][f], doc, f) = own[f]

\* What was taken from a document is taken again.
LEMMA ScalarsSettle ==
    ASSUME NEW c \in Classes, NEW doc, \A f \in Scalars(c) : Taken(Fields[c][f], doc, f) # Refused
    PROVE  OwnSettled(c, OwnRead(c, doc))
<1> DEFINE own == OwnRead(c, doc)
<1>1. DOMAIN own = Scalars(c) /\ own = [f \in Scalars(c) |-> own[f]] /\ \A f \in Scalars(c) : own[f] = Taken(Fields[c][f], doc, f)
  BY DEF OwnRead
<1>2. ASSUME NEW f \in Scalars(c), NEW again, again.own = own
      PROVE  Taken(Fields[c][f], again, f) = own[f]
  <2> DEFINE rule == Fields[c][f]
             v == own[f]
  <2>1. /\ rule.need \in {"required", "optional", "default"}
        /\ rule.need = "optional" => rule.default = None
        /\ rule.need = "default" => rule.default \in Int
    BY NestedIsKin, FieldsAreWritten DEF AreRules, IsRule, Scalars, ScalarNames
  <2>2. f \in DOMAIN again.own /\ again.own[f] = v
    BY <1>1, <1>2
  <2>3. v = Taken(rule, doc, f) /\ v # Refused
    BY <1>1
  <2> SUFFICES Taken(rule, again, f) = v
    OBVIOUS
  <2> HIDE DEF v, rule, own
  <2>4. None # Wrong /\ None \notin Int /\ Wrong \notin Int
    BY PackageAssumption
  <2>5. CASE f \notin DOMAIN doc.own
    <3>1. v = rule.default /\ rule.need # "required"
      BY <2>3, <2>5 DEF Taken
    <3> QED
      BY <2>1, <2>2, <2>4, <3>1 DEF Taken
  <2>6. CASE f \in DOMAIN doc.own /\ doc.own[f] = None
    <3>1. v = None /\ rule.need = "optional" /\ rule.default = None
      BY <2>1, <2>3, <2>4, <2>6 DEF Taken
    <3> QED
      BY <2>2, <2>4, <3>1 DEF Taken
  <2>7. CASE f \in DOMAIN doc.own /\ doc.own[f] # None
    <3>1. /\ v = doc.own[f] /\ v # Wrong /\ v # None
          /\ ~(rule.need = "required" /\ rule.type = "text" /\ v = 0)
      BY <2>3, <2>7 DEF Taken
    <3> QED
      BY <2>2, <3>1 DEF Taken
  <2> QED
    BY <2>5, <2>6, <2>7
<1>3. \A again : again.own = own => \A f \in Scalars(c) : Taken(Fields[c][f], again, f) = own[f]
  BY <1>2
<1> HIDE DEF own
<1>4. \A f \in Scalars(c) : own[f] # Refused
  BY <1>1
<1> QED
  BY <1>1, <1>3, <1>4 DEF OwnSettled, own

\* The lists of a network, as they are sorted.
AreSortable(kids) == \A k \in DOMAIN SortedBy : IsSortable(SortedBy[k], kids[k])

\* The lists of a network are arranged once: to arrange them again changes nothing.
LEMMA ArrangedStays ==
    ASSUME NEW kids, kids = [k \in Nested("network") |-> kids[k]], AreSortable(kids)
    PROVE  /\ DOMAIN Arranged(kids) = Nested("network") /\ Arranged(kids) = [k \in Nested("network") |-> Arranged(kids)[k]]
           /\ Arranged(Arranged(kids)) = Arranged(kids)
           /\ \A k \in Nested("network") : /\ DOMAIN Arranged(kids)[k] = DOMAIN kids[k]
                                           /\ \A i \in DOMAIN kids[k] : Arranged(kids)[k][i] \in Range(kids[k])
           /\ \A k \in Nested("network") \ DOMAIN SortedBy : Arranged(kids)[k] = kids[k]
           /\ \A k \in DOMAIN SortedBy : Arranged(kids)[k] = By(SortedBy[k], kids[k])
<1> DEFINE out == Arranged(kids)
<1>1. /\ DOMAIN SortedBy = {"segments", "stations", "injections"}
      /\ SortedBy["segments"] = "sequence" /\ SortedBy["stations"] = "chainage" /\ SortedBy["injections"] = "chainage"
  BY DEF SortedBy
<1>2. {"segments", "stations", "injections"} \subseteq Nested("network")
  BY FieldsNamed
<1>3. \A in : in = [k \in Nested("network") |-> in[k]] =>
          /\ DOMAIN Arranged(in) = Nested("network") /\ Arranged(in) = [k \in Nested("network") |-> Arranged(in)[k]]
          /\ \A k \in Nested("network") \ DOMAIN SortedBy : Arranged(in)[k] = in[k]
          /\ \A k \in DOMAIN SortedBy : Arranged(in)[k] = By(SortedBy[k], in[k])
  BY <1>1, <1>2 DEF Arranged
<1>4. \A k \in DOMAIN SortedBy : /\ DOMAIN By(SortedBy[k], kids[k]) = DOMAIN kids[k]
                                 /\ \A i \in DOMAIN kids[k] : By(SortedBy[k], kids[k])[i] \in Range(kids[k])
                                 /\ By(SortedBy[k], By(SortedBy[k], kids[k])) = By(SortedBy[k], kids[k])
  <2> TAKE k \in DOMAIN SortedBy
  <2> DEFINE key == SortedBy[k]
             s == kids[k]
             t == By(key, s)
  <2>1. IsSortable(key, s)
    BY DEF AreSortable
  <2> HIDE DEF key, s
  <2>2. /\ DOMAIN t = DOMAIN s /\ DOMAIN s = 1..Len(s) /\ Len(s) \in Nat
        /\ \A n \in DOMAIN s : t[n] \in Range(s)
        /\ \A m, n \in DOMAIN s : m <= n => t[m].own[key] <= t[n].own[key]
    BY <2>1, SortPermutes
  <2>3. t = [n \in 1..Len(s) |-> t[n]]
    BY <2>2 DEF By
  <2>4. \A n \in 1..Len(s) : t[n].own[key] \in Int
    BY <2>1, <2>2 DEF IsSortable
  <2> HIDE DEF t
  <2>5. By(key, t) = t
    BY <2>2, <2>3, <2>4, SortedStays
  <2> QED
    BY <2>2, <2>5 DEF t, s, key
<1>5. /\ DOMAIN out = Nested("network") /\ out = [k \in Nested("network") |-> out[k]]
      /\ \A k \in Nested("network") \ DOMAIN SortedBy : out[k] = kids[k]
      /\ \A k \in DOMAIN SortedBy : out[k] = By(SortedBy[k], kids[k])
  BY <1>3
<1> HIDE DEF out
<1>6. \A k \in Nested("network") : Arranged(out)[k] = out[k]
  <2>1. /\ \A k \in Nested("network") \ DOMAIN SortedBy : Arranged(out)[k] = out[k]
        /\ \A k \in DOMAIN SortedBy : Arranged(out)[k] = By(SortedBy[k], out[k])
    BY <1>3, <1>5
  <2>2. \A k \in DOMAIN SortedBy : By(SortedBy[k], out[k]) = out[k]
    BY <1>4, <1>5
  <2> QED
    BY <2>1, <2>2
<1>7. Arranged(out) = out
  BY <1>3, <1>5, <1>6
<1>8. \A k \in Nested("network") : DOMAIN out[k] = DOMAIN kids[k] /\ \A i \in DOMAIN kids[k] : out[k][i] \in Range(kids[k])
  <2>1. \A k \in Nested("network") : \A i \in DOMAIN kids[k] : kids[k][i] \in Range(kids[k])
    BY DEF Range
  <2> QED
    BY <1>4, <1>5, <2>1
<1> QED
  BY <1>5, <1>7, <1>8 DEF out

\* What is nested in an object of a class.
AreLists(c, kids) ==
    kids = [k \in Nested(c) |-> kids[k]] /\ \A k \in Nested(c) : kids[k] = [i \in DOMAIN kids[k] |-> kids[k][i]]

\* An object that was read, but for what is nested in it.
Settled(c, o, models) ==
    /\ o = [own |-> o.own, kids |-> o.kids] /\ o # Refused /\ OwnSettled(c, o.own) /\ IsSound(c, o)
    /\ c = "pump" => /\ o.kids = [model |-> <<o.kids.model[1]>>]
                     /\ ModelsNamed(models, o.own.model_id) = {o.kids.model[1]}
    /\ c # "pump" => AreLists(c, o.kids)
    /\ c = "network" => Arranged(o.kids) = o.kids
    /\ c = "input" => DOMAIN o.kids.network = {1}

\* What is read is settled, and what is nested in it is what was read before it.
LEMMA ReadIsSettled ==
    ASSUME NEW c \in Classes, NEW doc, NEW models, AreDistinct(models), NEW kids, AreLists(c, kids),
           NEW o, o = Assembled(c, doc, kids, models), o # Refused,
           c = "network" => AreSortable(kids), c = "input" => DOMAIN kids.network = {1}
    PROVE  /\ Settled(c, o, models) /\ AllRead(kids) /\ CanBeRead(c, doc) /\ o.own = OwnRead(c, doc)
           /\ c \notin {"pump", "network"} => o.kids = kids
           /\ c # "pump" => \A k \in Nested(c) : /\ DOMAIN o.kids[k] = DOMAIN kids[k]
                                                 /\ \A i \in DOMAIN kids[k] : o.kids[k][i] \in Range(kids[k])
<1> DEFINE own == OwnRead(c, doc)
           m == CHOOSE m \in ModelsNamed(models, own.model_id) : TRUE
<1>1. /\ CanBeRead(c, doc) /\ AllRead(kids) /\ IsSound(c, Object(c, own, kids, models))
      /\ c = "pump" => ModelsNamed(models, own.model_id) # {}
      /\ o = Object(c, own, kids, models)
  BY DEF Assembled, Constructed, IfSound
<1>2. OwnSettled(c, own)
  BY <1>1, ScalarsSettle DEF CanBeRead
<1> HIDE DEF own
<1>3. o.own = own /\ o = [own |-> o.own, kids |-> o.kids] /\ IsSound(c, o)
  BY <1>1 DEF Object
<1>4. CASE c = "pump"
  <2>1. m \in ModelsNamed(models, own.model_id)
    BY <1>1, <1>4
  <2>2. \A n \in ModelsNamed(models, own.model_id) : n = m
    <3> HIDE DEF m
    <3> QED
      BY <2>1 DEF ModelsNamed, AreDistinct
  <2>3. o.kids = [model |-> <<m>>]
    BY <1>1, <1>4 DEF Object
  <2> HIDE DEF m
  <2>4. o.kids.model[1] = m /\ o.kids = [model |-> <<o.kids.model[1]>>]
    BY <2>3
  <2>5. ModelsNamed(models, own.model_id) = {m}
    BY <2>1, <2>2
  <2>6. Settled(c, o, models)
    BY <1>2, <1>3, <1>4, <2>4, <2>5 DEF Settled
  <2> QED
    BY <1>1, <1>3, <1>4, <2>6 DEF own
<1>5. CASE c = "network"
  <2>1. o.kids = Arranged(kids)
    BY <1>1, <1>5 DEF Object
  <2>2. kids = [k \in Nested("network") |-> kids[k]] /\ AreSortable(kids)
    BY <1>5 DEF AreLists
  <2>3. /\ Arranged(kids) = [k \in Nested("network") |-> Arranged(kids)[k]]
        /\ Arranged(Arranged(kids)) = Arranged(kids)
        /\ \A k \in Nested("network") : /\ DOMAIN Arranged(kids)[k] = DOMAIN kids[k]
                                        /\ \A i \in DOMAIN kids[k] : Arranged(kids)[k][i] \in Range(kids[k])
        /\ \A k \in Nested("network") \ DOMAIN SortedBy : Arranged(kids)[k] = kids[k]
        /\ \A k \in DOMAIN SortedBy : Arranged(kids)[k] = By(SortedBy[k], kids[k])
    BY <2>2, ArrangedStays
  <2>4. \A key, s : By(key, s) = [i \in DOMAIN By(key, s) |-> By(key, s)[i]]
    BY DEF By
  <2>5. \A k \in Nested("network") : Arranged(kids)[k] = [i \in DOMAIN Arranged(kids)[k] |-> Arranged(kids)[k][i]]
    BY <1>5, <2>3, <2>4 DEF AreLists
  <2>6. AreLists(c, o.kids)
    BY <1>5, <2>1, <2>3, <2>5 DEF AreLists
  <2>7. Settled(c, o, models)
    BY <1>2, <1>3, <1>5, <2>1, <2>3, <2>6 DEF Settled
  <2> QED
    BY <1>1, <1>3, <1>5, <2>1, <2>3, <2>7 DEF own
<1>6. CASE c \notin {"pump", "network"}
  <2>1. o.kids = kids
    BY <1>1, <1>6 DEF Object
  <2>2. \A k \in Nested(c) : \A i \in DOMAIN kids[k] : kids[k][i] \in Range(kids[k])
    BY DEF Range
  <2>3. Settled(c, o, models)
    BY <1>2, <1>3, <1>6, <2>1 DEF Settled
  <2> QED
    BY <1>1, <1>3, <1>6, <2>1, <2>2, <2>3 DEF own
<1> QED
  BY <1>4, <1>5, <1>6

\* What is settled is read again from what is written of it.
LEMMA SettledIsRead ==
    ASSUME NEW c \in Classes, NEW o, NEW models, Settled(c, o, models), NEW doc, doc.own = OwnWritten(c, o),
           Nested(c) \subseteq DOMAIN doc.kids, NEW kids, AllRead(kids), c # "pump" => kids = o.kids
    PROVE  Assembled(c, doc, kids, models) = o
<1>1. OwnWritten(c, o) = o.own
  <2>1. Scalars(c) \cap WrittenFields[c] = Scalars(c)
    BY FieldsAreWritten DEF Scalars, ScalarNames
  <2> QED
    BY <2>1 DEF OwnWritten, Settled, OwnSettled
<1>2. OwnRead(c, doc) = o.own /\ CanBeRead(c, doc)
  <2>1. \A f \in Scalars(c) : Taken(Fields[c][f], doc, f) = o.own[f] /\ o.own[f] # Refused
    BY <1>1 DEF Settled, OwnSettled
  <2>2. o.own = [f \in Scalars(c) |-> o.own[f]]
    BY DEF Settled, OwnSettled
  <2> QED
    BY <2>1, <2>2 DEF OwnRead, CanBeRead, IsGiven
<1>3. Object(c, o.own, kids, models) = o /\ (c = "pump" => ModelsNamed(models, o.own.model_id) # {})
  <2>1. CASE c = "pump"
    <3>1. (CHOOSE m \in ModelsNamed(models, o.own.model_id) : TRUE) = o.kids.model[1]
      BY <2>1 DEF Settled
    <3> QED
      BY <2>1, <3>1 DEF Settled, Object
  <2>2. CASE c # "pump"
    BY <2>2 DEF Settled, Object
  <2> QED
    BY <2>1, <2>2
<1> QED
  BY <1>2, <1>3 DEF Assembled, Settled, Constructed, IfSound

\* What is read, to the last part.
WellRead0(c, o, models) == Settled(c, o, models)
WellRead1(c, o, models) ==
    Settled(c, o, models) /\ \A k \in Nested(c) : \A i \in DOMAIN o.kids[k] : WellRead0(Part(c, k), o.kids[k][i], models)
WellRead2(c, o, models) ==
    Settled(c, o, models) /\ \A k \in Nested(c) : \A i \in DOMAIN o.kids[k] : WellRead1(Part(c, k), o.kids[k][i], models)
WellRead3(c, o, models) ==
    Settled(c, o, models) /\ \A k \in Nested(c) : \A i \in DOMAIN o.kids[k] : WellRead2(Part(c, k), o.kids[k][i], models)
WellRead(c, o, models) ==
    Settled(c, o, models) /\ \A k \in Nested(c) : \A i \in DOMAIN o.kids[k] : WellRead3(Part(c, k), o.kids[k][i], models)

\* The rows of a network are sorted by what was read of them.
LEMMA ListedIsSortable ==
    ASSUME NEW doc, IsListed(doc), NEW models, NEW kids, AllRead(kids),
           kids = [k \in Nested("network") |-> [i \in DOMAIN Docs("network", doc, k) |->
                      Decoded2(Part("network", k), Docs("network", doc, k)[i], models)]]
    PROVE  AreSortable(kids)
<1> SUFFICES ASSUME NEW k \in DOMAIN SortedBy PROVE IsSortable(SortedBy[k], kids[k])
  BY DEF AreSortable
<1> DEFINE entries == Docs("network", doc, k)
           key == SortedBy[k]
           c == Part("network", k)
<1>1. k \in {"segments", "stations", "injections"} /\ k \in Nested("network")
  BY FieldsNamed DEF SortedBy
<1>2. /\ key \in Scalars(c) /\ Fields[c][key].need # "optional"
      /\ Fields[c][key].need # "required" => Fields[c][key].default \in Int
  <2>1. c = IF k = "segments" THEN "segment" ELSE IF k = "stations" THEN "station" ELSE "injection"
    BY <1>1, FieldsNamed DEF Part, Rule
  <2>2. key = IF k = "segments" THEN "sequence" ELSE "chainage"
    BY <1>1 DEF SortedBy
  <2> QED
    BY <1>1, <2>1, <2>2, FieldsNamed DEF Rule
<1>3. /\ entries \in Seq(Range(entries))
      /\ \A i \in DOMAIN entries : key \in DOMAIN entries[i].own => entries[i].own[key] \in Int \cup {None, Wrong}
  <2>1. CASE k \in DOMAIN doc.kids
    <3>1. entries = doc.kids[k]
      BY <2>1 DEF Docs, NestedIn
    <3>2. /\ doc.kids[k] \in Seq(Range(doc.kids[k]))
          /\ \A row \in Range(doc.kids[k]) : key \in DOMAIN row.own => row.own[key] \in Int \cup {None, Wrong}
      BY <2>1 DEF IsListed
    <3>3. \A i \in DOMAIN doc.kids[k] : doc.kids[k][i] \in Range(doc.kids[k])
      BY DEF Range
    <3> HIDE DEF key
    <3> QED
      BY <3>1, <3>2, <3>3
  <2>2. CASE k \notin DOMAIN doc.kids
    <3>1. entries = <<>>
      BY <1>1, <2>2, FieldsNamed DEF Docs, NestedIn, Rule
    <3>2. DOMAIN <<>> = {} /\ <<>> \in Seq(Range(<<>>))
      OBVIOUS
    <3> HIDE DEF entries
    <3> QED
      BY <3>1, <3>2
  <2> QED
    BY <2>1, <2>2
<1>4. kids[k] = [i \in DOMAIN entries |-> Decoded2(c, entries[i], models)]
  BY <1>1
<1>5. ASSUME NEW i \in DOMAIN entries PROVE kids[k][i].own[key] \in Int
  <2>1. kids[k][i] # Refused
    BY <1>1, <1>4 DEF AllRead
  <2>2. CanBeRead(c, entries[i]) /\ kids[k][i].own = OwnRead(c, entries[i])
    <3>1. \A d : Decoded2(c, d, models) # Refused => CanBeRead(c, d) /\ Decoded2(c, d, models).own = OwnRead(c, d)
      BY DEF Decoded2, Assembled, Object, Constructed, IfSound
    <3> QED
      BY <1>4, <2>1, <3>1
  <2>3. kids[k][i].own[key] = Taken(Fields[c][key], entries[i], key) /\ Taken(Fields[c][key], entries[i], key) # Refused
    BY <1>2, <2>2 DEF CanBeRead, OwnRead
  <2> QED
    BY <1>2, <1>3, <2>3 DEF Taken
<1>6. kids[k] \in Seq(Range(kids[k]))
  <2>1. DOMAIN entries = 1..Len(entries) /\ Len(entries) \in Nat
    BY <1>3
  <2>2. DOMAIN kids[k] = 1..Len(entries) /\ \A i \in 1..Len(entries) : kids[k][i] \in Range(kids[k])
    BY <1>4, <2>1 DEF Range
  <2>3. kids[k] \in [1..Len(entries) -> Range(kids[k])]
    BY <1>4, <2>1, <2>2
  <2> QED
    BY <2>1, <2>3, FunctionIsSequence
<1> QED
  BY <1>4, <1>5, <1>6 DEF IsSortable, Range

\* What is read is well read, class by class.
LEMMA Read0 ==
    ASSUME NEW c \in Leaves, NEW doc, NEW models, AreDistinct(models), Decoded0(c, doc, models) # Refused
    PROVE  WellRead0(c, Decoded0(c, doc, models), models)
<1> DEFINE kids == <<>>
<1>1. c \in Classes /\ c \notin {"network", "input"}
  BY DEF Classes, Roots, Trunks, Branches, Leaves
<1>2. AreLists(c, kids)
  <2>1. Nested(c) = {}
    BY Depths
  <2> QED
    BY <2>1 DEF AreLists
<1> HIDE DEF kids
<1>3. Decoded0(c, doc, models) = Assembled(c, doc, kids, models)
  BY DEF Decoded0, kids
<1> QED
  BY <1>1, <1>2, <1>3, ReadIsSettled DEF WellRead0

\* An object that is read holds objects that are well read: one depth after the other.
LEMMA Read1 ==
    ASSUME NEW c \in Branches, NEW doc, NEW models, AreDistinct(models), Decoded1(c, doc, models) # Refused
    PROVE  WellRead1(c, Decoded1(c, doc, models), models)
<1> DEFINE entries(k) == Docs(c, doc, k)
           kids == [k \in Nested(c) |-> [i \in DOMAIN entries(k) |-> Decoded0(Part(c, k), entries(k)[i], models)]]
           o == Assembled(c, doc, kids, models)
<1>1. c \in Classes /\ c # "input" /\ c # "network"
  BY DEF Classes, Roots, Trunks, Branches, Leaves
<1>2. AreLists(c, kids)
  BY DEF AreLists
<1>3. Decoded1(c, doc, models) = o
  BY DEF Decoded1
<1>6. \A k \in Nested(c) : /\ Part(c, k) \in Leaves /\ DOMAIN kids[k] = DOMAIN entries(k)
                            /\ \A i \in DOMAIN entries(k) : kids[k][i] = Decoded0(Part(c, k), entries(k)[i], models)
  BY Depths
<1> HIDE DEF kids, entries
<1>7. /\ Settled(c, o, models) /\ AllRead(kids)
      /\ c # "pump" => \A k \in Nested(c) : /\ DOMAIN o.kids[k] = DOMAIN kids[k]
                                            /\ \A i \in DOMAIN kids[k] : o.kids[k][i] \in Range(kids[k])
  BY <1>1, <1>2, <1>3, ReadIsSettled
<1>8. \A k \in Nested(c) : \A x \in Range(kids[k]) : WellRead0(Part(c, k), x, models)
  <2> SUFFICES ASSUME NEW k \in Nested(c), NEW i \in DOMAIN entries(k) PROVE WellRead0(Part(c, k), kids[k][i], models)
    BY <1>6 DEF Range
  <2>1. kids[k][i] = Decoded0(Part(c, k), entries(k)[i], models) /\ Part(c, k) \in Leaves
    BY <1>6
  <2>2. kids[k][i] # Refused
    BY <1>2, <1>6, <1>7 DEF AllRead, AreLists
  <2> QED
    BY <2>1, <2>2, Read0
<1>9. c # "pump" \/ Nested(c) = {}
  BY Depths DEF Leaves
<1> QED
  BY <1>3, <1>7, <1>8, <1>9 DEF WellRead1

LEMMA Read2 ==
    ASSUME NEW c \in Trunks, NEW doc, NEW models, AreDistinct(models), Decoded2(c, doc, models) # Refused
    PROVE  WellRead2(c, Decoded2(c, doc, models), models)
<1> DEFINE entries(k) == Docs(c, doc, k)
           kids == [k \in Nested(c) |-> [i \in DOMAIN entries(k) |-> Decoded1(Part(c, k), entries(k)[i], models)]]
           o == Assembled(c, doc, kids, models)
<1>1. c \in Classes /\ c # "input" /\ c # "network"
  BY DEF Classes, Roots, Trunks, Branches, Leaves
<1>2. AreLists(c, kids)
  BY DEF AreLists
<1>3. Decoded2(c, doc, models) = o
  BY DEF Decoded2
<1>6. \A k \in Nested(c) : /\ Part(c, k) \in Branches /\ DOMAIN kids[k] = DOMAIN entries(k)
                            /\ \A i \in DOMAIN entries(k) : kids[k][i] = Decoded1(Part(c, k), entries(k)[i], models)
  BY Depths
<1> HIDE DEF kids, entries
<1>7. /\ Settled(c, o, models) /\ AllRead(kids)
      /\ c # "pump" => \A k \in Nested(c) : /\ DOMAIN o.kids[k] = DOMAIN kids[k]
                                            /\ \A i \in DOMAIN kids[k] : o.kids[k][i] \in Range(kids[k])
  BY <1>1, <1>2, <1>3, ReadIsSettled
<1>8. \A k \in Nested(c) : \A x \in Range(kids[k]) : WellRead1(Part(c, k), x, models)
  <2> SUFFICES ASSUME NEW k \in Nested(c), NEW i \in DOMAIN entries(k) PROVE WellRead1(Part(c, k), kids[k][i], models)
    BY <1>6 DEF Range
  <2>1. kids[k][i] = Decoded1(Part(c, k), entries(k)[i], models) /\ Part(c, k) \in Branches
    BY <1>6
  <2>2. kids[k][i] # Refused
    BY <1>2, <1>6, <1>7 DEF AllRead, AreLists
  <2> QED
    BY <2>1, <2>2, Read1
<1>9. c # "pump" \/ Nested(c) = {}
  BY Depths DEF Leaves
<1> QED
  BY <1>3, <1>7, <1>8, <1>9 DEF WellRead2

LEMMA Read3 ==
    ASSUME NEW c \in Roots, NEW doc, NEW models, AreDistinct(models), Decoded3(c, doc, models) # Refused,
           c = "network" => IsListed(doc)
    PROVE  WellRead3(c, Decoded3(c, doc, models), models)
<1> DEFINE entries(k) == Docs(c, doc, k)
           kids == [k \in Nested(c) |-> [i \in DOMAIN entries(k) |-> Decoded2(Part(c, k), entries(k)[i], models)]]
           o == Assembled(c, doc, kids, models)
<1>1. c \in Classes /\ c # "input"
  BY DEF Classes, Roots, Trunks, Branches, Leaves
<1>2. AreLists(c, kids)
  BY DEF AreLists
<1>3. Decoded3(c, doc, models) = o
  BY DEF Decoded3
<1>4. AllRead(kids)
  <2> HIDE DEF kids
  <2> QED
    BY <1>3 DEF Assembled, Constructed, IfSound
<1>5. c = "network" => AreSortable(kids)
  BY <1>4, ListedIsSortable
<1>6. \A k \in Nested(c) : /\ Part(c, k) \in Trunks /\ DOMAIN kids[k] = DOMAIN entries(k)
                            /\ \A i \in DOMAIN entries(k) : kids[k][i] = Decoded2(Part(c, k), entries(k)[i], models)
  BY Depths
<1> HIDE DEF kids, entries
<1>7. /\ Settled(c, o, models) /\ AllRead(kids)
      /\ c # "pump" => \A k \in Nested(c) : /\ DOMAIN o.kids[k] = DOMAIN kids[k]
                                            /\ \A i \in DOMAIN kids[k] : o.kids[k][i] \in Range(kids[k])
  BY <1>1, <1>2, <1>3, <1>5, ReadIsSettled
<1>8. \A k \in Nested(c) : \A x \in Range(kids[k]) : WellRead2(Part(c, k), x, models)
  <2> SUFFICES ASSUME NEW k \in Nested(c), NEW i \in DOMAIN entries(k) PROVE WellRead2(Part(c, k), kids[k][i], models)
    BY <1>6 DEF Range
  <2>1. kids[k][i] = Decoded2(Part(c, k), entries(k)[i], models) /\ Part(c, k) \in Trunks
    BY <1>6
  <2>2. kids[k][i] # Refused
    BY <1>2, <1>6, <1>7 DEF AllRead, AreLists
  <2> QED
    BY <2>1, <2>2, Read2
<1>9. c # "pump" \/ Nested(c) = {}
  BY Depths DEF Leaves
<1> QED
  BY <1>3, <1>7, <1>8, <1>9 DEF WellRead3

\* The input of a document is well read.
LEMMA Read ==
    ASSUME NEW doc, IsDocument(doc), NEW models, AreDistinct(models), Decoded("input", doc, models) # Refused
    PROVE  WellRead("input", Decoded("input", doc, models), models)
<1> DEFINE entries(k) == Docs("input", doc, k)
           kids == [k \in Nested("input") |-> [i \in DOMAIN entries(k) |-> Decoded3(Part("input", k), entries(k)[i], models)]]
           o == Assembled("input", doc, kids, models)
<1>1. "input" \in Classes
  BY DEF Classes
<1>2. AreLists("input", kids)
  BY DEF AreLists
<1>3. Decoded("input", doc, models) = o
  BY DEF Decoded
<1>4. CanBeRead("input", doc)
  <2> HIDE DEF kids
  <2> QED
    BY <1>3 DEF Assembled, Constructed, IfSound
<1>5. entries("network") = doc.kids.network /\ DOMAIN entries("network") = {1} /\ IsListed(entries("network")[1])
  <2>1. "network" \in Nested("input") /\ Fields["input"]["network"].need = "required"
    BY FieldsNamed DEF Rule
  <2>2. "network" \in DOMAIN doc.kids
    BY <1>4, <2>1 DEF CanBeRead, IsGiven
  <2> QED
    BY <2>2 DEF Docs, NestedIn, IsDocument
<1>6. \A k \in Nested("input") : /\ Part("input", k) \in Roots /\ DOMAIN kids[k] = DOMAIN entries(k)
                                 /\ \A i \in DOMAIN entries(k) : kids[k][i] = Decoded3(Part("input", k), entries(k)[i], models)
                                 /\ Part("input", k) = "network" => k = "network"
  <2>1. \A k \in Nested("input") : Part("input", k) = "network" => k = "network"
    <3>1. \A k \in DOMAIN KinOf("input") : KinOf("input")[k] = "network" => k = "network"
      BY DEF KinOf
    <3> QED
      BY <1>1, <3>1, NestedIsKin
  <2>2. \A k \in Nested("input") : Part("input", k) \in Roots
    BY <1>1, Depths
  <2>3. \A k \in Nested("input") : /\ DOMAIN kids[k] = DOMAIN entries(k)
                                   /\ \A i \in DOMAIN entries(k) : kids[k][i] = Decoded3(Part("input", k), entries(k)[i], models)
    OBVIOUS
  <2> QED
    BY <2>1, <2>2, <2>3
<1>7. DOMAIN kids.network = {1}
  BY <1>5, FieldsNamed
<1> HIDE DEF kids, entries
<1>8. /\ Settled("input", o, models) /\ AllRead(kids)
      /\ \A k \in Nested("input") : /\ DOMAIN o.kids[k] = DOMAIN kids[k]
                                    /\ \A i \in DOMAIN kids[k] : o.kids[k][i] \in Range(kids[k])
  BY <1>1, <1>2, <1>3, <1>7, ReadIsSettled
<1>9. \A k \in Nested("input") : \A x \in Range(kids[k]) : WellRead3(Part("input", k), x, models)
  <2> SUFFICES ASSUME NEW k \in Nested("input"), NEW i \in DOMAIN entries(k) PROVE WellRead3(Part("input", k), kids[k][i], models)
    BY <1>6 DEF Range
  <2>1. kids[k][i] = Decoded3(Part("input", k), entries(k)[i], models) /\ Part("input", k) \in Roots
    BY <1>6
  <2>2. kids[k][i] # Refused
    BY <1>2, <1>6, <1>8 DEF AllRead, AreLists
  <2>3. Part("input", k) = "network" => IsListed(entries(k)[i])
    BY <1>5, <1>6
  <2> QED
    BY <2>1, <2>2, <2>3, Read3
<1> QED
  BY <1>3, <1>8, <1>9 DEF WellRead

\* What is well read is read again from what is written of it.
LEMMA PartsRead ==
    ASSUME NEW c \in Classes, NEW o, NEW models, Settled(c, o, models), NEW doc, doc.own = OwnWritten(c, o),
           DOMAIN doc.kids = NestWritten(c), NEW kids, AreLists(c, kids),
           \A k \in Nested(c) : /\ DOMAIN kids[k] = DOMAIN o.kids[k]
                                /\ \A i \in DOMAIN o.kids[k] : kids[k][i] = o.kids[k][i] /\ o.kids[k][i] # Refused
    PROVE  Assembled(c, doc, kids, models) = o
<1>1. NestWritten(c) = Nested(c)
  BY FieldsAreWritten DEF NestWritten, Nested, NestedNames
<1>2. AllRead(kids)
  BY DEF AllRead, AreLists
<1>3. c # "pump" => kids = o.kids
  <2>1. c # "pump" => AreLists(c, o.kids)
    BY DEF Settled
  <2>2. \A k \in Nested(c) : c # "pump" => kids[k] = o.kids[k]
    BY <2>1 DEF AreLists
  <2> QED
    BY <2>1, <2>2 DEF AreLists
<1> QED
  BY <1>1, <1>2, <1>3, SettledIsRead

\* What is written of an object that is well read is read back as this object.
LEMMA Reread0 ==
    ASSUME NEW c \in Leaves, NEW o, NEW models, WellRead0(c, o, models)
    PROVE  Decoded0(c, Encoded0(c, o), models) = o
<1> DEFINE doc == Encoded0(c, o)
           kids == <<>>
<1>1. c \in Classes /\ Nested(c) = {} /\ NestWritten(c) = {}
  BY Depths DEF Classes, Roots, Trunks, Branches, NestWritten
<1>2. doc.own = OwnWritten(c, o) /\ DOMAIN doc.kids = NestWritten(c) /\ AreLists(c, kids)
  BY <1>1 DEF Encoded0, AreLists
<1>3. Decoded0(c, doc, models) = Assembled(c, doc, kids, models)
  BY DEF Decoded0
<1> HIDE DEF doc, kids
<1>4. Assembled(c, doc, kids, models) = o
  BY <1>1, <1>2, PartsRead DEF WellRead0
<1> QED
  BY <1>3, <1>4 DEF doc

LEMMA Reread1 ==
    ASSUME NEW c \in Branches, NEW o, NEW models, WellRead1(c, o, models)
    PROVE  Decoded1(c, Encoded1(c, o), models) = o
<1> DEFINE doc == Encoded1(c, o)
           kids == [k \in Nested(c) |-> [i \in DOMAIN Docs(c, doc, k) |-> Decoded0(Part(c, k), Docs(c, doc, k)[i], models)]]
<1>1. c \in Classes /\ NestWritten(c) = Nested(c)
  BY FieldsAreWritten DEF Classes, Roots, Trunks, Branches, NestWritten, Nested, NestedNames
<1>2. doc.own = OwnWritten(c, o) /\ DOMAIN doc.kids = NestWritten(c)
  BY DEF Encoded1
<1>3. \A k \in Nested(c) : Docs(c, doc, k) = [i \in DOMAIN o.kids[k] |-> Encoded0(Part(c, k), o.kids[k][i])]
  BY <1>1 DEF Encoded1, Docs, NestedIn
<1>4. Decoded1(c, doc, models) = Assembled(c, doc, kids, models)
  BY DEF Decoded1
<1> HIDE DEF doc
<1>5. AreLists(c, kids) /\ \A k \in Nested(c) : DOMAIN kids[k] = DOMAIN o.kids[k]
  BY <1>3 DEF AreLists
<1>6. ASSUME NEW k \in Nested(c), NEW i \in DOMAIN o.kids[k]
      PROVE  kids[k][i] = o.kids[k][i] /\ o.kids[k][i] # Refused
  <2>1. WellRead0(Part(c, k), o.kids[k][i], models) /\ Part(c, k) \in Leaves
    BY Depths DEF WellRead1
  <2>2. kids[k][i] = Decoded0(Part(c, k), Encoded0(Part(c, k), o.kids[k][i]), models)
    BY <1>3
  <2>3. kids[k][i] = o.kids[k][i]
    BY <2>1, <2>2, Reread0
  <2> QED
    BY <2>1, <2>3 DEF WellRead0, Settled
<1> HIDE DEF kids
<1>7. Settled(c, o, models)
  BY DEF WellRead1
<1>8. Assembled(c, doc, kids, models) = o
  BY <1>1, <1>2, <1>5, <1>6, <1>7, PartsRead
<1> QED
  BY <1>4, <1>8 DEF doc

LEMMA Reread2 ==
    ASSUME NEW c \in Trunks, NEW o, NEW models, WellRead2(c, o, models)
    PROVE  Decoded2(c, Encoded2(c, o), models) = o
<1> DEFINE doc == Encoded2(c, o)
           kids == [k \in Nested(c) |-> [i \in DOMAIN Docs(c, doc, k) |-> Decoded1(Part(c, k), Docs(c, doc, k)[i], models)]]
<1>1. c \in Classes /\ NestWritten(c) = Nested(c)
  BY FieldsAreWritten DEF Classes, Roots, Trunks, Branches, NestWritten, Nested, NestedNames
<1>2. doc.own = OwnWritten(c, o) /\ DOMAIN doc.kids = NestWritten(c)
  BY DEF Encoded2
<1>3. \A k \in Nested(c) : Docs(c, doc, k) = [i \in DOMAIN o.kids[k] |-> Encoded1(Part(c, k), o.kids[k][i])]
  BY <1>1 DEF Encoded2, Docs, NestedIn
<1>4. Decoded2(c, doc, models) = Assembled(c, doc, kids, models)
  BY DEF Decoded2
<1> HIDE DEF doc
<1>5. AreLists(c, kids) /\ \A k \in Nested(c) : DOMAIN kids[k] = DOMAIN o.kids[k]
  BY <1>3 DEF AreLists
<1>6. ASSUME NEW k \in Nested(c), NEW i \in DOMAIN o.kids[k]
      PROVE  kids[k][i] = o.kids[k][i] /\ o.kids[k][i] # Refused
  <2>1. WellRead1(Part(c, k), o.kids[k][i], models) /\ Part(c, k) \in Branches
    BY Depths DEF WellRead2
  <2>2. kids[k][i] = Decoded1(Part(c, k), Encoded1(Part(c, k), o.kids[k][i]), models)
    BY <1>3
  <2>3. kids[k][i] = o.kids[k][i]
    BY <2>1, <2>2, Reread1
  <2> QED
    BY <2>1, <2>3 DEF WellRead1, Settled
<1> HIDE DEF kids
<1>7. Settled(c, o, models)
  BY DEF WellRead2
<1>8. Assembled(c, doc, kids, models) = o
  BY <1>1, <1>2, <1>5, <1>6, <1>7, PartsRead
<1> QED
  BY <1>4, <1>8 DEF doc

LEMMA Reread3 ==
    ASSUME NEW c \in Roots, NEW o, NEW models, WellRead3(c, o, models)
    PROVE  Decoded3(c, Encoded3(c, o), models) = o
<1> DEFINE doc == Encoded3(c, o)
           kids == [k \in Nested(c) |-> [i \in DOMAIN Docs(c, doc, k) |-> Decoded2(Part(c, k), Docs(c, doc, k)[i], models)]]
<1>1. c \in Classes /\ NestWritten(c) = Nested(c)
  BY FieldsAreWritten DEF Classes, Roots, Trunks, Branches, NestWritten, Nested, NestedNames
<1>2. doc.own = OwnWritten(c, o) /\ DOMAIN doc.kids = NestWritten(c)
  BY DEF Encoded3
<1>3. \A k \in Nested(c) : Docs(c, doc, k) = [i \in DOMAIN o.kids[k] |-> Encoded2(Part(c, k), o.kids[k][i])]
  BY <1>1 DEF Encoded3, Docs, NestedIn
<1>4. Decoded3(c, doc, models) = Assembled(c, doc, kids, models)
  BY DEF Decoded3
<1> HIDE DEF doc
<1>5. AreLists(c, kids) /\ \A k \in Nested(c) : DOMAIN kids[k] = DOMAIN o.kids[k]
  BY <1>3 DEF AreLists
<1>6. ASSUME NEW k \in Nested(c), NEW i \in DOMAIN o.kids[k]
      PROVE  kids[k][i] = o.kids[k][i] /\ o.kids[k][i] # Refused
  <2>1. WellRead2(Part(c, k), o.kids[k][i], models) /\ Part(c, k) \in Trunks
    BY Depths DEF WellRead3
  <2>2. kids[k][i] = Decoded2(Part(c, k), Encoded2(Part(c, k), o.kids[k][i]), models)
    BY <1>3
  <2>3. kids[k][i] = o.kids[k][i]
    BY <2>1, <2>2, Reread2
  <2> QED
    BY <2>1, <2>3 DEF WellRead2, Settled
<1> HIDE DEF kids
<1>7. Settled(c, o, models)
  BY DEF WellRead3
<1>8. Assembled(c, doc, kids, models) = o
  BY <1>1, <1>2, <1>5, <1>6, <1>7, PartsRead
<1> QED
  BY <1>4, <1>8 DEF doc

LEMMA Reread ==
    ASSUME NEW c \in Classes, NEW o, NEW models, WellRead(c, o, models)
    PROVE  Decoded(c, Encoded(c, o), models) = o
<1> DEFINE doc == Encoded(c, o)
           kids == [k \in Nested(c) |-> [i \in DOMAIN Docs(c, doc, k) |-> Decoded3(Part(c, k), Docs(c, doc, k)[i], models)]]
<1>1. c \in Classes /\ NestWritten(c) = Nested(c)
  BY FieldsAreWritten DEF Classes, Roots, Trunks, Branches, NestWritten, Nested, NestedNames
<1>2. doc.own = OwnWritten(c, o) /\ DOMAIN doc.kids = NestWritten(c)
  BY DEF Encoded
<1>3. \A k \in Nested(c) : Docs(c, doc, k) = [i \in DOMAIN o.kids[k] |-> Encoded3(Part(c, k), o.kids[k][i])]
  BY <1>1 DEF Encoded, Docs, NestedIn
<1>4. Decoded(c, doc, models) = Assembled(c, doc, kids, models)
  BY DEF Decoded
<1> HIDE DEF doc
<1>5. AreLists(c, kids) /\ \A k \in Nested(c) : DOMAIN kids[k] = DOMAIN o.kids[k]
  BY <1>3 DEF AreLists
<1>6. ASSUME NEW k \in Nested(c), NEW i \in DOMAIN o.kids[k]
      PROVE  kids[k][i] = o.kids[k][i] /\ o.kids[k][i] # Refused
  <2>1. WellRead3(Part(c, k), o.kids[k][i], models) /\ Part(c, k) \in Roots
    BY Depths DEF WellRead
  <2>2. kids[k][i] = Decoded3(Part(c, k), Encoded3(Part(c, k), o.kids[k][i]), models)
    BY <1>3
  <2>3. kids[k][i] = o.kids[k][i]
    BY <2>1, <2>2, Reread3
  <2> QED
    BY <2>1, <2>3 DEF WellRead3, Settled
<1> HIDE DEF kids
<1>7. Settled(c, o, models)
  BY DEF WellRead
<1>8. Assembled(c, doc, kids, models) = o
  BY <1>1, <1>2, <1>5, <1>6, <1>7, PartsRead
<1> QED
  BY <1>4, <1>8 DEF doc

\* The pumps of an object.
PumpsIn(c, o) ==
    IF c = "pump" THEN {o} ELSE IF c = "group" THEN Range(o.kids.pumps)
    ELSE IF c = "station" THEN UNION {Range(g.kids.pumps) : g \in Range(o.kids.groups)}
    ELSE IF c = "network" THEN PumpsOfNetwork(o) ELSE IF c = "input" THEN PumpsOfNetwork(o.kids.network[1]) ELSE {}

\* The pumps of an object are those of the objects nested in it.
LEMMA PumpsBelow ==
    ASSUME NEW c \in Classes, NEW o, c = "input" => DOMAIN o.kids.network = {1},
           NEW k \in Nested(c), NEW i \in DOMAIN o.kids[k]
    PROVE  PumpsIn(Part(c, k), o.kids[k][i]) \subseteq PumpsIn(c, o)
<1>1. /\ Part(c, k) = "pump" => c = "group" /\ k = "pumps"
      /\ Part(c, k) = "group" => c = "station" /\ k = "groups"
      /\ Part(c, k) = "station" => c = "network" /\ k = "stations"
      /\ Part(c, k) = "network" => c = "input" /\ k = "network"
      /\ Part(c, k) # "input"
  <2> DEFINE kin == KinOf(c)
  <2>1. Part(c, k) = kin[k] /\ k \in DOMAIN kin
    BY NestedIsKin
  <2>2. kin[k] = "pump" => c = "group" /\ k = "pumps"
    BY <2>1 DEF KinOf
  <2>3. kin[k] = "group" => c = "station" /\ k = "groups"
    BY <2>1 DEF KinOf
  <2>4. kin[k] = "station" => c = "network" /\ k = "stations"
    BY <2>1 DEF KinOf
  <2>5. kin[k] = "network" => c = "input" /\ k = "network"
    BY <2>1 DEF KinOf
  <2>6. kin[k] # "input"
    BY <2>1 DEF KinOf
  <2> QED
    BY <2>1, <2>2, <2>3, <2>4, <2>5, <2>6
<1>2. o.kids[k][i] \in Range(o.kids[k])
  BY DEF Range
<1>3. CASE Part(c, k) = "pump"
  BY <1>1, <1>2, <1>3 DEF PumpsIn
<1>4. CASE Part(c, k) = "group"
  BY <1>1, <1>2, <1>4 DEF PumpsIn
<1>5. CASE Part(c, k) = "station"
  BY <1>1, <1>2, <1>5 DEF PumpsIn, PumpsOfNetwork
<1>6. CASE Part(c, k) = "network"
  BY <1>1, <1>6 DEF PumpsIn
<1>7. CASE Part(c, k) \notin {"pump", "group", "station", "network"}
  BY <1>1, <1>7 DEF PumpsIn
<1> QED
  BY <1>3, <1>4, <1>5, <1>6, <1>7

\* What is well read with all the models is well read with those its pumps name.
LEMMA SettledWith ==
    ASSUME NEW c, NEW o, NEW models, NEW used, Settled(c, o, models), used \subseteq models,
           \A p \in PumpsIn(c, o) : p.kids.model[1] \in used
    PROVE  Settled(c, o, used)
<1>1. CASE c = "pump"
  <2>1. o.kids.model[1] \in used
    BY <1>1 DEF PumpsIn
  <2>2. ModelsNamed(models, o.own.model_id) = {o.kids.model[1]}
    BY <1>1 DEF Settled
  <2>3. ModelsNamed(used, o.own.model_id) = {o.kids.model[1]}
    BY <2>1, <2>2 DEF ModelsNamed
  <2> QED
    BY <1>1, <2>3 DEF Settled
<1>2. CASE c # "pump"
  BY <1>2 DEF Settled
<1> QED
  BY <1>1, <1>2

\* An object is well read with any models that hold those of its pumps and are distinct.
LEMMA ReadWith0 ==
    ASSUME NEW c \in Leaves, NEW o, NEW models, NEW used, WellRead0(c, o, models), used \subseteq models,
           \A p \in PumpsIn(c, o) : p.kids.model[1] \in used
    PROVE  WellRead0(c, o, used)
BY SettledWith DEF WellRead0

LEMMA ReadWith1 ==
    ASSUME NEW c \in Branches, NEW o, NEW models, NEW used, WellRead1(c, o, models), used \subseteq models,
           \A p \in PumpsIn(c, o) : p.kids.model[1] \in used
    PROVE  WellRead1(c, o, used)
<1>1. c \in Classes /\ Settled(c, o, models) /\ Settled(c, o, used)
  BY SettledWith DEF WellRead1, Classes, Roots, Trunks, Branches
<1>2. ASSUME NEW k \in Nested(c), NEW i \in DOMAIN o.kids[k] PROVE WellRead0(Part(c, k), o.kids[k][i], used)
  <2>1. WellRead0(Part(c, k), o.kids[k][i], models) /\ Part(c, k) \in Leaves
    BY Depths DEF WellRead1
  <2>2. PumpsIn(Part(c, k), o.kids[k][i]) \subseteq PumpsIn(c, o)
    BY <1>1, PumpsBelow DEF Settled
  <2> QED
    BY <2>1, <2>2, ReadWith0
<1> QED
  BY <1>1, <1>2 DEF WellRead1

LEMMA ReadWith2 ==
    ASSUME NEW c \in Trunks, NEW o, NEW models, NEW used, WellRead2(c, o, models), used \subseteq models,
           \A p \in PumpsIn(c, o) : p.kids.model[1] \in used
    PROVE  WellRead2(c, o, used)
<1>1. c \in Classes /\ Settled(c, o, models) /\ Settled(c, o, used)
  BY SettledWith DEF WellRead2, Classes, Roots, Trunks, Branches
<1>2. ASSUME NEW k \in Nested(c), NEW i \in DOMAIN o.kids[k] PROVE WellRead1(Part(c, k), o.kids[k][i], used)
  <2>1. WellRead1(Part(c, k), o.kids[k][i], models) /\ Part(c, k) \in Branches
    BY Depths DEF WellRead2
  <2>2. PumpsIn(Part(c, k), o.kids[k][i]) \subseteq PumpsIn(c, o)
    BY <1>1, PumpsBelow DEF Settled
  <2> QED
    BY <2>1, <2>2, ReadWith1
<1> QED
  BY <1>1, <1>2 DEF WellRead2

LEMMA ReadWith3 ==
    ASSUME NEW c \in Roots, NEW o, NEW models, NEW used, WellRead3(c, o, models), used \subseteq models,
           \A p \in PumpsIn(c, o) : p.kids.model[1] \in used
    PROVE  WellRead3(c, o, used)
<1>1. c \in Classes /\ Settled(c, o, models) /\ Settled(c, o, used)
  BY SettledWith DEF WellRead3, Classes, Roots, Trunks, Branches
<1>2. ASSUME NEW k \in Nested(c), NEW i \in DOMAIN o.kids[k] PROVE WellRead2(Part(c, k), o.kids[k][i], used)
  <2>1. WellRead2(Part(c, k), o.kids[k][i], models) /\ Part(c, k) \in Trunks
    BY Depths DEF WellRead3
  <2>2. PumpsIn(Part(c, k), o.kids[k][i]) \subseteq PumpsIn(c, o)
    BY <1>1, PumpsBelow DEF Settled
  <2> QED
    BY <2>1, <2>2, ReadWith2
<1> QED
  BY <1>1, <1>2 DEF WellRead3

LEMMA ReadWith ==
    ASSUME NEW c \in Classes, NEW o, NEW models, NEW used, WellRead(c, o, models), used \subseteq models,
           \A p \in PumpsIn(c, o) : p.kids.model[1] \in used
    PROVE  WellRead(c, o, used)
<1>1. c \in Classes /\ Settled(c, o, models) /\ Settled(c, o, used)
  BY SettledWith DEF WellRead, Classes, Roots, Trunks, Branches
<1>2. ASSUME NEW k \in Nested(c), NEW i \in DOMAIN o.kids[k] PROVE WellRead3(Part(c, k), o.kids[k][i], used)
  <2>1. WellRead3(Part(c, k), o.kids[k][i], models) /\ Part(c, k) \in Roots
    BY Depths DEF WellRead
  <2>2. PumpsIn(Part(c, k), o.kids[k][i]) \subseteq PumpsIn(c, o)
    BY <1>1, PumpsBelow DEF Settled
  <2> QED
    BY <2>1, <2>2, ReadWith3
<1> QED
  BY <1>1, <1>2 DEF WellRead

\* The pumps of an input that is well read, and their models.
LEMMA PumpsSettled ==
    ASSUME NEW o, NEW models, WellRead("input", o, models), NEW p \in PumpsIn("input", o)
    PROVE  Settled("pump", p, models) /\ p.kids.model[1] \in models
<1>1. /\ "network" \in Nested("input") /\ "stations" \in Nested("network")
      /\ "groups" \in Nested("station") /\ "pumps" \in Nested("group")
  BY FieldsNamed
<1>2. /\ Part("input", "network") = "network" /\ Part("network", "stations") = "station"
      /\ Part("station", "groups") = "group" /\ Part("group", "pumps") = "pump"
  <2>1. /\ KinOf("input")["network"] = "network" /\ KinOf("network")["stations"] = "station"
        /\ KinOf("station")["groups"] = "group" /\ KinOf("group")["pumps"] = "pump"
    BY DEF KinOf
  <2>2. {"input", "network", "station", "group"} \subseteq Classes
    BY DEF Classes, Roots, Trunks, Branches
  <2> QED
    BY <1>1, <2>1, <2>2, NestedIsKin
<1> DEFINE net == o.kids.network[1]
<1>3. WellRead3("network", net, models)
  <2>1. 1 \in DOMAIN o.kids["network"]
    BY DEF WellRead, Settled
  <2> QED
    BY <1>1, <1>2, <2>1 DEF WellRead
<1>4. PICK s \in Range(net.kids.stations) : \E g \in Range(s.kids.groups) : p \in Range(g.kids.pumps)
  BY DEF PumpsIn, PumpsOfNetwork
<1>5. PICK g \in Range(s.kids.groups) : p \in Range(g.kids.pumps)
  BY <1>4
<1> HIDE DEF net
<1>6. WellRead2("station", s, models)
  BY <1>1, <1>2, <1>3 DEF WellRead3, Range
<1>7. WellRead1("group", g, models)
  BY <1>1, <1>2, <1>6 DEF WellRead2, Range
<1>8. WellRead0("pump", p, models)
  BY <1>1, <1>2, <1>5, <1>7 DEF WellRead1, Range
<1>9. p.kids.model[1] \in ModelsNamed(models, p.own.model_id)
  BY <1>8 DEF WellRead0, Settled
<1> QED
  BY <1>8, <1>9 DEF WellRead0, ModelsNamed

\* What is accepted: it is well read, with models of the equipment.
Accepted(o) ==
    /\ o # Refused
    /\ \E models : /\ WellRead("input", o, models) /\ AreDistinct(models)
                   /\ \A m \in models : WellRead1("pump_model", m, {})

\* What is read of a document is accepted.
LEMMA ThawedIsAccepted ==
    ASSUME NEW doc, IsDocument(doc), Thawed(doc) # Refused
    PROVE  Accepted(Thawed(doc))
<1> DEFINE models == ModelsRead(doc)
<1>1. /\ Thawed(doc) = Decoded("input", doc, models)
      /\ Refused \notin models /\ AreDistinct(models)
  BY DEF Thawed, ThawedWith
<1>2. WellRead("input", Thawed(doc), models)
  <2> HIDE DEF models
  <2> QED
    BY <1>1, Read
<1>3. ASSUME NEW m \in models PROVE WellRead1("pump_model", m, {})
  <2>1. PICK row : m = Decoded1("pump_model", row, {})
    BY DEF ModelsRead
  <2>2. m # Refused /\ "pump_model" \in Branches /\ AreDistinct({})
    BY <1>1 DEF Branches, AreDistinct
  <2> QED
    BY <2>1, <2>2, Read1
<1> HIDE DEF models
<1> QED
  BY <1>1, <1>2, <1>3 DEF Accepted

\* The models that are used, and the equipment that is written of them.
LEMMA EquipmentIsRead ==
    ASSUME NEW o, Accepted(o)
    PROVE  LET used == ModelsUsed(o.kids.network[1])
           IN  /\ WellRead("input", o, used) /\ AreDistinct(used)
               /\ \A m \in used : WellRead1("pump_model", m, {})
               /\ ModelsRead(Frozen(o)) = used
<1> DEFINE net == o.kids.network[1]
           used == ModelsUsed(net)
           ids == {m.own.id : m \in used}
           model(id) == CHOOSE m \in used : m.own.id = id
<1>1. PICK models : /\ WellRead("input", o, models) /\ AreDistinct(models)
                    /\ \A m \in models : WellRead1("pump_model", m, {})
  BY DEF Accepted
<1>2. PumpsIn("input", o) = PumpsOfNetwork(net)
  BY DEF PumpsIn
<1>3. used = {p.kids.model[1] : p \in PumpsIn("input", o)}
  BY <1>2 DEF ModelsUsed
<1> HIDE DEF used
<1>4. used \subseteq models
  BY <1>1, <1>3, PumpsSettled
<1>5. WellRead("input", o, used)
  <2>1. "input" \in Classes
    BY DEF Classes
  <2> QED
    BY <1>1, <1>3, <1>4, <2>1, ReadWith
<1>6. AreDistinct(used) /\ \A m \in used : WellRead1("pump_model", m, {})
  BY <1>1, <1>4 DEF AreDistinct
<1>7. \A m \in used : model(m.own.id) = m
  BY <1>6 DEF AreDistinct
<1>8. \A id \in ids : model(id) \in used
  OBVIOUS
<1> HIDE DEF model
<1> DEFINE entries == [id \in ids |-> Encoded1("pump_model", model(id))]
<1>9. Docs("equipment", EquipmentOf(Frozen(o)), "pump_models") = entries
  <2>1. Equipment(net) = [own |-> <<>>, kids |-> [pump_models |-> entries]]
    BY DEF Equipment, used, model
  <2>2. "equipment" \in DOMAIN Frozen(o).kids /\ Frozen(o).kids["equipment"] = <<Equipment(net)>>
    BY DEF Frozen, Put, WithEquipment
  <2>3. EquipmentOf(Frozen(o)) = Equipment(net)
    BY <2>2 DEF EquipmentOf, NestedIn
  <2> HIDE DEF entries
  <2> QED
    BY <2>1, <2>3 DEF Docs, NestedIn
<1>10. Range(entries) = {Encoded1("pump_model", m) : m \in used}
  <2>1. Range(entries) = {Encoded1("pump_model", model(id)) : id \in ids}
    BY DEF Range
  <2> QED
    BY <1>7, <1>8, <2>1
<1> HIDE DEF entries
<1>11. \A m \in used : Decoded1("pump_model", Encoded1("pump_model", m), {}) = m
  <2>1. "pump_model" \in Branches
    BY DEF Branches
  <2> QED
    BY <1>6, <2>1, Reread1
<1>12. ModelsRead(Frozen(o)) = {Decoded1("pump_model", row, {}) : row \in Range(entries)}
  BY <1>9 DEF ModelsRead
<1>13. ModelsRead(Frozen(o)) = used
  BY <1>10, <1>11, <1>12
<1> QED
  BY <1>5, <1>6, <1>13 DEF used

\* What is read back from a package is what was accepted.
LEMMA PackageIsReread ==
    ASSUME NEW o, Accepted(o)
    PROVE  Thawed(Frozen(o)) = o
<1> DEFINE used == ModelsUsed(o.kids.network[1])
           doc == Encoded("input", o)
           package == Frozen(o)
<1>1. /\ WellRead("input", o, used) /\ AreDistinct(used) /\ \A m \in used : WellRead1("pump_model", m, {})
      /\ ModelsRead(package) = used
  BY EquipmentIsRead
<1>2. /\ package.own = doc.own /\ package.kids = Put(doc.kids, "equipment", <<Equipment(o.kids.network[1])>>)
  BY DEF Frozen, WithEquipment
<1>3. Refused \notin used
  BY <1>1 DEF WellRead1, Settled
<1>4. IsGiven(EquipmentRule, package, "equipment") /\ CanBeRead("equipment", EquipmentOf(package))
  <2>1. "equipment" \in DOMAIN package.kids /\ package.kids["equipment"] = <<Equipment(o.kids.network[1])>>
    BY <1>2 DEF Put
  <2>2. EquipmentOf(package) = Equipment(o.kids.network[1])
    BY <2>1 DEF EquipmentOf, NestedIn
  <2>3. "pump_models" \in DOMAIN Equipment(o.kids.network[1]).kids
    BY DEF Equipment
  <2> HIDE DEF package
  <2> QED
    BY <2>1, <2>2, <2>3, FieldsNamed DEF CanBeRead, IsGiven
<1>5. \A k \in Nested("input") : k \in DOMAIN doc.kids /\ k \in DOMAIN package.kids /\ package.kids[k] = doc.kids[k]
  <2>1. "input" \in Classes
    BY DEF Classes
  <2>2. DOMAIN doc.kids = Nested("input")
    BY <2>1, FieldsAreWritten DEF Encoded, NestWritten, Nested, NestedNames
  <2>3. "equipment" \notin Nested("input")
    <3>1. "equipment" \notin DOMAIN KinOf("input")
      BY DEF KinOf
    <3> QED
      BY <2>1, <3>1, NestedIsKin
  <2> HIDE DEF package, doc
  <2> QED
    BY <1>2, <2>2, <2>3 DEF Put
<1>6. Decoded("input", package, used) = Decoded("input", doc, used)
  <2> HIDE DEF package, doc
  <2>1. \A k \in Nested("input") : Docs("input", package, k) = Docs("input", doc, k)
    BY <1>5 DEF Docs, NestedIn
  <2>2. OwnRead("input", package) = OwnRead("input", doc) /\ (CanBeRead("input", package) <=> CanBeRead("input", doc))
    BY <1>2, <1>5 DEF OwnRead, CanBeRead, IsGiven, Taken
  <2> DEFINE kids(d) == [k \in Nested("input") |-> [i \in DOMAIN Docs("input", d, k) |->
                            Decoded3(Part("input", k), Docs("input", d, k)[i], used)]]
  <2>3. kids(package) = kids(doc)
    BY <2>1
  <2>4. \A d : Decoded("input", d, used) = Assembled("input", d, kids(d), used)
    BY DEF Decoded
  <2> HIDE DEF kids
  <2> QED
    BY <2>2, <2>3, <2>4 DEF Assembled, Constructed, IfSound
<1>7. Decoded("input", doc, used) = o
  <2>1. "input" \in Classes
    BY DEF Classes
  <2> QED
    BY <1>1, <2>1, Reread
<1>8. Thawed(package) = Decoded("input", package, used)
  <2> HIDE DEF package, used
  <2> QED
    BY <1>1, <1>3, <1>4 DEF Thawed, ThawedWith
<1> QED
  BY <1>6, <1>7, <1>8

(***************************************************************************)
(* The fingerprint.  What is written of an object, but for its pumps, is   *)
(* the object; a pump is written without its model, and the models are     *)
(* written beside.                                                         *)
(***************************************************************************)
\* The models of one identifier are the same, up to the last digits.
Agree(models, others) ==
    \A a \in models, b \in others : a.own.id = b.own.id => Normalised1("pump_model", a) = Normalised1("pump_model", b)

\* What is written and normalised alike, and what is alike.
LEMMA OwnIsWritten ==
    ASSUME NEW c \in Classes, NEW o, NEW models, Settled(c, o, models)
    PROVE  OwnWritten(c, o) = o.own /\ NestWritten(c) = Nested(c) /\ DOMAIN o.own = Scalars(c)
<1>1. Scalars(c) \cap WrittenFields[c] = Scalars(c) /\ NestWritten(c) = Nested(c)
  BY FieldsAreWritten DEF Scalars, Nested, NestWritten, ScalarNames, NestedNames
<1> QED
  BY <1>1 DEF OwnWritten, Settled, OwnSettled

\* What is nested in an object by its fields is of the class of the field.
LEMMA ClassOfNested ==
    ASSUME NEW c \in Classes, NEW k \in Nested(c)
    PROVE  k \notin {"model", "equipment"} /\ ClassOf(c, k) = Part(c, k)
<1>1. \A n \in DOMAIN KinOf(c) : n # "model" /\ n # "equipment"
  BY DEF KinOf
<1> QED
  BY <1>1, NestedIsKin DEF ClassOf

\* Objects that are alike are written alike; and objects that are written alike are alike, when
\* the models beside them agree.  A pump is the only object that holds more than is written of it.
LEMMA Alike0 ==
    ASSUME NEW c \in Leaves, NEW x, NEW y, NEW models, NEW others, WellRead0(c, x, models), WellRead0(c, y, others)
    PROVE  /\ Normalised2(c, x) = Normalised2(c, y) => Normalised2(c, Encoded0(c, x)) = Normalised2(c, Encoded0(c, y))
           /\ /\ Agree(models, others)
              /\ Normalised2(c, Encoded0(c, x)) = Normalised2(c, Encoded0(c, y))
              => Normalised2(c, x) = Normalised2(c, y)
<1>1. c \in Classes /\ Nested(c) = {} /\ Settled(c, x, models) /\ Settled(c, y, others)
  BY Depths DEF Classes, Roots, Trunks, Branches, WellRead0
<1>2. OwnWritten(c, x) = x.own /\ OwnWritten(c, y) = y.own /\ DOMAIN x.own = Scalars(c) /\ DOMAIN y.own = Scalars(c)
  BY <1>1, OwnIsWritten
<1>3. CASE c # "pump"
  <2>1. \A k : k \notin Nested(c)
    BY <1>1
  <2>2. x.kids = <<>> /\ y.kids = <<>>
    BY <1>1, <1>3, <2>1 DEF Settled, AreLists
  <2>3. Encoded0(c, x) = x /\ Encoded0(c, y) = y
    BY <1>1, <1>2, <2>2 DEF Encoded0, Settled
  <2> QED
    BY <2>3
<1>4. CASE c = "pump"
  <2> DEFINE m == x.kids.model[1]
             n == y.kids.model[1]
  <2>1. /\ x.kids = [model |-> <<m>>] /\ m \in ModelsNamed(models, x.own.model_id)
        /\ y.kids = [model |-> <<n>>] /\ n \in ModelsNamed(others, y.own.model_id)
    BY <1>1, <1>4 DEF Settled
  <2>2. m \in models /\ m.own.id = x.own.model_id /\ n \in others /\ n.own.id = y.own.model_id
    BY <2>1 DEF ModelsNamed
  <2> HIDE DEF m, n
  <2>3. \A tree : Normalised2(c, tree) = [own |-> Digits(c, tree), kids |-> [k \in DOMAIN tree.kids |->
                     [i \in DOMAIN tree.kids[k] |-> Normalised1(ClassOf(c, k), tree.kids[k][i])]]]
    BY DEF Normalised2
  <2>4. Digits(c, Encoded0(c, x)) = Digits(c, x) /\ Digits(c, Encoded0(c, y)) = Digits(c, y)
    BY <1>2 DEF Digits, Encoded0
  <2>5. /\ Encoded0(c, x).kids = <<>> /\ Encoded0(c, y).kids = <<>>
    BY DEF Encoded0
  <2>6. ASSUME Normalised2(c, x) = Normalised2(c, y)
        PROVE  Normalised2(c, Encoded0(c, x)) = Normalised2(c, Encoded0(c, y))
    <3>1. Digits(c, x) = Digits(c, y)
      BY <2>3, <2>6
    <3> QED
      BY <2>3, <2>4, <2>5, <3>1
  <2>7. ASSUME Agree(models, others), Normalised2(c, Encoded0(c, x)) = Normalised2(c, Encoded0(c, y))
        PROVE  Normalised2(c, x) = Normalised2(c, y)
    <3>1. Digits(c, x) = Digits(c, y)
      BY <2>3, <2>4, <2>7
    <3>2. Digits(c, x)["model_id"] = x.own.model_id /\ Digits(c, y)["model_id"] = y.own.model_id
      BY <1>2, <1>4, FieldsNamed DEF Digits
    <3>3. Normalised1("pump_model", m) = Normalised1("pump_model", n)
      BY <2>2, <2>7, <3>1, <3>2 DEF Agree
    <3>4. \A tree, r : tree.kids = [model |-> <<r>>] =>
              Normalised2(c, tree) = [own |-> Digits(c, tree), kids |-> [model |-> <<Normalised1("pump_model", r)>>]]
      <4> TAKE tree, r
      <4> HAVE tree.kids = [model |-> <<r>>]
      <4>1. DOMAIN tree.kids = {"model"} /\ tree.kids["model"] = <<r>> /\ DOMAIN <<r>> = {1} /\ <<r>>[1] = r
        OBVIOUS
      <4>2. ClassOf(c, "model") = "pump_model"
        BY DEF ClassOf
      <4> DEFINE written == [i \in {1} |-> Normalised1("pump_model", r)]
      <4>3. written = <<Normalised1("pump_model", r)>>
        OBVIOUS
      <4>4. [k \in DOMAIN tree.kids |-> [i \in DOMAIN tree.kids[k] |-> Normalised1(ClassOf(c, k), tree.kids[k][i])]]
               = [model |-> written]
        BY <4>1, <4>2
      <4> HIDE DEF written
      <4> QED
        BY <2>3, <4>3, <4>4
    <3> QED
      BY <2>1, <3>1, <3>3, <3>4
  <2> QED
    BY <2>6, <2>7
<1> QED
  BY <1>3, <1>4

\* The same, one depth after the other.
LEMMA Alike1 ==
    ASSUME NEW c \in Branches \ {"pump"}, NEW x, NEW y, NEW models, NEW others,
           WellRead1(c, x, models), WellRead1(c, y, others)
    PROVE  /\ Normalised3(c, x) = Normalised3(c, y) => Normalised3(c, Encoded1(c, x)) = Normalised3(c, Encoded1(c, y))
           /\ /\ Agree(models, others)
              /\ Normalised3(c, Encoded1(c, x)) = Normalised3(c, Encoded1(c, y))
              => Normalised3(c, x) = Normalised3(c, y)
<1>1. c \in Classes /\ c # "pump" /\ Settled(c, x, models) /\ Settled(c, y, others)
  BY DEF Classes, Roots, Trunks, Branches, WellRead1
<1>2. \A k \in Nested(c) : ClassOf(c, k) = Part(c, k) /\ Part(c, k) \in Leaves
  <2>1. \A k \in Nested(c) : Part(c, k) \in Leaves /\ ClassOf(c, k) = Part(c, k)
    BY <1>1, Depths, ClassOfNested
  <2> QED
    BY <2>1
<1>3. \A z \in {x, y} :
         /\ Normalised3(c, z) = [own |-> Digits(c, z), kids |-> [k \in Nested(c) |->
                [i \in DOMAIN z.kids[k] |-> Normalised2(Part(c, k), z.kids[k][i])]]]
         /\ Normalised3(c, Encoded1(c, z)) = [own |-> Digits(c, z), kids |-> [k \in Nested(c) |->
                [i \in DOMAIN z.kids[k] |-> Normalised2(Part(c, k), Encoded0(Part(c, k), z.kids[k][i]))]]]
  <2> TAKE z \in {x, y}
  <2>0. PICK read : Settled(c, z, read)
    BY <1>1
  <2>1. DOMAIN z.kids = Nested(c) /\ OwnWritten(c, z) = z.own /\ NestWritten(c) = Nested(c)
    <3>1. z.kids = [k \in Nested(c) |-> z.kids[k]]
      BY <1>1, <2>0 DEF Settled, AreLists
    <3> QED
      BY <1>1, <2>0, <3>1, OwnIsWritten
  <2> DEFINE w == Encoded1(c, z)
  <2>2. w.own = z.own /\ w.kids = [k \in Nested(c) |-> [i \in DOMAIN z.kids[k] |-> Encoded0(Part(c, k), z.kids[k][i])]]
    BY <2>1 DEF Encoded1
  <2>3. Digits(c, w) = Digits(c, z)
    BY <2>2 DEF Digits
  <2>4. \A tree : DOMAIN tree.kids = Nested(c) =>
           Normalised3(c, tree) = [own |-> Digits(c, tree), kids |-> [k \in Nested(c) |->
               [i \in DOMAIN tree.kids[k] |-> Normalised2(Part(c, k), tree.kids[k][i])]]]
    BY <1>2 DEF Normalised3
  <2> HIDE DEF w
  <2>5. Normalised3(c, w) = [own |-> Digits(c, z), kids |-> [k \in Nested(c) |->
            [i \in DOMAIN z.kids[k] |-> Normalised2(Part(c, k), Encoded0(Part(c, k), z.kids[k][i]))]]]
    BY <2>2, <2>3, <2>4
  <2> QED
    BY <2>1, <2>4, <2>5 DEF w
<1> DEFINE Far(v, w) == /\ Digits(c, v) = Digits(c, w)
                        /\ \A k \in Nested(c) : /\ DOMAIN v.kids[k] = DOMAIN w.kids[k]
                                                /\ \A i \in DOMAIN v.kids[k] : Normalised2(Part(c, k), v.kids[k][i]) = Normalised2(Part(c, k), w.kids[k][i])
           Near(v, w) == /\ Digits(c, v) = Digits(c, w)
                         /\ \A k \in Nested(c) : /\ DOMAIN v.kids[k] = DOMAIN w.kids[k]
                                                 /\ \A i \in DOMAIN v.kids[k] : Normalised2(Part(c, k), Encoded0(Part(c, k), v.kids[k][i]))
                                                                                = Normalised2(Part(c, k), Encoded0(Part(c, k), w.kids[k][i]))
<1>4. Normalised3(c, x) = Normalised3(c, y) <=> Far(x, y)
  <2> DEFINE row(z) == [k \in Nested(c) |-> [i \in DOMAIN z.kids[k] |-> Normalised2(Part(c, k), z.kids[k][i])]]
  <2>1. Normalised3(c, x) = Normalised3(c, y) <=> Digits(c, x) = Digits(c, y) /\ row(x) = row(y)
    <3>1. Normalised3(c, x) = [own |-> Digits(c, x), kids |-> row(x)] /\ Normalised3(c, y) = [own |-> Digits(c, y), kids |-> row(y)]
      BY <1>3
    <3> HIDE DEF row
    <3> QED
      BY <3>1
  <2>2. row(x) = row(y) <=> \A k \in Nested(c) : row(x)[k] = row(y)[k]
    OBVIOUS
  <2>3. \A k \in Nested(c) : row(x)[k] = row(y)[k] <=>
           /\ DOMAIN x.kids[k] = DOMAIN y.kids[k]
           /\ \A i \in DOMAIN x.kids[k] : Normalised2(Part(c, k), x.kids[k][i]) = Normalised2(Part(c, k), y.kids[k][i])
    <3> TAKE k \in Nested(c)
    <3> DEFINE one == [i \in DOMAIN x.kids[k] |-> Normalised2(Part(c, k), x.kids[k][i])]
               two == [i \in DOMAIN y.kids[k] |-> Normalised2(Part(c, k), y.kids[k][i])]
    <3>1. row(x)[k] = one /\ row(y)[k] = two
      OBVIOUS
    <3>2. one = two <=> /\ DOMAIN x.kids[k] = DOMAIN y.kids[k]
                        /\ \A i \in DOMAIN x.kids[k] : Normalised2(Part(c, k), x.kids[k][i]) = Normalised2(Part(c, k), y.kids[k][i])
      OBVIOUS
    <3> QED
      BY <3>1, <3>2
  <2> HIDE DEF row
  <2> QED
    BY <2>1, <2>2, <2>3
<1>5. Normalised3(c, Encoded1(c, x)) = Normalised3(c, Encoded1(c, y)) <=> Near(x, y)
  <2> DEFINE row(z) == [k \in Nested(c) |-> [i \in DOMAIN z.kids[k] |-> Normalised2(Part(c, k), Encoded0(Part(c, k), z.kids[k][i]))]]
  <2>1. Normalised3(c, Encoded1(c, x)) = Normalised3(c, Encoded1(c, y)) <=> Digits(c, x) = Digits(c, y) /\ row(x) = row(y)
    <3>1. Normalised3(c, Encoded1(c, x)) = [own |-> Digits(c, x), kids |-> row(x)] /\ Normalised3(c, Encoded1(c, y)) = [own |-> Digits(c, y), kids |-> row(y)]
      BY <1>3
    <3> HIDE DEF row
    <3> QED
      BY <3>1
  <2>2. row(x) = row(y) <=> \A k \in Nested(c) : row(x)[k] = row(y)[k]
    OBVIOUS
  <2>3. \A k \in Nested(c) : row(x)[k] = row(y)[k] <=>
           /\ DOMAIN x.kids[k] = DOMAIN y.kids[k]
           /\ \A i \in DOMAIN x.kids[k] : Normalised2(Part(c, k), Encoded0(Part(c, k), x.kids[k][i]))
                                           = Normalised2(Part(c, k), Encoded0(Part(c, k), y.kids[k][i]))
    <3> TAKE k \in Nested(c)
    <3> DEFINE one == [i \in DOMAIN x.kids[k] |-> Normalised2(Part(c, k), Encoded0(Part(c, k), x.kids[k][i]))]
               two == [i \in DOMAIN y.kids[k] |-> Normalised2(Part(c, k), Encoded0(Part(c, k), y.kids[k][i]))]
    <3>1. row(x)[k] = one /\ row(y)[k] = two
      OBVIOUS
    <3>2. one = two <=> /\ DOMAIN x.kids[k] = DOMAIN y.kids[k]
                        /\ \A i \in DOMAIN x.kids[k] : Normalised2(Part(c, k), Encoded0(Part(c, k), x.kids[k][i]))
                                                        = Normalised2(Part(c, k), Encoded0(Part(c, k), y.kids[k][i]))
      OBVIOUS
    <3> QED
      BY <3>1, <3>2
  <2> HIDE DEF row
  <2> QED
    BY <2>1, <2>2, <2>3
<1>6. \A k \in Nested(c) : \A i \in DOMAIN x.kids[k] \cap DOMAIN y.kids[k] :
         /\ Normalised2(Part(c, k), x.kids[k][i]) = Normalised2(Part(c, k), y.kids[k][i])
            => Normalised2(Part(c, k), Encoded0(Part(c, k), x.kids[k][i])) = Normalised2(Part(c, k), Encoded0(Part(c, k), y.kids[k][i]))
         /\ /\ Agree(models, others)
            /\ Normalised2(Part(c, k), Encoded0(Part(c, k), x.kids[k][i])) = Normalised2(Part(c, k), Encoded0(Part(c, k), y.kids[k][i]))
            => Normalised2(Part(c, k), x.kids[k][i]) = Normalised2(Part(c, k), y.kids[k][i])
  <2> TAKE k \in Nested(c)
  <2> TAKE i \in DOMAIN x.kids[k] \cap DOMAIN y.kids[k]
  <2>1. WellRead0(Part(c, k), x.kids[k][i], models) /\ WellRead0(Part(c, k), y.kids[k][i], others)
    BY DEF WellRead1
  <2> QED
    BY <1>2, <2>1, Alike0
<1> QED
  BY <1>4, <1>5, <1>6

LEMMA Alike2 ==
    ASSUME NEW c \in Trunks \ {"pump", "group"}, NEW x, NEW y, NEW models, NEW others,
           WellRead2(c, x, models), WellRead2(c, y, others)
    PROVE  /\ Normalised4(c, x) = Normalised4(c, y) => Normalised4(c, Encoded2(c, x)) = Normalised4(c, Encoded2(c, y))
           /\ /\ Agree(models, others)
              /\ Normalised4(c, Encoded2(c, x)) = Normalised4(c, Encoded2(c, y))
              => Normalised4(c, x) = Normalised4(c, y)
<1>1. c \in Classes /\ c # "pump" /\ Settled(c, x, models) /\ Settled(c, y, others)
  BY DEF Classes, Roots, Trunks, Branches, WellRead2
<1>2. \A k \in Nested(c) : ClassOf(c, k) = Part(c, k) /\ Part(c, k) \in Branches \ {"pump"}
  <2>1. \A k \in Nested(c) : Part(c, k) \in Branches /\ ClassOf(c, k) = Part(c, k)
    BY <1>1, Depths, ClassOfNested
  <2>2. \A k \in Nested(c) : Part(c, k) # "pump"
    <3>1. \A k \in DOMAIN KinOf(c) : KinOf(c)[k] = "pump" => c = "group"
      BY DEF KinOf
    <3> QED
      BY <1>1, <3>1, NestedIsKin
  <2> QED
    BY <2>1, <2>2
<1>3. \A z \in {x, y} :
         /\ Normalised4(c, z) = [own |-> Digits(c, z), kids |-> [k \in Nested(c) |->
                [i \in DOMAIN z.kids[k] |-> Normalised3(Part(c, k), z.kids[k][i])]]]
         /\ Normalised4(c, Encoded2(c, z)) = [own |-> Digits(c, z), kids |-> [k \in Nested(c) |->
                [i \in DOMAIN z.kids[k] |-> Normalised3(Part(c, k), Encoded1(Part(c, k), z.kids[k][i]))]]]
  <2> TAKE z \in {x, y}
  <2>0. PICK read : Settled(c, z, read)
    BY <1>1
  <2>1. DOMAIN z.kids = Nested(c) /\ OwnWritten(c, z) = z.own /\ NestWritten(c) = Nested(c)
    <3>1. z.kids = [k \in Nested(c) |-> z.kids[k]]
      BY <1>1, <2>0 DEF Settled, AreLists
    <3> QED
      BY <1>1, <2>0, <3>1, OwnIsWritten
  <2> DEFINE w == Encoded2(c, z)
  <2>2. w.own = z.own /\ w.kids = [k \in Nested(c) |-> [i \in DOMAIN z.kids[k] |-> Encoded1(Part(c, k), z.kids[k][i])]]
    BY <2>1 DEF Encoded2
  <2>3. Digits(c, w) = Digits(c, z)
    BY <2>2 DEF Digits
  <2>4. \A tree : DOMAIN tree.kids = Nested(c) =>
           Normalised4(c, tree) = [own |-> Digits(c, tree), kids |-> [k \in Nested(c) |->
               [i \in DOMAIN tree.kids[k] |-> Normalised3(Part(c, k), tree.kids[k][i])]]]
    BY <1>2 DEF Normalised4
  <2> HIDE DEF w
  <2>5. Normalised4(c, w) = [own |-> Digits(c, z), kids |-> [k \in Nested(c) |->
            [i \in DOMAIN z.kids[k] |-> Normalised3(Part(c, k), Encoded1(Part(c, k), z.kids[k][i]))]]]
    BY <2>2, <2>3, <2>4
  <2> QED
    BY <2>1, <2>4, <2>5 DEF w
<1> DEFINE Far(v, w) == /\ Digits(c, v) = Digits(c, w)
                        /\ \A k \in Nested(c) : /\ DOMAIN v.kids[k] = DOMAIN w.kids[k]
                                                /\ \A i \in DOMAIN v.kids[k] : Normalised3(Part(c, k), v.kids[k][i]) = Normalised3(Part(c, k), w.kids[k][i])
           Near(v, w) == /\ Digits(c, v) = Digits(c, w)
                         /\ \A k \in Nested(c) : /\ DOMAIN v.kids[k] = DOMAIN w.kids[k]
                                                 /\ \A i \in DOMAIN v.kids[k] : Normalised3(Part(c, k), Encoded1(Part(c, k), v.kids[k][i]))
                                                                                = Normalised3(Part(c, k), Encoded1(Part(c, k), w.kids[k][i]))
<1>4. Normalised4(c, x) = Normalised4(c, y) <=> Far(x, y)
  <2> DEFINE row(z) == [k \in Nested(c) |-> [i \in DOMAIN z.kids[k] |-> Normalised3(Part(c, k), z.kids[k][i])]]
  <2>1. Normalised4(c, x) = Normalised4(c, y) <=> Digits(c, x) = Digits(c, y) /\ row(x) = row(y)
    <3>1. Normalised4(c, x) = [own |-> Digits(c, x), kids |-> row(x)] /\ Normalised4(c, y) = [own |-> Digits(c, y), kids |-> row(y)]
      BY <1>3
    <3> HIDE DEF row
    <3> QED
      BY <3>1
  <2>2. row(x) = row(y) <=> \A k \in Nested(c) : row(x)[k] = row(y)[k]
    OBVIOUS
  <2>3. \A k \in Nested(c) : row(x)[k] = row(y)[k] <=>
           /\ DOMAIN x.kids[k] = DOMAIN y.kids[k]
           /\ \A i \in DOMAIN x.kids[k] : Normalised3(Part(c, k), x.kids[k][i]) = Normalised3(Part(c, k), y.kids[k][i])
    <3> TAKE k \in Nested(c)
    <3> DEFINE one == [i \in DOMAIN x.kids[k] |-> Normalised3(Part(c, k), x.kids[k][i])]
               two == [i \in DOMAIN y.kids[k] |-> Normalised3(Part(c, k), y.kids[k][i])]
    <3>1. row(x)[k] = one /\ row(y)[k] = two
      OBVIOUS
    <3>2. one = two <=> /\ DOMAIN x.kids[k] = DOMAIN y.kids[k]
                        /\ \A i \in DOMAIN x.kids[k] : Normalised3(Part(c, k), x.kids[k][i]) = Normalised3(Part(c, k), y.kids[k][i])
      OBVIOUS
    <3> QED
      BY <3>1, <3>2
  <2> HIDE DEF row
  <2> QED
    BY <2>1, <2>2, <2>3
<1>5. Normalised4(c, Encoded2(c, x)) = Normalised4(c, Encoded2(c, y)) <=> Near(x, y)
  <2> DEFINE row(z) == [k \in Nested(c) |-> [i \in DOMAIN z.kids[k] |-> Normalised3(Part(c, k), Encoded1(Part(c, k), z.kids[k][i]))]]
  <2>1. Normalised4(c, Encoded2(c, x)) = Normalised4(c, Encoded2(c, y)) <=> Digits(c, x) = Digits(c, y) /\ row(x) = row(y)
    <3>1. Normalised4(c, Encoded2(c, x)) = [own |-> Digits(c, x), kids |-> row(x)] /\ Normalised4(c, Encoded2(c, y)) = [own |-> Digits(c, y), kids |-> row(y)]
      BY <1>3
    <3> HIDE DEF row
    <3> QED
      BY <3>1
  <2>2. row(x) = row(y) <=> \A k \in Nested(c) : row(x)[k] = row(y)[k]
    OBVIOUS
  <2>3. \A k \in Nested(c) : row(x)[k] = row(y)[k] <=>
           /\ DOMAIN x.kids[k] = DOMAIN y.kids[k]
           /\ \A i \in DOMAIN x.kids[k] : Normalised3(Part(c, k), Encoded1(Part(c, k), x.kids[k][i]))
                                           = Normalised3(Part(c, k), Encoded1(Part(c, k), y.kids[k][i]))
    <3> TAKE k \in Nested(c)
    <3> DEFINE one == [i \in DOMAIN x.kids[k] |-> Normalised3(Part(c, k), Encoded1(Part(c, k), x.kids[k][i]))]
               two == [i \in DOMAIN y.kids[k] |-> Normalised3(Part(c, k), Encoded1(Part(c, k), y.kids[k][i]))]
    <3>1. row(x)[k] = one /\ row(y)[k] = two
      OBVIOUS
    <3>2. one = two <=> /\ DOMAIN x.kids[k] = DOMAIN y.kids[k]
                        /\ \A i \in DOMAIN x.kids[k] : Normalised3(Part(c, k), Encoded1(Part(c, k), x.kids[k][i]))
                                                        = Normalised3(Part(c, k), Encoded1(Part(c, k), y.kids[k][i]))
      OBVIOUS
    <3> QED
      BY <3>1, <3>2
  <2> HIDE DEF row
  <2> QED
    BY <2>1, <2>2, <2>3
<1>6. \A k \in Nested(c) : \A i \in DOMAIN x.kids[k] \cap DOMAIN y.kids[k] :
         /\ Normalised3(Part(c, k), x.kids[k][i]) = Normalised3(Part(c, k), y.kids[k][i])
            => Normalised3(Part(c, k), Encoded1(Part(c, k), x.kids[k][i])) = Normalised3(Part(c, k), Encoded1(Part(c, k), y.kids[k][i]))
         /\ /\ Agree(models, others)
            /\ Normalised3(Part(c, k), Encoded1(Part(c, k), x.kids[k][i])) = Normalised3(Part(c, k), Encoded1(Part(c, k), y.kids[k][i]))
            => Normalised3(Part(c, k), x.kids[k][i]) = Normalised3(Part(c, k), y.kids[k][i])
  <2> TAKE k \in Nested(c)
  <2> TAKE i \in DOMAIN x.kids[k] \cap DOMAIN y.kids[k]
  <2>1. WellRead1(Part(c, k), x.kids[k][i], models) /\ WellRead1(Part(c, k), y.kids[k][i], others)
    BY DEF WellRead2
  <2> QED
    BY <1>2, <2>1, Alike1
<1> QED
  BY <1>4, <1>5, <1>6

LEMMA Alike3 ==
    ASSUME NEW c \in Roots \ {"pump", "group", "station"}, NEW x, NEW y, NEW models, NEW others,
           WellRead3(c, x, models), WellRead3(c, y, others)
    PROVE  /\ Normalised5(c, x) = Normalised5(c, y) => Normalised5(c, Encoded3(c, x)) = Normalised5(c, Encoded3(c, y))
           /\ /\ Agree(models, others)
              /\ Normalised5(c, Encoded3(c, x)) = Normalised5(c, Encoded3(c, y))
              => Normalised5(c, x) = Normalised5(c, y)
<1>1. c \in Classes /\ c # "pump" /\ Settled(c, x, models) /\ Settled(c, y, others)
  BY DEF Classes, Roots, Trunks, Branches, WellRead3
<1>2. \A k \in Nested(c) : ClassOf(c, k) = Part(c, k) /\ Part(c, k) \in Trunks \ {"pump", "group"}
  <2>1. \A k \in Nested(c) : Part(c, k) \in Trunks /\ ClassOf(c, k) = Part(c, k)
    BY <1>1, Depths, ClassOfNested
  <2>2. \A k \in Nested(c) : Part(c, k) # "pump" /\ Part(c, k) # "group"
    <3>1. \A k \in DOMAIN KinOf(c) : KinOf(c)[k] = "pump" => c = "group"
      BY DEF KinOf
    <3>2. \A k \in DOMAIN KinOf(c) : KinOf(c)[k] = "group" => c = "station"
      BY DEF KinOf
    <3> QED
      BY <1>1, <3>1, <3>2, NestedIsKin
  <2> QED
    BY <2>1, <2>2
<1>3. \A z \in {x, y} :
         /\ Normalised5(c, z) = [own |-> Digits(c, z), kids |-> [k \in Nested(c) |->
                [i \in DOMAIN z.kids[k] |-> Normalised4(Part(c, k), z.kids[k][i])]]]
         /\ Normalised5(c, Encoded3(c, z)) = [own |-> Digits(c, z), kids |-> [k \in Nested(c) |->
                [i \in DOMAIN z.kids[k] |-> Normalised4(Part(c, k), Encoded2(Part(c, k), z.kids[k][i]))]]]
  <2> TAKE z \in {x, y}
  <2>0. PICK read : Settled(c, z, read)
    BY <1>1
  <2>1. DOMAIN z.kids = Nested(c) /\ OwnWritten(c, z) = z.own /\ NestWritten(c) = Nested(c)
    <3>1. z.kids = [k \in Nested(c) |-> z.kids[k]]
      BY <1>1, <2>0 DEF Settled, AreLists
    <3> QED
      BY <1>1, <2>0, <3>1, OwnIsWritten
  <2> DEFINE w == Encoded3(c, z)
  <2>2. w.own = z.own /\ w.kids = [k \in Nested(c) |-> [i \in DOMAIN z.kids[k] |-> Encoded2(Part(c, k), z.kids[k][i])]]
    BY <2>1 DEF Encoded3
  <2>3. Digits(c, w) = Digits(c, z)
    BY <2>2 DEF Digits
  <2>4. \A tree : DOMAIN tree.kids = Nested(c) =>
           Normalised5(c, tree) = [own |-> Digits(c, tree), kids |-> [k \in Nested(c) |->
               [i \in DOMAIN tree.kids[k] |-> Normalised4(Part(c, k), tree.kids[k][i])]]]
    BY <1>2 DEF Normalised5
  <2> HIDE DEF w
  <2>5. Normalised5(c, w) = [own |-> Digits(c, z), kids |-> [k \in Nested(c) |->
            [i \in DOMAIN z.kids[k] |-> Normalised4(Part(c, k), Encoded2(Part(c, k), z.kids[k][i]))]]]
    BY <2>2, <2>3, <2>4
  <2> QED
    BY <2>1, <2>4, <2>5 DEF w
<1> DEFINE Far(v, w) == /\ Digits(c, v) = Digits(c, w)
                        /\ \A k \in Nested(c) : /\ DOMAIN v.kids[k] = DOMAIN w.kids[k]
                                                /\ \A i \in DOMAIN v.kids[k] : Normalised4(Part(c, k), v.kids[k][i]) = Normalised4(Part(c, k), w.kids[k][i])
           Near(v, w) == /\ Digits(c, v) = Digits(c, w)
                         /\ \A k \in Nested(c) : /\ DOMAIN v.kids[k] = DOMAIN w.kids[k]
                                                 /\ \A i \in DOMAIN v.kids[k] : Normalised4(Part(c, k), Encoded2(Part(c, k), v.kids[k][i]))
                                                                                = Normalised4(Part(c, k), Encoded2(Part(c, k), w.kids[k][i]))
<1>4. Normalised5(c, x) = Normalised5(c, y) <=> Far(x, y)
  <2> DEFINE row(z) == [k \in Nested(c) |-> [i \in DOMAIN z.kids[k] |-> Normalised4(Part(c, k), z.kids[k][i])]]
  <2>1. Normalised5(c, x) = Normalised5(c, y) <=> Digits(c, x) = Digits(c, y) /\ row(x) = row(y)
    <3>1. Normalised5(c, x) = [own |-> Digits(c, x), kids |-> row(x)] /\ Normalised5(c, y) = [own |-> Digits(c, y), kids |-> row(y)]
      BY <1>3
    <3> HIDE DEF row
    <3> QED
      BY <3>1
  <2>2. row(x) = row(y) <=> \A k \in Nested(c) : row(x)[k] = row(y)[k]
    OBVIOUS
  <2>3. \A k \in Nested(c) : row(x)[k] = row(y)[k] <=>
           /\ DOMAIN x.kids[k] = DOMAIN y.kids[k]
           /\ \A i \in DOMAIN x.kids[k] : Normalised4(Part(c, k), x.kids[k][i]) = Normalised4(Part(c, k), y.kids[k][i])
    <3> TAKE k \in Nested(c)
    <3> DEFINE one == [i \in DOMAIN x.kids[k] |-> Normalised4(Part(c, k), x.kids[k][i])]
               two == [i \in DOMAIN y.kids[k] |-> Normalised4(Part(c, k), y.kids[k][i])]
    <3>1. row(x)[k] = one /\ row(y)[k] = two
      OBVIOUS
    <3>2. one = two <=> /\ DOMAIN x.kids[k] = DOMAIN y.kids[k]
                        /\ \A i \in DOMAIN x.kids[k] : Normalised4(Part(c, k), x.kids[k][i]) = Normalised4(Part(c, k), y.kids[k][i])
      OBVIOUS
    <3> QED
      BY <3>1, <3>2
  <2> HIDE DEF row
  <2> QED
    BY <2>1, <2>2, <2>3
<1>5. Normalised5(c, Encoded3(c, x)) = Normalised5(c, Encoded3(c, y)) <=> Near(x, y)
  <2> DEFINE row(z) == [k \in Nested(c) |-> [i \in DOMAIN z.kids[k] |-> Normalised4(Part(c, k), Encoded2(Part(c, k), z.kids[k][i]))]]
  <2>1. Normalised5(c, Encoded3(c, x)) = Normalised5(c, Encoded3(c, y)) <=> Digits(c, x) = Digits(c, y) /\ row(x) = row(y)
    <3>1. Normalised5(c, Encoded3(c, x)) = [own |-> Digits(c, x), kids |-> row(x)] /\ Normalised5(c, Encoded3(c, y)) = [own |-> Digits(c, y), kids |-> row(y)]
      BY <1>3
    <3> HIDE DEF row
    <3> QED
      BY <3>1
  <2>2. row(x) = row(y) <=> \A k \in Nested(c) : row(x)[k] = row(y)[k]
    OBVIOUS
  <2>3. \A k \in Nested(c) : row(x)[k] = row(y)[k] <=>
           /\ DOMAIN x.kids[k] = DOMAIN y.kids[k]
           /\ \A i \in DOMAIN x.kids[k] : Normalised4(Part(c, k), Encoded2(Part(c, k), x.kids[k][i]))
                                           = Normalised4(Part(c, k), Encoded2(Part(c, k), y.kids[k][i]))
    <3> TAKE k \in Nested(c)
    <3> DEFINE one == [i \in DOMAIN x.kids[k] |-> Normalised4(Part(c, k), Encoded2(Part(c, k), x.kids[k][i]))]
               two == [i \in DOMAIN y.kids[k] |-> Normalised4(Part(c, k), Encoded2(Part(c, k), y.kids[k][i]))]
    <3>1. row(x)[k] = one /\ row(y)[k] = two
      OBVIOUS
    <3>2. one = two <=> /\ DOMAIN x.kids[k] = DOMAIN y.kids[k]
                        /\ \A i \in DOMAIN x.kids[k] : Normalised4(Part(c, k), Encoded2(Part(c, k), x.kids[k][i]))
                                                        = Normalised4(Part(c, k), Encoded2(Part(c, k), y.kids[k][i]))
      OBVIOUS
    <3> QED
      BY <3>1, <3>2
  <2> HIDE DEF row
  <2> QED
    BY <2>1, <2>2, <2>3
<1>6. \A k \in Nested(c) : \A i \in DOMAIN x.kids[k] \cap DOMAIN y.kids[k] :
         /\ Normalised4(Part(c, k), x.kids[k][i]) = Normalised4(Part(c, k), y.kids[k][i])
            => Normalised4(Part(c, k), Encoded2(Part(c, k), x.kids[k][i])) = Normalised4(Part(c, k), Encoded2(Part(c, k), y.kids[k][i]))
         /\ /\ Agree(models, others)
            /\ Normalised4(Part(c, k), Encoded2(Part(c, k), x.kids[k][i])) = Normalised4(Part(c, k), Encoded2(Part(c, k), y.kids[k][i]))
            => Normalised4(Part(c, k), x.kids[k][i]) = Normalised4(Part(c, k), y.kids[k][i])
  <2> TAKE k \in Nested(c)
  <2> TAKE i \in DOMAIN x.kids[k] \cap DOMAIN y.kids[k]
  <2>1. WellRead2(Part(c, k), x.kids[k][i], models) /\ WellRead2(Part(c, k), y.kids[k][i], others)
    BY DEF WellRead3
  <2> QED
    BY <1>2, <2>1, Alike2
<1> QED
  BY <1>4, <1>5, <1>6

\* What is nested in what is nested in a model: nothing.
LEMMA LeafWritten ==
    ASSUME NEW c \in Leaves \ {"pump"}, NEW x, NEW models, WellRead0(c, x, models)
    PROVE  Encoded0(c, x) = x /\ Normalised3(c, x) = Normalised0(c, x)
<1>1. c \in Classes /\ Nested(c) = {} /\ Settled(c, x, models)
  BY Depths DEF Classes, Roots, Trunks, Branches, WellRead0
<1>2. OwnWritten(c, x) = x.own
  BY <1>1, OwnIsWritten
<1>3. x.kids = <<>>
  <2>1. \A k : k \notin Nested(c)
    BY <1>1
  <2> QED
    BY <1>1, <2>1 DEF Settled, AreLists
<1>4. Encoded0(c, x) = x
  BY <1>1, <1>2, <1>3 DEF Encoded0, Settled
<1>5. Normalised3(c, x) = Normalised0(c, x)
  BY <1>3 DEF Normalised3, Normalised0
<1> QED
  BY <1>4, <1>5

\* A model is written as it is.
LEMMA ModelWritten ==
    ASSUME NEW m, WellRead1("pump_model", m, {})
    PROVE  /\ Normalised4("pump_model", Encoded1("pump_model", m)) = Normalised1("pump_model", m)
           /\ Normalised1("pump_model", m).own["id"] = m.own.id
<1> DEFINE c == "pump_model"
<1>1. c \in Classes /\ c \in Branches /\ c # "pump" /\ Settled(c, m, {})
  BY DEF Classes, Roots, Trunks, Branches, WellRead1
<1>2. \A k \in Nested(c) : ClassOf(c, k) = Part(c, k) /\ Part(c, k) \in Leaves \ {"pump"}
  <2>1. \A k \in Nested(c) : Part(c, k) \in Leaves /\ ClassOf(c, k) = Part(c, k)
    BY <1>1, Depths, ClassOfNested
  <2>2. \A k \in DOMAIN KinOf(c) : KinOf(c)[k] # "pump"
    BY DEF KinOf
  <2> QED
    BY <1>1, <2>1, <2>2, NestedIsKin
<1>3. /\ OwnWritten(c, m) = m.own /\ NestWritten(c) = Nested(c) /\ DOMAIN m.own = Scalars(c)
  BY <1>1, OwnIsWritten
<1>4. /\ m = [own |-> m.own, kids |-> m.kids] /\ m.kids = [k \in Nested(c) |-> m.kids[k]]
      /\ \A k \in Nested(c) : m.kids[k] = [i \in DOMAIN m.kids[k] |-> m.kids[k][i]]
  BY <1>1 DEF Settled, AreLists
<1>5. \A k \in Nested(c) : \A i \in DOMAIN m.kids[k] :
         /\ Encoded0(Part(c, k), m.kids[k][i]) = m.kids[k][i]
         /\ Normalised3(Part(c, k), m.kids[k][i]) = Normalised0(Part(c, k), m.kids[k][i])
  <2> TAKE k \in Nested(c)
  <2> TAKE i \in DOMAIN m.kids[k]
  <2>1. WellRead0(Part(c, k), m.kids[k][i], {})
    BY DEF WellRead1
  <2> QED
    BY <1>2, <2>1, LeafWritten
<1>6. Encoded1(c, m) = m
  <2> DEFINE row(k) == [i \in DOMAIN m.kids[k] |-> Encoded0(Part(c, k), m.kids[k][i])]
  <2>1. \A k \in Nested(c) : row(k) = m.kids[k]
    BY <1>4, <1>5
  <2>2. Encoded1(c, m) = [own |-> m.own, kids |-> [k \in Nested(c) |-> row(k)]]
    BY <1>3 DEF Encoded1
  <2> HIDE DEF row, c
  <2>3. [k \in Nested(c) |-> row(k)] = m.kids
    BY <1>4, <2>1
  <2> QED
    BY <1>4, <2>2, <2>3
<1>7. Normalised4(c, m) = Normalised1(c, m)
  <2> DEFINE far(k)  == [i \in DOMAIN m.kids[k] |-> Normalised3(ClassOf(c, k), m.kids[k][i])]
             near(k) == [i \in DOMAIN m.kids[k] |-> Normalised0(ClassOf(c, k), m.kids[k][i])]
  <2>1. \A k \in Nested(c) : far(k) = near(k)
    BY <1>2, <1>5
  <2>2. DOMAIN m.kids = Nested(c)
    BY <1>4
  <2>3. /\ Normalised4(c, m) = [own |-> Digits(c, m), kids |-> [k \in DOMAIN m.kids |-> far(k)]]
        /\ Normalised1(c, m) = [own |-> Digits(c, m), kids |-> [k \in DOMAIN m.kids |-> near(k)]]
    BY DEF Normalised4, Normalised1
  <2> HIDE DEF far, near, c
  <2> QED
    BY <2>1, <2>2, <2>3
<1>8. Normalised1(c, m).own["id"] = m.own.id
  <2>1. "id" \in DOMAIN m.own /\ Fields[c]["id"].type = "text"
    BY <1>3, FieldsNamed
  <2>2. Digits(c, m)["id"] = m.own.id
    BY <2>1 DEF Digits
  <2>3. Normalised1(c, m).own = Digits(c, m)
    BY DEF Normalised1
  <2> QED
    BY <2>2, <2>3
<1> QED
  BY <1>6, <1>7, <1>8

\* Networks that are alike have the same pumps, with the same models.
LEMMA ModelsMatch ==
    ASSUME NEW x, NEW y, NEW models, NEW others,
           WellRead3("network", x, models), WellRead3("network", y, others),
           Normalised5("network", x) = Normalised5("network", y), NEW m \in ModelsUsed(x)
    PROVE  \E n \in ModelsUsed(y) : Normalised1("pump_model", m) = Normalised1("pump_model", n)
<1>1. /\ "stations" \in Nested("network") /\ "groups" \in Nested("station") /\ "pumps" \in Nested("group")
  BY FieldsNamed
<1>2. "network" \in Classes /\ "station" \in Classes /\ "group" \in Classes
  <2>1. "network" \in Classes
    BY DEF Classes, Roots
  <2>2. "station" \in Classes
    BY DEF Classes, Roots, Trunks
  <2>3. "group" \in Classes
    BY DEF Classes, Roots, Trunks, Branches
  <2> QED
    BY <2>1, <2>2, <2>3
<1>3. /\ Part("network", "stations") = "station" /\ Part("station", "groups") = "group" /\ Part("group", "pumps") = "pump"
      /\ ClassOf("network", "stations") = "station" /\ ClassOf("station", "groups") = "group"
      /\ ClassOf("group", "pumps") = "pump" /\ ClassOf("pump", "model") = "pump_model"
  <2>1. /\ KinOf("network")["stations"] = "station" /\ KinOf("station")["groups"] = "group" /\ KinOf("group")["pumps"] = "pump"
    BY DEF KinOf
  <2>2. /\ Part("network", "stations") = "station" /\ Part("station", "groups") = "group" /\ Part("group", "pumps") = "pump"
    BY <1>1, <1>2, <2>1, NestedIsKin
  <2> QED
    BY <2>2 DEF ClassOf
<1>4. \A z, read : WellRead3("network", z, read) => "stations" \in DOMAIN z.kids
  BY <1>1, <1>2 DEF WellRead3, Settled, AreLists
<1>5. \A z, read : WellRead2("station", z, read) => "groups" \in DOMAIN z.kids
  BY <1>1, <1>2 DEF WellRead2, Settled, AreLists
<1>6. \A z, read : WellRead1("group", z, read) => "pumps" \in DOMAIN z.kids
  BY <1>1, <1>2 DEF WellRead1, Settled, AreLists
<1>7. PICK p \in PumpsOfNetwork(x) : m = p.kids.model[1]
  BY DEF ModelsUsed
<1>8. PICK s \in Range(x.kids.stations) : \E g \in Range(s.kids.groups) : p \in Range(g.kids.pumps)
  BY DEF PumpsOfNetwork
<1>9. PICK g \in Range(s.kids.groups) : p \in Range(g.kids.pumps)
  BY <1>8
<1>10. PICK i \in DOMAIN x.kids.stations : s = x.kids.stations[i]
  BY DEF Range
<1>11. PICK j \in DOMAIN s.kids.groups : g = s.kids.groups[j]
  BY DEF Range
<1>12. PICK h \in DOMAIN g.kids.pumps : p = g.kids.pumps[h]
  BY <1>9 DEF Range
<1> DEFINE t == y.kids.stations[i]
           f == t.kids.groups[j]
           q == f.kids.pumps[h]
<1>13. i \in DOMAIN y.kids.stations /\ Normalised4("station", s) = Normalised4("station", t)
  <2> DEFINE row(z) == [n \in DOMAIN z.kids["stations"] |-> Normalised4("station", z.kids["stations"][n])]
  <2>1. \A z : "stations" \in DOMAIN z.kids => Normalised5("network", z).kids["stations"] = row(z)
    <3> TAKE z
    <3> HAVE "stations" \in DOMAIN z.kids
    <3>1. Normalised5("network", z).kids["stations"] = [n \in DOMAIN z.kids["stations"] |-> Normalised4(ClassOf("network", "stations"), z.kids["stations"][n])]
      BY DEF Normalised5
    <3> QED
      BY <1>3, <3>1
  <2> HIDE DEF row
  <2>2. row(x) = row(y)
    BY <1>4, <2>1
  <2> QED
    BY <1>10, <2>2 DEF row
<1>14. WellRead2("station", s, models) /\ WellRead2("station", t, others)
  BY <1>1, <1>3, <1>10, <1>13 DEF WellRead3
<1>a. t \in Range(y.kids.stations)
  BY <1>13 DEF Range
<1> HIDE DEF t
<1>15. j \in DOMAIN t.kids.groups /\ Normalised3("group", g) = Normalised3("group", f)
  <2> DEFINE row(z) == [n \in DOMAIN z.kids["groups"] |-> Normalised3("group", z.kids["groups"][n])]
  <2>1. \A z : "groups" \in DOMAIN z.kids => Normalised4("station", z).kids["groups"] = row(z)
    <3> TAKE z
    <3> HAVE "groups" \in DOMAIN z.kids
    <3>1. Normalised4("station", z).kids["groups"] = [n \in DOMAIN z.kids["groups"] |-> Normalised3(ClassOf("station", "groups"), z.kids["groups"][n])]
      BY DEF Normalised4
    <3> QED
      BY <1>3, <3>1
  <2> HIDE DEF row
  <2>2. row(s) = row(t)
    BY <1>5, <1>13, <1>14, <2>1
  <2> QED
    BY <1>11, <2>2 DEF row
<1>16. WellRead1("group", g, models) /\ WellRead1("group", f, others)
  BY <1>1, <1>3, <1>11, <1>14, <1>15 DEF WellRead2
<1>b. f \in Range(t.kids.groups)
  BY <1>15 DEF Range
<1> HIDE DEF f
<1>17. h \in DOMAIN f.kids.pumps /\ Normalised2("pump", p) = Normalised2("pump", q)
  <2> DEFINE row(z) == [n \in DOMAIN z.kids["pumps"] |-> Normalised2("pump", z.kids["pumps"][n])]
  <2>1. \A z : "pumps" \in DOMAIN z.kids => Normalised3("group", z).kids["pumps"] = row(z)
    <3> TAKE z
    <3> HAVE "pumps" \in DOMAIN z.kids
    <3>1. Normalised3("group", z).kids["pumps"] = [n \in DOMAIN z.kids["pumps"] |-> Normalised2(ClassOf("group", "pumps"), z.kids["pumps"][n])]
      BY DEF Normalised3
    <3> QED
      BY <1>3, <3>1
  <2> HIDE DEF row
  <2>2. row(g) = row(f)
    BY <1>6, <1>15, <1>16, <2>1
  <2> QED
    BY <1>12, <2>2 DEF row
<1>c. q \in Range(f.kids.pumps)
  BY <1>17 DEF Range
<1>18. WellRead0("pump", p, models) /\ WellRead0("pump", q, others)
  BY <1>1, <1>3, <1>12, <1>16, <1>17 DEF WellRead1
<1>19. q \in PumpsOfNetwork(y)
  BY <1>a, <1>b, <1>c DEF PumpsOfNetwork
<1> HIDE DEF q
<1>20. \A z, read : WellRead0("pump", z, read) => Normalised2("pump", z).kids["model"][1] = Normalised1("pump_model", z.kids.model[1])
  <2> TAKE z, read
  <2> HAVE WellRead0("pump", z, read)
  <2>1. z.kids = [model |-> <<z.kids.model[1]>>]
    BY DEF WellRead0, Settled
  <2>2. "model" \in DOMAIN z.kids /\ 1 \in DOMAIN z.kids["model"]
    BY <2>1
  <2> QED
    BY <1>3, <2>2 DEF Normalised2
<1>21. Normalised1("pump_model", p.kids.model[1]) = Normalised1("pump_model", q.kids.model[1])
  BY <1>17, <1>18, <1>20
<1> QED
  BY <1>7, <1>19, <1>21 DEF ModelsUsed

\* The identifiers of models.
IdsOf(models) == {m.own.id : m \in models}

\* The equipment as it is hashed: the models, to their last digits, by their identifiers.
LEMMA EquipmentHashed ==
    ASSUME NEW net, AreDistinct(ModelsUsed(net)), \A m \in ModelsUsed(net) : WellRead1("pump_model", m, {})
    PROVE  \E entries : /\ Normalised5("equipment", Equipment(net)) = [own |-> <<>>, kids |-> [pump_models |-> entries]]
                     /\ entries = [id \in IdsOf(ModelsUsed(net)) |-> entries[id]]
                     /\ \A m \in ModelsUsed(net) : entries[m.own.id] = Normalised1("pump_model", m)
<1> DEFINE used == ModelsUsed(net)
           ids == {m.own.id : m \in used}
           model(id) == CHOOSE m \in used : m.own.id = id
           entries == [id \in ids |-> Normalised4("pump_model", Encoded1("pump_model", model(id)))]
           written == [id \in ids |-> Encoded1("pump_model", model(id))]
<1>1. Equipment(net) = [own |-> <<>>, kids |-> [pump_models |-> written]]
  BY DEF Equipment
<1>2. ClassOf("equipment", "pump_models") = "pump_model"
  BY FieldsNamed DEF ClassOf
<1>3. entries = [id \in ids |-> entries[id]] /\ \A id \in ids : written[id] = Encoded1("pump_model", model(id))
  OBVIOUS
<1>4. \A m \in used : entries[m.own.id] = Normalised1("pump_model", m)
  <2> TAKE m \in used
  <2>1. model(m.own.id) = m
    BY DEF AreDistinct
  <2>2. entries[m.own.id] = Normalised4("pump_model", Encoded1("pump_model", m))
    BY <2>1
  <2> HIDE DEF entries
  <2> QED
    BY <2>2, ModelWritten
<1>5. entries = [id \in DOMAIN written |-> Normalised4("pump_model", written[id])] /\ DOMAIN written = ids
  OBVIOUS
<1> HIDE DEF entries, written, model
<1>6. Normalised5("equipment", Equipment(net)) = [own |-> <<>>, kids |-> [pump_models |-> entries]]
  <2> DEFINE tree == Equipment(net)
  <2>1. tree.own = <<>> /\ DOMAIN tree.kids = {"pump_models"} /\ tree.kids["pump_models"] = written
    BY <1>1
  <2> HIDE DEF tree
  <2>2. Digits("equipment", tree) = <<>>
    BY <2>1 DEF Digits
  <2>3. [k \in DOMAIN tree.kids |-> [i \in DOMAIN tree.kids[k] |-> Normalised4(ClassOf("equipment", k), tree.kids[k][i])]]
          = [pump_models |-> entries]
    BY <1>2, <1>5, <2>1
  <2>4. Normalised5("equipment", tree) = [own |-> <<>>, kids |-> [pump_models |-> entries]]
    BY <2>2, <2>3 DEF Normalised5
  <2> QED
    BY <2>4 DEF tree
<1> QED
  BY <1>3, <1>4, <1>6 DEF IdsOf

\* Equipments are hashed alike when they hold the same identifiers, and agree on them.
LEMMA EquipmentAlike ==
    ASSUME NEW x, AreDistinct(ModelsUsed(x)), \A m \in ModelsUsed(x) : WellRead1("pump_model", m, {}),
           NEW y, AreDistinct(ModelsUsed(y)), \A m \in ModelsUsed(y) : WellRead1("pump_model", m, {})
    PROVE  Normalised5("equipment", Equipment(x)) = Normalised5("equipment", Equipment(y))
             <=> IdsOf(ModelsUsed(x)) = IdsOf(ModelsUsed(y)) /\ Agree(ModelsUsed(x), ModelsUsed(y))
<1> DEFINE ux == ModelsUsed(x)
           uy == ModelsUsed(y)
<1>1. PICK rx : /\ Normalised5("equipment", Equipment(x)) = [own |-> <<>>, kids |-> [pump_models |-> rx]]
                /\ rx = [id \in IdsOf(ux) |-> rx[id]]
                /\ \A m \in ux : rx[m.own.id] = Normalised1("pump_model", m)
  BY EquipmentHashed
<1>2. PICK ry : /\ Normalised5("equipment", Equipment(y)) = [own |-> <<>>, kids |-> [pump_models |-> ry]]
                /\ ry = [id \in IdsOf(uy) |-> ry[id]]
                /\ \A m \in uy : ry[m.own.id] = Normalised1("pump_model", m)
  BY EquipmentHashed
<1>3. Normalised5("equipment", Equipment(x)) = Normalised5("equipment", Equipment(y)) <=> rx = ry
  <2>1. \A r : [own |-> <<>>, kids |-> [pump_models |-> r]].kids["pump_models"] = r
    OBVIOUS
  <2> QED
    BY <1>1, <1>2, <2>1
<1> HIDE DEF ux, uy
<1>4. ASSUME rx = ry PROVE IdsOf(ux) = IdsOf(uy) /\ Agree(ux, uy)
  <2>1. IdsOf(ux) = IdsOf(uy)
    BY <1>1, <1>2, <1>4
  <2> QED
    BY <1>1, <1>2, <1>4, <2>1 DEF Agree
<1>5. ASSUME IdsOf(ux) = IdsOf(uy), Agree(ux, uy) PROVE rx = ry
  <2>1. \A id \in IdsOf(ux) : rx[id] = ry[id]
    <3> TAKE id \in IdsOf(ux)
    <3>1. PICK m \in ux : id = m.own.id
      BY DEF IdsOf
    <3>2. PICK n \in uy : id = n.own.id
      BY <1>5 DEF IdsOf
    <3> QED
      BY <1>1, <1>2, <1>5, <3>1, <3>2 DEF Agree
  <2> QED
    BY <1>1, <1>2, <1>5, <2>1
<1> QED
  BY <1>3, <1>4, <1>5 DEF ux, uy

\* What is hashed of an input, and what the hash is compared with.
Hashed(o, k) == [i \in DOMAIN o.kids[k] |-> Normalised5(Part("input", k), Encoded3(Part("input", k), o.kids[k][i]))]
Kept(o, k)   == [i \in DOMAIN o.kids[k] |-> Normalised5(Part("input", k), o.kids[k][i])]
Covered      == Nested("input") \ {"provenance"}

\* The hash of a package, and what it stands for, field by field.
LEMMA HashOf ==
    ASSUME NEW o, Accepted(o)
    PROVE  \E hashed :
             /\ PackageHash(Frozen(o)) = [own |-> [n \in {} |-> n], kids |-> hashed]
             /\ hashed = [k \in Covered \cup {"equipment"} |-> hashed[k]]
             /\ hashed["equipment"] = [i \in {1} |-> Normalised5("equipment", Equipment(o.kids.network[1]))]
             /\ \A k \in Covered : hashed[k] = Hashed(o, k)
             /\ Normalised("input", Without(o, "provenance")) = [own |-> [n \in {} |-> n], kids |-> [k \in Covered |-> Kept(o, k)]]
<1> DEFINE net == o.kids.network[1]
           doc == Encoded("input", o)
           tree == Without(Frozen(o), "provenance")
           kept == Without(o, "provenance")
<1>1. PICK models : WellRead("input", o, models)
  BY DEF Accepted
<1>2. "input" \in Classes /\ "input" # "pump"
  BY DEF Classes
<1>3. Settled("input", o, models)
  BY <1>1 DEF WellRead
<1>4. OwnWritten("input", o) = o.own /\ NestWritten("input") = Nested("input") /\ DOMAIN o.own = {}
  BY <1>2, <1>3, FieldsNamed, OwnIsWritten
<1>5. o = [own |-> o.own, kids |-> o.kids] /\ DOMAIN o.kids = Nested("input")
  <2>1. o.kids = [k \in Nested("input") |-> o.kids[k]]
    BY <1>2, <1>3 DEF Settled, AreLists
  <2> QED
    BY <1>3, <2>1 DEF Settled
<1>6. "equipment" \notin Nested("input") /\ \A k \in Nested("input") : ClassOf("input", k) = Part("input", k)
  BY <1>2, ClassOfNested
<1>7. ClassOf("input", "equipment") = "equipment"
  BY DEF ClassOf
<1>8. doc.own = o.own /\ doc.kids = [k \in Nested("input") |->
         [i \in DOMAIN o.kids[k] |-> Encoded3(Part("input", k), o.kids[k][i])]]
  BY <1>4 DEF Encoded
<1>9. Frozen(o) = [own |-> doc.own, kids |-> Put(doc.kids, "equipment", <<Equipment(net)>>)]
  BY DEF Frozen, WithEquipment
<1>10. /\ kept.own = o.own /\ DOMAIN kept.kids = Covered /\ \A k \in Covered : kept.kids[k] = o.kids[k]
  <2>1. kept = [own |-> o.own, kids |-> [k \in DOMAIN o.kids \ {"provenance"} |-> o.kids[k]]]
    BY <1>5 DEF Without
  <2> QED
    BY <1>5, <2>1 DEF Covered
<1> HIDE DEF kept, doc
<1>11. /\ tree.own = o.own /\ DOMAIN tree.kids = Covered \cup {"equipment"}
       /\ tree.kids["equipment"] = <<Equipment(net)>>
       /\ \A k \in Covered : tree.kids[k] = [i \in DOMAIN o.kids[k] |-> Encoded3(Part("input", k), o.kids[k][i])]
  <2> DEFINE kids == Put(doc.kids, "equipment", <<Equipment(net)>>)
  <2>1. /\ DOMAIN kids = Nested("input") \cup {"equipment"} /\ kids["equipment"] = <<Equipment(net)>>
        /\ \A k \in Nested("input") : kids[k] = doc.kids[k]
    BY <1>6, <1>8 DEF Put
  <2> HIDE DEF kids
  <2>2. tree = [own |-> doc.own, kids |-> [k \in DOMAIN kids \ {"provenance"} |-> kids[k]]]
    BY <1>9 DEF Without, kids
  <2> HIDE DEF tree
  <2>3. \A k \in Covered \cup {"equipment"} : tree.kids[k] = kids[k]
    BY <1>6, <2>1, <2>2 DEF Covered
  <2> QED
    BY <1>8, <2>1, <2>2, <2>3 DEF Covered
<1> HIDE DEF tree, net
<1>12. Digits("input", tree) = [n \in {} |-> n] /\ Digits("input", kept) = [n \in {} |-> n]
  BY <1>4, <1>10, <1>11 DEF Digits
<1> DEFINE row(z, k) == [i \in DOMAIN z.kids[k] |-> Normalised5(ClassOf("input", k), z.kids[k][i])]
<1>13. \A z : Normalised("input", z) = [own |-> Digits("input", z), kids |-> [k \in DOMAIN z.kids |-> row(z, k)]]
  BY DEF Normalised
<1>14. row(tree, "equipment") = [i \in {1} |-> Normalised5("equipment", Equipment(net))]
  <2>1. DOMAIN tree.kids["equipment"] = {1} /\ tree.kids["equipment"][1] = Equipment(net)
    BY <1>11
  <2> QED
    BY <1>7, <2>1
<1>15. \A k \in Covered : row(tree, k) = Hashed(o, k) /\ row(kept, k) = Kept(o, k)
  <2> TAKE k \in Covered
  <2>1. ClassOf("input", k) = Part("input", k)
    BY <1>6 DEF Covered
  <2> DEFINE written == [i \in DOMAIN o.kids[k] |-> Encoded3(Part("input", k), o.kids[k][i])]
  <2>2. row(tree, k) = Hashed(o, k)
    <3>1. tree.kids[k] = written
      BY <1>11
    <3>2. DOMAIN written = DOMAIN o.kids[k] /\ \A i \in DOMAIN written : written[i] = Encoded3(Part("input", k), o.kids[k][i])
      OBVIOUS
    <3> HIDE DEF written
    <3>3. row(tree, k) = [i \in DOMAIN written |-> Normalised5(Part("input", k), written[i])]
      BY <2>1, <3>1
    <3> QED
      BY <3>2, <3>3 DEF Hashed
  <2>3. row(kept, k) = Kept(o, k)
    BY <1>10, <2>1 DEF Kept
  <2> QED
    BY <2>2, <2>3
<1> HIDE DEF row
<1> DEFINE hashed == [k \in Covered \cup {"equipment"} |-> row(tree, k)]
<1>16. PackageHash(Frozen(o)) = [own |-> [n \in {} |-> n], kids |-> hashed]
  BY <1>11, <1>12, <1>13 DEF PackageHash, tree
<1>17. Normalised("input", kept) = [own |-> [n \in {} |-> n], kids |-> [k \in Covered |-> Kept(o, k)]]
  <2>1. [k \in DOMAIN kept.kids |-> row(kept, k)] = [k \in Covered |-> Kept(o, k)]
    BY <1>10, <1>15
  <2> QED
    BY <1>12, <1>13, <2>1
<1>18. /\ hashed = [k \in Covered \cup {"equipment"} |-> hashed[k]] /\ hashed["equipment"] = row(tree, "equipment")
       /\ \A k \in Covered : hashed[k] = row(tree, k)
  OBVIOUS
<1> HIDE DEF hashed
<1> QED
  BY <1>14, <1>15, <1>16, <1>17, <1>18 DEF kept, net

\* Two packages share a hash exactly when their inputs are alike.
LEMMA HashIsFaithful ==
    ASSUME NEW a, NEW b, Accepted(a), Accepted(b)
    PROVE  PackageHash(Frozen(a)) = PackageHash(Frozen(b))
             <=> Normalised("input", Without(a, "provenance")) = Normalised("input", Without(b, "provenance"))
<1> DEFINE x == a.kids.network[1]
           y == b.kids.network[1]
           ux == ModelsUsed(x)
           uy == ModelsUsed(y)
           ex == Normalised5("equipment", Equipment(x))
           ey == Normalised5("equipment", Equipment(y))
<1>1. /\ WellRead("input", a, ux) /\ AreDistinct(ux) /\ \A m \in ux : WellRead1("pump_model", m, {})
      /\ WellRead("input", b, uy) /\ AreDistinct(uy) /\ \A m \in uy : WellRead1("pump_model", m, {})
  BY EquipmentIsRead
<1>2. ex = ey <=> IdsOf(ux) = IdsOf(uy) /\ Agree(ux, uy)
  BY <1>1, EquipmentAlike
<1>3. PICK ha : /\ PackageHash(Frozen(a)) = [own |-> [n \in {} |-> n], kids |-> ha]
                /\ ha = [k \in Covered \cup {"equipment"} |-> ha[k]]
                /\ ha["equipment"] = [i \in {1} |-> ex] /\ \A k \in Covered : ha[k] = Hashed(a, k)
                /\ Normalised("input", Without(a, "provenance")) = [own |-> [n \in {} |-> n], kids |-> [k \in Covered |-> Kept(a, k)]]
  BY HashOf
<1>4. PICK hb : /\ PackageHash(Frozen(b)) = [own |-> [n \in {} |-> n], kids |-> hb]
                /\ hb = [k \in Covered \cup {"equipment"} |-> hb[k]]
                /\ hb["equipment"] = [i \in {1} |-> ey] /\ \A k \in Covered : hb[k] = Hashed(b, k)
                /\ Normalised("input", Without(b, "provenance")) = [own |-> [n \in {} |-> n], kids |-> [k \in Covered |-> Kept(b, k)]]
  BY HashOf
<1> HIDE DEF ex, ey
<1>5. PackageHash(Frozen(a)) = PackageHash(Frozen(b)) <=> ex = ey /\ \A k \in Covered : Hashed(a, k) = Hashed(b, k)
  <2>1. PackageHash(Frozen(a)) = PackageHash(Frozen(b)) <=> ha = hb
    BY <1>3, <1>4
  <2>2. ha["equipment"] = hb["equipment"] <=> ex = ey
    <3>1. ha["equipment"][1] = ex /\ hb["equipment"][1] = ey
      BY <1>3, <1>4
    <3> QED
      BY <1>3, <1>4, <3>1
  <2>3. ha = hb <=> \A k \in Covered \cup {"equipment"} : ha[k] = hb[k]
    BY <1>3, <1>4
  <2> QED
    BY <1>3, <1>4, <2>1, <2>2, <2>3
<1> DEFINE alike == \A k \in Covered : Kept(a, k) = Kept(b, k)
<1>6. Normalised("input", Without(a, "provenance")) = Normalised("input", Without(b, "provenance")) <=> alike
  <2> DEFINE all(z) == [k \in Covered |-> Kept(z, k)]
  <2>1. all(a) = all(b) <=> alike
    OBVIOUS
  <2>2. Normalised("input", Without(a, "provenance")) = Normalised("input", Without(b, "provenance")) <=> all(a) = all(b)
    BY <1>3, <1>4
  <2> QED
    BY <2>1, <2>2
<1>7. \A k \in Covered : Part("input", k) \in Roots \ {"pump", "group", "station"}
  <2>1. "input" \in Classes
    BY DEF Classes
  <2>2. \A k \in DOMAIN KinOf("input") : KinOf("input")[k] \notin {"pump", "group", "station"}
    BY DEF KinOf
  <2>3. \A k \in Nested("input") : Part("input", k) \in Roots
    BY <2>1, Depths
  <2> QED
    BY <2>1, <2>2, <2>3, NestedIsKin DEF Covered
<1>8. \A k \in Covered : /\ Kept(a, k) = Kept(b, k) => Hashed(a, k) = Hashed(b, k)
                         /\ Agree(ux, uy) /\ Hashed(a, k) = Hashed(b, k) => Kept(a, k) = Kept(b, k)
  <2> SUFFICES ASSUME NEW k \in Covered
               PROVE  /\ Kept(a, k) = Kept(b, k) => Hashed(a, k) = Hashed(b, k)
                      /\ Agree(ux, uy) /\ Hashed(a, k) = Hashed(b, k) => Kept(a, k) = Kept(b, k)
    OBVIOUS
  <2> DEFINE c == Part("input", k)
             dom == DOMAIN a.kids[k]
  <2> HIDE DEF ux, uy
  <2>1. \A i \in DOMAIN a.kids[k] \cap DOMAIN b.kids[k] :
           /\ Normalised5(c, a.kids[k][i]) = Normalised5(c, b.kids[k][i])
              => Normalised5(c, Encoded3(c, a.kids[k][i])) = Normalised5(c, Encoded3(c, b.kids[k][i]))
           /\ Agree(ux, uy) /\ Normalised5(c, Encoded3(c, a.kids[k][i])) = Normalised5(c, Encoded3(c, b.kids[k][i]))
              => Normalised5(c, a.kids[k][i]) = Normalised5(c, b.kids[k][i])
    <3> TAKE i \in DOMAIN a.kids[k] \cap DOMAIN b.kids[k]
    <3>1. WellRead3(c, a.kids[k][i], ux) /\ WellRead3(c, b.kids[k][i], uy)
      BY <1>1 DEF WellRead, Covered
    <3> QED
      BY <1>7, <3>1, Alike3
  <2>2. Kept(a, k) = Kept(b, k) <=> /\ DOMAIN a.kids[k] = DOMAIN b.kids[k]
                                    /\ \A i \in DOMAIN a.kids[k] : Normalised5(c, a.kids[k][i]) = Normalised5(c, b.kids[k][i])
    BY DEF Kept
  <2>3. Hashed(a, k) = Hashed(b, k) <=>
           /\ DOMAIN a.kids[k] = DOMAIN b.kids[k]
           /\ \A i \in DOMAIN a.kids[k] : Normalised5(c, Encoded3(c, a.kids[k][i])) = Normalised5(c, Encoded3(c, b.kids[k][i]))
    BY DEF Hashed
  <2> QED
    BY <2>1, <2>2, <2>3
<1>9. ASSUME alike PROVE IdsOf(ux) = IdsOf(uy) /\ Agree(ux, uy)
  <2>1. "network" \in Covered /\ Part("input", "network") = "network"
    BY FieldsNamed DEF Covered, Part, Rule
  <2>2. 1 \in DOMAIN a.kids["network"] /\ 1 \in DOMAIN b.kids["network"]
    BY <1>1 DEF WellRead, Settled
  <2>3. Normalised5("network", x) = Normalised5("network", y)
    <3>1. Kept(a, "network")[1] = Kept(b, "network")[1]
      BY <1>9, <2>1
    <3> QED
      BY <2>1, <2>2, <3>1 DEF Kept
  <2>4. WellRead3("network", x, ux) /\ WellRead3("network", y, uy)
    <3>1. "network" \in Nested("input")
      BY FieldsNamed
    <3> HIDE DEF ux, uy
    <3> QED
      BY <1>1, <2>1, <2>2, <3>1 DEF WellRead
  <2>5. \A m \in ux : \E n \in uy : Normalised1("pump_model", m) = Normalised1("pump_model", n)
    BY <2>3, <2>4, ModelsMatch
  <2>6. \A m \in uy : \E n \in ux : Normalised1("pump_model", m) = Normalised1("pump_model", n)
    BY <2>3, <2>4, ModelsMatch
  <2>7. \A m \in ux \cup uy : Normalised1("pump_model", m).own["id"] = m.own.id
    BY <1>1, ModelWritten
  <2> HIDE DEF ux, uy
  <2>8. IdsOf(ux) = IdsOf(uy)
    BY <2>5, <2>6, <2>7 DEF IdsOf
  <2>9. Agree(ux, uy)
    <3> SUFFICES ASSUME NEW m \in ux, NEW n \in uy, m.own.id = n.own.id
                 PROVE  Normalised1("pump_model", m) = Normalised1("pump_model", n)
      BY DEF Agree
    <3>1. PICK l \in uy : Normalised1("pump_model", m) = Normalised1("pump_model", l)
      BY <2>5
    <3>2. l.own.id = n.own.id
      BY <2>7, <3>1
    <3> QED
      BY <1>1, <3>1, <3>2 DEF AreDistinct
  <2> QED
    BY <2>8, <2>9
<1>10. alike => ex = ey /\ \A k \in Covered : Hashed(a, k) = Hashed(b, k)
  BY <1>2, <1>8, <1>9
<1>11. ex = ey /\ (\A k \in Covered : Hashed(a, k) = Hashed(b, k)) => alike
  BY <1>2, <1>8
<1> QED
  BY <1>5, <1>6, <1>10, <1>11

\* What there is to freeze, what is accepted of it, and the rows that are kept.
Drafts == Documents \cup UNION {Rewritten(doc) : doc \in Documents}
Inputs == {Revalidated(doc, Thawed(doc)) : doc \in Drafts} \ {Refused}
Rows   == {PackageOf(o) : o \in Inputs}

\* Every document and every edit of it that is read twice, as queue_calculation does, is accepted.
LEMMA InputsAreAccepted == \A o \in Inputs : Accepted(o)
<1> SUFFICES ASSUME NEW doc \in Drafts, Revalidated(doc, Thawed(doc)) # Refused
             PROVE  Accepted(Revalidated(doc, Thawed(doc)))
  BY DEF Inputs
<1> DEFINE ruled == Ruled(doc, Thawed(doc))
<1>1. IsDocument(doc)
  BY PackageAssumption DEF Drafts
<1>2. /\ DOMAIN ruled.kids = DOMAIN doc.kids \cup {"rules"} /\ DOMAIN ruled.kids["rules"] = {1}
      /\ \A k \in DOMAIN doc.kids : k # "rules" => ruled.kids[k] = doc.kids[k]
  BY DEF Ruled, Put
<1> HIDE DEF ruled
<1>3. IsDocument(ruled)
  BY <1>1, <1>2 DEF IsDocument
<1>4. Revalidated(doc, Thawed(doc)) = Thawed(ruled)
  BY DEF Revalidated, ruled
<1> QED
  BY <1>3, <1>4, ThawedIsAccepted

\* The rows are packages of accepted inputs, and what was replayed of a row is its input.
PackageInv ==
    /\ document \in Drafts \cup {None}
    /\ packages \in Seq(Rows) /\ replays \in Seq(Inputs \cup {None}) /\ Len(replays) = Len(packages)
    /\ \A i \in DOMAIN packages : replays[i] \in {None, packages[i].accepted}

\* Freezing writes the package of an accepted input, and a replay reads this input back.
LEMMA PackageStep == PackageInv /\ [PackageNext]_packageVars => PackageInv'
<1> SUFFICES ASSUME PackageInv, [PackageNext]_packageVars PROVE PackageInv'
  OBVIOUS
<1> USE DEF PackageInv
<1>1. CASE AssembleDocument
  BY <1>1 DEF AssembleDocument, Drafts
<1>2. CASE RewriteDocument
  BY <1>2 DEF RewriteDocument, Drafts
<1>3. CASE FreezeDocument
  <2> DEFINE o == Revalidated(document, Thawed(document))
  <2>1. /\ document # None /\ o # Refused /\ packages' = Append(packages, PackageOf(o))
        /\ replays' = Append(replays, None) /\ document' = document
    BY <1>3 DEF FreezeDocument
  <2>2. o \in Inputs
    BY <2>1 DEF Inputs
  <2> HIDE DEF o
  <2>3. PackageOf(o) \in Rows
    BY <2>2 DEF Rows
  <2> DEFINE row == PackageOf(o)
  <2> HIDE DEF row
  <2>4. /\ packages' \in Seq(Rows) /\ replays' \in Seq(Inputs \cup {None}) /\ Len(replays') = Len(packages')
        /\ \A i \in DOMAIN packages' : /\ i = Len(packages) + 1 => replays'[i] = None
                                       /\ i # Len(packages) + 1 => /\ i \in DOMAIN packages /\ packages'[i] = packages[i]
                                                                   /\ replays'[i] = replays[i]
    BY <2>1, <2>3 DEF row
  <2> QED
    BY <2>1, <2>4
<1>4. CASE \E i \in DOMAIN replays : ReplayPackage(i)
  <2>1. PICK i \in DOMAIN replays : ReplayPackage(i)
    BY <1>4
  <2>2. i \in DOMAIN packages
    OBVIOUS
  <2>3. PICK o \in Inputs : packages[i] = PackageOf(o)
    BY <2>2 DEF Rows
  <2>4. packages[i].payload = Frozen(o) /\ packages[i].accepted = o
    BY <2>3 DEF PackageOf, Package
  <2>5. Thawed(packages[i].payload) = o
    BY <2>4, InputsAreAccepted, PackageIsReread
  <2>6. replays' = [replays EXCEPT ![i] = o] /\ UNCHANGED <<document, packages>>
    BY <2>1, <2>5 DEF ReplayPackage
  <2> QED
    BY <2>2, <2>4, <2>6
<1>5. CASE UNCHANGED packageVars
  BY <1>5 DEF packageVars
<1> QED
  BY <1>1, <1>2, <1>3, <1>4, <1>5 DEF PackageNext

\* In such rows what is replayed is what was accepted, and the hash is faithful.
LEMMA PackageInvImplies == PackageInv => PackagesAreFrozen
<1> SUFFICES ASSUME PackageInv PROVE PackagesAreFrozen
  OBVIOUS
<1>1. ASSUME NEW i \in DOMAIN packages
      PROVE  Accepted(packages[i].accepted) /\ packages[i].hash = PackageHash(Frozen(packages[i].accepted))
  <2>1. PICK o \in Inputs : packages[i] = PackageOf(o)
    BY DEF PackageInv, Rows
  <2>2. packages[i].accepted = o /\ packages[i].hash = PackageHash(Frozen(o))
    BY <2>1 DEF PackageOf, Package
  <2> QED
    BY <2>2, InputsAreAccepted
<1>2. \A i \in DOMAIN packages :
         replays[i] # None => replays[i] = packages[i].accepted /\ PackageHash(Frozen(replays[i])) = packages[i].hash
  BY <1>1 DEF PackageInv
<1>3. \A i, j \in DOMAIN packages :
         packages[i].hash = packages[j].hash <=>
             Normalised("input", Without(packages[i].accepted, "provenance"))
                 = Normalised("input", Without(packages[j].accepted, "provenance"))
  BY <1>1, HashIsFaithful
<1> QED
  BY <1>2, <1>3 DEF PackagesAreFrozen

\* A calculation computes the object that was accepted, and two calculations share a fingerprint
\* exactly when they compute the same object, for all documents and every edit of them: the fields
\* that canonical_input_from_dict reads are those that as_dict writes, and the hash covers them.
THEOREM PackagesFrozen == PackageSpec => []PackagesAreFrozen
<1>1. PackageInit => PackageInv
  BY DEF PackageInit, PackageInv
<1> QED
  BY <1>1, PackageStep, PackageInvImplies, PTL DEF PackageSpec
=============================================================================
