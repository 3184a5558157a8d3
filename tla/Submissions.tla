----------------------------- MODULE Submissions -----------------------------
(***************************************************************************)
(* The idempotent requests of services/core.py, reports.py, operations.py: *)
(* what a client submits under an idempotency key is recorded once, and    *)
(* repeated requests are answered with what was recorded.                  *)
(*                                                                         *)
(* A request is one transaction at READ COMMITTED.  It freezes its input,  *)
(* looks for a row with its key, inserts one, and commits at the end; a    *)
(* report is first put in the object store.  The database keeps the keys   *)
(* of a table apart: an insertion waits for the transaction that holds the *)
(* key, and fails when it commits.  A request may fail at any point, and   *)
(* its answer may be lost after the commit: the client then tries again.   *)
(***************************************************************************)
EXTENDS Quantities, FiniteSets

CONSTANTS
    Clients,
    Intent,    \* Client -> what it asks: [kind, key, payload]
    MaxDraft,  \* edits of the draft whose input a calculation freezes
    MaxTries   \* how many times a client sends its request

ASSUME SubmissionAssumption ==
    /\ \A c \in Clients : Intent[c].kind \in {"queue", "rerun", "report", "record"}
    /\ MaxDraft \in Nat /\ MaxTries \in Nat \ {0}

VARIABLES
    draft,    \* the version of the input of the scenario
    step,     \* where the transaction of each client is
    frozen,   \* the input each client has frozen
    tries,
    answer,   \* what each client was told: a kind of reply, and the row if there is one
    rows,     \* committed rows
    objects   \* keys of the object store: a client and its try

submissionVars == <<draft, step, frozen, tries, answer, rows, objects>>

\* A comparison, an optimization and a transfer each have their own table.
Table(c) == CASE Intent[c].kind \in {"queue", "rerun"} -> "calculations"
              [] Intent[c].kind = "report"             -> "reports"
              [] OTHER                                 -> "records"

Attempt(c) == <<c, tries[c]>>
Row(c)     == [table |-> Table(c), key |-> Intent[c].key, content |-> frozen[c], by |-> Attempt(c)]

Existing(c) == {r \in rows : r.table = Table(c) /\ r.key = Intent[c].key}

SameKey(c, d) == Table(c) = Table(d) /\ Intent[c].key = Intent[d].key

Reply(kind, r) == [kind |-> kind, row |-> r]
Unanswered     == Reply("none", None)

SubmissionInit ==
    /\ draft = 0
    /\ step = [c \in Clients |-> "idle"]
    /\ frozen = [c \in Clients |-> None]
    /\ tries = [c \in Clients |-> 1]
    /\ answer = [c \in Clients |-> Unanswered]
    /\ rows = {} /\ objects = {}

Become(c, s)  == step' = [step EXCEPT ![c] = s] /\ UNCHANGED answer
Answer(c, a)  == step' = [step EXCEPT ![c] = "done"] /\ answer' = [answer EXCEPT ![c] = a]
Deny(c, why) == Answer(c, Reply(why, None))

\* The network editor changes the draft between two statements of a submission.
EditDraft ==
    /\ draft < MaxDraft
    /\ draft' = draft + 1
    /\ UNCHANGED <<step, frozen, tries, answer, rows, objects>>

\* canonical_payload_for_calculation, or the parameters of the request: a rerun takes the
\* input that was archived.
Freeze(c) ==
    /\ step[c] = "idle"
    /\ frozen' = [frozen EXCEPT ![c] = IF Intent[c].kind = "queue" THEN draft ELSE Intent[c].payload]
    /\ Become(c, "looking")
    /\ UNCHANGED <<draft, tries, rows, objects>>

\* Mutation of Decide: the key is enough.
DecideByKey(c, r) == Answer(c, Reply("row", r))

Decide(c, r) == IF r.content = frozen[c] THEN Answer(c, Reply("row", r)) ELSE Deny(c, "conflict")

FindExisting(c) ==
    /\ step[c] = "looking"
    /\ \E r \in Existing(c) : Decide(c, r)
    /\ UNCHANGED <<draft, frozen, tries, rows, objects>>

FindNothing(c) ==
    /\ step[c] = "looking" /\ Existing(c) = {}
    /\ Become(c, IF Intent[c].kind = "report" THEN "storing" ELSE "inserting")
    /\ UNCHANGED <<draft, frozen, tries, rows, objects>>

\* storage.put_bytes: the object exists before its row.
PutObject(c) ==
    /\ step[c] = "storing"
    /\ objects' = objects \cup {Attempt(c)}
    /\ Become(c, "inserting")
    /\ UNCHANGED <<draft, frozen, tries, rows>>

\* Mutation of Insert: the table has no unique constraint.
InsertUnkeyed(c) ==
    /\ step[c] = "inserting"
    /\ Become(c, "inserted")
    /\ UNCHANGED <<draft, frozen, tries, rows, objects>>

\* The flush of the insertion; the transaction now holds the key.
Insert(c) ==
    /\ step[c] = "inserting" /\ Existing(c) = {}
    /\ \A d \in Clients : SameKey(c, d) => step[d] # "inserted"
    /\ Become(c, "inserted")
    /\ UNCHANGED <<draft, frozen, tries, rows, objects>>

\* Mutation of Collide: the object of the loser stays.
CollideKeeping(c) ==
    /\ step[c] = "inserting" /\ Existing(c) # {}
    /\ CASE Intent[c].kind \in {"queue", "report"} -> Become(c, "again")
         [] Intent[c].kind = "rerun"               -> Deny(c, "error")
         [] OTHER                                  -> Deny(c, "conflict")
    /\ UNCHANGED <<draft, frozen, tries, rows, objects>>

\* IntegrityError.  A calculation and a report roll back and look again, a report after
\* it has deleted its object; a rerun lets the error go, the others refuse.
Collide(c) ==
    /\ step[c] = "inserting" /\ Existing(c) # {}
    /\ CASE Intent[c].kind \in {"queue", "report"} -> Become(c, "again")
         [] Intent[c].kind = "rerun"               -> Deny(c, "error")
         [] OTHER                                  -> Deny(c, "conflict")
    /\ objects' = objects \ {Attempt(c)}
    /\ UNCHANGED <<draft, frozen, tries, rows>>

LookAgain(c) ==
    /\ step[c] = "again"
    /\ IF Existing(c) = {} THEN Deny(c, "conflict") ELSE \E r \in Existing(c) : Decide(c, r)
    /\ UNCHANGED <<draft, frozen, tries, rows, objects>>

\* The job and the audit event are in the same transaction as the row.
Commit(c) ==
    /\ step[c] = "inserted"
    /\ rows' = rows \cup {Row(c)}
    /\ \E a \in {Reply("row", Row(c)), Reply("lost", None)} : Answer(c, a)
    /\ UNCHANGED <<draft, frozen, tries, objects>>

\* The process or the connection dies: the transaction is rolled back, the object stays.
FailRequest(c) ==
    /\ step[c] \notin {"idle", "done"}
    /\ Deny(c, "lost")
    /\ UNCHANGED <<draft, frozen, tries, rows, objects>>

Retry(c) ==
    /\ step[c] = "done" /\ answer[c].kind \in {"lost", "error"} /\ tries[c] < MaxTries
    /\ tries' = [tries EXCEPT ![c] = @ + 1]
    /\ step' = [step EXCEPT ![c] = "idle"]
    /\ answer' = [answer EXCEPT ![c] = Unanswered]
    /\ frozen' = [frozen EXCEPT ![c] = None]
    /\ UNCHANGED <<draft, rows, objects>>

SubmissionStep(c) ==
    \/ FindExisting(c) \/ FindNothing(c) \/ PutObject(c) \/ Insert(c)
    \/ Collide(c) \/ LookAgain(c) \/ Commit(c)

ClientNext(c) == Freeze(c) \/ SubmissionStep(c) \/ FailRequest(c) \/ Retry(c)

SubmissionNext == EditDraft \/ \E c \in Clients : ClientNext(c)

SubmissionSpec == SubmissionInit /\ [][SubmissionNext]_submissionVars

-----------------------------------------------------------------------------
Answered(c) == answer[c].kind = "row"

SubmissionSteps == {"idle", "looking", "storing", "inserting", "inserted", "again", "done"}

\* Types; a key of a table has one row.
SubmissionTypeOK ==
    /\ draft \in 0..MaxDraft
    /\ step \in [Clients -> SubmissionSteps]
    /\ tries \in [Clients -> 1..MaxTries]
    /\ \A c \in Clients : step[c] = "done" <=> answer[c] # Unanswered
    /\ \A q, r \in rows : q.table = r.table /\ q.key = r.key => q = r

\* Every answer under one key of one table is the same row, it is committed, and it holds
\* the input the client froze: whoever won the race, and however often it was sent.
AnswersAgree ==
    /\ \A c \in Clients : Answered(c) => answer[c].row \in rows /\ answer[c].row.content = frozen[c]
    /\ \A c, d \in Clients : Answered(c) /\ Answered(d) /\ SameKey(c, d) => answer[c] = answer[d]

\* A calculation or a report is only refused because another request used its key for
\* another input, or for the same scenario after an edit: never because it lost a race.
ConflictIsReal ==
    \A c \in Clients :
        answer[c].kind = "conflict" /\ Intent[c].kind \in {"queue", "report"} =>
            \E r \in Existing(c) : r.content # frozen[c]

\* One key, one row, one answer; and no refusal for another reason than another content.
AnswersAreTrue == AnswersAgree /\ ConflictIsReal

\* A report that is recorded can be downloaded: no other request deletes its object, and
\* no crash comes between the two.
ReportsHaveObjects == \A r \in rows : r.table = "reports" => r.by \in objects

\* An object without a row belongs to a request that is under way or that failed: losing
\* the race for a key leaves none behind.
OrphansComeFromFailures ==
    \A o \in objects :
        \/ \E r \in rows : r.by = o
        \/ tries[o[1]] > o[2]
        \/ step[o[1]] # "done" /\ step[o[1]] # "again"
        \/ answer[o[1]].kind = "lost"

\* The object store and the table of reports agree, but for the requests that failed.
ObjectsFollowRows == ReportsHaveObjects /\ OrphansComeFromFailures

\* Every request that was sent is answered, or fails: nobody waits for ever for a key.
RequestsAreAnswered == <>[](\A c \in Clients : step[c] \in {"idle", "done"})
=============================================================================
