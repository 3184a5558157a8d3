-------------------------- MODULE CalculationQueue --------------------------
(***************************************************************************)
(* The deferred calculation queue: the tables calculation_runs and         *)
(* background_jobs, the API requests of services/core.py that write them,  *)
(* and the worker processes of worker.py that drain the queue.             *)
(*                                                                         *)
(* Granularity.  PostgreSQL runs at READ COMMITTED and a SQLAlchemy        *)
(* session keeps the attribute values it loaded first.  A transaction that *)
(* takes its row locks before it reads (cancellation, decision, claim,     *)
(* start and end of an execution) is one action.  A transaction that reads *)
(* without a lock and writes later (_mark_failure, recover_stale_jobs) is  *)
(* one action per read and one for the commit, and its commit writes from  *)
(* the values the session loaded.                                          *)
(*                                                                         *)
(* Every job has kind "calculation" and is the job of exactly one          *)
(* calculation (queue_calculation inserts both in one transaction), so one *)
(* set Calcs identifies both rows.                                         *)
(***************************************************************************)
EXTENDS Naturals

CONSTANTS
    Calcs,        \* calculation identifiers
    Workers,      \* worker processes
    NoCalc,       \* "no calculation in hand"
    MaxAttempts,  \* background_jobs.maximum_attempts (3 in the code)
    Verdict,      \* the status the engine answers, per calculation
    Eligible,     \* the calculations whose result is eligible to the decision
    Failing,      \* calculations whose execution may raise
    Cancellable,  \* calculations a user may ask to cancel
    MaxCrashes,   \* bound: worker processes that die
    MaxLapses,    \* bound: leases that go stale under a live worker
    MaxLostAcks   \* bound: commits applied whose acknowledgement is lost

EngineStatuses == {"SIM_CONVERGED", "SIM_CONVERGED_WARN", "SIM_INVALID_INPUT",
                   "SIM_NO_PHYSICAL_SOLUTION", "SIM_NOT_CONVERGED",
                   "SIM_NUMERIC_ERROR"}
OpenStatuses   == {"SIM_QUEUED", "SIM_RUNNING"}
CalcStatuses   == EngineStatuses \cup OpenStatuses
                    \cup {"absent", "SIM_CANCELLED", "SIM_TECHNICAL_ERROR"}
JobStatuses    == {"absent", "queued", "running", "completed", "failed", "cancelled"}
Leases         == {"none", "fresh", "stale"}
Decisions      == {"approved", "rejected"}
PCs == {"down", "starting", "selected", "loaded", "idle", "claimed",
        "executing", "failing", "jobRead", "calcRead"}

ASSUME QueueAssumption ==
    /\ NoCalc \notin Calcs
    /\ MaxAttempts \in Nat \ {0}
    /\ Verdict \in [Calcs -> EngineStatuses]
    /\ Eligible \subseteq Calcs
    /\ MaxCrashes \in Nat /\ MaxLapses \in Nat /\ MaxLostAcks \in Nat

VARIABLES
    \* calculation_runs
    status,       \* column status ("absent": no row)
    finished,     \* finished_at is set
    result,       \* result_payload: "none", or its decision_eligible
    approval,     \* column approval_status
    completions,  \* audit rows "calculation.completed"
    \* background_jobs
    jobStatus,    \* column status
    attempts,     \* column attempts
    lease,        \* locked_at: null, recent, or older than worker_stale_seconds
    ready,        \* available_at has passed
    \* worker processes
    pc,           \* where the process stands
    current,      \* the calculation whose job it has claimed
    \* what the worker's database session has loaded
    seenFinished, \* process_one: finished_at
    seenJob, seenAttempts, seenLease,  \* _mark_failure: the job
    seenStatus,   \* _mark_failure: the calculation
    stale,        \* recover_stale_jobs: stale jobs with attempts left
    spent,        \* recover_stale_jobs: stale jobs without
    condemned,    \* recover_stale_jobs: calculations to mark in error
    \* budget of the environment spent so far
    crashes, lapses, lostAcks

calcVars    == <<status, finished, result, approval, completions>>
jobVars     == <<jobStatus, attempts, lease, ready>>
procVars    == <<pc, current>>
failVars    == <<seenJob, seenAttempts, seenLease, seenStatus>>
recoverVars == <<stale, spent, condemned>>
sessionVars == <<seenFinished, failVars, recoverVars>>
envVars     == <<crashes, lapses, lostAcks>>
vars == <<calcVars, jobVars, procVars, sessionVars, envVars>>

\* An empty database, every worker past its start-up recovery.
Init ==
    /\ status = [c \in Calcs |-> "absent"]
    /\ finished = [c \in Calcs |-> FALSE]
    /\ result = [c \in Calcs |-> "none"]
    /\ approval = [c \in Calcs |-> "pending"]
    /\ completions = [c \in Calcs |-> 0]
    /\ jobStatus = [c \in Calcs |-> "absent"]
    /\ attempts = [c \in Calcs |-> 0]
    /\ lease = [c \in Calcs |-> "none"]
    /\ ready = [c \in Calcs |-> FALSE]
    /\ pc = [w \in Workers |-> "idle"]
    /\ current = [w \in Workers |-> NoCalc]
    /\ seenFinished = [w \in Workers |-> FALSE]
    /\ seenJob = [w \in Workers |-> "absent"]
    /\ seenAttempts = [w \in Workers |-> 0]
    /\ seenLease = [w \in Workers |-> "none"]
    /\ seenStatus = [w \in Workers |-> "absent"]
    /\ stale = [w \in Workers |-> {}]
    /\ spent = [w \in Workers |-> {}]
    /\ condemned = [w \in Workers |-> {}]
    /\ crashes = 0 /\ lapses = 0 /\ lostAcks = 0

(***************************************************************************)
(* Requests of the API.                                                    *)
(***************************************************************************)

\* queue_calculation and rerun_calculation: the calculation, its job and the
\* audit row are inserted in one transaction.
Submit(c) ==
    /\ status[c] = "absent"
    /\ status' = [status EXCEPT ![c] = "SIM_QUEUED"]
    /\ jobStatus' = [jobStatus EXCEPT ![c] = "queued"]
    /\ ready' = [ready EXCEPT ![c] = TRUE]
    /\ UNCHANGED <<finished, result, approval, completions, attempts, lease,
                   procVars, sessionVars, envVars>>

\* Mutations of Cancel: a concluded calculation is cancelled too; the job is
\* left alone.
CancelConcluded(c) ==
    /\ c \in Cancellable
    /\ status[c] \notin {"absent", "SIM_CANCELLED"}
    /\ status' = [status EXCEPT ![c] = "SIM_CANCELLED"]
    /\ finished' = [finished EXCEPT ![c] = TRUE]
    /\ UNCHANGED <<result, approval, completions, jobVars, procVars, sessionVars, envVars>>

CancelRowOnly(c) == status[c] \in OpenStatuses /\ CancelConcluded(c)

\* cancel_calculation: both rows are locked, calculation first, then read.
Cancel(c) ==
    /\ c \in Cancellable
    /\ status[c] \in OpenStatuses
    /\ status' = [status EXCEPT ![c] = "SIM_CANCELLED"]
    /\ finished' = [finished EXCEPT ![c] = TRUE]
    /\ IF jobStatus[c] \in {"queued", "running"}
       THEN /\ jobStatus' = [jobStatus EXCEPT ![c] = "cancelled"]
            /\ lease' = [lease EXCEPT ![c] = "none"]
       ELSE UNCHANGED <<jobStatus, lease>>
    /\ UNCHANGED <<result, approval, completions, attempts, ready,
                   procVars, sessionVars, envVars>>

\* Mutation of Decide: the eligibility of the result is not looked at.
DecideUnchecked(c, decision) ==
    /\ status[c] # "absent"
    /\ approval[c] = "pending"
    /\ approval' = [approval EXCEPT ![c] = decision]
    /\ UNCHANGED <<status, finished, result, completions, jobVars,
                   procVars, sessionVars, envVars>>

\* approve_calculation: the row is locked; a decision is taken once, and a
\* positive one needs a result that is eligible.
Decide(c, decision) ==
    /\ status[c] # "absent"
    /\ approval[c] = "pending"
    /\ decision = "approved" => result[c] = "eligible"
    /\ approval' = [approval EXCEPT ![c] = decision]
    /\ UNCHANGED <<status, finished, result, completions, jobVars,
                   procVars, sessionVars, envVars>>

(***************************************************************************)
(* process_one: one claimed job from the claim to the end of the execution.*)
(***************************************************************************)

Goto(w, there) == pc' = [pc EXCEPT ![w] = there]

\* Mutation of Release: the job stays in hand.
ReleaseHolding(w, there) ==
    /\ Goto(w, there)
    /\ UNCHANGED <<current, sessionVars>>

\* The worker drops its job, at "idle" when done with it, and closes its session.
Release(w, there) ==
    /\ Goto(w, there)
    /\ current' = [current EXCEPT ![w] = NoCalc]
    /\ seenFinished' = [seenFinished EXCEPT ![w] = FALSE]
    /\ seenJob' = [seenJob EXCEPT ![w] = "absent"]
    /\ seenAttempts' = [seenAttempts EXCEPT ![w] = 0]
    /\ seenLease' = [seenLease EXCEPT ![w] = "none"]
    /\ seenStatus' = [seenStatus EXCEPT ![w] = "absent"]
    /\ stale' = [stale EXCEPT ![w] = {}]
    /\ spent' = [spent EXCEPT ![w] = {}]
    /\ condemned' = [condemned EXCEPT ![w] = {}]

\* Mutation of Claim: a job that is running is taken as well.
ClaimRunning(w, c) ==
    /\ pc[w] = "idle"
    /\ jobStatus[c] \in {"queued", "running"}
    /\ ready[c]
    /\ jobStatus' = [jobStatus EXCEPT ![c] = "running"]
    /\ attempts' = [attempts EXCEPT ![c] = @ + 1]
    /\ lease' = [lease EXCEPT ![c] = "fresh"]
    /\ current' = [current EXCEPT ![w] = c]
    /\ Goto(w, "claimed")
    /\ UNCHANGED <<calcVars, ready, sessionVars, envVars>>

\* _claim_one: SELECT ... FOR UPDATE SKIP LOCKED on a queued, available job.
Claim(w, c) ==
    /\ pc[w] = "idle"
    /\ jobStatus[c] = "queued"
    /\ ready[c]
    /\ jobStatus' = [jobStatus EXCEPT ![c] = "running"]
    /\ attempts' = [attempts EXCEPT ![c] = @ + 1]
    /\ lease' = [lease EXCEPT ![c] = "fresh"]
    /\ current' = [current EXCEPT ![w] = c]
    /\ Goto(w, "claimed")
    /\ UNCHANGED <<calcVars, ready, sessionVars, envVars>>

\* The calculation is locked; a cancelled one is left alone.
SkipCancelled(w) ==
    /\ pc[w] = "claimed"
    /\ status[current[w]] = "SIM_CANCELLED" \/ jobStatus[current[w]] = "cancelled"
    /\ Release(w, "idle")
    /\ UNCHANGED <<calcVars, jobVars, envVars>>

\* Any other one is set to SIM_RUNNING, whatever its status was.
Begin(w) ==
    LET c == current[w] IN
    /\ pc[w] = "claimed"
    /\ status[c] # "SIM_CANCELLED" /\ jobStatus[c] # "cancelled"
    /\ status' = [status EXCEPT ![c] = "SIM_RUNNING"]
    /\ seenFinished' = [seenFinished EXCEPT ![w] = finished[c]]
    /\ Goto(w, "executing")
    /\ UNCHANGED <<finished, result, approval, completions, jobVars, current,
                   failVars, recoverVars, envVars>>

\* Mutations of Execute: a cancellation made meanwhile is overwritten; the
\* status is written without the result.
ExecuteCancelled(w) ==
    LET c == current[w] IN
    /\ status' = [status EXCEPT ![c] = Verdict[c]]
    /\ result' = [result EXCEPT ![c] = IF c \in Eligible THEN "eligible" ELSE "ineligible"]
    /\ finished' = [finished EXCEPT ![c] = TRUE]
    /\ completions' = [completions EXCEPT ![c] = @ + 1]
    /\ UNCHANGED approval

ExecuteStatusOnly(w) ==
    /\ status' = [status EXCEPT ![current[w]] = Verdict[current[w]]]
    /\ UNCHANGED <<finished, result, approval, completions>>

\* execute_calculation under the row lock.  The session keeps finished_at as it
\* was at Begin: a calculation that was finished then is not executed again,
\* and a cancelled one is left cancelled.
Execute(w) ==
    LET c == current[w] IN
    IF seenFinished[w] \/ status[c] = "SIM_CANCELLED"
    THEN UNCHANGED calcVars
    ELSE /\ status' = [status EXCEPT ![c] = Verdict[c]]
         /\ result' = [result EXCEPT ![c] = IF c \in Eligible THEN "eligible" ELSE "ineligible"]
         /\ finished' = [finished EXCEPT ![c] = TRUE]
         /\ completions' = [completions EXCEPT ![c] = @ + 1]
         /\ UNCHANGED approval

\* process_one: the job is refreshed, then completed unless it was cancelled.
CompleteJob(w) ==
    LET c == current[w] IN
    IF jobStatus[c] = "cancelled"
    THEN UNCHANGED jobVars
    ELSE /\ jobStatus' = [jobStatus EXCEPT ![c] = "completed"]
         /\ lease' = [lease EXCEPT ![c] = "none"]
         /\ UNCHANGED <<attempts, ready>>

\* One commit for the result and the job.
Finish(w) ==
    /\ pc[w] = "executing"
    /\ Execute(w)
    /\ CompleteJob(w)
    /\ Release(w, "idle")
    /\ UNCHANGED envVars

\* The same commit is applied but its acknowledgement is lost: the worker sees
\* an exception and goes on as if nothing had been written.
FinishUnacknowledged(w) ==
    /\ pc[w] = "executing"
    /\ lostAcks < MaxLostAcks
    /\ lostAcks' = lostAcks + 1
    /\ Execute(w)
    /\ CompleteJob(w)
    /\ Goto(w, "failing")
    /\ UNCHANGED <<current, sessionVars, crashes, lapses>>

\* Any exception between the claim and the commit: the transaction is rolled back.
Fail(w) ==
    /\ pc[w] \in {"claimed", "executing"}
    /\ current[w] \in Failing
    /\ Goto(w, "failing")
    /\ UNCHANGED <<calcVars, jobVars, current, sessionVars, envVars>>

(***************************************************************************)
(* _mark_failure: two reads without a lock, then the commit.               *)
(***************************************************************************)

IgnoreFailure(w) ==
    /\ pc[w] = "failing"
    /\ jobStatus[current[w]] = "cancelled"
    /\ Release(w, "idle")
    /\ UNCHANGED <<calcVars, jobVars, envVars>>

ReadFailedJob(w) ==
    LET c == current[w] IN
    /\ pc[w] = "failing"
    /\ jobStatus[c] # "cancelled"
    /\ seenJob' = [seenJob EXCEPT ![w] = jobStatus[c]]
    /\ seenAttempts' = [seenAttempts EXCEPT ![w] = attempts[c]]
    /\ seenLease' = [seenLease EXCEPT ![w] = lease[c]]
    /\ Goto(w, "jobRead")
    /\ UNCHANGED <<calcVars, jobVars, current, seenFinished, seenStatus,
                   recoverVars, envVars>>

ReadFailedCalc(w) ==
    /\ pc[w] = "jobRead"
    /\ seenStatus' = [seenStatus EXCEPT ![w] = status[current[w]]]
    /\ Goto(w, "calcRead")
    /\ UNCHANGED <<calcVars, jobVars, current, seenFinished, seenJob,
                   seenAttempts, seenLease, recoverVars, envVars>>

\* The unit of work writes a column only when the new value differs from the
\* one the session loaded.
Written(loaded, new, stored) == IF new = loaded THEN stored ELSE new

\* Mutation of RetryLater: one attempt too many.
RetryOnceMore(w) ==
    LET c == current[w] IN
    /\ pc[w] = "calcRead"
    /\ seenAttempts[w] <= MaxAttempts
    /\ jobStatus' = [jobStatus EXCEPT ![c] = Written(seenJob[w], "queued", @)]
    /\ lease' = [lease EXCEPT ![c] = Written(seenLease[w], "none", @)]
    /\ ready' = [ready EXCEPT ![c] = FALSE]
    /\ status' = [status EXCEPT ![c] = Written(seenStatus[w], "SIM_QUEUED", @)]
    /\ Release(w, "idle")
    /\ UNCHANGED <<finished, result, approval, completions, attempts, envVars>>

\* Attempts are left: the job is queued again after a delay.
RetryLater(w) ==
    LET c == current[w] IN
    /\ pc[w] = "calcRead"
    /\ seenAttempts[w] < MaxAttempts
    /\ jobStatus' = [jobStatus EXCEPT ![c] = Written(seenJob[w], "queued", @)]
    /\ lease' = [lease EXCEPT ![c] = Written(seenLease[w], "none", @)]
    /\ ready' = [ready EXCEPT ![c] = FALSE]
    /\ status' = [status EXCEPT ![c] = Written(seenStatus[w], "SIM_QUEUED", @)]
    /\ Release(w, "idle")
    /\ UNCHANGED <<finished, result, approval, completions, attempts, envVars>>

\* Mutations of GiveUp: after any failure; without a word to the calculation.
GiveUpAtOnce(w) ==
    LET c == current[w] IN
    /\ pc[w] = "calcRead"
    /\ jobStatus' = [jobStatus EXCEPT ![c] = "failed"]
    /\ status' = [status EXCEPT ![c] = "SIM_TECHNICAL_ERROR"]
    /\ finished' = [finished EXCEPT ![c] = TRUE]
    /\ Release(w, "idle")
    /\ UNCHANGED <<result, approval, completions, attempts, lease, ready, envVars>>

GiveUpSilently(w) ==
    /\ pc[w] = "calcRead"
    /\ seenAttempts[w] >= MaxAttempts
    /\ jobStatus' = [jobStatus EXCEPT ![current[w]] = "failed"]
    /\ Release(w, "idle")
    /\ UNCHANGED <<calcVars, attempts, lease, ready, envVars>>

\* No attempt is left: _mark_calculation_technical_error spares a calculation
\* it saw cancelled.
GiveUp(w) ==
    LET c == current[w] IN
    /\ pc[w] = "calcRead"
    /\ seenAttempts[w] >= MaxAttempts
    /\ jobStatus' = [jobStatus EXCEPT ![c] = Written(seenJob[w], "failed", @)]
    /\ lease' = [lease EXCEPT ![c] = Written(seenLease[w], "none", @)]
    /\ IF seenStatus[w] = "SIM_CANCELLED"
       THEN UNCHANGED <<status, finished>>
       ELSE /\ status' = [status EXCEPT ![c] =
                            Written(seenStatus[w], "SIM_TECHNICAL_ERROR", @)]
            /\ finished' = [finished EXCEPT ![c] = TRUE]
    /\ Release(w, "idle")
    /\ UNCHANGED <<result, approval, completions, attempts, ready, envVars>>

(***************************************************************************)
(* main: recover_stale_jobs once at start-up, then the loop.               *)
(***************************************************************************)

\* Mutation of SelectStale: the attempts are not counted.
SelectAllStale(w) ==
    /\ pc[w] = "starting"
    /\ stale' = [stale EXCEPT ![w] = {c \in Calcs : jobStatus[c] = "running" /\ lease[c] = "stale"}]
    /\ Goto(w, "selected")
    /\ UNCHANGED <<calcVars, jobVars, current, seenFinished, failVars,
                   spent, condemned, envVars>>

\* The jobs whose lease is stale, split by the attempts they have left.
SelectStale(w) ==
    LET abandoned == {c \in Calcs : jobStatus[c] = "running" /\ lease[c] = "stale"} IN
    /\ pc[w] = "starting"
    /\ stale' = [stale EXCEPT ![w] = {c \in abandoned : attempts[c] < MaxAttempts}]
    /\ spent' = [spent EXCEPT ![w] = {c \in abandoned : attempts[c] >= MaxAttempts}]
    /\ Goto(w, "selected")
    /\ UNCHANGED <<calcVars, jobVars, current, seenFinished, failVars,
                   condemned, envVars>>

\* The calculations of the spent jobs are loaded: a cancelled one will not be
\* marked, and one that is in error already has nothing to write.
LoadSpentCalcs(w) ==
    /\ pc[w] = "selected"
    /\ condemned' = [condemned EXCEPT ![w] =
                       {c \in spent[w] : status[c] \notin {"SIM_CANCELLED", "SIM_TECHNICAL_ERROR"}}]
    /\ Goto(w, "loaded")
    /\ UNCHANGED <<calcVars, jobVars, current, seenFinished, failVars,
                   stale, spent, envVars>>

CommitRecovery(w) ==
    /\ pc[w] = "loaded"
    /\ jobStatus' = [c \in Calcs |-> IF c \in stale[w] THEN "queued"
                                     ELSE IF c \in spent[w] THEN "failed"
                                     ELSE jobStatus[c]]
    /\ ready' = [c \in Calcs |-> c \in stale[w] \/ ready[c]]
    /\ lease' = [c \in Calcs |-> IF c \in stale[w] \cup spent[w] THEN "none" ELSE lease[c]]
    /\ status' = [c \in Calcs |-> IF c \in condemned[w] THEN "SIM_TECHNICAL_ERROR"
                                  ELSE status[c]]
    /\ finished' = [c \in Calcs |-> c \in condemned[w] \/ finished[c]]
    /\ Release(w, "idle")
    /\ UNCHANGED <<result, approval, completions, attempts, envVars>>

(***************************************************************************)
(* Time and failures of the environment.                                   *)
(***************************************************************************)

\* worker_stale_seconds pass after the last write of locked_at.  Under a live
\* worker this takes a lost heartbeat, or a delay outside the heartbeat.
LeaseExpires(c) ==
    /\ jobStatus[c] = "running" /\ lease[c] = "fresh"
    /\ lease' = [lease EXCEPT ![c] = "stale"]
    /\ IF \E w \in Workers : current[w] = c
       THEN lapses < MaxLapses /\ lapses' = lapses + 1
       ELSE UNCHANGED lapses
    /\ UNCHANGED <<calcVars, jobStatus, attempts, ready, procVars, sessionVars,
                   crashes, lostAcks>>

\* _refresh_lock: the heartbeat thread renews the lease of a running job,
\* whichever worker's claim made it running.
Heartbeat(w) ==
    LET c == current[w] IN
    /\ pc[w] = "executing"
    /\ jobStatus[c] = "running" /\ lease[c] # "fresh"
    /\ lease' = [lease EXCEPT ![c] = "fresh"]
    /\ UNCHANGED <<calcVars, jobStatus, attempts, ready, procVars, sessionVars, envVars>>

\* min(2^attempts, 60) seconds pass.
BackoffElapses(c) ==
    /\ jobStatus[c] = "queued" /\ ~ready[c]
    /\ ready' = [ready EXCEPT ![c] = TRUE]
    /\ UNCHANGED <<calcVars, jobStatus, attempts, lease, procVars, sessionVars, envVars>>

\* The process dies: its open transaction is rolled back, its session is lost.
Crash(w) ==
    /\ pc[w] # "down"
    /\ crashes < MaxCrashes
    /\ crashes' = crashes + 1
    /\ Release(w, "down")
    /\ UNCHANGED <<calcVars, jobVars, lapses, lostAcks>>

\* restart: unless-stopped.
Restart(w) ==
    /\ pc[w] = "down"
    /\ Goto(w, "starting")
    /\ UNCHANGED <<calcVars, jobVars, current, sessionVars, envVars>>

-----------------------------------------------------------------------------
Request(c) == Submit(c) \/ Cancel(c) \/ \E d \in Decisions : Decide(c, d)

Progress(w) ==
    \/ SkipCancelled(w) \/ Begin(w) \/ Finish(w) \/ Fail(w)
    \/ IgnoreFailure(w) \/ ReadFailedJob(w) \/ ReadFailedCalc(w)
    \/ RetryLater(w) \/ GiveUp(w)
    \/ SelectStale(w) \/ LoadSpentCalcs(w) \/ CommitRecovery(w)
    \/ Restart(w)

Next ==
    \/ \E c \in Calcs : Request(c) \/ LeaseExpires(c) \/ BackoffElapses(c)
    \/ \E w \in Workers : Progress(w) \/ FinishUnacknowledged(w) \/ Heartbeat(w) \/ Crash(w)
    \/ \E w \in Workers, c \in Calcs : Claim(w, c)

Spec == Init /\ [][Next]_vars

\* A worker that has a step takes it (the loop of main never blocks, the engine
\* terminates, a dead container is restarted); time passes.
Fairness ==
    /\ \A w \in Workers : WF_vars(Progress(w)) /\ WF_vars(\E c \in Calcs : Claim(w, c))
    /\ \A c \in Calcs : WF_vars(BackoffElapses(c)) /\ WF_vars(LeaseExpires(c))

FairSpec == Spec /\ Fairness

-----------------------------------------------------------------------------
CalcTypes ==
    /\ status \in [Calcs -> CalcStatuses]
    /\ finished \in [Calcs -> BOOLEAN]
    /\ result \in [Calcs -> {"none", "eligible", "ineligible"}]
    /\ approval \in [Calcs -> {"pending"} \cup Decisions]
    /\ completions \in [Calcs -> Nat]

JobTypes ==
    /\ jobStatus \in [Calcs -> JobStatuses]
    /\ attempts \in [Calcs -> Nat]
    /\ lease \in [Calcs -> Leases]
    /\ ready \in [Calcs -> BOOLEAN]

WorkerTypes ==
    /\ pc \in [Workers -> PCs]
    /\ current \in [Workers -> Calcs \cup {NoCalc}]
    /\ seenFinished \in [Workers -> BOOLEAN]
    /\ seenJob \in [Workers -> JobStatuses]
    /\ seenAttempts \in [Workers -> Nat]
    /\ seenLease \in [Workers -> Leases]
    /\ seenStatus \in [Workers -> CalcStatuses]
    /\ stale \in [Workers -> SUBSET Calcs]
    /\ spent \in [Workers -> SUBSET Calcs]
    /\ condemned \in [Workers -> SUBSET Calcs]

Holding    == {"claimed", "executing", "failing", "jobRead", "calcRead"}
Recovering == {"down", "starting", "selected", "loaded"}

\* Every variable has its type, and a worker has a calculation in hand exactly
\* from its claim to its release.
TypeOK ==
    /\ CalcTypes /\ JobTypes /\ WorkerTypes
    /\ crashes \in 0..MaxCrashes /\ lapses \in Nat /\ lostAcks \in 0..MaxLostAcks
    /\ \A w \in Workers : current[w] # NoCalc <=> pc[w] \in Holding

HasResult(c) == result[c] # "none"

\* Two workers never hold the same calculation between its claim and the end of
\* its processing (_claim_one with SKIP LOCKED, _mark_failure, recovery).
OneExecutor ==
    \A v, w \in Workers : v # w /\ current[v] # NoCalc => current[v] # current[w]

\* Once execute_calculation has recorded a result, the calculation keeps the
\* status the engine gave it and its job is completed: no retry, recovery or
\* cancellation reopens it.
ResultIsFinal ==
    \A c \in Calcs : HasResult(c) =>
        status[c] = Verdict[c] /\ finished[c] /\ jobStatus[c] = "completed"

\* A calculation is completed once, whatever its retries: one audit row.
CompletedOnce == \A c \in Calcs : completions[c] <= 1

\* A job is claimed at most maximum_attempts times.
AttemptsBounded == \A c \in Calcs : attempts[c] <= MaxAttempts

\* SIM_TECHNICAL_ERROR is only written once every attempt is used.
ErrorAfterLastAttempt ==
    \A c \in Calcs : status[c] = "SIM_TECHNICAL_ERROR" => attempts[c] >= MaxAttempts

\* An approved calculation has a result eligible to the decision, whatever
\* happens to its job before or after the decision.
ApprovedIsEligible ==
    \A c \in Calcs : approval[c] = "approved" => result[c] = "eligible"

\* The engine's verdict is shown only with its result: a status of the engine
\* is never left without a payload, nor a payload without finished_at.
VerdictHasResult ==
    \A c \in Calcs :
        /\ status[c] \in EngineStatuses => HasResult(c)
        /\ HasResult(c) => finished[c] /\ completions[c] > 0

\* A cancelled calculation stays cancelled.
CancellationIsFinal ==
    [][\A c \in Calcs : status[c] = "SIM_CANCELLED" => status'[c] = "SIM_CANCELLED"]_vars

\* Every job abandoned by a dead worker is put back in the queue or failed.
Abandoned(c) == jobStatus[c] = "running" /\ \A w \in Workers : current[w] # c
AbandonedJobIsRecovered == \A c \in Calcs : Abandoned(c) ~> ~Abandoned(c)

(***************************************************************************)
(* What ApprovedIsEligible, VerdictHasResult and ErrorAfterLastAttempt rest*)
(* on in every deployment: a second execution of the same frozen input     *)
(* gives the same result, and what the sessions have seen of attempts is a *)
(* lower bound.                                                            *)
(***************************************************************************)
ResultOfInput ==
    \A c \in Calcs : HasResult(c) =>
        result[c] = (IF c \in Eligible THEN "eligible" ELSE "ineligible")

AttemptsSeen ==
    \A w \in Workers :
        /\ pc[w] \in {"jobRead", "calcRead"} => seenAttempts[w] <= attempts[current[w]]
        /\ pc[w] # "loaded" => condemned[w] = {}
        /\ condemned[w] \subseteq spent[w]
        /\ \A c \in spent[w] : attempts[c] >= MaxAttempts

DecisionInv == ApprovedIsEligible /\ VerdictHasResult /\ ResultOfInput
ErrorInv    == ErrorAfterLastAttempt /\ AttemptsSeen

(***************************************************************************)
(* The inductive invariant behind ResultIsFinal, OneExecutor, CompletedOnce*)
(* and AttemptsBounded.  It holds in a regular deployment: no commit loses *)
(* its acknowledgement and either no worker dies or there is one worker.   *)
(***************************************************************************)
RegularDeployment ==
    /\ MaxLostAcks = 0
    /\ MaxCrashes = 0 \/ \A v, w \in Workers : v = w

\* The job a worker holds is running unless a user cancelled it, and has no
\* result yet.
HeldJobInv ==
    \A w \in Workers : current[w] # NoCalc =>
        /\ jobStatus[current[w]] \in {"running", "cancelled"}
        /\ ~HasResult(current[w])

\* What a failing worker has read is still true, except for a cancellation.
FailureViewInv ==
    \A w \in Workers :
        pc[w] \in {"jobRead", "calcRead"} =>
            seenJob[w] = "running" /\ seenAttempts[w] = attempts[current[w]]

\* What a recovering worker has selected is unfinished.
RecoveryViewInv ==
    \A w \in Workers :
        /\ pc[w] \notin {"selected", "loaded"} => stale[w] = {} /\ spent[w] = {}
        /\ condemned[w] \subseteq spent[w]
        /\ \A c \in stale[w] \cup spent[w] :
             jobStatus[c] \in {"running", "cancelled"} /\ ~HasResult(c)
        /\ \A c \in stale[w] : attempts[c] < MaxAttempts

\* Without a death no worker recovers.
RecoveryInv == (\E w \in Workers : pc[w] \in Recovering) => crashes > 0

RowInv ==
    \A c \in Calcs :
        /\ status[c] = "absent" => jobStatus[c] = "absent" /\ ~HasResult(c)
        /\ jobStatus[c] = "cancelled" => status[c] = "SIM_CANCELLED"
        /\ jobStatus[c] \in {"absent", "queued"} => attempts[c] < MaxAttempts
        /\ completions[c] = (IF HasResult(c) THEN 1 ELSE 0)

QueueInv ==
    /\ OneExecutor /\ ResultIsFinal /\ AttemptsBounded
    /\ HeldJobInv /\ FailureViewInv /\ RecoveryViewInv /\ RecoveryInv /\ RowInv

(***************************************************************************)
(* The queue implements CalculationLifecycle, where neither a failure nor  *)
(* the recovery of a dead worker's job can race a cancellation.            *)
(***************************************************************************)
NoCancelRace ==
    /\ Cancellable \cap Failing = {}
    /\ MaxCrashes = 0 \/ Cancellable = {}

PhaseOf(s) ==
    CASE s = "absent"              -> "absent"
      [] s = "SIM_QUEUED"          -> "waiting"
      [] s = "SIM_RUNNING"         -> "running"
      [] s = "SIM_CANCELLED"       -> "cancelled"
      [] s = "SIM_TECHNICAL_ERROR" -> "failed"
      [] OTHER                     -> "concluded"

Lifecycle == INSTANCE CalculationLifecycle
    WITH phase <- [c \in Calcs |-> PhaseOf(status[c])], decision <- approval

\* A client that polls a calculation never sees it leave a final status.
ImplementsLifecycle == Lifecycle!Spec

\* Every calculation put in the queue reaches a final status, through the
\* retries of its job (process_one, _mark_failure).
QueuedIsSettled == Lifecycle!Settles

\* A calculation waits or runs exactly as long as its job does, and is not
\* finished before.
RowsAgree ==
    \A c \in Calcs :
        /\ status[c] \in OpenStatuses <=> jobStatus[c] \in {"queued", "running"}
        /\ status[c] \in OpenStatuses \cup {"absent"} => ~finished[c]
        /\ status[c] = "SIM_CANCELLED" => c \in Cancellable

\* What a worker's session has loaded is still true.
ViewsAreCurrent ==
    \A w \in Workers :
        /\ pc[w] = "executing" =>
             /\ status[current[w]] \in {"SIM_RUNNING", "SIM_CANCELLED"}
             /\ seenFinished[w] => status[current[w]] = "SIM_CANCELLED"
        /\ pc[w] \in {"failing", "jobRead", "calcRead"} => current[w] \in Failing
        /\ pc[w] = "calcRead" => seenStatus[w] = status[current[w]]
        /\ pc[w] = "loaded" => condemned[w] = spent[w]
        /\ \A c \in stale[w] \cup spent[w] : jobStatus[c] = "running"

AgreementInv == RowsAgree /\ ViewsAreCurrent
=============================================================================
