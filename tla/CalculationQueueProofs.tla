----------------------- MODULE CalculationQueueProofs -----------------------
(***************************************************************************)
(* Theorems about CalculationQueue, for every set of calculations and      *)
(* workers, every number of attempts and every budget of the environment.  *)
(***************************************************************************)
EXTENDS CalculationQueue, TLAPS

(***************************************************************************)
(* The type invariant.                                                     *)
(***************************************************************************)

\* Releasing a job leaves the worker's variables well typed.
LEMMA ReleaseTypes ==
    ASSUME WorkerTypes, NEW w \in Workers, NEW p \in PCs, Release(w, p)
    PROVE  WorkerTypes'
  BY DEF Release, Goto, WorkerTypes, JobStatuses, Leases, CalcStatuses

LEMMA InitTypes == Init => TypeOK
  BY QueueAssumption
  DEF Init, TypeOK, CalcTypes, JobTypes, WorkerTypes, CalcStatuses, JobStatuses,
      Leases, Decisions, PCs, Holding

\* A step of a request or of time leaves the workers alone.
LEMMA RowStepTypes ==
    ASSUME TypeOK, NEW c \in Calcs,
           Request(c) \/ LeaseExpires(c) \/ BackoffElapses(c)
    PROVE  TypeOK'
<1>1. CASE Submit(c)
  BY <1>1 DEF Submit, TypeOK, CalcTypes, JobTypes, WorkerTypes, CalcStatuses, OpenStatuses,
              JobStatuses, procVars, sessionVars, failVars, recoverVars, envVars
<1>2. CASE Cancel(c)
  BY <1>2 DEF Cancel, TypeOK, CalcTypes, JobTypes, WorkerTypes, CalcStatuses, JobStatuses,
              Leases, procVars, sessionVars, failVars, recoverVars, envVars
<1>3. ASSUME NEW d \in Decisions, Decide(c, d) PROVE TypeOK'
  BY <1>3 DEF Decide, TypeOK, CalcTypes, JobTypes, WorkerTypes,
              jobVars, procVars, sessionVars, failVars, recoverVars, envVars
<1>4. CASE LeaseExpires(c)
  BY <1>4 DEF LeaseExpires, TypeOK, CalcTypes, JobTypes, WorkerTypes, Leases,
              calcVars, procVars, sessionVars, failVars, recoverVars
<1>5. CASE BackoffElapses(c)
  BY <1>5 DEF BackoffElapses, TypeOK, CalcTypes, JobTypes, WorkerTypes,
              calcVars, procVars, sessionVars, failVars, recoverVars, envVars
<1> QED BY <1>1, <1>2, <1>3, <1>4, <1>5 DEF Request

LEMMA ClaimTypes ==
    ASSUME TypeOK, NEW w \in Workers, NEW c \in Calcs, Claim(w, c)
    PROVE  TypeOK'
  BY QueueAssumption
  DEF Claim, Goto, TypeOK, CalcTypes, JobTypes, WorkerTypes, JobStatuses, Leases, PCs,
      Holding, calcVars, sessionVars, failVars, recoverVars, envVars

\* A worker that releases its job ends in a state where it holds nothing.
LEMMA ReleasedHolds ==
    ASSUME TypeOK, NEW w \in Workers, NEW p \in {"idle", "down"}, Release(w, p)
    PROVE  \A v \in Workers : current'[v] # NoCalc <=> pc'[v] \in Holding
  BY DEF Release, Goto, TypeOK, WorkerTypes, Holding

\* The commit of an execution.
LEMMA ExecuteTypes ==
    ASSUME TypeOK, NEW w \in Workers, current[w] \in Calcs, Execute(w), CompleteJob(w)
    PROVE  CalcTypes' /\ JobTypes'
<1>1. CalcTypes'
  <2>1. CASE seenFinished[w] \/ status[current[w]] = "SIM_CANCELLED"
    BY <2>1 DEF Execute, TypeOK, CalcTypes, calcVars
  <2>2. CASE ~(seenFinished[w] \/ status[current[w]] = "SIM_CANCELLED")
    <3>1. Verdict[current[w]] \in CalcStatuses
      BY QueueAssumption DEF CalcStatuses
    <3>2. /\ status' = [status EXCEPT ![current[w]] = Verdict[current[w]]]
          /\ \E r \in {"eligible", "ineligible"} : result' = [result EXCEPT ![current[w]] = r]
          /\ finished' = [finished EXCEPT ![current[w]] = TRUE]
          /\ completions' = [completions EXCEPT ![current[w]] = completions[current[w]] + 1]
          /\ approval' = approval
      BY <2>2 DEF Execute
    <3> QED BY <3>1, <3>2 DEF TypeOK, CalcTypes
  <2> QED BY <2>1, <2>2
<1>2. JobTypes'
  BY DEF CompleteJob, TypeOK, JobTypes, JobStatuses, Leases, jobVars
<1> QED BY <1>1, <1>2

LEMMA WorkerStepTypes ==
    ASSUME TypeOK, NEW w \in Workers,
           Progress(w) \/ FinishUnacknowledged(w) \/ Heartbeat(w) \/ Crash(w)
    PROVE  TypeOK'
<1>0. pc[w] \in Holding => current[w] \in Calcs
  BY DEF TypeOK, WorkerTypes
<1>idle. "idle" \in PCs /\ "down" \in PCs
  BY DEF PCs
<1>a. ASSUME Release(w, "idle"), UNCHANGED envVars, CalcTypes', JobTypes' PROVE TypeOK'
  BY <1>a, <1>idle, ReleaseTypes, ReleasedHolds DEF TypeOK, envVars
<1>1. CASE SkipCancelled(w)
  BY <1>1, <1>a DEF SkipCancelled, TypeOK, CalcTypes, JobTypes, calcVars, jobVars
<1>2. CASE Begin(w)
  BY <1>2, <1>0 DEF Begin, Goto, TypeOK, CalcTypes, JobTypes, WorkerTypes, CalcStatuses,
      OpenStatuses, PCs, Holding, jobVars, failVars, recoverVars, envVars
<1>3. CASE Finish(w)
  BY <1>3, <1>0, <1>a, ExecuteTypes DEF Finish, Holding
<1>4. CASE FinishUnacknowledged(w)
  <2>1. CalcTypes' /\ JobTypes'
    BY <1>4, <1>0, ExecuteTypes DEF FinishUnacknowledged, Holding
  <2>2. WorkerTypes' /\ (\A v \in Workers : current'[v] # NoCalc <=> pc'[v] \in Holding)
    BY <1>4 DEF FinishUnacknowledged, Goto, TypeOK, WorkerTypes, PCs, Holding,
                sessionVars, failVars, recoverVars
  <2> QED BY <1>4, <2>1, <2>2, QueueAssumption DEF FinishUnacknowledged, TypeOK
<1>5. CASE Fail(w)
  BY <1>5 DEF Fail, Goto, TypeOK, CalcTypes, JobTypes, WorkerTypes, PCs, Holding,
      calcVars, jobVars, sessionVars, failVars, recoverVars, envVars
<1>6. CASE IgnoreFailure(w)
  BY <1>6, <1>a DEF IgnoreFailure, TypeOK, CalcTypes, JobTypes, calcVars, jobVars
<1>7. CASE ReadFailedJob(w)
  BY <1>7, <1>0 DEF ReadFailedJob, Goto, TypeOK, CalcTypes, JobTypes, WorkerTypes, PCs,
      Holding, calcVars, jobVars, recoverVars, envVars
<1>8. CASE ReadFailedCalc(w)
  BY <1>8, <1>0 DEF ReadFailedCalc, Goto, TypeOK, CalcTypes, JobTypes, WorkerTypes, PCs,
      Holding, calcVars, jobVars, recoverVars, envVars
<1>9. CASE RetryLater(w)
  <2>1. CalcTypes' /\ JobTypes'
    BY <1>9, <1>0 DEF RetryLater, Written, TypeOK, CalcTypes, JobTypes, CalcStatuses,
       OpenStatuses, JobStatuses, Leases, Holding
  <2> QED BY <1>9, <2>1, <1>a DEF RetryLater
<1>10. CASE GiveUp(w)
  <2>1. CalcTypes'
    BY <1>10, <1>0 DEF GiveUp, Written, TypeOK, CalcTypes, CalcStatuses, Holding
  <2>2. JobTypes'
    BY <1>10, <1>0 DEF GiveUp, Written, TypeOK, JobTypes, JobStatuses, Leases, Holding
  <2> QED BY <1>10, <2>1, <2>2, <1>a DEF GiveUp
<1>11. CASE SelectStale(w)
  BY <1>11 DEF SelectStale, Goto, TypeOK, CalcTypes, JobTypes, WorkerTypes, PCs, Holding,
      calcVars, jobVars, failVars, envVars
<1>12. CASE LoadSpentCalcs(w)
  BY <1>12 DEF LoadSpentCalcs, Goto, TypeOK, CalcTypes, JobTypes, WorkerTypes, PCs, Holding,
      calcVars, jobVars, failVars, envVars
<1>13. CASE CommitRecovery(w)
  <2>1. CalcTypes' /\ JobTypes'
    BY <1>13 DEF CommitRecovery, TypeOK, CalcTypes, JobTypes, CalcStatuses, JobStatuses, Leases
  <2> QED BY <1>13, <2>1, <1>a DEF CommitRecovery
<1>14. CASE Restart(w)
  BY <1>14 DEF Restart, Goto, TypeOK, CalcTypes, JobTypes, WorkerTypes, PCs, Holding,
      calcVars, jobVars, sessionVars, failVars, recoverVars, envVars
<1>15. CASE Heartbeat(w)
  BY <1>15, <1>0 DEF Heartbeat, TypeOK, CalcTypes, JobTypes, WorkerTypes, Leases, Holding,
      calcVars, procVars, sessionVars, failVars, recoverVars, envVars
<1>16. CASE Crash(w)
  <2>1. CalcTypes' /\ JobTypes'
    BY <1>16 DEF Crash, TypeOK, CalcTypes, JobTypes, calcVars, jobVars
  <2> QED BY <1>16, <2>1, <1>idle, ReleaseTypes, ReleasedHolds, QueueAssumption DEF Crash, TypeOK
<1> QED
  BY <1>1, <1>2, <1>3, <1>4, <1>5, <1>6, <1>7, <1>8, <1>9, <1>10, <1>11, <1>12, <1>13,
     <1>14, <1>15, <1>16 DEF Progress

LEMMA StutterTypes == TypeOK /\ UNCHANGED vars => TypeOK'
  BY DEF vars, TypeOK, CalcTypes, JobTypes, WorkerTypes, calcVars, jobVars, procVars,
         sessionVars, failVars, recoverVars, envVars

\* Every reachable state is well typed, and a worker holds a calculation exactly
\* from its claim to its release (worker.py, process_one).
THEOREM TypeCorrect == Spec => []TypeOK
<1>1. TypeOK /\ [Next]_vars => TypeOK'
  BY RowStepTypes, ClaimTypes, WorkerStepTypes, StutterTypes DEF Next
<1> QED BY <1>1, InitTypes, PTL DEF Spec

(***************************************************************************)
(* Decisions and results, in every deployment.                             *)
(***************************************************************************)

\* Only the commit of an execution writes results; no step clears finished_at.
LEMMA DecisionStep ==
    ASSUME TypeOK, DecisionInv, [Next]_vars
    PROVE  DecisionInv'
<1> USE DEF DecisionInv, ApprovedIsEligible, VerdictHasResult, ResultOfInput, HasResult
<1>0. ASSUME NEW w \in Workers, pc[w] \in Holding PROVE current[w] \in Calcs
  BY <1>0 DEF TypeOK, WorkerTypes
<1>c. CalcTypes
  BY DEF TypeOK
<1>1. ASSUME NEW c \in Calcs, Submit(c) PROVE DecisionInv'
  BY <1>1, <1>c DEF Submit, CalcTypes, EngineStatuses
<1>2. ASSUME NEW c \in Calcs, Cancel(c) PROVE DecisionInv'
  BY <1>2, <1>c DEF Cancel, CalcTypes, EngineStatuses
<1>3. ASSUME NEW c \in Calcs, NEW d \in Decisions, Decide(c, d) PROVE DecisionInv'
  BY <1>3, <1>c DEF Decide, CalcTypes
<1>4. ASSUME NEW w \in Workers, Begin(w) PROVE DecisionInv'
  BY <1>4, <1>0, <1>c DEF Begin, CalcTypes, EngineStatuses, Holding
<1>5. ASSUME NEW w \in Workers, current[w] \in Calcs, Execute(w) PROVE DecisionInv'
  <2>1. CASE seenFinished[w] \/ status[current[w]] = "SIM_CANCELLED"
    BY <1>5, <2>1 DEF Execute, calcVars
  <2>2. CASE ~(seenFinished[w] \/ status[current[w]] = "SIM_CANCELLED")
    BY <1>5, <2>2, <1>c DEF Execute, CalcTypes
  <2> QED BY <2>1, <2>2
<1>6. ASSUME NEW w \in Workers, RetryLater(w) PROVE DecisionInv'
  BY <1>6, <1>0, <1>c DEF RetryLater, Written, CalcTypes, EngineStatuses, Holding
<1>7. ASSUME NEW w \in Workers, GiveUp(w) PROVE DecisionInv'
  BY <1>7, <1>0, <1>c DEF GiveUp, Written, CalcTypes, EngineStatuses, Holding
<1>8. ASSUME NEW w \in Workers, CommitRecovery(w) PROVE DecisionInv'
  BY <1>8, <1>c DEF CommitRecovery, CalcTypes, EngineStatuses
<1>9. CASE UNCHANGED calcVars
  BY <1>9 DEF calcVars
<1> QED
  BY <1>0, <1>1, <1>2, <1>3, <1>4, <1>5, <1>6, <1>7, <1>8, <1>9
  DEF Next, Request, Progress, SkipCancelled, Finish, FinishUnacknowledged, Fail,
      IgnoreFailure, ReadFailedJob, ReadFailedCalc, SelectStale, LoadSpentCalcs, Restart,
      LeaseExpires, BackoffElapses, Heartbeat, Crash, Claim, Holding, vars

\* An approved calculation has an eligible result, whatever workers crash, lose
\* their lease or execute it twice (approve_calculation, execute_calculation).
THEOREM ApprovalSound == Spec => []ApprovedIsEligible
<1>1. Init => DecisionInv
  BY DEF Init, DecisionInv, ApprovedIsEligible, VerdictHasResult, ResultOfInput, HasResult,
         EngineStatuses
<1>2. TypeOK /\ DecisionInv /\ [Next]_vars => DecisionInv'
  BY DecisionStep
<1>3. DecisionInv => ApprovedIsEligible
  BY DEF DecisionInv
<1> QED BY <1>1, <1>2, <1>3, TypeCorrect, PTL DEF Spec

\* A verdict shown to clients was recorded with a result, whatever crashes, stale
\* leases and retries did to the job (execute_calculation commits both at once).
THEOREM VerdictsHaveResults == Spec => []VerdictHasResult
<1>1. Init => DecisionInv
  BY DEF Init, DecisionInv, ApprovedIsEligible, VerdictHasResult, ResultOfInput, HasResult,
         EngineStatuses
<1>2. TypeOK /\ DecisionInv /\ [Next]_vars => DecisionInv'
  BY DecisionStep
<1>3. DecisionInv => VerdictHasResult
  BY DEF DecisionInv
<1> QED BY <1>1, <1>2, <1>3, TypeCorrect, PTL DEF Spec

(***************************************************************************)
(* Technical errors, in every deployment.                                  *)
(***************************************************************************)

\* No step lowers the attempts of a job.
LEMMA AttemptsGrow ==
    ASSUME TypeOK, [Next]_vars, NEW c \in Calcs
    PROVE  attempts'[c] >= attempts[c]
<1>1. CASE UNCHANGED attempts
  BY <1>1 DEF TypeOK, JobTypes
<1>2. ASSUME NEW w \in Workers, NEW k \in Calcs, Claim(w, k)
      PROVE  attempts'[c] >= attempts[c]
  BY <1>2 DEF Claim, TypeOK, JobTypes
<1>3. ASSUME NEW w \in Workers, CompleteJob(w) PROVE UNCHANGED attempts
  BY <1>3 DEF CompleteJob, jobVars
<1> QED
  BY <1>1, <1>2, <1>3
  DEF Next, Request, Progress, Submit, Cancel, Decide, LeaseExpires, BackoffElapses,
      SkipCancelled, Begin, Finish, FinishUnacknowledged, Fail, IgnoreFailure,
      ReadFailedJob, ReadFailedCalc, RetryLater, GiveUp, SelectStale, LoadSpentCalcs,
      CommitRecovery, Restart, Heartbeat, Crash, vars, jobVars

\* What the sessions have seen of attempts stays a lower bound.
LEMMA AttemptsSeenStep ==
    ASSUME TypeOK, AttemptsSeen, [Next]_vars
    PROVE  AttemptsSeen'
<1>g. \A c \in Calcs : attempts[c] \in Nat /\ attempts'[c] \in Nat /\ attempts'[c] >= attempts[c]
  BY AttemptsGrow, RowStepTypes, ClaimTypes, WorkerStepTypes, StutterTypes
  DEF Next, TypeOK, JobTypes
<1>m. MaxAttempts \in Nat
  BY QueueAssumption
<1>t. /\ \A w \in Workers : pc[w] \in Holding => current[w] \in Calcs
      /\ WorkerTypes
  BY DEF TypeOK, WorkerTypes
<1>1. CASE UNCHANGED <<procVars, sessionVars>>
  BY <1>1, <1>g, <1>m, <1>t
  DEF AttemptsSeen, WorkerTypes, Holding, procVars, sessionVars, failVars, recoverVars
<1>2. ASSUME NEW w \in Workers, NEW p \in {"idle", "down"}, Release(w, p)
      PROVE  AttemptsSeen'
  BY <1>2, <1>g, <1>m, <1>t DEF AttemptsSeen, Release, Goto, WorkerTypes, Holding
<1>3. ASSUME NEW w \in Workers, NEW c \in Calcs, Claim(w, c) PROVE AttemptsSeen'
  BY <1>3, <1>g, <1>m, <1>t
  DEF AttemptsSeen, Claim, Goto, WorkerTypes, Holding, sessionVars, failVars, recoverVars
<1>4. ASSUME NEW w \in Workers, Begin(w) PROVE AttemptsSeen'
  BY <1>4, <1>g, <1>m, <1>t
  DEF AttemptsSeen, Begin, Goto, WorkerTypes, Holding, failVars, recoverVars
<1>5. ASSUME NEW w \in Workers, FinishUnacknowledged(w) \/ Fail(w) \/ Restart(w)
      PROVE  AttemptsSeen'
  BY <1>5, <1>g, <1>m, <1>t
  DEF AttemptsSeen, FinishUnacknowledged, Fail, Restart, Goto, WorkerTypes, Holding,
      sessionVars, failVars, recoverVars
<1>6. ASSUME NEW w \in Workers, ReadFailedJob(w) PROVE AttemptsSeen'
  BY <1>6, <1>g, <1>m, <1>t
  DEF AttemptsSeen, ReadFailedJob, Goto, WorkerTypes, Holding, recoverVars, jobVars
<1>7. ASSUME NEW w \in Workers, ReadFailedCalc(w) PROVE AttemptsSeen'
  BY <1>7, <1>g, <1>m, <1>t
  DEF AttemptsSeen, ReadFailedCalc, Goto, WorkerTypes, Holding, recoverVars, jobVars
<1>8. ASSUME NEW w \in Workers, SelectStale(w) PROVE AttemptsSeen'
  BY <1>8, <1>g, <1>m, <1>t
  DEF AttemptsSeen, SelectStale, Goto, WorkerTypes, Holding, failVars, jobVars
<1>9. ASSUME NEW w \in Workers, LoadSpentCalcs(w) PROVE AttemptsSeen'
  BY <1>9, <1>g, <1>m, <1>t
  DEF AttemptsSeen, LoadSpentCalcs, Goto, WorkerTypes, Holding, failVars, jobVars
<1> QED
  BY <1>1, <1>2, <1>3, <1>4, <1>5, <1>6, <1>7, <1>8, <1>9
  DEF Next, Request, Progress, Submit, Cancel, Decide, LeaseExpires, BackoffElapses, Heartbeat,
      SkipCancelled, Finish, IgnoreFailure, RetryLater, GiveUp, CommitRecovery, Crash,
      vars, envVars

\* A calculation is put in error only on the word of a session that saw its
\* last attempt used.
LEMMA ErrorStep ==
    ASSUME TypeOK, ErrorInv, [Next]_vars
    PROVE  ErrorAfterLastAttempt'
<1> DEFINE Errors == {c \in Calcs : status'[c] = "SIM_TECHNICAL_ERROR"}
<1>g. \A c \in Calcs : attempts[c] \in Nat /\ attempts'[c] \in Nat /\ attempts'[c] >= attempts[c]
  BY AttemptsGrow, RowStepTypes, ClaimTypes, WorkerStepTypes, StutterTypes
  DEF Next, TypeOK, JobTypes
<1>m. MaxAttempts \in Nat
  BY QueueAssumption
<1>t. /\ \A w \in Workers : pc[w] \in Holding => current[w] \in Calcs
      /\ status \in [Calcs -> CalcStatuses]
      /\ seenAttempts \in [Workers -> Nat]
  BY DEF TypeOK, WorkerTypes, CalcTypes
<1> SUFFICES \A c \in Errors : status[c] = "SIM_TECHNICAL_ERROR" \/ attempts[c] >= MaxAttempts
  BY <1>g, <1>m DEF ErrorInv, ErrorAfterLastAttempt
<1>1. CASE UNCHANGED status
  BY <1>1
<1>2. ASSUME NEW c \in Calcs, Submit(c) \/ Cancel(c) PROVE UNCHANGED status \/
         \A k \in Errors : status[k] = "SIM_TECHNICAL_ERROR"
  BY <1>2, <1>t DEF Submit, Cancel
<1>3. ASSUME NEW w \in Workers, Begin(w)
      PROVE  \A k \in Errors : status[k] = "SIM_TECHNICAL_ERROR"
  BY <1>3, <1>t DEF Begin, Holding
<1>4. ASSUME NEW w \in Workers, current[w] \in Calcs, Execute(w)
      PROVE  \A k \in Errors : status[k] = "SIM_TECHNICAL_ERROR"
  BY <1>4, <1>t, QueueAssumption DEF Execute, EngineStatuses, calcVars
<1>5. ASSUME NEW w \in Workers, RetryLater(w)
      PROVE  \A k \in Errors : status[k] = "SIM_TECHNICAL_ERROR"
  BY <1>5, <1>t DEF RetryLater, Written, Holding
<1>6. ASSUME NEW w \in Workers, GiveUp(w)
      PROVE  \A k \in Errors : status[k] = "SIM_TECHNICAL_ERROR" \/ attempts[k] >= MaxAttempts
  BY <1>6, <1>t, <1>g, <1>m DEF GiveUp, Written, Holding, ErrorInv, AttemptsSeen
<1>7. ASSUME NEW w \in Workers, CommitRecovery(w)
      PROVE  \A k \in Errors : status[k] = "SIM_TECHNICAL_ERROR" \/ attempts[k] >= MaxAttempts
  BY <1>7, <1>t, <1>g, <1>m DEF CommitRecovery, ErrorInv, AttemptsSeen
<1> QED
  BY <1>t, <1>1, <1>2, <1>3, <1>4, <1>5, <1>6, <1>7
  DEF Next, Request, Progress, Decide, LeaseExpires, BackoffElapses, Heartbeat, Claim,
      SkipCancelled, Finish, FinishUnacknowledged, Fail, IgnoreFailure, ReadFailedJob,
      ReadFailedCalc, SelectStale, LoadSpentCalcs, Restart, Crash, Holding, vars, calcVars

\* SIM_TECHNICAL_ERROR means that every attempt was used, in every deployment
\* (_mark_failure, recover_stale_jobs).
THEOREM ErrorsAreLast == Spec => []ErrorAfterLastAttempt
<1>1. Init => ErrorInv
  BY DEF Init, ErrorInv, ErrorAfterLastAttempt, AttemptsSeen
<1>2. TypeOK /\ ErrorInv /\ [Next]_vars => ErrorInv'
  BY ErrorStep, AttemptsSeenStep DEF ErrorInv
<1>3. ErrorInv => ErrorAfterLastAttempt
  BY DEF ErrorInv
<1> QED BY <1>1, <1>2, <1>3, TypeCorrect, PTL DEF Spec

(***************************************************************************)
(* In a regular deployment (no acknowledgement is lost, and workers do not *)
(* die or there is only one) results are final, a calculation has one      *)
(* executor at a time and the attempts of a job are bounded.               *)
(***************************************************************************)

\* A recovering worker is the only worker.
LEMMA RecoveryIsAlone ==
    ASSUME RegularDeployment, TypeOK, RecoveryInv,
           NEW w \in Workers, pc[w] \in Recovering
    PROVE  \A v \in Workers : v = w
  BY QueueAssumption DEF RegularDeployment, TypeOK, RecoveryInv

\* While a worker holds a calculation nobody has selected a stale job.
LEMMA HoldingExcludesRecovery ==
    ASSUME RegularDeployment, TypeOK, QueueInv, NEW w \in Workers, pc[w] \notin Recovering
    PROVE  \A v \in Workers : stale[v] = {} /\ spent[v] = {} /\ condemned[v] = {}
<1>1. \A v \in Workers : pc[v] \notin Recovering
  BY RecoveryIsAlone DEF QueueInv
<1> QED BY <1>1 DEF QueueInv, RecoveryViewInv, Recovering

LEMMA InitQueueInv == Init => QueueInv
  BY QueueAssumption
  DEF Init, QueueInv, OneExecutor, ResultIsFinal, AttemptsBounded, HeldJobInv, FailureViewInv,
      RecoveryViewInv, RecoveryInv, RowInv, HasResult, Holding, Recovering

\* Requests.
LEMMA RequestKeepsQueueInv ==
    ASSUME TypeOK, QueueInv, NEW c \in Calcs, Request(c)
    PROVE  QueueInv'
<1>t. CalcTypes /\ JobTypes /\ WorkerTypes
  BY DEF TypeOK
<1>v. \A k \in Calcs : Verdict[k] \notin OpenStatuses
  BY QueueAssumption DEF EngineStatuses, OpenStatuses
<1> USE <1>t DEF HasResult, CalcTypes, JobTypes
<1>1. CASE Submit(c)
  <2>1. jobStatus[c] = "absent" /\ ~HasResult(c)
    BY <1>1 DEF Submit, QueueInv, RowInv
  <2>2. OneExecutor' /\ AttemptsBounded' /\ RecoveryInv'
    BY <1>1 DEF Submit, QueueInv, OneExecutor, AttemptsBounded, RecoveryInv, procVars, envVars
  <2>3. ResultIsFinal' /\ RowInv'
    BY <1>1, <2>1 DEF Submit, QueueInv, ResultIsFinal, RowInv
  <2>4. HeldJobInv' /\ FailureViewInv' /\ RecoveryViewInv'
    BY <1>1, <2>1
    DEF Submit, QueueInv, HeldJobInv, FailureViewInv, RecoveryViewInv, procVars, sessionVars,
        failVars, recoverVars
  <2> QED BY <2>2, <2>3, <2>4 DEF QueueInv
<1>2. CASE Cancel(c)
  <2>1. ~HasResult(c)
    BY <1>2, <1>v DEF Cancel, QueueInv, ResultIsFinal
  <2>2. OneExecutor' /\ AttemptsBounded' /\ RecoveryInv'
    BY <1>2 DEF Cancel, QueueInv, OneExecutor, AttemptsBounded, RecoveryInv, procVars, envVars
  <2>3. ResultIsFinal' /\ RowInv'
    BY <1>2, <2>1 DEF Cancel, QueueInv, ResultIsFinal, RowInv, OpenStatuses
  <2>4. /\ \A k \in Calcs : jobStatus[k] \in {"running", "cancelled"}
                              => jobStatus'[k] \in {"running", "cancelled"}
        /\ UNCHANGED <<result, attempts, pc, current, seenJob, seenAttempts, stale, spent, condemned>>
    BY <1>2 DEF Cancel, procVars, sessionVars, failVars, recoverVars
  <2>5. HeldJobInv' /\ FailureViewInv' /\ RecoveryViewInv'
    BY <2>4 DEF QueueInv, HeldJobInv, FailureViewInv, RecoveryViewInv, TypeOK, WorkerTypes
  <2> QED BY <2>2, <2>3, <2>5 DEF QueueInv
<1>3. ASSUME NEW d \in Decisions, Decide(c, d) PROVE QueueInv'
  BY <1>3
  DEF Decide, QueueInv, OneExecutor, ResultIsFinal, AttemptsBounded, HeldJobInv, FailureViewInv,
      RecoveryViewInv, RecoveryInv, RowInv, jobVars, procVars, sessionVars, failVars,
      recoverVars, envVars
<1> QED BY <1>1, <1>2, <1>3 DEF Request

\* Steps of time write leases and delays only.
LEMMA TimeKeepsQueueInv ==
    ASSUME QueueInv, UNCHANGED <<calcVars, jobStatus, attempts, procVars, sessionVars, crashes>>
    PROVE  QueueInv'
  BY DEF QueueInv, OneExecutor, ResultIsFinal, AttemptsBounded, HeldJobInv, FailureViewInv,
         RecoveryViewInv, RecoveryInv, RowInv, HasResult, calcVars, procVars, sessionVars,
         failVars, recoverVars

\* A claim takes a queued job, which nobody holds or has selected.
LEMMA ClaimKeepsQueueInv ==
    ASSUME TypeOK, QueueInv, NEW w \in Workers, NEW c \in Calcs, Claim(w, c)
    PROVE  QueueInv'
<1>t. CalcTypes /\ JobTypes /\ WorkerTypes
  BY DEF TypeOK
<1>1. /\ ~HasResult(c) /\ attempts[c] < MaxAttempts /\ attempts[c] \in Nat
      /\ c \in Calcs /\ NoCalc \notin Calcs /\ MaxAttempts \in Nat
      /\ \A v \in Workers : current[v] # c /\ c \notin stale[v] \cup spent[v]
  BY QueueAssumption
  DEF Claim, QueueInv, ResultIsFinal, RowInv, HeldJobInv, RecoveryViewInv, TypeOK, JobTypes
<1>2. /\ current' = [current EXCEPT ![w] = c] /\ pc' = [pc EXCEPT ![w] = "claimed"]
      /\ jobStatus' = [jobStatus EXCEPT ![c] = "running"]
      /\ attempts' = [attempts EXCEPT ![c] = attempts[c] + 1]
      /\ UNCHANGED <<status, finished, result, completions, seenJob, seenAttempts, stale, spent,
                     condemned, crashes>>
  BY DEF Claim, Goto, calcVars, sessionVars, failVars, recoverVars, envVars
<1>3. OneExecutor'
  BY <1>t, <1>1, <1>2 DEF QueueInv, OneExecutor, WorkerTypes
<1>4. ResultIsFinal' /\ AttemptsBounded' /\ RowInv'
  BY <1>t, <1>1, <1>2 DEF QueueInv, ResultIsFinal, AttemptsBounded, RowInv, HasResult,
     CalcTypes, JobTypes, Claim
<1>5. HeldJobInv' /\ FailureViewInv'
  BY <1>t, <1>1, <1>2 DEF QueueInv, HeldJobInv, FailureViewInv, HasResult, WorkerTypes, JobTypes,
     TypeOK, Holding
<1>6. RecoveryViewInv' /\ RecoveryInv'
  BY <1>t, <1>1, <1>2 DEF QueueInv, RecoveryViewInv, RecoveryInv, HasResult, WorkerTypes,
     JobTypes, Recovering, Claim
<1> QED BY <1>3, <1>4, <1>5, <1>6 DEF QueueInv

\* A worker that releases its job leaves the views of the others true when it
\* writes none of the rows they hold or have selected.
LEMMA OthersUndisturbed ==
    ASSUME TypeOK, QueueInv, NEW w \in Workers, NEW p \in {"idle", "down"}, Release(w, p),
           \A v \in Workers \ {w} : \A c \in Calcs :
              c \in {current[v]} \cup stale[v] \cup spent[v] =>
                 /\ jobStatus'[c] = jobStatus[c]
                 /\ attempts'[c] = attempts[c]
                 /\ result'[c] = result[c]
    PROVE  OneExecutor' /\ HeldJobInv' /\ FailureViewInv' /\ RecoveryViewInv'
<1>t. WorkerTypes /\ (\A v \in Workers : current[v] # NoCalc <=> pc[v] \in Holding)
  BY DEF TypeOK
<1>1. OneExecutor'
  BY <1>t DEF QueueInv, OneExecutor, Release, WorkerTypes
<1>2. HeldJobInv'
  BY <1>t DEF QueueInv, HeldJobInv, HasResult, Release, WorkerTypes
<1>3. FailureViewInv'
  BY <1>t DEF QueueInv, FailureViewInv, Release, Goto, WorkerTypes, Holding
<1>4. RecoveryViewInv'
  BY <1>t DEF QueueInv, RecoveryViewInv, HasResult, Release, Goto, WorkerTypes
<1> QED BY <1>1, <1>2, <1>3, <1>4

\* A holder writes its own row only, which no other worker holds or has selected.
LEMMA OwnRow ==
    ASSUME RegularDeployment, TypeOK, QueueInv, NEW w \in Workers, pc[w] \in Holding
    PROVE  /\ current[w] \in Calcs
           /\ jobStatus[current[w]] \in {"running", "cancelled"}
           /\ ~HasResult(current[w])
           /\ \A v \in Workers \ {w} : current[w] \notin {current[v]} \cup stale[v] \cup spent[v]
<1>1. current[w] \in Calcs /\ current[w] # NoCalc /\ pc[w] \notin Recovering
  BY DEF TypeOK, WorkerTypes, Holding, Recovering
<1>2. \A v \in Workers : stale[v] = {} /\ spent[v] = {}
  BY <1>1, HoldingExcludesRecovery
<1> QED BY <1>1, <1>2 DEF QueueInv, HeldJobInv, OneExecutor

\* The commit of an execution records the only result of its calculation.
LEMMA FinishKeepsQueueInv ==
    ASSUME RegularDeployment, TypeOK, QueueInv, NEW w \in Workers, Finish(w)
    PROVE  QueueInv'
<1>t. CalcTypes /\ JobTypes /\ MaxAttempts \in Nat
  BY QueueAssumption DEF TypeOK
<1> DEFINE c == current[w]
<1>1. /\ c \in Calcs /\ jobStatus[c] \in {"running", "cancelled"} /\ ~HasResult(c)
      /\ \A v \in Workers \ {w} : c \notin {current[v]} \cup stale[v] \cup spent[v]
  BY OwnRow DEF Finish, Holding
<1>v. Verdict[c] # "absent" /\ Verdict[c] # "SIM_CANCELLED"
  BY <1>1, QueueAssumption DEF EngineStatuses
<1>r. jobStatus[c] = "cancelled" => status[c] = "SIM_CANCELLED"
  BY <1>1 DEF QueueInv, RowInv
<1>2. /\ UNCHANGED attempts
      /\ \A k \in Calcs \ {c} : /\ jobStatus'[k] = jobStatus[k] /\ result'[k] = result[k]
                                 /\ status'[k] = status[k] /\ finished'[k] = finished[k]
                                 /\ completions'[k] = completions[k]
      /\ jobStatus'[c] = IF jobStatus[c] = "cancelled" THEN "cancelled" ELSE "completed"
  BY <1>t, <1>1 DEF Finish, Execute, CompleteJob, CalcTypes, JobTypes, calcVars, jobVars
<1>3. \/ status'[c] = status[c] /\ result'[c] = result[c] /\ completions'[c] = completions[c]
      \/ /\ status'[c] = Verdict[c] /\ finished'[c] /\ jobStatus'[c] = "completed"
         /\ result'[c] # "none" /\ completions'[c] = completions[c] + 1
  <2>1. CASE seenFinished[w] \/ status[c] = "SIM_CANCELLED"
    BY <2>1 DEF Finish, Execute, calcVars
  <2>2. CASE ~(seenFinished[w] \/ status[c] = "SIM_CANCELLED")
    BY <2>2, <1>t, <1>1, <1>2, <1>r DEF Finish, Execute, CalcTypes
  <2> QED BY <2>1, <2>2
<1>4. ResultIsFinal' /\ AttemptsBounded'
  BY <1>1, <1>2, <1>3 DEF QueueInv, ResultIsFinal, AttemptsBounded, HasResult
<1>5. RowInv'
  BY <1>1, <1>2, <1>3, <1>r, <1>v DEF QueueInv, RowInv, HasResult
<1>6. OneExecutor' /\ HeldJobInv' /\ FailureViewInv' /\ RecoveryViewInv'
  BY <1>1, <1>2, OthersUndisturbed DEF Finish
<1>7. RecoveryInv'
  BY DEF Finish, Release, Goto, QueueInv, RecoveryInv, Recovering, TypeOK, WorkerTypes, envVars
<1> QED BY <1>4, <1>5, <1>6, <1>7 DEF QueueInv

\* A step that writes no row: the worker moves on, or drops its job.
LEMMA ReleaseKeepsQueueInv ==
    ASSUME TypeOK, QueueInv, NEW w \in Workers, NEW p \in {"idle", "down"}, Release(w, p),
           UNCHANGED <<calcVars, jobVars>>, p = "down" => crashes' > 0, crashes' \in Nat, crashes' >= crashes
    PROVE  QueueInv'
<1>1. OneExecutor' /\ HeldJobInv' /\ FailureViewInv' /\ RecoveryViewInv'
  BY OthersUndisturbed DEF calcVars, jobVars
<1>2. ResultIsFinal' /\ AttemptsBounded' /\ RowInv'
  BY DEF QueueInv, ResultIsFinal, AttemptsBounded, RowInv, HasResult, calcVars, jobVars
<1>3. RecoveryInv'
  BY QueueAssumption
  DEF Release, Goto, QueueInv, RecoveryInv, Recovering, TypeOK, WorkerTypes
<1> QED BY <1>1, <1>2, <1>3 DEF QueueInv

\* _mark_failure queues the job again, or fails it.
LEMMA FailureKeepsQueueInv ==
    ASSUME RegularDeployment, TypeOK, QueueInv, NEW w \in Workers, RetryLater(w) \/ GiveUp(w)
    PROVE  QueueInv'
<1>t. /\ CalcTypes /\ JobTypes /\ MaxAttempts \in Nat /\ pc[w] \in Holding
      /\ Release(w, "idle") /\ pc[w] = "calcRead"
  BY QueueAssumption DEF TypeOK, RetryLater, GiveUp, Holding
<1> DEFINE c == current[w]
<1>1. /\ c \in Calcs /\ jobStatus[c] \in {"running", "cancelled"} /\ ~HasResult(c)
      /\ \A v \in Workers \ {w} : c \notin {current[v]} \cup stale[v] \cup spent[v]
  BY <1>t, OwnRow
<1>2. seenJob[w] = "running" /\ seenAttempts[w] = attempts[c]
  BY <1>t DEF QueueInv, FailureViewInv
<1>3. /\ UNCHANGED <<attempts, result, completions, crashes>>
      /\ \A k \in Calcs \ {c} : /\ jobStatus'[k] = jobStatus[k] /\ status'[k] = status[k]
                                 /\ finished'[k] = finished[k]
      /\ jobStatus'[c] \in {"queued", "failed"}
      /\ jobStatus'[c] = "queued" => attempts[c] < MaxAttempts
  BY <1>t, <1>1, <1>2 DEF RetryLater, GiveUp, Written, CalcTypes, JobTypes, envVars
<1>4. status'[c] # "absent"
  BY <1>t, <1>1 DEF RetryLater, GiveUp, Written, CalcTypes, QueueInv, RowInv
<1>5. ResultIsFinal' /\ AttemptsBounded' /\ RowInv'
  BY <1>1, <1>3, <1>4 DEF QueueInv, ResultIsFinal, AttemptsBounded, RowInv, HasResult
<1>6. OneExecutor' /\ HeldJobInv' /\ FailureViewInv' /\ RecoveryViewInv'
  BY <1>t, <1>1, <1>3, OthersUndisturbed
<1>7. RecoveryInv'
  BY <1>t, <1>3 DEF Release, Goto, QueueInv, RecoveryInv, Recovering, TypeOK, WorkerTypes
<1> QED BY <1>5, <1>6, <1>7 DEF QueueInv

\* recover_stale_jobs commits what it selected; no other worker exists.
LEMMA CommitRecoveryKeepsQueueInv ==
    ASSUME RegularDeployment, TypeOK, QueueInv, NEW w \in Workers, CommitRecovery(w)
    PROVE  QueueInv'
<1>t. /\ CalcTypes /\ JobTypes /\ MaxAttempts \in Nat /\ pc[w] = "loaded"
      /\ Release(w, "idle") /\ UNCHANGED <<result, completions, attempts, crashes>>
  BY QueueAssumption DEF TypeOK, CommitRecovery, envVars
<1>1. \A v \in Workers : v = w
  BY <1>t, RecoveryIsAlone DEF QueueInv, Recovering
<1>2. /\ \A c \in stale[w] \cup spent[w] : /\ jobStatus[c] \in {"running", "cancelled"}
                                           /\ ~HasResult(c)
      /\ \A c \in stale[w] : attempts[c] < MaxAttempts
      /\ condemned[w] \subseteq spent[w]
      /\ stale[w] \subseteq Calcs /\ spent[w] \subseteq Calcs
  BY DEF QueueInv, RecoveryViewInv, TypeOK, WorkerTypes
<1>3. \A c \in Calcs :
         \/ /\ c \notin stale[w] \cup spent[w]
            /\ jobStatus'[c] = jobStatus[c] /\ status'[c] = status[c] /\ finished'[c] = finished[c]
         \/ /\ c \in stale[w] /\ jobStatus'[c] = "queued" /\ attempts[c] < MaxAttempts
            /\ status'[c] \in {status[c], "SIM_TECHNICAL_ERROR"}
         \/ /\ c \in spent[w] /\ jobStatus'[c] = "failed"
            /\ status'[c] \in {status[c], "SIM_TECHNICAL_ERROR"}
  <2> SUFFICES ASSUME NEW c \in Calcs
               PROVE  \/ /\ c \notin stale[w] \cup spent[w]
                         /\ jobStatus'[c] = jobStatus[c] /\ status'[c] = status[c]
                         /\ finished'[c] = finished[c]
                      \/ /\ c \in stale[w] /\ jobStatus'[c] = "queued"
                         /\ attempts[c] < MaxAttempts
                         /\ status'[c] \in {status[c], "SIM_TECHNICAL_ERROR"}
                      \/ /\ c \in spent[w] /\ jobStatus'[c] = "failed"
                         /\ status'[c] \in {status[c], "SIM_TECHNICAL_ERROR"}
    OBVIOUS
  <2>1. /\ jobStatus'[c] = IF c \in stale[w] THEN "queued"
                          ELSE IF c \in spent[w] THEN "failed" ELSE jobStatus[c]
        /\ status'[c] = IF c \in condemned[w] THEN "SIM_TECHNICAL_ERROR" ELSE status[c]
        /\ finished'[c] = (c \in condemned[w] \/ finished[c])
    BY DEF CommitRecovery
  <2>2. finished[c] \in BOOLEAN
    BY <1>t DEF CalcTypes
  <2> QED BY <1>2, <2>1, <2>2
<1>4. ResultIsFinal' /\ AttemptsBounded'
  BY <1>t, <1>2, <1>3 DEF QueueInv, ResultIsFinal, AttemptsBounded, HasResult
<1>5. RowInv'
  BY <1>t, <1>2, <1>3 DEF QueueInv, RowInv, HasResult
<1>6. OneExecutor' /\ HeldJobInv' /\ FailureViewInv' /\ RecoveryViewInv'
  BY <1>t, <1>1, OthersUndisturbed
<1>7. RecoveryInv'
  BY <1>t DEF Release, Goto, QueueInv, RecoveryInv, Recovering, TypeOK, WorkerTypes
<1> QED BY <1>4, <1>5, <1>6, <1>7 DEF QueueInv

\* A step of a worker that keeps its job, or selects stale ones.
LEMMA InnerStepKeepsQueueInv ==
    ASSUME RegularDeployment, TypeOK, QueueInv, NEW w \in Workers,
           \/ Begin(w) \/ Fail(w) \/ ReadFailedJob(w) \/ ReadFailedCalc(w)
           \/ SelectStale(w) \/ LoadSpentCalcs(w) \/ Restart(w)
    PROVE  QueueInv'
<1>t. CalcTypes /\ JobTypes /\ WorkerTypes /\ MaxAttempts \in Nat
  BY QueueAssumption DEF TypeOK
<1>1. UNCHANGED <<jobVars, current, result, finished, completions, crashes>>
  BY DEF Begin, Fail, ReadFailedJob, ReadFailedCalc, SelectStale, LoadSpentCalcs, Restart,
         calcVars, envVars
<1> USE <1>t DEF jobVars
<1>2. UNCHANGED status \/ Begin(w)
  BY DEF Fail, ReadFailedJob, ReadFailedCalc, SelectStale, LoadSpentCalcs, Restart, calcVars
<1>3. OneExecutor' /\ AttemptsBounded' /\ HeldJobInv'
  BY <1>1 DEF QueueInv, OneExecutor, AttemptsBounded, HeldJobInv, HasResult
<1>4. ResultIsFinal' /\ RowInv'
  <2>1. CASE UNCHANGED status
    BY <1>1, <2>1 DEF QueueInv, ResultIsFinal, RowInv, HasResult
  <2>2. CASE Begin(w)
    <3>1. /\ current[w] \in Calcs /\ ~HasResult(current[w])
          /\ jobStatus[current[w]] = "running"
          /\ status' = [status EXCEPT ![current[w]] = "SIM_RUNNING"]
      BY <2>2, OwnRow DEF Begin, Holding
    <3> QED BY <1>1, <3>1 DEF QueueInv, ResultIsFinal, RowInv, HasResult, CalcTypes
  <2> QED BY <1>2, <2>1, <2>2
<1>5. RecoveryInv'
  BY <1>1
  DEF QueueInv, RecoveryInv, Recovering, WorkerTypes, Goto, Begin, Fail, ReadFailedJob,
      ReadFailedCalc, SelectStale, LoadSpentCalcs, Restart
<1>6. FailureViewInv'
  <2>1. CASE ReadFailedJob(w)
    <3>1. jobStatus[current[w]] = "running"
      BY <2>1, OwnRow DEF ReadFailedJob, Holding
    <3> QED BY <1>1, <2>1, <3>1 DEF ReadFailedJob, Goto, QueueInv, FailureViewInv, WorkerTypes
  <2>2. CASE ~ReadFailedJob(w)
    BY <1>1, <2>2
    DEF QueueInv, FailureViewInv, WorkerTypes, Goto, Begin, Fail, ReadFailedCalc, SelectStale,
        LoadSpentCalcs, Restart, sessionVars, failVars
  <2> QED BY <2>1, <2>2
<1>7. RecoveryViewInv'
  <2>1. CASE SelectStale(w)
    <3>1. /\ spent[w] = {} /\ condemned[w] = {}
      BY <2>1 DEF SelectStale, QueueInv, RecoveryViewInv
    <3>2. \A c \in Calcs : jobStatus[c] = "running" => ~HasResult(c)
      BY DEF QueueInv, ResultIsFinal
    <3> QED
      BY <1>1, <2>1, <3>1, <3>2
      DEF SelectStale, Goto, QueueInv, RecoveryViewInv, WorkerTypes, JobTypes, HasResult
  <2>2. CASE LoadSpentCalcs(w)
    BY <1>1, <2>2 DEF LoadSpentCalcs, Goto, QueueInv, RecoveryViewInv, WorkerTypes, HasResult
  <2>3. CASE ~SelectStale(w) /\ ~LoadSpentCalcs(w)
    BY <1>1, <2>3
    DEF QueueInv, RecoveryViewInv, WorkerTypes, HasResult, Goto, Begin, Fail, ReadFailedJob,
        ReadFailedCalc, Restart, sessionVars, recoverVars
  <2> QED BY <2>1, <2>2, <2>3
<1> QED BY <1>3, <1>4, <1>5, <1>6, <1>7 DEF QueueInv

\* Every step keeps the invariant.
LEMMA QueueInvStep ==
    ASSUME RegularDeployment, TypeOK, QueueInv, [Next]_vars
    PROVE  QueueInv'
<1>1. ASSUME NEW c \in Calcs, Request(c) PROVE QueueInv'
  BY <1>1, RequestKeepsQueueInv
<1>2. ASSUME NEW c \in Calcs, LeaseExpires(c) \/ BackoffElapses(c) PROVE QueueInv'
  BY <1>2, TimeKeepsQueueInv DEF LeaseExpires, BackoffElapses, envVars
<1>3. ASSUME NEW w \in Workers, Heartbeat(w) PROVE QueueInv'
  BY <1>3, TimeKeepsQueueInv DEF Heartbeat, envVars
<1>4. ASSUME NEW w \in Workers, FinishUnacknowledged(w) PROVE FALSE
  BY <1>4, QueueAssumption DEF FinishUnacknowledged, RegularDeployment, TypeOK
<1>5. ASSUME NEW w \in Workers, Crash(w) PROVE QueueInv'
  <2>1. crashes' \in Nat /\ crashes' > 0 /\ crashes' >= crashes
    BY <1>5, QueueAssumption DEF Crash, TypeOK
  <2> QED BY <1>5, <2>1, ReleaseKeepsQueueInv DEF Crash
<1>6. ASSUME NEW w \in Workers, SkipCancelled(w) \/ IgnoreFailure(w) PROVE QueueInv'
  <2>1. crashes' \in Nat /\ crashes' >= crashes
    BY <1>6, QueueAssumption DEF SkipCancelled, IgnoreFailure, TypeOK, envVars
  <2> QED BY <1>6, <2>1, ReleaseKeepsQueueInv DEF SkipCancelled, IgnoreFailure
<1>7. ASSUME NEW w \in Workers, Progress(w) PROVE QueueInv'
  BY <1>6, <1>7, InnerStepKeepsQueueInv, FinishKeepsQueueInv, FailureKeepsQueueInv,
     CommitRecoveryKeepsQueueInv DEF Progress
<1>8. CASE UNCHANGED vars
  BY <1>8, TimeKeepsQueueInv DEF vars, jobVars, envVars
<1> QED BY <1>1, <1>2, <1>3, <1>4, <1>5, <1>7, <1>8, ClaimKeepsQueueInv DEF Next

\* The invariant holds in every state of a regular deployment.
THEOREM QueueSafety == ASSUME RegularDeployment PROVE Spec => []QueueInv
<1>1. TypeOK /\ QueueInv /\ [Next]_vars => QueueInv'
  BY QueueInvStep
<1> QED BY <1>1, InitQueueInv, TypeCorrect, PTL DEF Spec

\* In a regular deployment a recorded result is never reopened by a retry, a
\* recovery or a cancellation (execute_calculation, recover_stale_jobs,
\* cancel_calculation).
THEOREM ResultsAreFinal == ASSUME RegularDeployment PROVE Spec => []ResultIsFinal
<1>1. QueueInv => ResultIsFinal
  BY DEF QueueInv
<1> QED BY <1>1, QueueSafety, PTL

\* In a regular deployment two workers never hold the same calculation
\* (_claim_one, _mark_failure).
THEOREM ExecutorIsUnique == ASSUME RegularDeployment PROVE Spec => []OneExecutor
<1>1. QueueInv => OneExecutor
  BY DEF QueueInv
<1> QED BY <1>1, QueueSafety, PTL

\* In a regular deployment a calculation is completed, and audited, once.
THEOREM CompletionIsUnique == ASSUME RegularDeployment PROVE Spec => []CompletedOnce
<1>1. ASSUME QueueInv, NEW c \in Calcs PROVE completions[c] \in {0, 1}
  BY <1>1 DEF QueueInv, RowInv
<1>2. QueueInv => CompletedOnce
  <2>1. ASSUME QueueInv, NEW c \in Calcs PROVE completions[c] <= 1
    BY <1>1, <2>1
  <2> QED BY <2>1 DEF CompletedOnce
<1> QED BY <1>2, QueueSafety, PTL

\* In a regular deployment no job is claimed more than maximum_attempts times.
THEOREM AttemptsAreBounded == ASSUME RegularDeployment PROVE Spec => []AttemptsBounded
<1>1. QueueInv => AttemptsBounded
  BY DEF QueueInv
<1> QED BY <1>1, QueueSafety, PTL

(***************************************************************************)
(* The refinement.  In a regular deployment, and where no failure or       *)
(* recovery can race a cancellation, CalculationQueue implements           *)
(* CalculationLifecycle: what a client polls never leaves a final status.  *)
(***************************************************************************)
LEMMA InitAgreement == Init => AgreementInv
  BY DEF Init, AgreementInv, RowsAgree, ViewsAreCurrent, OpenStatuses

\* A running worker, and the row it holds.
LEMMA HeldRow ==
    ASSUME RegularDeployment, TypeOK, QueueInv, AgreementInv, NEW w \in Workers,
           pc[w] \in Holding
    PROVE  /\ current[w] \in Calcs
           /\ \/ jobStatus[current[w]] = "running" /\ status[current[w]] \in OpenStatuses
                 /\ ~finished[current[w]]
              \/ jobStatus[current[w]] = "cancelled" /\ status[current[w]] = "SIM_CANCELLED"
           /\ \A v \in Workers \ {w} : current[v] # current[w]
           /\ \A v \in Workers : current[w] \notin stale[v] \cup spent[v]
<1>1. /\ current[w] \in Calcs /\ jobStatus[current[w]] \in {"running", "cancelled"}
      /\ \A v \in Workers \ {w} : current[v] # current[w]
  BY OwnRow
<1>2. \A v \in Workers : current[w] \notin stale[v] \cup spent[v]
  BY HoldingExcludesRecovery DEF Holding, Recovering
<1> QED BY <1>1, <1>2 DEF AgreementInv, RowsAgree, QueueInv, RowInv

\* Where calculations may be cancelled no worker recovers (NoCancelRace).
LEMMA CancellableNotSelected ==
    ASSUME NoCancelRace, TypeOK, QueueInv, NEW c \in Cancellable, NEW w \in Workers
    PROVE  c \notin stale[w] \cup spent[w]
<1>1. crashes = 0
  BY QueueAssumption DEF NoCancelRace, TypeOK
<1>2. pc[w] \notin Recovering
  BY <1>1 DEF QueueInv, RecoveryInv
<1> QED BY <1>2 DEF QueueInv, RecoveryViewInv, Recovering

LEMMA RequestKeepsAgreement ==
    ASSUME NoCancelRace, TypeOK, QueueInv, AgreementInv, NEW c \in Calcs, Request(c)
    PROVE  AgreementInv'
<1>t. CalcTypes /\ JobTypes /\ (\A w \in Workers : pc[w] \in Holding => current[w] \in Calcs)
      /\ (\A w \in Workers : pc[w] \in Holding => current[w] # NoCalc)
  BY DEF TypeOK, WorkerTypes
<1> USE DEF AgreementInv
<1>1. CASE Submit(c)
  <2>1. jobStatus[c] = "absent" /\ \A w \in Workers : pc[w] \in Holding => current[w] # c
    BY <1>1, <1>t DEF Submit, QueueInv, RowInv, HeldJobInv
  <2>2. RowsAgree'
    BY <1>1, <1>t DEF Submit, RowsAgree, OpenStatuses, CalcTypes, JobTypes
  <2>3. ViewsAreCurrent'
    BY <1>1, <1>t, <2>1
    DEF Submit, ViewsAreCurrent, CalcTypes, JobTypes, Holding, procVars, sessionVars, failVars,
        recoverVars
  <2> QED BY <2>2, <2>3
<1>2. CASE Cancel(c)
  <2>1. jobStatus[c] \in {"queued", "running"}
    BY <1>2 DEF Cancel, RowsAgree
  <2>2. RowsAgree'
    BY <1>2, <1>t, <2>1 DEF Cancel, RowsAgree, OpenStatuses, CalcTypes, JobTypes
  <2>3. /\ \A w \in Workers : c \notin stale[w] \cup spent[w]
        /\ c \notin Failing
    BY <1>2, CancellableNotSelected DEF Cancel, NoCancelRace
  <2>4. ViewsAreCurrent'
    <3>1. /\ status'[c] = "SIM_CANCELLED"
          /\ \A k \in Calcs \ {c} : status'[k] = status[k] /\ jobStatus'[k] = jobStatus[k]
          /\ UNCHANGED <<pc, current, seenFinished, seenStatus, stale, spent, condemned>>
      BY <1>2, <1>t
      DEF Cancel, CalcTypes, JobTypes, procVars, sessionVars, failVars, recoverVars
    <3>2. \A w \in Workers : stale[w] \subseteq Calcs /\ spent[w] \subseteq Calcs
      BY DEF TypeOK, WorkerTypes
    <3> QED BY <1>t, <2>3, <3>1, <3>2 DEF ViewsAreCurrent, Holding
  <2> QED BY <2>2, <2>4
<1>3. ASSUME NEW d \in Decisions, Decide(c, d) PROVE AgreementInv'
  BY <1>3 DEF Decide, RowsAgree, ViewsAreCurrent, jobVars, procVars, sessionVars, failVars,
     recoverVars
<1> QED BY <1>1, <1>2, <1>3 DEF Request

LEMMA TimeKeepsAgreement ==
    ASSUME AgreementInv, UNCHANGED <<calcVars, jobStatus, procVars, sessionVars>>
    PROVE  AgreementInv'
  BY DEF AgreementInv, RowsAgree, ViewsAreCurrent, calcVars, procVars, sessionVars, failVars,
         recoverVars

LEMMA ClaimKeepsAgreement ==
    ASSUME TypeOK, QueueInv, AgreementInv, NEW w \in Workers, NEW c \in Calcs, Claim(w, c)
    PROVE  AgreementInv'
<1>t. JobTypes /\ WorkerTypes
  BY DEF TypeOK
<1>1. RowsAgree'
  BY <1>t DEF Claim, AgreementInv, RowsAgree, JobTypes, calcVars
<1>2. ViewsAreCurrent'
  BY <1>t
  DEF Claim, Goto, AgreementInv, ViewsAreCurrent, JobTypes, WorkerTypes, calcVars, sessionVars,
      failVars, recoverVars
<1> QED BY <1>1, <1>2 DEF AgreementInv

\* A worker that releases its job leaves the views of the others true when it
\* writes no row they hold or have selected.
LEMMA ReleaseKeepsViews ==
    ASSUME TypeOK, AgreementInv, NEW w \in Workers, NEW p \in {"idle", "down"}, Release(w, p),
           \A v \in Workers \ {w} : \A c \in Calcs :
              c \in {current[v]} \cup stale[v] \cup spent[v] =>
                 status'[c] = status[c] /\ jobStatus'[c] = jobStatus[c]
    PROVE  ViewsAreCurrent'
<1>t. WorkerTypes /\ (\A v \in Workers : pc[v] \in Holding => current[v] \in Calcs)
  BY DEF TypeOK, WorkerTypes
<1> QED
  BY <1>t DEF Release, Goto, AgreementInv, ViewsAreCurrent, WorkerTypes, Holding

LEMMA FinishKeepsAgreement ==
    ASSUME RegularDeployment, TypeOK, QueueInv, AgreementInv, NEW w \in Workers, Finish(w)
    PROVE  AgreementInv'
<1>t. CalcTypes /\ JobTypes /\ pc[w] \in Holding /\ pc[w] = "executing" /\ Release(w, "idle")
  BY DEF TypeOK, Finish, Holding
<1> DEFINE c == current[w]
<1>1. /\ c \in Calcs
      /\ \/ jobStatus[c] = "running" /\ status[c] \in OpenStatuses /\ ~finished[c]
         \/ jobStatus[c] = "cancelled" /\ status[c] = "SIM_CANCELLED"
      /\ \A v \in Workers \ {w} : current[v] # c
      /\ \A v \in Workers : c \notin stale[v] \cup spent[v]
  BY <1>t, HeldRow
<1>2. \A k \in Calcs \ {c} :
        jobStatus'[k] = jobStatus[k] /\ status'[k] = status[k] /\ finished'[k] = finished[k]
  BY <1>t, <1>1 DEF Finish, Execute, CompleteJob, CalcTypes, JobTypes, calcVars, jobVars
<1>3. \/ /\ status'[c] = "SIM_CANCELLED" /\ jobStatus'[c] = "cancelled" /\ status[c] = "SIM_CANCELLED"
      \/ /\ status'[c] \in EngineStatuses /\ jobStatus'[c] = "completed"
         /\ status[c] # "SIM_CANCELLED"
  <2>1. CASE status[c] = "SIM_CANCELLED"
    BY <1>t, <1>1, <2>1
    DEF Finish, Execute, CompleteJob, CalcTypes, JobTypes, OpenStatuses, calcVars, jobVars
  <2>2. CASE status[c] # "SIM_CANCELLED"
    <3>1. ~seenFinished[w]
      BY <1>t, <2>2 DEF AgreementInv, ViewsAreCurrent
    <3>2. Verdict[c] \in EngineStatuses
      BY <1>1, QueueAssumption
    <3> QED BY <1>t, <1>1, <2>2, <3>1, <3>2 DEF Finish, Execute, CompleteJob, CalcTypes, JobTypes
  <2> QED BY <2>1, <2>2
<1>4. RowsAgree'
  BY <1>1, <1>2, <1>3 DEF AgreementInv, RowsAgree, OpenStatuses, EngineStatuses
<1>5. ViewsAreCurrent'
  BY <1>t, <1>1, <1>2, ReleaseKeepsViews
<1> QED BY <1>4, <1>5 DEF AgreementInv

\* What _mark_failure writes when nobody can have cancelled the calculation.
LEMMA FailureWrites ==
    ASSUME RegularDeployment, NoCancelRace, TypeOK, QueueInv, AgreementInv, NEW w \in Workers,
           RetryLater(w) \/ GiveUp(w)
    PROVE  /\ current[w] \in Calcs /\ status[current[w]] \in OpenStatuses
           /\ \A v \in Workers \ {w} : current[v] # current[w]
           /\ \A v \in Workers : current[w] \notin stale[v] \cup spent[v]
           /\ \A k \in Calcs \ {current[w]} :
                jobStatus'[k] = jobStatus[k] /\ status'[k] = status[k] /\ finished'[k] = finished[k]
           /\ \/ /\ RetryLater(w) /\ status' = [status EXCEPT ![current[w]] = "SIM_QUEUED"]
                 /\ jobStatus'[current[w]] = "queued" /\ ~finished'[current[w]]
              \/ /\ GiveUp(w) /\ status' = [status EXCEPT ![current[w]] = "SIM_TECHNICAL_ERROR"]
                 /\ jobStatus'[current[w]] = "failed"
<1>t. CalcTypes /\ JobTypes /\ pc[w] \in Holding /\ pc[w] = "calcRead"
  BY DEF TypeOK, RetryLater, GiveUp, Holding
<1> DEFINE c == current[w]
<1>1. /\ c \in Calcs
      /\ \/ jobStatus[c] = "running" /\ status[c] \in OpenStatuses /\ ~finished[c]
         \/ jobStatus[c] = "cancelled" /\ status[c] = "SIM_CANCELLED"
      /\ \A v \in Workers \ {w} : current[v] # c
      /\ \A v \in Workers : c \notin stale[v] \cup spent[v]
  BY <1>t, HeldRow
<1>2. c \in Failing /\ seenStatus[w] = status[c] /\ seenJob[w] = "running"
  BY <1>t DEF AgreementInv, ViewsAreCurrent, QueueInv, FailureViewInv
<1>3. status[c] # "SIM_CANCELLED"
  BY <1>1, <1>2 DEF AgreementInv, RowsAgree, NoCancelRace
<1>4. jobStatus[c] = "running" /\ status[c] \in OpenStatuses /\ ~finished[c]
  BY <1>1, <1>3
<1>5. CASE RetryLater(w)
  <2>1. /\ status' = [status EXCEPT ![c] = IF status[c] = "SIM_QUEUED" THEN status[c] ELSE "SIM_QUEUED"]
        /\ jobStatus' = [jobStatus EXCEPT ![c] = "queued"]
        /\ UNCHANGED finished
    BY <1>5, <1>2 DEF RetryLater, Written
  <2> QED BY <1>t, <1>1, <1>4, <1>5, <2>1 DEF CalcTypes, JobTypes
<1>6. CASE GiveUp(w)
  <2>1. /\ status' = [status EXCEPT ![c] = "SIM_TECHNICAL_ERROR"]
        /\ jobStatus' = [jobStatus EXCEPT ![c] = "failed"]
        /\ finished' = [finished EXCEPT ![c] = TRUE]
    BY <1>6, <1>2, <1>4 DEF GiveUp, Written, OpenStatuses
  <2> QED BY <1>t, <1>1, <1>4, <1>6, <2>1 DEF CalcTypes, JobTypes
<1> QED BY <1>5, <1>6

LEMMA FailureKeepsAgreement ==
    ASSUME RegularDeployment, NoCancelRace, TypeOK, QueueInv, AgreementInv, NEW w \in Workers,
           RetryLater(w) \/ GiveUp(w)
    PROVE  AgreementInv'
<1>t. CalcTypes /\ Release(w, "idle")
  BY DEF TypeOK, RetryLater, GiveUp
<1>1. RowsAgree'
  BY <1>t, FailureWrites DEF AgreementInv, RowsAgree, OpenStatuses, CalcTypes
<1>2. ViewsAreCurrent'
  BY <1>t, FailureWrites, ReleaseKeepsViews
<1> QED BY <1>1, <1>2 DEF AgreementInv

\* recover_stale_jobs: every selected job is queued again or failed.
LEMMA RecoveryWrites ==
    ASSUME RegularDeployment, TypeOK, QueueInv, AttemptsSeen, AgreementInv, NEW w \in Workers,
           CommitRecovery(w)
    PROVE  /\ \A v \in Workers : v = w
           /\ stale[w] \subseteq Calcs /\ spent[w] \subseteq Calcs
           /\ \A c \in stale[w] \cup spent[w] : jobStatus[c] = "running" /\ status[c] \in OpenStatuses
           /\ stale[w] \cap spent[w] = {}
           /\ status' = [c \in Calcs |-> IF c \in spent[w] THEN "SIM_TECHNICAL_ERROR" ELSE status[c]]
           /\ finished' = [c \in Calcs |-> c \in spent[w] \/ finished[c]]
<1>1. /\ pc[w] = "loaded" /\ condemned[w] = spent[w]
      /\ \A c \in stale[w] \cup spent[w] : jobStatus[c] = "running"
  BY DEF CommitRecovery, AgreementInv, ViewsAreCurrent
<1>2. \A v \in Workers : v = w
  BY <1>1, RecoveryIsAlone DEF QueueInv, Recovering
<1>3. /\ stale[w] \subseteq Calcs /\ spent[w] \subseteq Calcs
      /\ \A c \in stale[w] : attempts[c] \in Nat /\ attempts[c] < MaxAttempts
      /\ \A c \in spent[w] : attempts[c] >= MaxAttempts
      /\ MaxAttempts \in Nat
  BY QueueAssumption DEF TypeOK, WorkerTypes, JobTypes, QueueInv, RecoveryViewInv, AttemptsSeen
<1> QED BY <1>1, <1>2, <1>3 DEF CommitRecovery, AgreementInv, RowsAgree

LEMMA CommitRecoveryKeepsAgreement ==
    ASSUME RegularDeployment, NoCancelRace, TypeOK, QueueInv, AttemptsSeen, AgreementInv,
           NEW w \in Workers, CommitRecovery(w)
    PROVE  AgreementInv'
<1>1. /\ Release(w, "idle")
      /\ jobStatus' = [c \in Calcs |-> IF c \in stale[w] THEN "queued"
                                      ELSE IF c \in spent[w] THEN "failed" ELSE jobStatus[c]]
  BY DEF CommitRecovery
<1>2. ViewsAreCurrent'
  BY <1>1, RecoveryWrites, ReleaseKeepsViews
<1>3. ASSUME NEW c \in Calcs
      PROVE  /\ status'[c] \in OpenStatuses <=> jobStatus'[c] \in {"queued", "running"}
             /\ status'[c] \in OpenStatuses \cup {"absent"} => ~finished'[c]
             /\ status'[c] = "SIM_CANCELLED" => c \in Cancellable
  <2>1. CASE c \in spent[w]
    BY <1>1, <2>1, RecoveryWrites DEF OpenStatuses
  <2>2. CASE c \in stale[w]
    BY <1>1, <2>2, RecoveryWrites DEF AgreementInv, RowsAgree, OpenStatuses
  <2>3. CASE c \notin stale[w] \cup spent[w]
    BY <1>1, <2>3, RecoveryWrites DEF AgreementInv, RowsAgree
  <2> QED BY <2>1, <2>2, <2>3
<1> QED BY <1>2, <1>3 DEF AgreementInv, RowsAgree

\* A step of a worker that keeps its job, or selects stale ones.
LEMMA InnerStepKeepsAgreement ==
    ASSUME RegularDeployment, TypeOK, QueueInv, AgreementInv, NEW w \in Workers,
           \/ Begin(w) \/ Fail(w) \/ ReadFailedJob(w) \/ ReadFailedCalc(w)
           \/ SelectStale(w) \/ LoadSpentCalcs(w) \/ Restart(w)
    PROVE  AgreementInv'
<1>t. CalcTypes /\ JobTypes /\ WorkerTypes
  BY DEF TypeOK
<1>1. UNCHANGED <<jobVars, current, finished>>
  BY DEF Begin, Fail, ReadFailedJob, ReadFailedCalc, SelectStale, LoadSpentCalcs, Restart,
         calcVars
<1> USE <1>t DEF jobVars
<1>2. CASE Begin(w)
  <2>1. /\ current[w] \in Calcs /\ jobStatus[current[w]] = "running"
        /\ status[current[w]] \in OpenStatuses /\ ~finished[current[w]]
        /\ \A v \in Workers \ {w} : current[v] # current[w]
    BY <1>2, HeldRow DEF Begin, Holding
  <2>2. RowsAgree'
    BY <1>1, <1>2, <2>1 DEF Begin, AgreementInv, RowsAgree, OpenStatuses, CalcTypes
  <2>3. /\ \A k \in Calcs : k # current[w] => status'[k] = status[k]
        /\ \A v \in Workers : pc[v] \in Holding => current[v] \in Calcs
        /\ status'[current[w]] = "SIM_RUNNING"
    BY <1>2, <2>1 DEF Begin, CalcTypes, TypeOK, WorkerTypes
  <2>4. /\ pc' = [pc EXCEPT ![w] = "executing"]
        /\ seenFinished' = [seenFinished EXCEPT ![w] = FALSE]
        /\ UNCHANGED <<seenStatus, stale, spent, condemned>>
    BY <1>2, <2>1 DEF Begin, Goto, CalcTypes, failVars, recoverVars
  <2>5. ViewsAreCurrent'
    <3>1. pc'[w] = "executing" /\ ~seenFinished'[w]
      BY <2>4 DEF WorkerTypes
    <3>2. \A v \in Workers \ {w} :
             /\ pc'[v] = pc[v] /\ seenFinished'[v] = seenFinished[v]
             /\ pc[v] \in Holding => status'[current[v]] = status[current[v]]
      BY <2>1, <2>3, <2>4 DEF WorkerTypes
    <3>3. /\ current' = current /\ jobStatus' = jobStatus /\ seenStatus' = seenStatus
          /\ stale' = stale /\ spent' = spent /\ condemned' = condemned
      BY <1>1, <2>4
    <3>4. ViewsAreCurrent
      BY DEF AgreementInv
    <3>5. ASSUME NEW v \in Workers \ {w}
          PROVE  /\ pc'[v] = "executing" =>
                      /\ status'[current'[v]] \in {"SIM_RUNNING", "SIM_CANCELLED"}
                      /\ seenFinished'[v] => status'[current'[v]] = "SIM_CANCELLED"
                 /\ pc'[v] = "calcRead" => seenStatus'[v] = status'[current'[v]]
      <4>1. pc[v] \in {"executing", "calcRead"} => status'[current'[v]] = status[current[v]]
        BY <3>2, <3>3 DEF Holding
      <4>2. /\ pc[v] = "executing" =>
                 /\ status[current[v]] \in {"SIM_RUNNING", "SIM_CANCELLED"}
                 /\ seenFinished[v] => status[current[v]] = "SIM_CANCELLED"
            /\ pc[v] = "calcRead" => seenStatus[v] = status[current[v]]
        BY <3>4 DEF ViewsAreCurrent
      <4> QED BY <3>2, <3>3, <4>1, <4>2
    <3> QED BY <2>3, <3>1, <3>2, <3>3, <3>4, <3>5 DEF ViewsAreCurrent
  <2> QED BY <2>2, <2>5 DEF AgreementInv
<1>3. CASE ~Begin(w)
  <2>1. UNCHANGED status
    BY <1>3 DEF Fail, ReadFailedJob, ReadFailedCalc, SelectStale, LoadSpentCalcs, Restart, calcVars
  <2>2. RowsAgree'
    BY <1>1, <2>1 DEF AgreementInv, RowsAgree
  <2>3. CASE Fail(w) \/ ReadFailedJob(w) \/ ReadFailedCalc(w) \/ Restart(w)
    BY <1>1, <2>1, <2>2, <2>3
    DEF Fail, ReadFailedJob, ReadFailedCalc, Restart, Goto, AgreementInv, ViewsAreCurrent,
        WorkerTypes, sessionVars, failVars, recoverVars
  <2>4. CASE SelectStale(w)
    BY <1>1, <2>1, <2>2, <2>4
    DEF SelectStale, Goto, AgreementInv, ViewsAreCurrent, WorkerTypes, failVars
  <2>5. CASE LoadSpentCalcs(w)
    <3>0. spent[w] \in SUBSET Calcs /\ \A c \in spent[w] : jobStatus[c] = "running"
      BY DEF AgreementInv, ViewsAreCurrent, WorkerTypes
    <3>1. \A c \in spent[w] : c \in Calcs /\ status[c] \in OpenStatuses
      BY <3>0 DEF AgreementInv, RowsAgree
    <3>2. condemned' = [condemned EXCEPT ![w] = spent[w]]
      BY <2>5, <3>1 DEF LoadSpentCalcs, OpenStatuses
    <3>3. /\ pc' = [pc EXCEPT ![w] = "loaded"]
          /\ UNCHANGED <<seenFinished, seenStatus, stale, spent>>
      BY <2>5 DEF LoadSpentCalcs, Goto, failVars
    <3>4. ViewsAreCurrent'
      BY <1>1, <2>1, <3>2, <3>3 DEF AgreementInv, ViewsAreCurrent, WorkerTypes
    <3> QED BY <2>2, <3>4 DEF AgreementInv
  <2> QED BY <1>3, <2>3, <2>4, <2>5
<1> QED BY <1>2, <1>3

LEMMA AgreementStep ==
    ASSUME RegularDeployment, NoCancelRace, TypeOK, QueueInv, AttemptsSeen, AgreementInv,
           [Next]_vars
    PROVE  AgreementInv'
<1>1. ASSUME NEW c \in Calcs, LeaseExpires(c) \/ BackoffElapses(c) PROVE AgreementInv'
  BY <1>1, TimeKeepsAgreement DEF LeaseExpires, BackoffElapses
<1>2. ASSUME NEW w \in Workers, Heartbeat(w) PROVE AgreementInv'
  BY <1>2, TimeKeepsAgreement DEF Heartbeat
<1>3. ASSUME NEW w \in Workers, FinishUnacknowledged(w) PROVE FALSE
  BY <1>3, QueueAssumption DEF FinishUnacknowledged, RegularDeployment, TypeOK
<1>4. ASSUME NEW w \in Workers, NEW p \in {"idle", "down"}, Release(w, p),
             UNCHANGED <<calcVars, jobVars>>
      PROVE  AgreementInv'
  <2>1. ViewsAreCurrent'
    BY <1>4, ReleaseKeepsViews DEF calcVars, jobVars
  <2>2. RowsAgree'
    BY <1>4 DEF AgreementInv, RowsAgree, calcVars, jobVars
  <2> QED BY <2>1, <2>2 DEF AgreementInv
<1>5. ASSUME NEW w \in Workers, SkipCancelled(w) \/ IgnoreFailure(w) \/ Crash(w)
      PROVE  AgreementInv'
  BY <1>4, <1>5 DEF SkipCancelled, IgnoreFailure, Crash
<1>6. ASSUME NEW w \in Workers, Progress(w) PROVE AgreementInv'
  BY <1>5, <1>6, InnerStepKeepsAgreement, FinishKeepsAgreement, FailureKeepsAgreement,
     CommitRecoveryKeepsAgreement DEF Progress
<1>7. CASE UNCHANGED vars
  BY <1>7, TimeKeepsAgreement DEF vars, jobVars
<1> QED
  BY <1>1, <1>2, <1>3, <1>5, <1>6, <1>7, RequestKeepsAgreement, ClaimKeepsAgreement DEF Next

(***************************************************************************)
(* Every step is a step of the life cycle, or a stutter.                   *)
(***************************************************************************)
LEMMA PhaseStep ==
    ASSUME RegularDeployment, NoCancelRace, TypeOK, QueueInv, DecisionInv, AttemptsSeen,
           AgreementInv, [Next]_vars
    PROVE  [Lifecycle!Next]_Lifecycle!vars
<1> USE DEF Lifecycle!vars
<1>t. CalcTypes /\ \A w \in Workers : pc[w] \in Holding => current[w] \in Calcs
  BY DEF TypeOK, WorkerTypes
<1>n. ASSUME UNCHANGED <<status, approval>> PROVE [Lifecycle!Next]_Lifecycle!vars
  BY <1>n
<1>1. ASSUME NEW c \in Calcs, Submit(c) PROVE Lifecycle!Submit(c)
  BY <1>1, <1>t DEF Submit, Lifecycle!Submit, Lifecycle!Move, PhaseOf, CalcTypes
<1>2. ASSUME NEW c \in Calcs, Cancel(c) PROVE Lifecycle!Cancel(c)
  BY <1>2, <1>t DEF Cancel, OpenStatuses, Lifecycle!Cancel, Lifecycle!Move, Lifecycle!Open,
     PhaseOf, CalcTypes
<1>3. ASSUME NEW c \in Calcs, NEW d \in Decisions, Decide(c, d) PROVE Lifecycle!Decide(c, d)
  <2>1. PhaseOf(status[c]) # "absent"
    BY <1>3, <1>t DEF Decide, PhaseOf, CalcTypes
  <2>2. d = "approved" => PhaseOf(status[c]) = "concluded" /\ c \in Eligible
    <3>1. ASSUME d = "approved" PROVE result[c] = "eligible"
      BY <1>3, <3>1 DEF Decide
    <3>2. ASSUME result[c] = "eligible" PROVE c \in Eligible /\ status[c] = Verdict[c]
      BY <3>2 DEF DecisionInv, ResultOfInput, QueueInv, ResultIsFinal, HasResult
    <3>3. PhaseOf(Verdict[c]) = "concluded"
      BY QueueAssumption DEF PhaseOf, EngineStatuses
    <3> QED BY <3>1, <3>2, <3>3
  <2> QED BY <1>3, <2>1, <2>2 DEF Decide, Lifecycle!Decide
<1>4. ASSUME NEW w \in Workers, Begin(w)
      PROVE  Lifecycle!Start(current[w]) \/ UNCHANGED <<status, approval>>
  <2>1. current[w] \in Calcs /\ status[current[w]] \in OpenStatuses
    BY <1>4, HeldRow DEF Begin, Holding
  <2> QED
    BY <1>4, <1>t, <2>1
    DEF Begin, OpenStatuses, Lifecycle!Start, Lifecycle!Move, PhaseOf, CalcTypes
<1>5. ASSUME NEW w \in Workers, Finish(w)
      PROVE  Lifecycle!Conclude(current[w]) \/ UNCHANGED <<status, approval>>
  <2>1. CASE seenFinished[w] \/ status[current[w]] = "SIM_CANCELLED"
    BY <1>5, <2>1 DEF Finish, Execute, calcVars
  <2>2. CASE ~(seenFinished[w] \/ status[current[w]] = "SIM_CANCELLED")
    <3>1. current[w] \in Calcs /\ status[current[w]] = "SIM_RUNNING"
      BY <1>5, <2>2, HeldRow DEF Finish, Holding, AgreementInv, ViewsAreCurrent
    <3>2. PhaseOf(Verdict[current[w]]) = "concluded"
      BY <3>1, QueueAssumption DEF PhaseOf, EngineStatuses
    <3>3. status' = [status EXCEPT ![current[w]] = Verdict[current[w]]] /\ UNCHANGED approval
      BY <1>5, <2>2 DEF Finish, Execute
    <3> QED
      BY <1>t, <3>1, <3>2, <3>3 DEF Lifecycle!Conclude, Lifecycle!Move, PhaseOf, CalcTypes
  <2> QED BY <2>1, <2>2
<1>x. ASSUME NEW w \in Workers PROVE ~(RetryLater(w) /\ GiveUp(w))
  BY QueueAssumption DEF RetryLater, GiveUp, TypeOK, WorkerTypes
<1>6. ASSUME NEW w \in Workers, RetryLater(w)
      PROVE  Lifecycle!Retry(current[w]) \/ UNCHANGED <<status, approval>>
  <2>1. /\ current[w] \in Calcs /\ status[current[w]] \in OpenStatuses
        /\ status' = [status EXCEPT ![current[w]] = "SIM_QUEUED"] /\ UNCHANGED approval
    BY <1>6, <1>x, FailureWrites DEF RetryLater
  <2> QED
    BY <1>t, <2>1 DEF OpenStatuses, Lifecycle!Retry, Lifecycle!Move, PhaseOf, CalcTypes
<1>7. ASSUME NEW w \in Workers, GiveUp(w) PROVE Lifecycle!GiveUp({current[w]})
  <2>1. /\ current[w] \in Calcs /\ status[current[w]] \in OpenStatuses
        /\ status' = [status EXCEPT ![current[w]] = "SIM_TECHNICAL_ERROR"] /\ UNCHANGED approval
    BY <1>7, <1>x, FailureWrites DEF GiveUp
  <2> QED
    BY <1>t, <2>1 DEF OpenStatuses, Lifecycle!GiveUp, Lifecycle!Open, PhaseOf, CalcTypes
<1>8. ASSUME NEW w \in Workers, CommitRecovery(w) PROVE Lifecycle!GiveUp(spent[w])
  <2>1. /\ \A c \in spent[w] : c \in Calcs /\ status[c] \in OpenStatuses
        /\ status' = [c \in Calcs |-> IF c \in spent[w] THEN "SIM_TECHNICAL_ERROR" ELSE status[c]]
        /\ UNCHANGED approval
    BY <1>8, RecoveryWrites DEF CommitRecovery
  <2> QED BY <1>t, <2>1 DEF OpenStatuses, Lifecycle!GiveUp, Lifecycle!Open, PhaseOf
<1>9. ASSUME NEW w \in Workers, Progress(w)
      PROVE  [Lifecycle!Next]_Lifecycle!vars
  <2>1. CASE Begin(w) \/ Finish(w) \/ RetryLater(w) \/ GiveUp(w)
    <3>1. current[w] \in Calcs
      BY <1>t, <2>1 DEF Begin, Finish, RetryLater, GiveUp, Holding
    <3> QED BY <1>4, <1>5, <1>6, <1>7, <2>1, <3>1, <1>n DEF Lifecycle!Next
  <2>2. CASE CommitRecovery(w)
    <3>1. spent[w] \in SUBSET Calcs
      BY DEF TypeOK, WorkerTypes
    <3> QED BY <1>8, <2>2, <3>1 DEF Lifecycle!Next
  <2>3. CASE ~(Begin(w) \/ Finish(w) \/ RetryLater(w) \/ GiveUp(w) \/ CommitRecovery(w))
    <3>1. UNCHANGED <<status, approval>>
      BY <1>9, <2>3
      DEF Progress, SkipCancelled, Fail, IgnoreFailure, ReadFailedJob, ReadFailedCalc,
          SelectStale, LoadSpentCalcs, Restart, calcVars
    <3> QED BY <3>1, <1>n
  <2> QED BY <2>1, <2>2, <2>3
<1>10. ASSUME NEW c \in Calcs, Request(c) PROVE [Lifecycle!Next]_Lifecycle!vars
  BY <1>1, <1>2, <1>3, <1>10 DEF Request, Decisions, Lifecycle!Decisions, Lifecycle!Next
<1>11. ASSUME NEW w \in Workers, FinishUnacknowledged(w) PROVE FALSE
  BY <1>11, QueueAssumption DEF FinishUnacknowledged, RegularDeployment, TypeOK
<1>12. ASSUME \/ \E c \in Calcs : LeaseExpires(c) \/ BackoffElapses(c)
              \/ \E w \in Workers : Heartbeat(w) \/ Crash(w)
              \/ \E w \in Workers, c \in Calcs : Claim(w, c)
              \/ UNCHANGED vars
       PROVE  UNCHANGED <<status, approval>>
  BY <1>12 DEF LeaseExpires, BackoffElapses, Heartbeat, Crash, Claim, vars, calcVars
<1> QED BY <1>n, <1>9, <1>10, <1>11, <1>12 DEF Next

\* In a regular deployment, and where no failure or recovery can race a
\* cancellation, clients see the life cycle (worker.py and services/core.py).
THEOREM LifecycleImplemented ==
    ASSUME RegularDeployment, NoCancelRace
    PROVE  Spec => ImplementsLifecycle
<1>1. Init => Lifecycle!Init
  BY DEF Init, Lifecycle!Init, PhaseOf
<1>2. Init => AgreementInv /\ DecisionInv /\ ErrorInv
  BY InitAgreement
  DEF Init, DecisionInv, ApprovedIsEligible, VerdictHasResult, ResultOfInput, HasResult,
      EngineStatuses, ErrorInv, ErrorAfterLastAttempt, AttemptsSeen
<1>3. TypeOK /\ QueueInv /\ DecisionInv /\ ErrorInv /\ AgreementInv /\ [Next]_vars
        => AgreementInv' /\ DecisionInv' /\ ErrorInv'
  BY AgreementStep, DecisionStep, ErrorStep, AttemptsSeenStep DEF ErrorInv
<1>4. TypeOK /\ QueueInv /\ DecisionInv /\ ErrorInv /\ AgreementInv /\ [Next]_vars
        => [Lifecycle!Next]_Lifecycle!vars
  BY PhaseStep DEF ErrorInv
<1> QED
  BY <1>1, <1>2, <1>3, <1>4, TypeCorrect, QueueSafety, PTL
  DEF Spec, ImplementsLifecycle, Lifecycle!Spec

\* ... so that a cancelled calculation stays cancelled (cancel_calculation).
THEOREM CancellationsAreFinal ==
    ASSUME RegularDeployment, NoCancelRace
    PROVE  Spec => CancellationIsFinal
<1>1. TypeOK /\ [Lifecycle!Next]_Lifecycle!vars /\ TypeOK' =>
        [\A c \in Calcs : status[c] = "SIM_CANCELLED" => status'[c] = "SIM_CANCELLED"]_vars
  <2> SUFFICES ASSUME TypeOK, TypeOK', [Lifecycle!Next]_Lifecycle!vars, NEW c \in Calcs,
                      status[c] = "SIM_CANCELLED"
               PROVE  status'[c] = "SIM_CANCELLED"
    OBVIOUS
  <2> DEFINE phase == [k \in Calcs |-> PhaseOf(status[k])]
  <2>1. phase[c] = "cancelled"
    BY DEF PhaseOf
  <2>2. phase'[c] = "cancelled"
    BY <2>1
    DEF Lifecycle!Next, Lifecycle!vars, Lifecycle!Submit, Lifecycle!Start, Lifecycle!Retry,
        Lifecycle!Conclude, Lifecycle!Cancel, Lifecycle!GiveUp, Lifecycle!Decide,
        Lifecycle!Move, Lifecycle!Open
  <2>3. status'[c] \in CalcStatuses
    BY DEF TypeOK, CalcTypes
  <2> QED BY <2>2, <2>3 DEF PhaseOf
<1> QED
  BY <1>1, LifecycleImplemented, TypeCorrect, PTL
  DEF ImplementsLifecycle, Lifecycle!Spec, CancellationIsFinal

\* The statuses of a calculation and of its job agree, and so do the copies that
\* the sessions of the workers hold, where no failure or recovery can race a
\* cancellation (cancel_calculation, _mark_failure, recover_stale_jobs).
THEOREM RowsAgreeAlways ==
    ASSUME RegularDeployment, NoCancelRace
    PROVE  Spec => []AgreementInv
<1>1. Init => AgreementInv /\ ErrorInv
  BY InitAgreement DEF Init, ErrorInv, ErrorAfterLastAttempt, AttemptsSeen
<1>2. TypeOK /\ QueueInv /\ ErrorInv /\ AgreementInv /\ [Next]_vars
        => AgreementInv' /\ ErrorInv'
  BY AgreementStep, ErrorStep, AttemptsSeenStep DEF ErrorInv
<1> QED BY <1>1, <1>2, TypeCorrect, QueueSafety, PTL DEF Spec
=============================================================================
