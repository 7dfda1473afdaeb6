-------------------------- MODULE SchedulerProofs ---------------------------
(***************************************************************************)
(* Proofs about JobRuns and Scheduler, for any number of workers, events,  *)
(* attempts, ticks, triggers and crashes: the claim protocol first, then   *)
(* the ticks that work on a league's deadlines with it.                    *)
(* Everything but the type invariant of JobRuns rests on FastHandlers: the *)
(* deployment kills a tick (RunLimit) before its claim can be taken for    *)
(* abandoned (StaleTimeout).                                               *)
(***************************************************************************)
EXTENDS Scheduler, FiniteSetTheorems, SequenceTheorems, TLAPS

FastHandlers == RunLimit < StaleTimeout

-----------------------------------------------------------------------------
(* Type correctness *)

\* What the writes to a row produce (insert, status change, reclaim): a well-formed row.
LEMMA RowWrites ==
  ASSUME TypeOK
  PROVE  /\ InsertedRun \in Runs
         /\ \A row \in Runs, s \in Statuses : WithStatus(row, s) \in Runs
         /\ \A row \in Runs : ReclaimedRun(row) \in Runs
<1>1. InsertedRun \in Runs
  BY DEF InsertedRun, Runs, TypeOK, Statuses
<1>2. ASSUME NEW row \in Runs, NEW s \in Statuses
      PROVE  WithStatus(row, s) \in Runs
  BY <1>2 DEF WithStatus, Runs, TypeOK
<1>3. ASSUME NEW row \in Runs
      PROVE  ReclaimedRun(row) \in Runs
  BY <1>3 DEF ReclaimedRun, Runs, TypeOK, Statuses
<1> QED BY <1>1, <1>2, <1>3

\* Holding, reading or reclaiming, a worker past its INSERT works on a row that exists.
RowExists == \A w \in Workers : pc[w] # "idle" => jobRun[event[w]] # NoRun

LEMMA TypeInit == Init => TypeOK /\ RowExists
BY JobRunConstants DEF Init, TypeOK, RowExists, PCs, Outcomes

LEMMA TypeStep == TypeOK /\ RowExists /\ [Next]_jobVars => TypeOK' /\ RowExists'
<1> SUFFICES ASSUME TypeOK, RowExists, [Next]_jobVars
             PROVE  TypeOK' /\ RowExists'
  OBVIOUS
<1> USE JobRunConstants
<1>r. InsertedRun \in Runs
      /\ (\A row \in Runs, s \in Statuses : WithStatus(row, s) \in Runs)
      /\ (\A row \in Runs : ReclaimedRun(row) \in Runs)
  BY RowWrites
<1>n. \A row \in Runs : row # NoRun
  BY DEF Runs, NoRun, Statuses
<1>1. ASSUME NEW w \in Workers, NEW e \in Events, InsertRun(w, e)
      PROVE  TypeOK' /\ RowExists'
  BY <1>1, <1>r, <1>n DEF InsertRun, TakeClaim, TypeOK, RowExists, PCs
<1>2. ASSUME NEW w \in Workers, NEW e \in Events, InsertConflicts(w, e)
      PROVE  TypeOK' /\ RowExists'
  BY <1>2 DEF InsertConflicts, TypeOK, RowExists, PCs
<1>3. ASSUME NEW w \in Workers, ReadExisting(w)
      PROVE  TypeOK' /\ RowExists'
  <2>1. RefusalOf(jobRun[event[w]]) \in Outcomes
    BY DEF RefusalOf, Outcomes
  <2>2. QED
    BY <1>3, <2>1 DEF ReadExisting, Return, TypeOK, RowExists, PCs
<1>4. ASSUME NEW w \in Workers, NEW m \in BOOLEAN, Reclaim(w, m), pc[w] # "idle"
      PROVE  TypeOK' /\ RowExists'
  <2>1. jobRun[event[w]] \in Runs
    BY <1>4 DEF TypeOK, RowExists
  <2>2. CASE m
    BY <1>4, <2>1, <2>2, <1>r, <1>n DEF Reclaim, TakeClaim, TypeOK, RowExists, PCs
  <2>3. CASE ~m
    BY <1>4, <2>3 DEF Reclaim, Return, TypeOK, RowExists, PCs, Outcomes
  <2> QED BY <2>2, <2>3
<1>5. ASSUME NEW w \in Workers, HandlerCommits(w)
      PROVE  TypeOK' /\ RowExists'
  <2>1. jobRun[event[w]] \in Runs
    BY <1>5 DEF HandlerCommits, TypeOK, RowExists
  <2>2. WithStatus(jobRun[event[w]], "Succeeded") \in Runs
    BY <2>1, <1>r DEF Statuses
  <2> QED
    BY <1>5, <2>2, <1>n DEF HandlerCommits, Return, TypeOK, RowExists, PCs, Outcomes
<1>6. ASSUME NEW w \in Workers, HandlerFails(w)
      PROVE  TypeOK' /\ RowExists'
  BY <1>6 DEF HandlerFails, TypeOK, RowExists, PCs
<1>7. ASSUME NEW w \in Workers, RecordFailure(w)
      PROVE  TypeOK' /\ RowExists'
  <2>1. jobRun[event[w]] \in Runs
    BY <1>7 DEF RecordFailure, TypeOK, RowExists
  <2>2. WithStatus(jobRun[event[w]], "Failed") \in Runs
    BY <2>1, <1>r DEF Statuses
  <2> QED
    BY <1>7, <2>2, <1>n DEF RecordFailure, Return, TypeOK, RowExists, PCs, Outcomes
<1>8. ASSUME NEW w \in Workers, Abandon(w)
      PROVE  TypeOK' /\ RowExists'
  BY <1>8 DEF Abandon, Return, TypeOK, RowExists, PCs, Outcomes
<1>9. CASE PassTime
  BY <1>9 DEF PassTime, workerVars, TypeOK, RowExists
<1>10. CASE UNCHANGED jobVars
  BY <1>10 DEF jobVars, workerVars, TypeOK, RowExists
<1>11. ASSUME NEW w \in Workers, ReclaimStale(w)
       PROVE  TypeOK' /\ RowExists'
  BY <1>11, <1>4 DEF ReclaimStale, StaleFilter
<1>12. ASSUME NEW w \in Workers, ReclaimFailed(w)
       PROVE  TypeOK' /\ RowExists'
  <2>1. FailedFilter(jobRun[event[w]]) \in BOOLEAN
    BY DEF FailedFilter
  <2> QED BY <1>12, <2>1, <1>4 DEF ReclaimFailed
<1> QED
  BY <1>1, <1>2, <1>3, <1>5, <1>6, <1>7, <1>8, <1>9, <1>10, <1>11, <1>12
     DEF Next, ClaimAttempt, ClaimedRunStep

\* The variables of the claim protocol keep their types, and a row once written always counts
\* at least one attempt (TypeOK), whatever the workers interleave.
THEOREM TypeCorrect == Spec => [](TypeOK /\ RowExists)
<1>1. Init => TypeOK /\ RowExists
  BY TypeInit
<1>2. TypeOK /\ RowExists /\ [Next]_jobVars => (TypeOK /\ RowExists)'
  BY TypeStep
<1> QED BY <1>1, <1>2, PTL DEF Spec

-----------------------------------------------------------------------------
(* Mutual exclusion and exactly-once effects *)

\* What holding a claim says of the row: it is Running since the claim was taken, and the claim
\* is too young to be taken for abandoned.
HoldersFresh ==
  \A w \in Workers : pc[w] \in {"handling", "failing"} =>
    /\ jobRun[event[w]].status = "Running"
    /\ jobRun[event[w]].updatedAt = claimedAt[w]
    /\ claimedAt[w] <= now
    /\ now - claimedAt[w] <= RunLimit

\* A cutoff was computed in the past, so it is at least StaleTimeout old.
CutoffsOld == \A w \in Workers : pc[w] = "reclaimStale" => cutoff[w] <= now - StaleTimeout

IInv ==
  /\ TypeOK
  /\ RowExists
  /\ HoldersFresh
  /\ CutoffsOld
  /\ OneClaimant
  /\ SucceededIffAppliedOnce
  /\ ProcessedIsApplied

LEMMA InvInit == Init => IInv
<1> SUFFICES ASSUME Init PROVE IInv
  OBVIOUS
<1>1. TypeOK /\ RowExists
  BY TypeInit
<1>2. HoldersFresh /\ CutoffsOld /\ OneClaimant /\ ProcessedIsApplied
  BY DEF Init, HoldersFresh, CutoffsOld, OneClaimant, Holds, ProcessedIsApplied
<1>3. SucceededIffAppliedOnce
  BY DEF Init, SucceededIffAppliedOnce, NoRun
<1> QED BY <1>1, <1>2, <1>3 DEF IInv

\* An event without a Succeeded row has had no effect yet.
LEMMA UnrecordedIsUnapplied ==
  ASSUME IInv, NEW e \in Events, jobRun[e].status # "Succeeded"
  PROVE  effects[e] = 0
<1>1. effects[e] \in Nat /\ effects[e] <= 1
  BY DEF IInv, SucceededIffAppliedOnce, TypeOK
<1>2. effects[e] # 1
  BY DEF IInv, SucceededIffAppliedOnce
<1> QED BY <1>1, <1>2

\* The two conditional UPDATEs take a run only from nobody: its holder, if it had one, would
\* have kept the row Running and younger than the cutoff.
LEMMA ReclaimTakesFree ==
  ASSUME FastHandlers, IInv, NEW w \in Workers,
         \/ pc[w] = "reclaimStale" /\ StaleFilter(jobRun[event[w]], cutoff[w])
         \/ pc[w] = "reclaimFailed" /\ FailedFilter(jobRun[event[w]])
  PROVE  /\ \A w2 \in Workers : ~Holds(w2, event[w])
         /\ jobRun[event[w]] \in Runs
         /\ jobRun[event[w]].status # "Succeeded"
<1> USE DEF IInv
<1>1. CASE pc[w] = "reclaimStale" /\ StaleFilter(jobRun[event[w]], cutoff[w])
  <2>1. jobRun[event[w]] \in Runs /\ cutoff[w] \in Int /\ now \in Nat
    BY <1>1 DEF TypeOK, RowExists
  <2>2. jobRun[event[w]].updatedAt <= now - StaleTimeout
    BY <1>1, <2>1, JobRunConstants DEF CutoffsOld, StaleFilter, Runs
  <2>3. ASSUME NEW w2 \in Workers, Holds(w2, event[w])
        PROVE  FALSE
    <3>1. now - jobRun[event[w]].updatedAt <= RunLimit
      BY <2>3 DEF HoldersFresh, Holds
    <3> QED
      BY <3>1, <2>1, <2>2, JobRunConstants DEF FastHandlers, Runs
  <2> QED BY <1>1, <2>1, <2>3 DEF StaleFilter
<1>2. CASE pc[w] = "reclaimFailed" /\ FailedFilter(jobRun[event[w]])
  <2>1. jobRun[event[w]] \in Runs
    BY <1>2 DEF TypeOK, RowExists
  <2>2. jobRun[event[w]].status \notin {"Running", "Succeeded"}
    BY <1>2 DEF FailedFilter
  <2> QED BY <2>1, <2>2 DEF HoldersFresh, Holds
<1> QED BY <1>1, <1>2

LEMMA InvStep == ASSUME FastHandlers PROVE IInv /\ [Next]_jobVars => IInv'
<1> SUFFICES ASSUME IInv, [Next]_jobVars
             PROVE  IInv'
  OBVIOUS
<1> USE JobRunConstants
<1>t. TypeOK' /\ RowExists'
  BY TypeStep DEF IInv
<1>s. TypeOK /\ RowExists /\ HoldersFresh /\ CutoffsOld /\ OneClaimant
        /\ SucceededIffAppliedOnce /\ ProcessedIsApplied
  BY DEF IInv
<1> DEFINE Rest == HoldersFresh /\ CutoffsOld /\ OneClaimant
                     /\ SucceededIffAppliedOnce /\ ProcessedIsApplied
<1> USE DEF Holds
<1>1. ASSUME NEW w \in Workers, NEW e \in Events, InsertRun(w, e)
      PROVE  Rest'
  <2>1. \A w2 \in Workers : ~Holds(w2, e)
    BY <1>1, <1>s DEF InsertRun, HoldersFresh, NoRun
  <2>2. jobRun'[e] = InsertedRun /\ effects' = effects /\ now' = now
    BY <1>1, <1>s DEF InsertRun, TypeOK
  <2>3. HoldersFresh' /\ CutoffsOld'
    BY <1>1, <1>s, <2>1, <2>2 DEF InsertRun, TakeClaim, TypeOK, HoldersFresh, CutoffsOld, InsertedRun
  <2>4. OneClaimant'
    BY <1>1, <1>s, <2>1 DEF InsertRun, TakeClaim, TypeOK, OneClaimant
  <2>5. SucceededIffAppliedOnce'
    BY <1>1, <1>s, <2>2 DEF InsertRun, TypeOK, SucceededIffAppliedOnce, InsertedRun, NoRun
  <2>6. ProcessedIsApplied'
    BY <1>1, <1>s DEF InsertRun, TakeClaim, TypeOK, ProcessedIsApplied
  <2> QED BY <2>3, <2>4, <2>5, <2>6
<1>2. ASSUME NEW w \in Workers, NEW e \in Events, InsertConflicts(w, e)
      PROVE  Rest'
  BY <1>2, <1>s DEF InsertConflicts, TypeOK, HoldersFresh, CutoffsOld, OneClaimant,
       SucceededIffAppliedOnce, ProcessedIsApplied
<1>3. ASSUME NEW w \in Workers, ReadExisting(w)
      PROVE  Rest'
  <2>1. HoldersFresh' /\ OneClaimant' /\ SucceededIffAppliedOnce'
    BY <1>3, <1>s DEF ReadExisting, Return, TypeOK, HoldersFresh, OneClaimant,
         SucceededIffAppliedOnce
  <2>2. CutoffsOld'
    BY <1>3, <1>s DEF ReadExisting, Return, TypeOK, CutoffsOld
  <2>3. ProcessedIsApplied'
    <3>1. RefusalOf(jobRun[event[w]]) \in {"Processed", "AlreadyProcessed"}
            => jobRun[event[w]].status = "Succeeded"
      BY DEF RefusalOf
    <3>2. jobRun[event[w]].status = "Succeeded" => effects[event[w]] = 1
      BY <1>s DEF SucceededIffAppliedOnce, TypeOK
    <3> QED
      BY <1>3, <1>s, <3>1, <3>2 DEF ReadExisting, Return, TypeOK, ProcessedIsApplied
  <2> QED BY <2>1, <2>2, <2>3
<1>4. ASSUME NEW w \in Workers, NEW m \in BOOLEAN, Reclaim(w, m), pc[w] # "idle",
             m => /\ \A w2 \in Workers : ~Holds(w2, event[w])
                  /\ jobRun[event[w]] \in Runs
                  /\ jobRun[event[w]].status # "Succeeded"
      PROVE  Rest'
  <2>1. CASE m
    <3>1. jobRun' = [jobRun EXCEPT ![event[w]] = ReclaimedRun(jobRun[event[w]])]
      BY <1>4, <2>1 DEF Reclaim
    <3>2. /\ jobRun'[event[w]].status = "Running"
          /\ jobRun'[event[w]].updatedAt = now
      BY <1>s, <3>1 DEF TypeOK, ReclaimedRun
    <3>3. HoldersFresh' /\ CutoffsOld' /\ OneClaimant' /\ ProcessedIsApplied'
      BY <1>4, <1>s, <2>1, <3>1, <3>2 DEF Reclaim, TakeClaim, TypeOK, HoldersFresh, CutoffsOld,
           OneClaimant, ProcessedIsApplied
    <3>4. SucceededIffAppliedOnce'
      BY <1>4, <1>s, <2>1, <3>1, <3>2 DEF Reclaim, TypeOK, SucceededIffAppliedOnce
    <3> QED BY <3>3, <3>4
  <2>2. CASE ~m
    <3>1. jobRun' = jobRun /\ effects' = effects /\ now' = now /\ event' = event
      BY <1>4, <2>2 DEF Reclaim
    <3>2. SucceededIffAppliedOnce'
      BY <1>s, <3>1 DEF SucceededIffAppliedOnce
    <3>3. /\ pc' = [pc EXCEPT ![w] = "idle"]
          /\ outcome' = [outcome EXCEPT ![w] = "AlreadyRunning"]
          /\ cutoff' = [cutoff EXCEPT ![w] = 0]
          /\ claimedAt' = [claimedAt EXCEPT ![w] = 0]
      BY <1>4, <2>2 DEF Reclaim, Return
    <3>4. HoldersFresh' /\ CutoffsOld'
      BY <1>s, <3>1, <3>3 DEF TypeOK, HoldersFresh, CutoffsOld
    <3>5. OneClaimant' /\ ProcessedIsApplied'
      BY <1>s, <3>1, <3>3 DEF TypeOK, OneClaimant, ProcessedIsApplied
    <3> QED BY <3>2, <3>4, <3>5
  <2> QED BY <2>1, <2>2
<1>5. ASSUME NEW w \in Workers, HandlerCommits(w)
      PROVE  Rest'
  <2>1. Holds(w, event[w]) /\ jobRun[event[w]].status = "Running"
    BY <1>5, <1>s DEF HandlerCommits, HoldersFresh
  <2>2. effects[event[w]] = 0
    BY <1>s, <2>1, UnrecordedIsUnapplied DEF TypeOK
  <2>3. jobRun' = [jobRun EXCEPT ![event[w]] = WithStatus(jobRun[event[w]], "Succeeded")]
    BY <1>5 DEF HandlerCommits
  <2>4. jobRun'[event[w]].status = "Succeeded"
    BY <1>s, <2>3 DEF TypeOK, WithStatus
  <2>5. HoldersFresh' /\ CutoffsOld' /\ OneClaimant'
    BY <1>5, <1>s, <2>1, <2>3 DEF HandlerCommits, Return, TypeOK, HoldersFresh, CutoffsOld,
         OneClaimant
  <2>6. SucceededIffAppliedOnce'
    BY <1>5, <1>s, <2>2, <2>3, <2>4 DEF HandlerCommits, TypeOK, SucceededIffAppliedOnce
  <2>7. ProcessedIsApplied'
    BY <1>5, <1>s, <2>2 DEF HandlerCommits, Return, TypeOK, ProcessedIsApplied
  <2> QED BY <2>5, <2>6, <2>7
<1>6. ASSUME NEW w \in Workers, HandlerFails(w)
      PROVE  Rest'
  BY <1>6, <1>s DEF HandlerFails, TypeOK, HoldersFresh, CutoffsOld, OneClaimant,
       SucceededIffAppliedOnce, ProcessedIsApplied
<1>7. ASSUME NEW w \in Workers, RecordFailure(w)
      PROVE  Rest'
  <2>1. Holds(w, event[w]) /\ jobRun[event[w]].status = "Running"
    BY <1>7, <1>s DEF RecordFailure, HoldersFresh
  <2>2. jobRun' = [jobRun EXCEPT ![event[w]] = WithStatus(jobRun[event[w]], "Failed")]
    BY <1>7 DEF RecordFailure
  <2>3. jobRun'[event[w]].status = "Failed"
    BY <1>s, <2>2 DEF TypeOK, WithStatus
  <2>4. HoldersFresh' /\ CutoffsOld' /\ OneClaimant'
    BY <1>7, <1>s, <2>1, <2>2 DEF RecordFailure, Return, TypeOK, HoldersFresh, CutoffsOld,
         OneClaimant
  <2>5. SucceededIffAppliedOnce' /\ ProcessedIsApplied'
    BY <1>7, <1>s, <2>1, <2>2, <2>3 DEF RecordFailure, Return, TypeOK, SucceededIffAppliedOnce,
         ProcessedIsApplied
  <2> QED BY <2>4, <2>5
<1>8. ASSUME NEW w \in Workers, Abandon(w)
      PROVE  Rest'
  BY <1>8, <1>s DEF Abandon, Return, TypeOK, HoldersFresh, CutoffsOld, OneClaimant,
       SucceededIffAppliedOnce, ProcessedIsApplied
<1>9. ASSUME PassTime
      PROVE  Rest'
  BY <1>9, <1>s DEF PassTime, ClaimsInTime, workerVars, TypeOK, HoldersFresh, CutoffsOld, OneClaimant,
       SucceededIffAppliedOnce, ProcessedIsApplied
<1>10. ASSUME UNCHANGED jobVars
       PROVE  Rest'
  BY <1>10, <1>s DEF jobVars, workerVars, HoldersFresh, CutoffsOld, OneClaimant,
       SucceededIffAppliedOnce, ProcessedIsApplied
<1>11. ASSUME NEW w \in Workers, ReclaimStale(w)
       PROVE  Rest'
  <2>1. StaleFilter(jobRun[event[w]], cutoff[w]) \in BOOLEAN
    BY DEF StaleFilter
  <2> QED BY <1>11, <2>1, <1>4, ReclaimTakesFree DEF ReclaimStale
<1>12. ASSUME NEW w \in Workers, ReclaimFailed(w)
       PROVE  Rest'
  <2>1. FailedFilter(jobRun[event[w]]) \in BOOLEAN
    BY DEF FailedFilter
  <2> QED BY <1>12, <2>1, <1>4, ReclaimTakesFree DEF ReclaimFailed
<1>13. Rest'
  BY <1>1, <1>2, <1>3, <1>5, <1>6, <1>7, <1>8, <1>9, <1>10, <1>11, <1>12
     DEF Next, ClaimAttempt, ClaimedRunStep
<1> QED BY <1>t, <1>13 DEF IInv

\* Under FastHandlers no two workers ever work on one event, and its effect is committed exactly when
\* its row says Succeeded and never twice: whatever ticks overlap, fail, crash and are retried.
THEOREM AtMostOnce ==
  ASSUME FastHandlers
  PROVE  Spec => [](OneClaimant /\ SucceededIffAppliedOnce)
<1>1. Init => IInv
  BY InvInit
<1>2. IInv /\ [Next]_jobVars => IInv'
  BY InvStep
<1>3. IInv => OneClaimant /\ SucceededIffAppliedOnce
  BY DEF IInv
<1> QED BY <1>1, <1>2, <1>3, PTL DEF Spec

\* Under FastHandlers a caller is told "processed" only of an event whose effect is committed
\* (ProcessOutcome::Processed and AlreadyProcessed).
THEOREM ProcessedIsReal ==
  ASSUME FastHandlers
  PROVE  Spec => []ProcessedIsApplied
<1>1. Init => IInv
  BY InvInit
<1>2. IInv /\ [Next]_jobVars => IInv'
  BY InvStep
<1>3. IInv => ProcessedIsApplied
  BY DEF IInv
<1> QED BY <1>1, <1>2, <1>3, PTL DEF Spec

\* Under FastHandlers a Succeeded row is never written again: no reclaimer takes it and no late
\* mark_job_run_failed overwrites it.
THEOREM SuccessKept ==
  ASSUME FastHandlers
  PROVE  Spec => SuccessIsFinal
<1>1. ASSUME IInv, [Next]_jobVars, NEW e \in Events, jobRun[e].status = "Succeeded"
      PROVE  jobRun'[e] = jobRun[e]
  <2> USE <1>1
  <2>t. TypeOK /\ RowExists /\ HoldersFresh
    BY DEF IInv
  <2>h. \A w \in Workers : ~Holds(w, e)
    BY <2>t DEF HoldersFresh, Holds
  <2>1. ASSUME NEW w \in Workers, NEW f \in Events, InsertRun(w, f)
        PROVE  jobRun'[e] = jobRun[e]
    BY <2>1, <2>t DEF InsertRun, NoRun, TypeOK
  <2>2. ASSUME NEW w \in Workers, HandlerCommits(w) \/ RecordFailure(w)
        PROVE  jobRun'[e] = jobRun[e]
    BY <2>2, <2>h, <2>t DEF HandlerCommits, RecordFailure, Holds, TypeOK
  <2>3. ASSUME NEW w \in Workers, ReclaimStale(w)
        PROVE  jobRun'[e] = jobRun[e]
    <3>1. StaleFilter(jobRun[event[w]], cutoff[w]) => event[w] # e
      BY <2>3 DEF StaleFilter
    <3> QED BY <2>3, <2>t, <3>1 DEF ReclaimStale, Reclaim, TypeOK
  <2>4. ASSUME NEW w \in Workers, ReclaimFailed(w)
        PROVE  jobRun'[e] = jobRun[e]
    <3>1. FailedFilter(jobRun[event[w]]) => event[w] # e
      BY <2>4 DEF FailedFilter
    <3> QED BY <2>4, <2>t, <3>1 DEF ReclaimFailed, Reclaim, TypeOK
  <2>5. ASSUME NEW w \in Workers,
               \/ \E f \in Events : InsertConflicts(w, f)
               \/ ReadExisting(w) \/ HandlerFails(w) \/ Abandon(w)
        PROVE  jobRun'[e] = jobRun[e]
    BY <2>5 DEF InsertConflicts, ReadExisting, HandlerFails, Abandon
  <2>6. CASE PassTime \/ UNCHANGED jobVars
    BY <2>6 DEF PassTime, jobVars
  <2> QED BY <2>1, <2>2, <2>3, <2>4, <2>5, <2>6 DEF Next, ClaimAttempt, ClaimedRunStep
<1>2. IInv /\ [Next]_jobVars =>
        [\A e \in Events : jobRun[e].status = "Succeeded" => jobRun'[e] = jobRun[e]]_jobVars
  BY <1>1
<1>3. Init => IInv
  BY InvInit
<1>4. IInv /\ [Next]_jobVars => IInv'
  BY InvStep
<1> QED BY <1>2, <1>3, <1>4, PTL DEF Spec, SuccessIsFinal

-----------------------------------------------------------------------------
(* Refinement of the abstract lease *)

HoldersOf(e) == {w \in Workers : Holds(w, e)}

\* Winning a claim is the abstract Acquire.
LEMMA ClaimRefinesAcquire ==
  ASSUME IInv, NEW w \in Workers, pc[w] \notin {"handling", "failing"},
         NEW e \in Events, HoldersOf(e) = {}, effects[e] = 0,
         pc' = [pc EXCEPT ![w] = "handling"], effects' = effects,
         event' = [event EXCEPT ![w] = e]
  PROVE  Lease!LeaseNext
<1>1. TypeOK
  BY DEF IInv
<1>2. \A f \in Events : HoldersOf(f)' = IF f = e THEN {w} ELSE HoldersOf(f)
  BY <1>1 DEF TypeOK, HoldersOf, Holds
<1>3. Lease!Acquire(w, e)
  BY <1>2 DEF Lease!Acquire, HoldersOf
<1> QED BY <1>3 DEF Lease!LeaseNext

\* Letting go of a claim without an effect is the abstract Release, or nothing if none was held.
LEMMA LetGoRefinesRelease ==
  ASSUME IInv, NEW w \in Workers, pc' = [pc EXCEPT ![w] = "idle"],
         event' = event, effects' = effects
  PROVE  [Lease!LeaseNext]_(Lease!leaseVars)
<1>1. TypeOK /\ OneClaimant
  BY DEF IInv
<1>2. CASE Holds(w, event[w])
  <2>1. \A f \in Events : HoldersOf(f)' = IF f = event[w] THEN {} ELSE HoldersOf(f)
    BY <1>1, <1>2 DEF TypeOK, OneClaimant, HoldersOf, Holds
  <2>2. event[w] \in Events /\ HoldersOf(event[w]) # {}
    BY <1>1, <1>2 DEF TypeOK, HoldersOf
  <2>3. Lease!Release(event[w])
    BY <2>1, <2>2 DEF Lease!Release, HoldersOf
  <2> QED BY <2>2, <2>3 DEF Lease!LeaseNext
<1>3. CASE ~Holds(w, event[w])
  <2>1. \A f \in Events : HoldersOf(f)' = HoldersOf(f)
    BY <1>1, <1>3 DEF TypeOK, HoldersOf, Holds
  <2> QED BY <2>1 DEF Lease!leaseVars, HoldersOf
<1> QED BY <1>2, <1>3

\* A step that neither takes nor drops a claim, and commits nothing, is invisible.
LEMMA QuietStep ==
  ASSUME effects' = effects, \A w \in Workers, e \in Events : Holds(w, e)' <=> Holds(w, e)
  PROVE  UNCHANGED Lease!leaseVars
BY DEF Lease!leaseVars

LEMMA StepRefines ==
  ASSUME FastHandlers, IInv, [Next]_jobVars
  PROVE  [Lease!LeaseNext]_(Lease!leaseVars)
<1>t. TypeOK /\ RowExists /\ HoldersFresh /\ SucceededIffAppliedOnce /\ OneClaimant
  BY DEF IInv
<1>a. ASSUME NEW e \in Events, jobRun[e].status # "Succeeded"
      PROVE  effects[e] = 0
  BY <1>a, UnrecordedIsUnapplied
<1>1. ASSUME NEW w \in Workers, NEW e \in Events, InsertRun(w, e)
      PROVE  Lease!LeaseNext
  <2>1. HoldersOf(e) = {}
    BY <1>1, <1>t DEF InsertRun, HoldersFresh, HoldersOf, Holds, NoRun
  <2>2. effects[e] = 0
    BY <1>1, <1>a DEF InsertRun, NoRun
  <2> QED BY <1>1, <2>1, <2>2, ClaimRefinesAcquire DEF InsertRun, TakeClaim
<1>2. ASSUME NEW w \in Workers, NEW m \in BOOLEAN, Reclaim(w, m),
             pc[w] \in {"reclaimStale", "reclaimFailed"},
             m => /\ \A w2 \in Workers : ~Holds(w2, event[w])
                  /\ jobRun[event[w]].status # "Succeeded"
      PROVE  [Lease!LeaseNext]_(Lease!leaseVars)
  <2>1. CASE m
    <3>1. event[w] \in Events /\ event' = [event EXCEPT ![w] = event[w]]
      BY <1>2, <1>t, <2>1 DEF Reclaim, TypeOK
    <3>2. HoldersOf(event[w]) = {} /\ effects[event[w]] = 0
      BY <1>2, <1>a, <2>1, <3>1 DEF HoldersOf
    <3>3. pc' = [pc EXCEPT ![w] = "handling"] /\ effects' = effects
      BY <1>2, <2>1 DEF Reclaim, TakeClaim
    <3> QED BY <1>2, <3>1, <3>2, <3>3, ClaimRefinesAcquire
  <2>2. CASE ~m
    BY <1>2, <2>2, LetGoRefinesRelease DEF Reclaim, Return
  <2> QED BY <2>1, <2>2
<1>3. ASSUME NEW w \in Workers, ReclaimStale(w)
      PROVE  [Lease!LeaseNext]_(Lease!leaseVars)
  <2>1. StaleFilter(jobRun[event[w]], cutoff[w]) \in BOOLEAN
    BY DEF StaleFilter
  <2> QED BY <1>3, <2>1, <1>2, ReclaimTakesFree DEF ReclaimStale
<1>4. ASSUME NEW w \in Workers, ReclaimFailed(w)
      PROVE  [Lease!LeaseNext]_(Lease!leaseVars)
  <2>1. FailedFilter(jobRun[event[w]]) \in BOOLEAN
    BY DEF FailedFilter
  <2> QED BY <1>4, <2>1, <1>2, ReclaimTakesFree DEF ReclaimFailed
<1>5. ASSUME NEW w \in Workers, HandlerCommits(w)
      PROVE  Lease!LeaseNext
  <2>1. event[w] \in Events /\ Holds(w, event[w]) /\ effects[event[w]] = 0
    BY <1>5, <1>t, <1>a DEF HandlerCommits, HoldersFresh, Holds, TypeOK
  <2>2. effects' = [effects EXCEPT ![event[w]] = 1]
    BY <1>5, <2>1 DEF HandlerCommits
  <2>3. \A f \in Events : HoldersOf(f)' = IF f = event[w] THEN {} ELSE HoldersOf(f)
    BY <1>5, <1>t, <2>1 DEF HandlerCommits, Return, TypeOK, OneClaimant, HoldersOf, Holds
  <2>4. Lease!Apply(event[w])
    BY <1>5, <2>1, <2>2, <2>3 DEF Lease!Apply, HoldersOf
  <2> QED BY <2>1, <2>4 DEF Lease!LeaseNext
<1>6. ASSUME NEW w \in Workers, RecordFailure(w) \/ Abandon(w)
      PROVE  [Lease!LeaseNext]_(Lease!leaseVars)
  BY <1>6, LetGoRefinesRelease DEF RecordFailure, Abandon, Return
<1>7. ASSUME NEW w \in Workers, ReadExisting(w)
      PROVE  UNCHANGED Lease!leaseVars
  BY <1>7, <1>t, QuietStep DEF ReadExisting, Return, Holds, TypeOK
<1>8. ASSUME NEW w \in Workers, NEW e \in Events, InsertConflicts(w, e)
      PROVE  UNCHANGED Lease!leaseVars
  BY <1>8, <1>t, QuietStep DEF InsertConflicts, Holds, TypeOK
<1>9. ASSUME NEW w \in Workers, HandlerFails(w)
      PROVE  UNCHANGED Lease!leaseVars
  BY <1>9, <1>t, QuietStep DEF HandlerFails, Holds, TypeOK
<1>10. CASE PassTime \/ UNCHANGED jobVars
  BY <1>10, QuietStep DEF PassTime, jobVars, workerVars, Holds
<1> QED
  BY <1>1, <1>3, <1>4, <1>5, <1>6, <1>7, <1>8, <1>9, <1>10 DEF Next, ClaimAttempt, ClaimedRunStep

\* Under FastHandlers the job_run protocol implements the abstract lease: claims exclude each
\* other and an effect is applied at most once, by a holder.
THEOREM JobRunsImplementLease ==
  ASSUME FastHandlers
  PROVE  Spec => ImplementsLease
<1>1. Init => Lease!LeaseInit
  BY DEF Init, Lease!LeaseInit, Holds
<1>2. IInv /\ [Next]_jobVars => [Lease!LeaseNext]_(Lease!leaseVars)
  BY StepRefines
<1>3. Init => IInv
  BY InvInit
<1>4. IInv /\ [Next]_jobVars => IInv'
  BY InvStep
<1> QED BY <1>1, <1>2, <1>3, <1>4, PTL DEF Spec, ImplementsLease, Lease!LeaseSpec

-----------------------------------------------------------------------------
(***************************************************************************)
(* The ticks of Scheduler, for any calendar and number of ticks, triggers  *)
(* and crashes: what is proved above of the claim protocol holds when the  *)
(* ticks share it, and a tick works on a league's deadlines in order.      *)
(***************************************************************************)

-----------------------------------------------------------------------------
(* The inductive invariant, part by part *)

Ticking ==
  /\ calendar \in Calendars
  /\ phase \in [Workers -> Phases]
  /\ tickNow \in [Workers -> 0 .. now]
  /\ todo \in [Workers -> Seq(Events)]
  /\ called \in [Workers -> BOOLEAN]
  /\ blocked \in [Workers -> SUBSET Range(League)]

\* A call is out for the head of the list, and in the deadline loop only for a chain that goes on.
Calling ==
  \A w \in Workers :
    /\ called[w] => todo[w] # << >> /\ event[w] = Head(todo[w])
    /\ pc[w] # "idle" => called[w]
    /\ called[w] /\ phase[w] = "deadlines" => League[Head(todo[w])] \notin blocked[w]
    /\ phase[w] = "off" => todo[w] = << >>
    /\ phase[w] = "manual" => Len(todo[w]) = 1 /\ called[w]

\* In a chain that goes on, whatever has no effect yet is still on the list, in its order.
Ahead(d1, d2) == League[d1] = League[d2] /\ DueAt[d1] < DueAt[d2]
ChainLeft(w) ==
  \A j \in DOMAIN todo[w], d \in Deadlines :
    Ahead(d, todo[w][j]) /\ effects[d] = 0 /\ League[todo[w][j]] \notin blocked[w] =>
      \E i \in 1 .. j - 1 : todo[w][i] = d
ChainsLeft == \A w \in Workers : phase[w] = "deadlines" => ChainLeft(w)

Scheduled == IInv /\ Ticking /\ Calling
InOrder == Scheduled /\ ChainsLeft

-----------------------------------------------------------------------------
(* The claim protocol under the ticks *)

\* A worker whose call is over, or dies, holds nothing any more: nothing of the table changes.
LEMMA Forgotten ==
  ASSUME IInv, NEW w \in Workers, Forget(w),
         \/ pc[w] = "idle" /\ UNCHANGED <<pc, cutoff, claimedAt>>
         \/ /\ pc' = [pc EXCEPT ![w] = "idle"]
            /\ cutoff' = [cutoff EXCEPT ![w] = 0] /\ claimedAt' = [claimedAt EXCEPT ![w] = 0],
         UNCHANGED <<jobRun, effects, now>>, crashes' \in Nat
  PROVE  IInv'
<1> DEFINE some == CHOOSE e \in Events : TRUE
<1>1. some \in Events
  BY JobRunConstants
<1> HIDE DEF some
<1>2. event' = [event EXCEPT ![w] = some] /\ outcome' = [outcome EXCEPT ![w] = "None"]
  BY DEF Forget, some
<1>3. TypeOK /\ pc'[w] = "idle" /\ \A v \in Workers \ {w} : pc'[v] = pc[v] /\ event'[v] = event[v]
  BY <1>2 DEF IInv, TypeOK
<1>4. TypeOK'
  BY <1>1, <1>2, <1>3 DEF TypeOK, PCs, Outcomes
<1>5. RowExists' /\ OneClaimant'
  BY <1>3 DEF IInv, RowExists, OneClaimant, Holds
<1>6. HoldersFresh' /\ CutoffsOld'
  BY <1>3 DEF IInv, TypeOK, HoldersFresh, CutoffsOld
<1>7. SucceededIffAppliedOnce'
  BY DEF IInv, SucceededIffAppliedOnce
<1>8. ProcessedIsApplied'
  BY <1>2, <1>3 DEF IInv, TypeOK, ProcessedIsApplied
<1> QED BY <1>4, <1>5, <1>6, <1>7, <1>8 DEF IInv

\* Time passes for the claims as it does in JobRuns, whatever else it is waited for.
LEMMA TimePassed ==
  ASSUME IInv, Advance
  PROVE  IInv'
<1>1. /\ now' = now + 1 /\ ClaimsInTime
      /\ UNCHANGED <<jobRun, effects, pc, event, cutoff, claimedAt, outcome, crashes>>
  BY DEF Advance, workerVars
<1>2. TypeOK' /\ RowExists'
  BY <1>1 DEF IInv, TypeOK, RowExists
<1>3. HoldersFresh' /\ CutoffsOld'
  BY <1>1, JobRunConstants DEF IInv, TypeOK, ClaimsInTime, HoldersFresh, CutoffsOld
<1>4. OneClaimant' /\ SucceededIffAppliedOnce' /\ ProcessedIsApplied'
  BY <1>1 DEF IInv, OneClaimant, Holds, SucceededIffAppliedOnce, ProcessedIsApplied
<1> QED BY <1>2, <1>3, <1>4 DEF IInv

LEMMA ClaimsKept ==
  ASSUME FastHandlers
  PROVE  Scheduled /\ [SchedNext]_schedVars => IInv'
<1> SUFFICES ASSUME Scheduled, [SchedNext]_schedVars
             PROVE  IInv'
  OBVIOUS
<1> USE DEF Scheduled
<1>1. [Next]_jobVars => IInv'
  BY InvStep
<1>2. ASSUME NEW w \in Workers, StartTick(w) \/ SkipBlocked(w) \/ NextLoop(w)
      PROVE  IInv'
  BY <1>1, <1>2 DEF StartTick, SkipBlocked, NextLoop
<1>3. ASSUME NEW w \in Workers, HandOver(w)
      PROVE  IInv'
  <2>1. Head(todo[w]) \in Events
    BY <1>3, HeadTailProperties DEF HandOver, Ticking
  <2> QED BY <1>1, <1>3, <2>1 DEF HandOver, Next
<1>4. ASSUME NEW w \in Workers, NEW e \in Events, Trigger(w, e)
      PROVE  IInv'
  BY <1>1, <1>4 DEF Trigger, Next
<1>5. ASSUME NEW w \in Workers, ProcessorStep(w) \/ CallErrors(w)
      PROVE  IInv'
  BY <1>1, <1>5 DEF ProcessorStep, CallErrors, Next, ClaimedRunStep
<1>6. ASSUME NEW w \in Workers, TakeOutcome(w)
      PROVE  IInv'
  BY <1>6, Forgotten DEF TakeOutcome, IInv, TypeOK
<1>7. ASSUME NEW w \in Workers, WorkerDies(w)
      PROVE  IInv'
  <2>1. crashes' \in Nat
    BY <1>7 DEF WorkerDies, IInv, TypeOK
  <2> QED BY <1>7, <2>1, Forgotten DEF WorkerDies
<1>8. CASE Advance
  BY <1>8, TimePassed
<1>9. CASE UNCHANGED schedVars
  BY <1>1, <1>9 DEF schedVars
<1> QED BY <1>2, <1>3, <1>4, <1>5, <1>6, <1>7, <1>8, <1>9 DEF SchedNext, WorkerStep

-----------------------------------------------------------------------------
(* The lists of a tick *)

\* A sequence of the elements of a finite set, each once, has them all.
LEMMA SetToSeqsHasAll ==
  ASSUME NEW S, IsFiniteSet(S), NEW s \in SetToSeqs(S)
  PROVE  s \in Seq(S) /\ \A x \in S : \E i \in DOMAIN s : s[i] = x
<1> DEFINE n == Cardinality(S)
<1>1. n \in Nat
  BY FS_CardinalityType
<1>2. s \in [1 .. n -> S] /\ \A i, j \in 1 .. n : i # j => s[i] # s[j]
  BY DEF SetToSeqs
<1>3. s \in Injection(1 .. n, S)
  BY <1>2 DEF Injection, IsInjective
<1>4. Cardinality(1 .. n) = n
  BY <1>1, FS_Interval
<1>5. s \in Surjection(1 .. n, S)
  BY <1>3, <1>4, FS_Injection
<1> QED BY <1>1, <1>2, <1>5 DEF Surjection

\* Of the deadlines of a chain that starts, each comes after those that are due before it.
LEMMA ChainsAreOrdered ==
  ASSUME IInv, NEW time, NEW s \in Chains(DueDeadlines(time)), calendar \in Calendars,
         time \in Nat, NEW j \in DOMAIN s, NEW d \in Deadlines, Ahead(d, s[j]), effects[d] = 0
  PROVE  \E i \in 1 .. j - 1 : s[i] = d
<1> DEFINE S == DueDeadlines(time)
<1>1. S \subseteq Events /\ IsFiniteSet(S)
  BY SchedulerConstants, FS_Subset DEF DueDeadlines
<1>2. s \in Seq(S) /\ \A x \in S : \E i \in DOMAIN s : s[i] = x
  BY <1>1, SetToSeqsHasAll DEF Chains
<1>3. s[j] \in S
  BY <1>2
<1>4. DueAt \in [Events -> Nat] /\ League \in [Events -> Nat]
  BY SchedulerConstants DEF Calendar, DueAt, League
<1>5. jobRun[d].status # "Succeeded"
  BY DEF IInv, SucceededIffAppliedOnce, Deadlines
<1>6. d \in S
  BY <1>1, <1>3, <1>4, <1>5 DEF DueDeadlines, Deadlines, Ahead
<1>7. PICK i \in DOMAIN s : s[i] = d
  BY <1>2, <1>6
<1>8. i # j
  BY <1>1, <1>3, <1>4, <1>7 DEF Ahead
<1>9. ~(j < i)
  BY <1>1, <1>3, <1>4, <1>6, <1>7 DEF Chains, ChainBefore, Ahead
<1> QED BY <1>2, <1>7, <1>8, <1>9

-----------------------------------------------------------------------------
(* Type correctness *)

LEMMA ScheduledInit == SchedInit => Scheduled
<1> SUFFICES ASSUME SchedInit
             PROVE  Scheduled
  OBVIOUS
<1>1. IInv
  BY InvInit DEF SchedInit
<1>2. Ticking
  BY DEF SchedInit, Init, Ticking, Phases
<1>3. Calling
  BY DEF SchedInit, Init, Calling
<1> QED BY <1>1, <1>2, <1>3 DEF Scheduled

\* What the next loop, or the first, has on its list.
LEMMA Listed ==
  ASSUME NEW S \in SUBSET Events, NEW s \in SetToSeqs(S)
  PROVE  s \in Seq(Events)
<1>1. IsFiniteSet(S)
  BY SchedulerConstants, FS_Subset
<1> QED BY <1>1, SetToSeqsHasAll

LEMMA TickingStep ==
  ASSUME Scheduled, [SchedNext]_schedVars
  PROVE  Ticking'
<1> USE DEF Scheduled
<1>t. Ticking /\ now \in Nat
  BY DEF IInv, TypeOK
<1> USE <1>t DEF Ticking
<1>1. ASSUME NEW w \in Workers, StartTick(w)
      PROVE  Ticking'
  <2>1. PICK s \in Chains(DueDeadlines(now)) : todo' = [todo EXCEPT ![w] = s]
    BY <1>1 DEF StartTick
  <2>2. s \in Seq(Events)
    BY <2>1, Listed DEF Chains, DueDeadlines
  <2> QED BY <1>1, <2>1, <2>2 DEF StartTick, Phases, jobVars, League
<1>2. ASSUME NEW w \in Workers, HandOver(w)
      PROVE  Ticking'
  BY <1>2 DEF HandOver, ClaimAttempt, InsertRun, InsertConflicts, League
<1>3. ASSUME NEW w \in Workers, SkipBlocked(w)
      PROVE  Ticking'
  <2>1. Tail(todo[w]) \in Seq(Events)
    BY <1>3, HeadTailProperties DEF SkipBlocked
  <2> QED BY <1>3, <2>1 DEF SkipBlocked, jobVars, League
<1>4. ASSUME NEW w \in Workers, TakeOutcome(w)
      PROVE  Ticking'
  <2>1. Head(todo[w]) \in Events /\ Tail(todo[w]) \in Seq(Events)
    BY <1>4, HeadTailProperties DEF TakeOutcome, Calling
  <2>2. StoppedBy(Head(todo[w])) \subseteq Range(League)
    <3>1. League \in [Events -> Nat]
      BY SchedulerConstants DEF Calendar, League
    <3> QED BY <2>1, <3>1 DEF StoppedBy, Range
  <2> QED BY <1>4, <2>1, <2>2 DEF TakeOutcome, Phases, League
<1>5. ASSUME NEW w \in Workers, NextLoop(w)
      PROVE  Ticking'
  <2> DEFINE p == Following[phase[w]]
  <2>1. p \in Phases
    BY <1>5 DEF NextLoop, Following, Phases
  <2>2. PICK s : todo' = [todo EXCEPT ![w] = s] /\ \E S \in SUBSET Events : s \in SetToSeqs(S)
    BY <1>5 DEF NextLoop, DueEvents
  <2>3. s \in Seq(Events)
    BY <2>2, Listed
  <2> QED BY <1>5, <2>1, <2>2, <2>3 DEF NextLoop, jobVars, League
<1>6. ASSUME NEW w \in Workers, NEW e \in Events, Trigger(w, e)
      PROVE  Ticking'
  BY <1>6 DEF Trigger, ClaimAttempt, InsertRun, InsertConflicts, Phases, League
<1>7. ASSUME NEW w \in Workers, ProcessorStep(w) \/ CallErrors(w)
      PROVE  Ticking'
  <2>1. now' = now
    BY <1>7 DEF ProcessorStep, CallErrors, ReadExisting, ReclaimStale, ReclaimFailed, Reclaim,
         RecordFailure, HandlerCommits, HandlerFails, Abandon
  <2> QED BY <1>7, <2>1 DEF ProcessorStep, CallErrors, tickVars, League
<1>8. ASSUME NEW w \in Workers, WorkerDies(w)
      PROVE  Ticking'
  BY <1>8 DEF WorkerDies, Phases, League
<1>9. CASE Advance
  BY <1>9 DEF Advance, tickVars, League
<1>10. CASE UNCHANGED schedVars
  BY <1>10 DEF schedVars, jobVars, tickVars, League
<1> QED BY <1>1, <1>2, <1>3, <1>4, <1>5, <1>6, <1>7, <1>8, <1>9, <1>10 DEF SchedNext, WorkerStep

\* A worker of its own does not touch what another is calling.
LEMMA CallingStep ==
  ASSUME Scheduled, [SchedNext]_schedVars
  PROVE  Calling'
<1> USE DEF Scheduled
<1>t. Ticking /\ Calling /\ TypeOK
  BY DEF IInv
<1> USE <1>t DEF Ticking, Calling, TypeOK
<1>1. ASSUME NEW w \in Workers, StartTick(w)
      PROVE  Calling'
  <2>1. ~called[w]
    BY <1>1 DEF StartTick
  <2> QED BY <1>1, <2>1 DEF StartTick, jobVars, workerVars, League
<1>2. ASSUME NEW w \in Workers, HandOver(w)
      PROVE  Calling'
  <2>1. /\ event' = [event EXCEPT ![w] = Head(todo[w])]
        /\ \A v \in Workers \ {w} : pc'[v] = pc[v]
    BY <1>2 DEF HandOver, ClaimAttempt, InsertRun, InsertConflicts, TakeClaim
  <2>2. called'[w] /\ League[Head(todo[w])] \notin blocked[w] /\ todo[w] # << >>
    BY <1>2 DEF HandOver
  <2> QED BY <1>2, <2>1, <2>2 DEF HandOver, League
<1>3. ASSUME NEW w \in Workers, SkipBlocked(w)
      PROVE  Calling'
  BY <1>3 DEF SkipBlocked, jobVars, workerVars, League
<1>4. ASSUME NEW w \in Workers, TakeOutcome(w)
      PROVE  Calling'
  <2>1. todo[w] \in Seq(Events) /\ todo[w] # << >>
    BY <1>4 DEF TakeOutcome
  <2>2. Tail(todo[w]) \in Seq(Events) /\ Len(Tail(todo[w])) = Len(todo[w]) - 1
    BY <2>1, HeadTailProperties
  <2>3. Len(todo[w]) = 1 => Tail(todo[w]) = << >>
    <3> DEFINE rest == Tail(todo[w])
    <3>1. rest \in Seq(Events) /\ (Len(todo[w]) = 1 => Len(rest) = 0)
      BY <2>2
    <3> HIDE DEF rest
    <3>2. Len(rest) = 0 => rest = << >>
      BY <3>1, EmptySeq
    <3> QED BY <3>1, <3>2 DEF rest
  <2> QED BY <1>4, <2>3 DEF TakeOutcome, Forget, League
<1>5. ASSUME NEW w \in Workers, NextLoop(w)
      PROVE  Calling'
  <2>1. Following[phase[w]] = "off" => todo'[w] = << >>
    <3>1. ASSUME NEW s \in SetToSeqs({})
          PROVE  s = << >>
      BY FS_EmptySet, SetToSeqsHasAll
    <3> QED BY <1>5, <3>1 DEF NextLoop, Following
  <2>2. phase'[w] = Following[phase[w]] /\ phase'[w] \in {"closes", "windows", "off"} /\ ~called[w]
    BY <1>5 DEF NextLoop, Following
  <2> QED BY <1>5, <2>1, <2>2 DEF NextLoop, jobVars, workerVars, League
<1>6. ASSUME NEW w \in Workers, NEW e \in Events, Trigger(w, e)
      PROVE  Calling'
  BY <1>6 DEF Trigger, ClaimAttempt, InsertRun, InsertConflicts, TakeClaim, League
<1>7. ASSUME NEW w \in Workers, ProcessorStep(w) \/ CallErrors(w)
      PROVE  Calling'
  <2>1. event' = event /\ \A v \in Workers \ {w} : pc'[v] = pc[v]
    BY <1>7 DEF ProcessorStep, CallErrors, ReadExisting, ReclaimStale, ReclaimFailed, Reclaim,
         RecordFailure, HandlerCommits, HandlerFails, Abandon, Return, TakeClaim
  <2> QED BY <1>7, <2>1 DEF ProcessorStep, CallErrors, tickVars, League
<1>8. ASSUME NEW w \in Workers, WorkerDies(w)
      PROVE  Calling'
  BY <1>8 DEF WorkerDies, Forget, League
<1>9. CASE Advance
  BY <1>9 DEF Advance, tickVars, workerVars, League
<1>10. CASE UNCHANGED schedVars
  BY <1>10 DEF schedVars, jobVars, workerVars, tickVars, League
<1> QED BY <1>1, <1>2, <1>3, <1>4, <1>5, <1>6, <1>7, <1>8, <1>9, <1>10 DEF SchedNext, WorkerStep

-----------------------------------------------------------------------------
(* The order of the deadlines *)

\* Nothing takes the effect of an event back.
LEMMA EffectsStay ==
  ASSUME Scheduled, [SchedNext]_schedVars
  PROVE  \A e \in Events : effects'[e] = 0 => effects[e] = 0
<1>t. effects \in [Events -> Nat] /\ event \in [Workers -> Events]
  BY DEF Scheduled, IInv, TypeOK
<1>1. ASSUME NEW w \in Workers, HandlerCommits(w)
      PROVE  \A e \in Events : effects'[e] = 0 => effects[e] = 0
  BY <1>t, <1>1 DEF HandlerCommits
<1>2. ASSUME NEW w \in Workers, ProcessorStep(w)
      PROVE  effects' = effects \/ HandlerCommits(w)
  BY <1>2 DEF ProcessorStep, ReadExisting, ReclaimStale, ReclaimFailed, Reclaim, RecordFailure, HandlerFails
<1> QED
  BY <1>1, <1>2 DEF SchedNext, schedVars, jobVars, WorkerStep, StartTick, HandOver, ClaimAttempt,
     InsertRun, InsertConflicts, SkipBlocked, TakeOutcome, NextLoop, CallErrors, Abandon, WorkerDies,
     Trigger, Advance

\* A list that loses its head loses only a deadline that is done, or one of a league that is
\* blocked.
LEMMA ChainShortens ==
  ASSUME Scheduled, ChainsLeft, NEW w \in Workers, phase[w] = "deadlines", todo[w] # << >>,
         todo'[w] = Tail(todo[w]), UNCHANGED <<effects, calendar>>, blocked[w] \subseteq blocked'[w],
         effects[Head(todo[w])] # 0 \/ League[Head(todo[w])] \in blocked'[w]
  PROVE  ChainLeft(w)'
<1> DEFINE s == todo[w]
<1>1. s \in Seq(Events) /\ s # << >> /\ League' = League /\ DueAt' = DueAt /\ Deadlines' = Deadlines
  BY DEF Scheduled, Ticking, League, DueAt, Deadlines, Kind
<1>2. /\ Len(s) \in Nat /\ Len(s) # 0
      /\ Head(s) = s[1] /\ Tail(s) \in Seq(Events) /\ Len(Tail(s)) = Len(s) - 1
      /\ \A i \in 1 .. Len(Tail(s)) : Tail(s)[i] = s[i + 1]
  BY <1>1, HeadTailProperties, EmptySeq
<1> SUFFICES ASSUME NEW j \in DOMAIN Tail(s), NEW d \in Deadlines,
                    Ahead(d, Tail(s)[j]), effects[d] = 0, League[Tail(s)[j]] \notin blocked'[w]
             PROVE  \E i \in 1 .. j - 1 : Tail(s)[i] = d
  BY <1>1 DEF ChainLeft, Ahead
<1>3. DOMAIN Tail(s) = 1 .. Len(Tail(s)) /\ DOMAIN s = 1 .. Len(s)
  BY <1>1, <1>2, LenProperties
<1>4. j + 1 \in DOMAIN s /\ Tail(s)[j] = s[j + 1] /\ j \in Nat
  BY <1>2, <1>3
<1>5. PICK i \in 1 .. j : s[i] = d
  <2>1. \E i \in 1 .. (j + 1) - 1 : s[i] = d
    BY <1>4 DEF ChainsLeft, ChainLeft
  <2> QED BY <2>1, <1>4
<1>6. i # 1
  BY <1>2, <1>4, <1>5 DEF Ahead
<1>7. i - 1 \in 1 .. j - 1 /\ i - 1 \in 1 .. Len(Tail(s)) /\ Tail(s)[i - 1] = s[i]
  BY <1>2, <1>3, <1>4, <1>5, <1>6
<1> QED BY <1>5, <1>7

LEMMA ChainsLeftStep ==
  ASSUME InOrder, [SchedNext]_schedVars
  PROVE  ChainsLeft'
<1> USE DEF InOrder
<1>e. \A e \in Events : effects'[e] = 0 => effects[e] = 0
  BY EffectsStay
<1>t. Ticking /\ Calling /\ IInv
  BY DEF Scheduled
<1>d. Deadlines \subseteq Events
  BY DEF Deadlines
\* A worker that keeps its list keeps the order of it.
<1>k. ASSUME NEW v \in Workers, todo'[v] = todo[v], blocked'[v] = blocked[v], calendar' = calendar,
             phase[v] = "deadlines"
      PROVE  ChainLeft(v)'
  BY <1>k, <1>e, <1>d DEF ChainsLeft, ChainLeft, Ahead, League, DueAt, Deadlines, Kind
<1>1. ASSUME NEW w \in Workers, StartTick(w)
      PROVE  ChainsLeft'
  <2>1. PICK s \in Chains(DueDeadlines(now)) : todo' = [todo EXCEPT ![w] = s]
    BY <1>1 DEF StartTick
  <2>2. now \in Nat
    BY <1>t DEF IInv, TypeOK
  <2>3. \A j \in DOMAIN s, d \in Deadlines :
          Ahead(d, s[j]) /\ effects[d] = 0 => \E i \in 1 .. j - 1 : s[i] = d
    BY <1>t, <2>2, ChainsAreOrdered DEF Ticking
  <2>4. UNCHANGED <<effects, calendar>> /\ todo'[w] = s
    BY <1>1, <1>t, <2>1 DEF StartTick, jobVars, Ticking
  <2>5. ChainLeft(w)'
    BY <2>3, <2>4 DEF ChainLeft, Ahead, League, DueAt, Deadlines, Kind
  <2>6. ASSUME NEW v \in Workers \ {w}, phase'[v] = "deadlines"
        PROVE  ChainLeft(v)'
    BY <1>1, <1>t, <1>k, <2>6 DEF StartTick, Ticking
  <2> QED BY <2>5, <2>6 DEF ChainsLeft
<1>2. ASSUME NEW w \in Workers, SkipBlocked(w)
      PROVE  ChainsLeft'
  <2>1. ASSUME phase[w] = "deadlines"
        PROVE  ChainLeft(w)'
    BY <1>2, <1>t, <2>1, ChainShortens DEF SkipBlocked, Ticking, jobVars
  <2>2. ASSUME NEW v \in Workers \ {w}, phase'[v] = "deadlines"
        PROVE  ChainLeft(v)'
    BY <1>2, <1>t, <1>k, <2>2 DEF SkipBlocked, Ticking
  <2> QED BY <1>2, <2>1, <2>2 DEF ChainsLeft, SkipBlocked
<1>3. ASSUME NEW w \in Workers, TakeOutcome(w)
      PROVE  ChainsLeft'
  <2>1. ASSUME phase[w] = "deadlines"
        PROVE  ChainLeft(w)'
    <3>1. todo[w] # << >> /\ event[w] = Head(todo[w]) /\ pc[w] = "idle"
      BY <1>3, <1>t DEF TakeOutcome, Calling
    <3>2. CASE StopsChain(outcome[w])
      <4>1. League[Head(todo[w])] \in blocked'[w] /\ blocked[w] \subseteq blocked'[w]
        BY <1>3, <1>t, <2>1, <3>2 DEF TakeOutcome, StoppedBy, Ticking
      <4> QED BY <1>3, <1>t, <2>1, <3>1, <4>1, ChainShortens DEF TakeOutcome, Ticking
    <3>3. CASE ~StopsChain(outcome[w])
      <4>1. effects[Head(todo[w])] # 0
        BY <1>t, <3>1, <3>3 DEF StopsChain, IInv, ProcessedIsApplied
      <4>2. blocked' = blocked
        BY <1>3, <3>3 DEF TakeOutcome
      <4> QED BY <1>3, <1>t, <2>1, <3>1, <4>1, <4>2, ChainShortens DEF TakeOutcome, Ticking
    <3> QED BY <3>2, <3>3
  <2>2. ASSUME NEW v \in Workers \ {w}, phase'[v] = "deadlines"
        PROVE  ChainLeft(v)'
    BY <1>3, <1>t, <1>k, <2>2 DEF TakeOutcome, Ticking
  <2>3. phase'[w] = "deadlines" => phase[w] = "deadlines"
    BY <1>3, <1>t DEF TakeOutcome, Ticking
  <2> QED BY <2>1, <2>2, <2>3 DEF ChainsLeft
<1>4. ASSUME NEW w \in Workers, NextLoop(w)
      PROVE  ChainsLeft'
  <2>1. phase'[w] # "deadlines"
    BY <1>4, <1>t DEF NextLoop, Following, Ticking
  <2>2. ASSUME NEW v \in Workers \ {w}, phase'[v] = "deadlines"
        PROVE  ChainLeft(v)'
    BY <1>4, <1>t, <1>k, <2>2 DEF NextLoop, Ticking
  <2> QED BY <2>1, <2>2 DEF ChainsLeft
<1>5. ASSUME NEW w \in Workers, NEW e \in Events, Trigger(w, e)
      PROVE  ChainsLeft'
  <2>1. phase'[w] # "deadlines"
    BY <1>5, <1>t DEF Trigger, Ticking
  <2>2. ASSUME NEW v \in Workers \ {w}, phase'[v] = "deadlines"
        PROVE  ChainLeft(v)'
    BY <1>5, <1>t, <1>k, <2>2 DEF Trigger, Ticking
  <2> QED BY <2>1, <2>2 DEF ChainsLeft
<1>6. ASSUME NEW w \in Workers, WorkerDies(w)
      PROVE  ChainsLeft'
  <2>1. phase'[w] # "deadlines"
    BY <1>6, <1>t DEF WorkerDies, Ticking
  <2>2. ASSUME NEW v \in Workers \ {w}, phase'[v] = "deadlines"
        PROVE  ChainLeft(v)'
    BY <1>6, <1>t, <1>k, <2>2 DEF WorkerDies, Ticking
  <2> QED BY <2>1, <2>2 DEF ChainsLeft
<1>7. ASSUME UNCHANGED <<phase, todo, blocked, calendar>>
      PROVE  ChainsLeft'
  BY <1>7, <1>k DEF ChainsLeft
<1>8. ASSUME NEW w \in Workers, HandOver(w) \/ ProcessorStep(w) \/ CallErrors(w)
      PROVE  UNCHANGED <<phase, todo, blocked, calendar>>
  BY <1>8 DEF HandOver, ProcessorStep, CallErrors, tickVars
<1>9. Advance \/ UNCHANGED schedVars => UNCHANGED <<phase, todo, blocked, calendar>>
  BY DEF Advance, schedVars, tickVars
<1> QED BY <1>1, <1>2, <1>3, <1>4, <1>5, <1>6, <1>7, <1>8, <1>9 DEF SchedNext, WorkerStep

-----------------------------------------------------------------------------
(* The theorems *)

LEMMA ScheduledStep ==
  ASSUME FastHandlers
  PROVE  Scheduled /\ [SchedNext]_schedVars => Scheduled'
BY ClaimsKept, TickingStep, CallingStep DEF Scheduled

LEMMA ScheduledTypes == Scheduled => SchedTypeOK
<1> SUFFICES ASSUME Scheduled
             PROVE  SchedTypeOK
  OBVIOUS
<1>1. \A s \in Seq(Events) : Range(s) \subseteq Events
  BY DEF Range
<1>2. \A w \in Workers : Range(todo[w]) \subseteq Events
  BY <1>1 DEF Scheduled, Ticking
<1> QED BY <1>2 DEF Scheduled, Ticking, Calling, SchedTypeOK, IInv

\* The variables of a tick keep their types, and a call is out only for the head of the tick's
\* list (run_scheduler_tick awaits each process_* call), whatever ticks, triggers and crashes
\* interleave.
THEOREM TicksTyped == ASSUME FastHandlers PROVE SchedSpec => []SchedTypeOK
<1>1. SchedInit => Scheduled
  BY ScheduledInit
<1>2. Scheduled /\ [SchedNext]_schedVars => Scheduled'
  BY ScheduledStep
<1> QED BY <1>1, <1>2, ScheduledTypes, PTL DEF SchedSpec

\* What is proved of the claim protocol alone holds under the ticks that use it: one claimant,
\* Succeeded exactly when applied once, and Processed only of what is applied.
THEOREM ClaimsUnderTicks ==
  ASSUME FastHandlers
  PROVE  SchedSpec => [](OneClaimant /\ SucceededIffAppliedOnce /\ ProcessedIsApplied)
<1>1. SchedInit => Scheduled
  BY ScheduledInit
<1>2. Scheduled /\ [SchedNext]_schedVars => Scheduled'
  BY ScheduledStep
<1>3. Scheduled => OneClaimant /\ SucceededIffAppliedOnce /\ ProcessedIsApplied
  BY DEF Scheduled, IInv
<1> QED BY <1>1, <1>2, <1>3, PTL DEF SchedSpec

LEMMA InOrderInit == SchedInit => InOrder
<1> SUFFICES ASSUME SchedInit
             PROVE  InOrder
  OBVIOUS
<1>1. Scheduled
  BY ScheduledInit
<1>2. ChainsLeft
  BY DEF SchedInit, ChainsLeft
<1> QED BY <1>1, <1>2 DEF InOrder

LEMMA InOrderTicks == InOrder => TicksInOrder
<1> SUFFICES ASSUME InOrder, NEW d1 \in Deadlines, NEW d2 \in Deadlines, Ahead(d1, d2),
                    NEW w \in Workers, phase[w] = "deadlines", Holds(w, d2)
             PROVE  effects[d1] > 0
  BY DEF TicksInOrder, Ahead
<1>1. called[w] /\ todo[w] # << >> /\ Head(todo[w]) = d2 /\ League[d2] \notin blocked[w]
  BY DEF InOrder, Scheduled, Calling, Holds
<1>2. todo[w] \in Seq(Events) /\ effects \in [Events -> Nat] /\ d1 \in Events
  BY DEF InOrder, Scheduled, Ticking, IInv, TypeOK, Deadlines
<1>3. 1 \in DOMAIN todo[w] /\ todo[w][1] = d2
  BY <1>1, <1>2, EmptySeq, LenProperties
<1>4. effects[d1] # 0
  <2>1. ASSUME effects[d1] = 0
        PROVE  \E i \in 1 .. 1 - 1 : todo[w][i] = d1
    BY <1>1, <1>3, <2>1 DEF InOrder, ChainsLeft, ChainLeft
  <2> QED BY <2>1
<1> QED BY <1>2, <1>4

\* A tick only works on a deadline once every earlier one of its league has taken effect: no
\* overlapping tick, manual trigger, failure or crash makes run_scheduler_tick process a
\* league's chain out of order.
THEOREM DeadlinesInOrder == ASSUME FastHandlers PROVE SchedSpec => []TicksInOrder
<1>1. SchedInit => InOrder
  BY InOrderInit
<1>2. InOrder /\ [SchedNext]_schedVars => InOrder'
  <2>1. InOrder /\ [SchedNext]_schedVars => Scheduled'
    BY ScheduledStep DEF InOrder
  <2> QED BY <2>1, ChainsLeftStep DEF InOrder
<1> QED BY <1>1, <1>2, InOrderTicks, PTL DEF SchedSpec

=============================================================================
