------------------------------ MODULE JobRuns ------------------------------
(***************************************************************************)
(* The job_run protocol: claim, dispatch in one database transaction,      *)
(* record the outcome.  It is what makes overlapping scheduler ticks, the  *)
(* commissioner's manual trigger and restarts after a crash safe.          *)
(*                                                                         *)
(* A worker is one caller of process_deadline / process_event: a scheduler *)
(* tick (Lambda or in-process) or a triggerDeadline mutation.  Each action *)
(* is one database statement or one committed transaction, so every        *)
(* interleaving the database allows between two workers is a behaviour.    *)
(* `now' is the one clock both the database and the workers read.          *)
(***************************************************************************)
EXTENDS Integers, FiniteSets

CONSTANTS
  Workers,       \* callers of run_claimed
  Events,        \* idempotency keys
  MaxAttempts,   \* MAX_ATTEMPTS
  StaleTimeout,  \* STALE_RUNNING_TIMEOUT_MINUTES, in ticks of `now'
  RunLimit,      \* longest time a claim is held before its worker records an outcome or dies
  MaxCrashes     \* bound: workers that die holding what they hold

ASSUME JobRunConstants ==
  /\ Events # {}
  /\ MaxAttempts \in Nat \ {0}
  /\ StaleTimeout \in Nat \ {0}
  /\ RunLimit \in Nat
  /\ MaxCrashes \in Nat

VARIABLES
  jobRun,     \* the job_run row of each idempotency key
  effects,    \* how often the event's handler transaction has committed
  now,        \* time
  pc,         \* where each worker is in run_claimed
  event,      \* the event each worker was last handed
  cutoff,     \* stale_cutoff computed by a worker about to reclaim an abandoned run
  claimedAt,  \* when a worker won the claim it holds
  outcome,    \* the ProcessOutcome the worker's last call returned
  crashes     \* how many workers have died mid-run

workerVars == <<pc, event, cutoff, claimedAt, outcome>>
jobVars == <<jobRun, effects, now, workerVars, crashes>>

Statuses == {"Pending", "Running", "Succeeded", "Failed"}
PCs == {"idle", "conflict", "reclaimStale", "reclaimFailed", "handling", "failing"}
Outcomes == {"None", "Processed", "AlreadyProcessed", "AlreadyRunning",
             "AttemptsExhausted", "Failed", "Error"}

\* No row carries this idempotency key yet.
NoRun == [status |-> "Absent", attempts |-> 0, updatedAt |-> 0]

\* The inserted row: Running, first attempt.
MutInsertedUncounted == [status |-> "Running", attempts |-> 0, updatedAt |-> now]
InsertedRun == [status |-> "Running", attempts |-> 1, updatedAt |-> now]

\* The row once its outcome is recorded.  The trigger stamps updated_at here too, but nothing
\* reads it on a row that is not Running: it is left out.
WithStatus(row, s) == [status |-> s, attempts |-> row.attempts, updatedAt |-> 0]

\* The row once it is claimed again: Running, one more attempt.
ReclaimedRun(row) == [status |-> "Running", attempts |-> row.attempts + 1, updatedAt |-> now]

Init ==
  /\ jobRun = [e \in Events |-> NoRun]
  /\ effects = [e \in Events |-> 0]
  /\ now = 0
  /\ pc = [w \in Workers |-> "idle"]
  /\ event = [w \in Workers |-> CHOOSE e \in Events : TRUE]
  /\ cutoff = [w \in Workers |-> 0]
  /\ claimedAt = [w \in Workers |-> 0]
  /\ outcome = [w \in Workers |-> "None"]
  /\ crashes = 0

-----------------------------------------------------------------------------
(* Claiming *)

\* Worker w now owns the run of e and goes on to dispatch its handler.
TakeClaim(w) ==
  /\ pc' = [pc EXCEPT ![w] = "handling"]
  /\ claimedAt' = [claimedAt EXCEPT ![w] = now]

\* run_claimed returns to its caller with outcome o; its locals are gone.
Return(w, o) ==
  /\ pc' = [pc EXCEPT ![w] = "idle"]
  /\ outcome' = [outcome EXCEPT ![w] = o]
  /\ cutoff' = [cutoff EXCEPT ![w] = 0]
  /\ claimedAt' = [claimedAt EXCEPT ![w] = 0]

\* claim_job_run, INSERT ... ON CONFLICT DO NOTHING that inserts the row.
InsertRun(w, e) ==
  /\ pc[w] = "idle"
  /\ jobRun[e] = NoRun
  /\ jobRun' = [jobRun EXCEPT ![e] = InsertedRun]
  /\ event' = [event EXCEPT ![w] = e]
  /\ TakeClaim(w)
  /\ UNCHANGED <<effects, now, cutoff, outcome, crashes>>

\* claim_job_run, the INSERT meets an existing row.
InsertConflicts(w, e) ==
  /\ pc[w] = "idle"
  /\ jobRun[e] # NoRun
  /\ event' = [event EXCEPT ![w] = e]
  /\ pc' = [pc EXCEPT ![w] = "conflict"]
  /\ UNCHANGED <<jobRun, effects, now, cutoff, claimedAt, outcome, crashes>>

MutNeverAbandoned(row) == FALSE
Abandoned(row) == row.status = "Running" /\ row.updatedAt <= now - StaleTimeout
Exhausted(row) == row.status = "Failed" /\ row.attempts >= MaxAttempts
Retryable(row) == row.status \in {"Pending", "Failed"} /\ ~Exhausted(row)

\* What the existing row makes the caller be told when it cannot be claimed.
MutRefusalOf(row) ==
  CASE row.status = "Succeeded" -> "AlreadyProcessed"
    [] row.status = "Running" -> "AlreadyRunning"
    [] OTHER -> "AlreadyProcessed"
RefusalOf(row) ==
  CASE row.status = "Succeeded" -> "AlreadyProcessed"
    [] row.status = "Running" -> "AlreadyRunning"
    [] OTHER -> "AttemptsExhausted"

\* claim_existing_job_run: read the row and decide on what was read.
ReadExisting(w) ==
  LET row == jobRun[event[w]] IN
  /\ pc[w] = "conflict"
  /\ \/ /\ Abandoned(row)
        /\ pc' = [pc EXCEPT ![w] = "reclaimStale"]
        /\ cutoff' = [cutoff EXCEPT ![w] = now - StaleTimeout]
        /\ UNCHANGED <<claimedAt, outcome>>
     \/ /\ Retryable(row)
        /\ pc' = [pc EXCEPT ![w] = "reclaimFailed"]
        /\ UNCHANGED <<cutoff, claimedAt, outcome>>
     \/ /\ ~Abandoned(row) /\ ~Retryable(row)
        /\ Return(w, RefusalOf(row))
  /\ UNCHANGED <<jobRun, effects, now, event, crashes>>

\* The WHERE clauses of the conditional UPDATE, evaluated on the row as it is then.
MutStaleFilterAnyAge(row, limit) == row.status = "Running"
StaleFilter(row, limit) == row.status = "Running" /\ row.updatedAt <= limit
MutFailedFilterAnyRow(row) == TRUE
MutFailedFilterRunning(row) == row.status \in {"Pending", "Failed", "Running"}
FailedFilter(row) == row.status \in {"Pending", "Failed"}

\* reclaim_with_filter: flip the row to Running and count the attempt, or lose the race.
Reclaim(w, matches) ==
  LET e == event[w] IN
  /\ \/ /\ matches
        /\ jobRun' = [jobRun EXCEPT ![e] = ReclaimedRun(@)]
        /\ TakeClaim(w)
        /\ UNCHANGED <<cutoff, outcome>>
     \/ /\ ~matches
        /\ Return(w, "AlreadyRunning")
        /\ UNCHANGED jobRun
  /\ UNCHANGED <<effects, now, event, crashes>>

ReclaimStale(w) ==
  /\ pc[w] = "reclaimStale"
  /\ Reclaim(w, StaleFilter(jobRun[event[w]], cutoff[w]))

ReclaimFailed(w) ==
  /\ pc[w] = "reclaimFailed"
  /\ Reclaim(w, FailedFilter(jobRun[event[w]]))

-----------------------------------------------------------------------------
(* Dispatching and recording *)

\* The handler returned Ok: mark_job_run_succeeded runs in its transaction, and
\* both commit together.
MutHandlerCommits(w) ==
  /\ pc[w] = "handling"
  /\ effects' = [effects EXCEPT ![event[w]] = @ + 1]
  /\ Return(w, "Processed")
  /\ UNCHANGED <<jobRun, now, event, crashes>>
HandlerCommits(w) ==
  /\ pc[w] = "handling"
  /\ effects' = [effects EXCEPT ![event[w]] = @ + 1]
  /\ jobRun' = [jobRun EXCEPT ![event[w]] = WithStatus(@, "Succeeded")]
  /\ Return(w, "Processed")
  /\ UNCHANGED <<now, event, crashes>>

\* The handler returned Err: its transaction rolls back.
HandlerFails(w) ==
  /\ pc[w] = "handling"
  /\ pc' = [pc EXCEPT ![w] = "failing"]
  /\ UNCHANGED <<jobRun, effects, now, event, cutoff, claimedAt, outcome, crashes>>

\* mark_job_run_failed, a statement of its own that filters by row id only.
RecordFailure(w) ==
  /\ pc[w] = "failing"
  /\ jobRun' = [jobRun EXCEPT ![event[w]] = WithStatus(@, "Failed")]
  /\ Return(w, "Failed")
  /\ UNCHANGED <<effects, now, event, crashes>>

\* The process dies, or a statement (BEGIN, COMMIT, ROLLBACK, the recording)
\* errors: whatever was open rolls back and a held claim stays Running.
Abandon(w) ==
  /\ pc[w] # "idle"
  /\ crashes < MaxCrashes
  /\ crashes' = crashes + 1
  /\ Return(w, "Error")
  /\ UNCHANGED <<jobRun, effects, now, event>>

-----------------------------------------------------------------------------
Holds(w, e) == pc[w] \in {"handling", "failing"} /\ event[w] = e

\* A claim is held for at most RunLimit (the Lambda's timeout kills the tick).
ClaimsInTime ==
  \A w \in Workers : pc[w] \in {"handling", "failing"} => now - claimedAt[w] < RunLimit

SomeRunFresh ==
  \E e \in Events : jobRun[e].status = "Running" /\ now - jobRun[e].updatedAt <= StaleTimeout

\* Time moves only while some Running row is still fresh: at any other moment its
\* passage changes no guard.
PassTime ==
  /\ SomeRunFresh
  /\ ClaimsInTime
  /\ now' = now + 1
  /\ UNCHANGED <<jobRun, effects, workerVars, crashes>>

ClaimAttempt(w, e) == InsertRun(w, e) \/ InsertConflicts(w, e)

ClaimedRunStep(w) ==
  ReadExisting(w) \/ ReclaimStale(w) \/ ReclaimFailed(w)
    \/ HandlerCommits(w) \/ HandlerFails(w) \/ RecordFailure(w)

Next ==
  \/ \E w \in Workers :
       (\E e \in Events : ClaimAttempt(w, e)) \/ ClaimedRunStep(w) \/ Abandon(w)
  \/ PassTime

Spec == Init /\ [][Next]_jobVars

\* A live worker finishes its call, the clock runs, and every tick hands every
\* unprocessed event to some worker again.  Crashes are not fair.
Fairness ==
  /\ \A w \in Workers : WF_jobVars(ClaimedRunStep(w))
  /\ \A w \in Workers, e \in Events : SF_jobVars(ClaimAttempt(w, e))
  /\ WF_jobVars(PassTime)

FairSpec == Spec /\ Fairness

-----------------------------------------------------------------------------
(* Properties *)

\* What an existing row can hold: an inserted run counts its first attempt.
Runs == [status : Statuses, attempts : Nat \ {0}, updatedAt : Nat]

\* Types of the variables; a row of the table counts at least one attempt.
TypeOK ==
  /\ jobRun \in [Events -> {NoRun} \cup Runs]
  /\ effects \in [Events -> Nat]
  /\ now \in Nat
  /\ pc \in [Workers -> PCs]
  /\ event \in [Workers -> Events]
  /\ cutoff \in [Workers -> Int]
  /\ claimedAt \in [Workers -> Nat]
  /\ outcome \in [Workers -> Outcomes]
  /\ crashes \in Nat

\* While a handler cannot outlive the stale timeout, two workers never work on one event
\* ("concurrent ticks cannot both claim the same event", claim_job_run).
OneClaimant ==
  \A e \in Events, w1, w2 \in Workers : Holds(w1, e) /\ Holds(w2, e) => w1 = w2

\* The handler's effect and the Succeeded row commit together: the row says Succeeded exactly
\* when the effect was applied, and it was applied once, whatever crashed or was retried.
SucceededIffAppliedOnce ==
  \A e \in Events :
    /\ effects[e] <= 1
    /\ jobRun[e].status = "Succeeded" <=> effects[e] = 1

\* A caller that is told an event was processed (now or earlier) may go on to the next
\* deadline of the chain: the effect is really there.
ProcessedIsApplied ==
  \A w \in Workers :
    outcome[w] \in {"Processed", "AlreadyProcessed"} /\ pc[w] = "idle" => effects[event[w]] >= 1

\* A succeeded event is never reclaimed and never overwritten by a late loser.
SuccessIsFinal ==
  [][\A e \in Events : jobRun[e].status = "Succeeded" => jobRun'[e] = jobRun[e]]_jobVars

\* The claim protocol implements the lease it is meant to be (run_claimed with claim_job_run:
\* one worker at a time, the effect at most once).
Lease == INSTANCE ClaimLease WITH
  holders <- [e \in Events |-> {w \in Workers : Holds(w, e)}],
  applied <- effects
ImplementsLease == Lease!LeaseSpec

\* Whatever crashes and fails on the way, an event ends up processed or visibly exhausted: a
\* Running row left behind by a dead worker is never the end.
EventsSettle ==
  \A e \in Events : <>[](jobRun[e].status = "Succeeded" \/ Exhausted(jobRun[e]))

=============================================================================
