----------------------------- MODULE Scheduler -----------------------------
(***************************************************************************)
(* Scheduler ticks over the job-run protocol.  A tick lists the due and    *)
(* unprocessed deadlines of every league, walks each league's chain oldest *)
(* first and stops the chain at the first deadline that is not done, then  *)
(* closes the due auctions and expires the due RFA windows.  Ticks overlap *)
(* (EventBridge fires twice, the server has a loop of its own), die half   *)
(* way, and share the job_run table with the commissioner's manual         *)
(* trigger.  An event is a row id; what its handler does is in the modules *)
(* of the handlers, here it fails or commits.                              *)
(***************************************************************************)
EXTENDS JobRuns, SequencesExt

CONSTANTS
  Commissioners,  \* the workers whose next call may also be a triggerDeadline mutation
  Calendars       \* the events there may be: see Calendar

\* Of each event: its league, when it is due (date_time of a deadline, close_at of an auction, end
\* of an RFA window), which of the three it is, and how many attempts of its handler fail before
\* the cause of the failures is repaired.
Calendar ==
  [league : [Events -> Nat], due : [Events -> Nat],
   kind : [Events -> {"deadline", "close", "window"}], failures : [Events -> Nat]]

ASSUME SchedulerConstants ==
  /\ Commissioners \subseteq Workers
  /\ Events \subseteq Nat /\ IsFiniteSet(Events)
  /\ Calendars \subseteq Calendar

VARIABLES
  calendar,  \* the events there are
  phase,     \* which loop of the tick the worker is in
  tickNow,   \* the tick's `now', read once when it starts
  todo,      \* what the worker's current loop still has to hand to the processor
  called,    \* whether the head of todo has been handed over
  blocked    \* the leagues whose chain this tick has stopped

tickVars == <<phase, tickNow, todo, called, blocked>>
schedVars == <<jobVars, tickVars, calendar>>

League == calendar.league
DueAt == calendar.due
Kind == calendar.kind
Failures == calendar.failures

Phases == {"off", "deadlines", "closes", "windows", "manual"}

SchedInit ==
  /\ Init
  /\ phase = [w \in Workers |-> "off"]
  /\ tickNow = [w \in Workers |-> 0]
  /\ todo = [w \in Workers |-> << >>]
  /\ called = [w \in Workers |-> FALSE]
  /\ blocked = [w \in Workers |-> {}]
  /\ calendar \in Calendars

-----------------------------------------------------------------------------
(* What a tick finds to do *)

\* find_due_unprocessed_deadlines: due, and no Succeeded job_run.
DueDeadlines(t) ==
  {e \in Events : Kind[e] = "deadline" /\ DueAt[e] <= t /\ jobRun[e].status # "Succeeded"}

\* Bucketed by league in id order, and within a league by date_time alone: the query gives
\* deadlines of the same instant in any order.
ChainBefore(d, e) ==
  League[d] < League[e] \/ (League[d] = League[e] /\ DueAt[d] <= DueAt[e])
Chains(S) ==
  {s \in SetToSeqs(S) : \A i, j \in DOMAIN s : i < j => ChainBefore(s[i], s[j])}

\* find_auctions_due_for_close, find_rfa_resolutions_with_expired_window: still open and past
\* their time.  Their handler's effect is what closes them.
DueEvents(kind, t) == {e \in Events : Kind[e] = kind /\ DueAt[e] <= t /\ effects[e] = 0}

-----------------------------------------------------------------------------
(* One tick *)

\* run_scheduler_tick starts: the list of deadlines is a snapshot.
StartTick(w) ==
  /\ phase[w] = "off"
  /\ \E s \in Chains(DueDeadlines(now)) : todo' = [todo EXCEPT ![w] = s]
  /\ phase' = [phase EXCEPT ![w] = "deadlines"]
  /\ tickNow' = [tickNow EXCEPT ![w] = now]
  /\ blocked' = [blocked EXCEPT ![w] = {}]
  /\ UNCHANGED <<jobVars, called, calendar>>

\* process_deadline / process_event on the next entry: its claim begins.
HandOver(w) ==
  /\ todo[w] # << >>
  /\ ~called[w]
  /\ League[Head(todo[w])] \notin blocked[w]
  /\ ClaimAttempt(w, Head(todo[w]))
  /\ called' = [called EXCEPT ![w] = TRUE]
  /\ UNCHANGED <<phase, tickNow, todo, blocked, calendar>>

\* A deadline of a league whose chain has stopped is left for a later tick.
SkipBlocked(w) ==
  /\ todo[w] # << >>
  /\ ~called[w]
  /\ League[Head(todo[w])] \in blocked[w]
  /\ todo' = [todo EXCEPT ![w] = Tail(@)]
  /\ UNCHANGED <<jobVars, phase, tickNow, called, blocked, calendar>>

\* A chain goes on only past a deadline that is done, by this tick or another.
MutStopsChain(o) == o \in {"Failed", "Error", "AlreadyRunning"}
StopsChain(o) == o \notin {"Processed", "AlreadyProcessed"}

\* The leagues whose chain event e stops.
MutStoppedBy(e) == Range(League)
StoppedBy(e) == {League[e]}

\* The call is over and its outcome has been looked at.
Forget(w) ==
  /\ event' = [event EXCEPT ![w] = CHOOSE e \in Events : TRUE]
  /\ outcome' = [outcome EXCEPT ![w] = "None"]

\* The processor returned: go on to the next entry.  Only the deadline loop has chains; an
\* auction close or a window expiry that fails holds nothing up.
TakeOutcome(w) ==
  LET e == Head(todo[w]) IN
  /\ called[w]
  /\ pc[w] = "idle"
  /\ todo' = [todo EXCEPT ![w] = Tail(@)]
  /\ called' = [called EXCEPT ![w] = FALSE]
  /\ blocked' = IF phase[w] = "deadlines" /\ StopsChain(outcome[w])
                THEN [blocked EXCEPT ![w] = @ \cup StoppedBy(e)]
                ELSE blocked
  /\ phase' = IF phase[w] = "manual" THEN [phase EXCEPT ![w] = "off"] ELSE phase
  /\ Forget(w)
  /\ UNCHANGED <<jobRun, effects, now, pc, cutoff, claimedAt, crashes, tickNow, calendar>>

Following == [deadlines |-> "closes", closes |-> "windows", windows |-> "off"]

\* One loop of the tick is through: query what the next one has to do.
NextLoop(w) ==
  LET p == Following[phase[w]] IN
  /\ phase[w] \in DOMAIN Following
  /\ todo[w] = << >>
  /\ phase' = [phase EXCEPT ![w] = p]
  /\ \E s \in SetToSeqs(CASE p = "closes" -> DueEvents("close", tickNow[w])
                          [] p = "windows" -> DueEvents("window", tickNow[w])
                          [] OTHER -> {}) :
       todo' = [todo EXCEPT ![w] = s]
  /\ blocked' = [blocked EXCEPT ![w] = {}]
  /\ tickNow' = IF p = "off" THEN [tickNow EXCEPT ![w] = 0] ELSE tickNow
  /\ UNCHANGED <<jobVars, called, calendar>>

\* triggerDeadline: any deadline of the league, due or not, straight into process_deadline.
Trigger(w, e) ==
  /\ w \in Commissioners
  /\ phase[w] = "off"
  /\ Kind[e] = "deadline"
  /\ ClaimAttempt(w, e)
  /\ phase' = [phase EXCEPT ![w] = "manual"]
  /\ todo' = [todo EXCEPT ![w] = <<e>>]
  /\ called' = [called EXCEPT ![w] = TRUE]
  /\ UNCHANGED <<tickNow, blocked, calendar>>

-----------------------------------------------------------------------------
(* The processor's part of a call *)

\* A handler fails as long as the cause of its failures is there, and then commits.
ProcessorStep(w) ==
  /\ called[w]
  /\ \/ ReadExisting(w) \/ ReclaimStale(w) \/ ReclaimFailed(w) \/ RecordFailure(w)
     \/ jobRun[event[w]].attempts > Failures[event[w]] /\ HandlerCommits(w)
     \/ jobRun[event[w]].attempts <= Failures[event[w]] /\ HandlerFails(w)
  /\ UNCHANGED <<tickVars, calendar>>

\* A statement of the call errors: process_deadline returns Err, the tick goes on.
CallErrors(w) ==
  /\ called[w]
  /\ Abandon(w)
  /\ UNCHANGED <<tickVars, calendar>>

\* The whole tick (or mutation) dies: Lambda timeout, server restart, a failing query of its own.
WorkerDies(w) ==
  /\ phase[w] # "off"
  /\ crashes < MaxCrashes
  /\ crashes' = crashes + 1
  /\ pc' = [pc EXCEPT ![w] = "idle"]
  /\ cutoff' = [cutoff EXCEPT ![w] = 0]
  /\ claimedAt' = [claimedAt EXCEPT ![w] = 0]
  /\ Forget(w)
  /\ phase' = [phase EXCEPT ![w] = "off"]
  /\ todo' = [todo EXCEPT ![w] = << >>]
  /\ called' = [called EXCEPT ![w] = FALSE]
  /\ blocked' = [blocked EXCEPT ![w] = {}]
  /\ tickNow' = [tickNow EXCEPT ![w] = 0]
  /\ UNCHANGED <<jobRun, effects, now, calendar>>

\* Time also moves until the last event is due.
Advance ==
  /\ SomeRunFresh \/ \E e \in Events : now < DueAt[e]
  /\ ClaimsInTime
  /\ now' = now + 1
  /\ UNCHANGED <<jobRun, effects, workerVars, crashes, tickVars, calendar>>

WorkerStep(w) ==
  StartTick(w) \/ HandOver(w) \/ SkipBlocked(w) \/ ProcessorStep(w) \/ TakeOutcome(w) \/ NextLoop(w)

SchedNext ==
  \/ \E w \in Workers : WorkerStep(w) \/ CallErrors(w) \/ WorkerDies(w)
  \/ \E w \in Workers, e \in Events : Trigger(w, e)
  \/ Advance

SchedSpec == SchedInit /\ [][SchedNext]_schedVars

\* The scheduler keeps ticking, a running call makes progress, time passes.
SchedFairness ==
  /\ \A w \in Workers : WF_schedVars(WorkerStep(w))
  /\ WF_schedVars(Advance)

SchedFairSpec == SchedSpec /\ SchedFairness

-----------------------------------------------------------------------------
(* Properties *)

\* Types of the tick's variables; a call is out only for the head of the list.
SchedTypeOK ==
  /\ TypeOK
  /\ phase \in [Workers -> Phases]
  /\ tickNow \in [Workers -> 0 .. now]
  /\ \A w \in Workers : Range(todo[w]) \subseteq Events
  /\ called \in [Workers -> BOOLEAN]
  /\ \A w \in Workers : called[w] => todo[w] # << >> /\ event[w] = Head(todo[w])
  /\ \A w \in Workers : pc[w] # "idle" => called[w]
  /\ \A w \in Workers : blocked[w] \subseteq Range(League)
  /\ calendar \in Calendars

Deadlines == {e \in Events : Kind[e] = "deadline"}

\* A tick only works on a deadline when every earlier one of its league has taken effect, whatever
\* the commissioner fires in between (run_scheduler_tick against triggerDeadline).
TicksInOrder ==
  \A d1, d2 \in Deadlines :
    /\ League[d1] = League[d2] /\ DueAt[d1] < DueAt[d2]
    /\ \E w \in Workers : phase[w] = "deadlines" /\ Holds(w, d2)
    => effects[d1] > 0

\* An event whose handler recovers before the attempts run out is processed in the end, unless
\* an earlier deadline of its own league never is: no league, auction or window waits for another.
Repairable(e) == Failures[e] < MaxAttempts
ChainRepairable(e) ==
  /\ Repairable(e)
  /\ Kind[e] = "deadline" =>
       \A d \in Deadlines : League[d] = League[e] /\ DueAt[d] <= DueAt[e] => Repairable(d)
LeaguesIndependent == \A e \in Events : ChainRepairable(e) ~> (jobRun[e].status = "Succeeded")

=============================================================================
