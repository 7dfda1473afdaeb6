----------------------------- MODULE ClaimLease -----------------------------
(***************************************************************************)
(* What the job-run claim promises the rest of the system, with no table,  *)
(* clock or retry counter in sight: an event is worked on by one worker at *)
(* a time, and its effect is applied at most once, by the worker that      *)
(* holds it.  A worker may let go of an event at any moment (its handler   *)
(* failed, or it died); somebody else may then take it over.               *)
(***************************************************************************)
EXTENDS Naturals

CONSTANTS Workers, Events

VARIABLES
  holders,   \* the workers currently working on each event
  applied    \* how often each event's effect has been committed

leaseVars == <<holders, applied>>

LeaseInit ==
  /\ holders = [e \in Events |-> {}]
  /\ applied = [e \in Events |-> 0]

Acquire(w, e) ==
  /\ holders[e] = {}
  /\ applied[e] = 0
  /\ holders' = [holders EXCEPT ![e] = {w}]
  /\ UNCHANGED applied

Release(e) ==
  /\ holders[e] # {}
  /\ holders' = [holders EXCEPT ![e] = {}]
  /\ UNCHANGED applied

Apply(e) ==
  /\ holders[e] # {}
  /\ applied[e] = 0
  /\ holders' = [holders EXCEPT ![e] = {}]
  /\ applied' = [applied EXCEPT ![e] = 1]

LeaseNext ==
  \E e \in Events : (\E w \in Workers : Acquire(w, e)) \/ Release(e) \/ Apply(e)

LeaseSpec == LeaseInit /\ [][LeaseNext]_leaseVars

=============================================================================
