------------------------------ MODULE WorkSpec ------------------------------
(***************************************************************************)
(* What a work queue promises its callers (tal_workqueue.h): accepted jobs *)
(* are started one at a time and in order, an instant job before all the   *)
(* waiting ones; a cancelled job is never started.  (That waiting jobs are *)
(* served in the end is stated in WorkQueue.)                              *)
(*                                                                         *)
(* A job is a callback with its argument.  Nothing is said here of queue   *)
(* slots, semaphores or the worker's loop.                                 *)
(***************************************************************************)
EXTENDS Sequences, Lists

CONSTANTS Jobs,     \* the jobs clients can hand in
          None      \* "no job is running"

VARIABLES jobs,     \* the accepted jobs that wait, next one first
          running   \* the job whose callback executes, or None

specVars == <<jobs, running>>

SpecInit ==
    /\ jobs = <<>>
    /\ running = None

Accept(j) ==
    /\ jobs' = Append(jobs, j)
    /\ UNCHANGED running

AcceptInstant(j) ==
    /\ jobs' = <<j>> \o jobs
    /\ UNCHANGED running

\* Cancellation drops any set of waiting jobs; the others keep their order.
Cancel(S) ==
    /\ jobs' = Keep(jobs, Jobs \ S)
    /\ UNCHANGED running

Start ==
    /\ running = None
    /\ jobs # <<>>
    /\ running' = Head(jobs)
    /\ jobs' = Tail(jobs)

Finish ==
    /\ running # None
    /\ running' = None
    /\ UNCHANGED jobs

\* The queue is torn down and what still waits is discarded.
Discard ==
    /\ running = None
    /\ jobs' = <<>>
    /\ UNCHANGED running

SpecNext ==
    \/ \E j \in Jobs : Accept(j) \/ AcceptInstant(j)
    \/ \E S \in SUBSET Jobs : Cancel(S)
    \/ Start
    \/ Finish
    \/ Discard

SafeSpec == SpecInit /\ [][SpecNext]_specVars
=============================================================================
