---------------------------- MODULE DelayedWork -----------------------------
(***************************************************************************)
(* Delayed work (the end of tal_workqueue.c): a timer whose callback puts  *)
(* a job into the work queue.  The timers are those of SwTimer; the work   *)
(* queue is the job list WorkSpec promises, with queue_len slots.          *)
(*                                                                         *)
(* The delayed work built on timer t has the record t of `works' and the   *)
(* job t.  tal_workqueue_cancel_delayed deletes the timer, cancels what    *)
(* the queue holds and frees the record, while the timer thread may be     *)
(* anywhere, also between picking the timer and entering its callback.     *)
(***************************************************************************)
EXTENDS SwTimer

CONSTANTS QueueLen,   \* bound: slots of the queue
          NoJob       \* no job is running

VARIABLES works,      \* DELAYED_WORK_T records that are allocated
          cancelling, \* where each actor is in cancelling which work
          jobs, running   \* the work queue

dvars == <<vars, works, cancelling, jobs, running>>

Queue == INSTANCE WorkSpec WITH Jobs <- Timers, None <- NoJob

DInit ==
    /\ Init
    /\ works = {}
    /\ cancelling = [a \in Actors |-> Idle]
    /\ Queue!SpecInit

SameQueue == UNCHANGED <<jobs, running>>

NotCancelling(a) == cancelling[a] = Idle

\* tal_workqueue_init_delayed
InitDelayed(a, t) ==
    /\ NotCancelling(a)
    /\ t \notin works
    /\ Create(a, t)
    /\ works' = works \cup {t}
    /\ UNCHANGED cancelling /\ SameQueue

StartDelayed(a, t, interval, type) ==
    /\ NotCancelling(a)
    /\ StartRead(a, t, interval, type)
    /\ UNCHANGED <<works, cancelling>> /\ SameQueue

StopDelayed(a, t) ==
    /\ NotCancelling(a)
    /\ Stop(a, t)
    /\ UNCHANGED <<works, cancelling>> /\ SameQueue

\* tal_workqueue_cancel_delayed: the timer first ...
CancelDelayed(a, t) ==
    /\ NotCancelling(a)
    /\ Delete(a, t)
    /\ cancelling' = [cancelling EXCEPT ![a] = [at |-> "queue", t |-> t]]
    /\ UNCHANGED works /\ SameQueue

\* ... then what is queued: this job, and every other that happens to have the same
\* callback or the same argument ...
CancelQueued(a) ==
    /\ cancelling[a].at = "queue"
    /\ call[a] = Idle
    /\ \E same \in SUBSET Timers : Queue!Cancel({cancelling[a].t} \cup same)
    /\ cancelling' = [cancelling EXCEPT ![a].at = "free"]
    /\ UNCHANGED <<vars, works>>

\* ... then the record.
FreeWork(a) ==
    /\ cancelling[a].at = "free"
    /\ works' = works \ {cancelling[a].t}
    /\ cancelling' = [cancelling EXCEPT ![a] = Idle]
    /\ UNCHANGED vars /\ SameQueue

GoOnDelayed(a) ==
    /\ GoOn(a)
    /\ UNCHANGED <<works, cancelling>> /\ SameQueue

\* __delayed_work_cb.  From a freed record it may still read the old handle,
\* callback and argument; other contents are left out.  A full queue refuses the
\* job and nobody is told.
ScheduleJob ==
    /\ Load
    /\ IF Len(jobs) < QueueLen THEN Queue!Accept(picked) ELSE SameQueue
    /\ UNCHANGED <<works, cancelling>>

TimerThread ==
    /\ \/ Enter \/ WakeToken \/ WakeTimeout \/ ReadClock
       \/ PickNothing \/ PickOnce \/ PickCycle \/ Return
    /\ UNCHANGED <<works, cancelling>> /\ SameQueue

WorkThread ==
    /\ Queue!Start \/ Queue!Finish
    /\ UNCHANGED <<vars, works, cancelling>>

DTick == Tick /\ UNCHANGED <<works, cancelling>> /\ SameQueue

\* The callback of a delayed work makes no timer call of its own.
DNext ==
    \/ \E a \in Clients :
           \/ \E t \in Timers :
                  \/ InitDelayed(a, t) \/ StopDelayed(a, t) \/ CancelDelayed(a, t)
                  \/ \E interval \in Times, type \in Types :
                         StartDelayed(a, t, interval, type)
           \/ GoOnDelayed(a)
           \/ CancelQueued(a)
           \/ FreeWork(a)
    \/ ScheduleJob \/ TimerThread \/ WorkThread \/ DTick

DSpec == DInit /\ [][DNext]_dvars
-----------------------------------------------------------------------------
\* tal_workqueue.c:423, tal_workqueue_cancel_delayed: "cancel delay work task in
\* workqueue".  A work that is cancelled is not in the queue any more and never gets
\* there.
CancelledForGood == \A i \in DOMAIN jobs : jobs[i] \in works
=============================================================================
