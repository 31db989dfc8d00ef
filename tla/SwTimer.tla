------------------------------ MODULE SwTimer -------------------------------
(***************************************************************************)
(* The software timers of tal_sw_timer.c: a list of running timers ordered *)
(* by expiry, a list of idle ones, and one thread that sleeps on a         *)
(* semaphore until the first expiry or until some call changed the lists.  *)
(*                                                                         *)
(* What a call does under the manager's mutex is one step; reading the     *)
(* clock before the mutex, posting the semaphore after it and freeing the  *)
(* record at the end of tal_sw_timer_delete are steps of their own.  The   *)
(* thread likewise reads the clock, picks a timer under the mutex, and     *)
(* only then loads the callback's arguments from the timer's record.       *)
(* Callbacks may themselves call the API.                                  *)
(*                                                                         *)
(* Callers keep one rule: a timer is not used again once its deletion has  *)
(* begun, and not deleted in the middle of another call on it.             *)
(***************************************************************************)
EXTENDS Integers, Sequences, FiniteSets, SequencesExt, FiniteSetsExt

CONSTANTS Timers,      \* addresses of timer records
          Clients,     \* threads that use timers
          Thr,         \* the timer thread, whose callbacks use timers too
          Times,       \* values of tal_sw_timer_start's time_ms
          NoTimer,     \* the NULL timer
          Forever,     \* SEM_WAIT_FOREVER
          MaxNow,      \* bound: the last clock value, which stands for all later ones
          MaxSem       \* bound: no call begins with more tokens than this

ASSUME TimersFinite == IsFiniteSet(Timers)
ASSUME ThrIsNoClient == Thr \notin Clients
ASSUME TimesNatural == Times \subseteq Nat
ASSUME NullsDistinct == Forever \notin Nat /\ NoTimer \notin Timers
ASSUME BoundsNatural == MaxNow \in Nat /\ MaxSem \in Nat

Actors == Clients \cup {Thr}
Types == {"ONCE", "CYCLE"}

VARIABLES
    now,          \* tal_time_get_system_time, in ms
    live,         \* timer records that are allocated
    list_active,  \* running timers, next to expire first
    list_standby, \* the others
    timer,        \* the records: expire_time, interval, is_running, type
    total_cnt, running_cnt,
    sem,          \* the semaphore's count
    call,         \* the API call each actor is in the middle of
    thr,          \* where the timer thread is
    nowMS,        \* its reading of the clock
    next_expired, \* the timeout it computed
    wake_at,      \* when its sleep times out
    picked        \* the timer it took from the list and calls back

lists == <<live, list_active, list_standby, timer, total_cnt, running_cnt>>
thread == <<thr, nowMS, next_expired, wake_at, picked>>
vars == <<now, lists, sem, call, thread>>

Records == [expire_time : Nat, interval : Nat, is_running : BOOLEAN, type : Types]
Cleared == [expire_time |-> 0, interval |-> 0, is_running |-> FALSE, type |-> "ONCE"]

Idle == [at |-> "idle"]

Init ==
    /\ now = 0
    /\ live = {} /\ list_active = <<>> /\ list_standby = {}
    /\ timer = [t \in Timers |-> Cleared]
    /\ total_cnt = 0 /\ running_cnt = 0
    /\ sem = 0
    /\ call = [a \in Actors |-> Idle]
    /\ thr = "enter" /\ nowMS = 0 /\ next_expired = Forever /\ wake_at = Forever
    /\ picked = NoTimer
-----------------------------------------------------------------------------
(* The active list.  tuya_list_del is RemoveFirst: it unlinks the timer,   *)
(* from this list if it is there and else from the idle one.               *)

\* __timer_attach: in front of the first timer that does not expire earlier.
Attach(list, t, rec) ==
    LET rest == RemoveFirst(list, t)
        pos == CHOOSE i \in 1 .. Len(rest) + 1 :
                   /\ \A j \in 1 .. i - 1 : rec[rest[j]].expire_time < rec[t].expire_time
                   /\ i <= Len(rest) => rec[rest[i]].expire_time >= rec[t].expire_time
    IN  InsertAt(rest, pos, t)
-----------------------------------------------------------------------------
(* The calls.                                                              *)

BeingDeleted == UNION {call[a].frees : a \in {b \in Actors : call[b].at \in {"post", "free"}}}

\* An actor between calls; the timer thread only while it is in a callback.
Free(a) ==
    /\ call[a] = Idle
    /\ a = Thr => thr = "call"
    /\ sem <= MaxSem

MayUse(a, t) ==
    /\ Free(a)
    /\ t \in live
    /\ t \notin BeingDeleted

ThenPost(a, frees) == call' = [call EXCEPT ![a] = [at |-> "post", frees |-> frees]]

\* tal_sw_timer_create
Create(a, t) ==
    /\ Free(a)
    /\ t \notin live
    /\ live' = live \cup {t}
    /\ timer' = [timer EXCEPT ![t] = Cleared]
    /\ list_standby' = list_standby \cup {t}
    /\ total_cnt' = total_cnt + 1
    /\ UNCHANGED <<now, list_active, running_cnt, sem, call, thread>>

\* tal_sw_timer_start reads the clock ...
StartRead(a, t, time_ms, type) ==
    /\ MayUse(a, t)
    /\ call' = [call EXCEPT ![a] = [at |-> "start", t |-> t, time_ms |-> time_ms,
                                    type |-> type, read |-> now]]
    /\ UNCHANGED <<now, lists, sem, thread>>

Interval(t, time_ms) == IF time_ms # 0 THEN time_ms ELSE timer[t].interval

\* Mutant: the running count is incremented by every start.
StartCountsTwice(a) ==
    /\ call[a].at = "start"
    /\ LET c == call[a]
           i == Interval(c.t, c.time_ms)
           rec == [timer EXCEPT ![c.t] = [expire_time |-> c.read + i, interval |-> i,
                                          is_running |-> TRUE, type |-> c.type]]
       IN  /\ timer' = rec
           /\ list_active' = Attach(list_active, c.t, rec)
           /\ list_standby' = list_standby \ {c.t}
    /\ running_cnt' = running_cnt + 1
    /\ ThenPost(a, {})
    /\ UNCHANGED <<now, live, total_cnt, sem, thread>>

\* ... and arms the timer with what it read.
Start(a) ==
    /\ call[a].at = "start"
    /\ LET c == call[a]
           i == Interval(c.t, c.time_ms)
           rec == [timer EXCEPT ![c.t] = [expire_time |-> c.read + i, interval |-> i,
                                          is_running |-> TRUE, type |-> c.type]]
       IN  /\ timer' = rec
           /\ list_active' = Attach(list_active, c.t, rec)
           /\ list_standby' = list_standby \ {c.t}
           /\ running_cnt' = IF timer[c.t].is_running THEN running_cnt ELSE running_cnt + 1
    /\ ThenPost(a, {})
    /\ UNCHANGED <<now, live, total_cnt, sem, thread>>

\* The timer leaves the active list for the idle one.
Retire(t) ==
    /\ timer' = [timer EXCEPT ![t].is_running = FALSE]
    /\ list_active' = RemoveFirst(list_active, t)
    /\ list_standby' = list_standby \cup {t}
    /\ running_cnt' = running_cnt - 1

\* tal_sw_timer_stop
Stop(a, t) ==
    /\ MayUse(a, t)
    /\ IF timer[t].is_running
       THEN Retire(t)
       ELSE UNCHANGED <<timer, list_active, list_standby, running_cnt>>
    /\ ThenPost(a, {})
    /\ UNCHANGED <<now, live, total_cnt, sem, thread>>

\* Mutant: a triggered timer stays where it is in the list.
TriggerInPlace(a, t) ==
    /\ MayUse(a, t)
    /\ timer' = [timer EXCEPT ![t].expire_time = 0]
    /\ ThenPost(a, {})
    /\ UNCHANGED <<now, live, list_active, list_standby, total_cnt, running_cnt, sem, thread>>

\* tal_sw_timer_trigger
Trigger(a, t) ==
    /\ MayUse(a, t)
    /\ timer' = [timer EXCEPT ![t].expire_time = 0]
    /\ list_active' = IF timer[t].is_running THEN <<t>> \o RemoveFirst(list_active, t)
                                             ELSE list_active
    /\ ThenPost(a, {})
    /\ UNCHANGED <<now, live, list_standby, total_cnt, running_cnt, sem, thread>>

\* Mutant: the running count is decremented whether the timer runs or not.
DeleteCountsTwice(a, t) ==
    /\ MayUse(a, t)
    /\ \A b \in Actors : call[b].at = "start" => call[b].t # t
    /\ list_active' = RemoveFirst(list_active, t)
    /\ list_standby' = list_standby \ {t}
    /\ total_cnt' = total_cnt - 1
    /\ running_cnt' = running_cnt - 1
    /\ ThenPost(a, {t})
    /\ UNCHANGED <<now, live, timer, sem, thread>>

\* tal_sw_timer_delete: unlinked here, freed after the post
Delete(a, t) ==
    /\ MayUse(a, t)
    /\ \A b \in Actors : call[b].at = "start" => call[b].t # t
    /\ list_active' = RemoveFirst(list_active, t)
    /\ list_standby' = list_standby \ {t}
    /\ total_cnt' = total_cnt - 1
    /\ running_cnt' = IF timer[t].is_running THEN running_cnt - 1 ELSE running_cnt
    /\ ThenPost(a, {t})
    /\ UNCHANGED <<now, live, timer, sem, thread>>

\* Mutant: the thread is not woken.
PostForgotten(a) ==
    /\ call[a].at = "post"
    /\ call' = [call EXCEPT ![a] = IF @.frees = {} THEN Idle
                                   ELSE [at |-> "free", frees |-> @.frees]]
    /\ UNCHANGED <<now, lists, sem, thread>>

\* tal_semaphore_post at the end of a call
Post(a) ==
    /\ call[a].at = "post"
    /\ sem' = sem + 1
    /\ call' = [call EXCEPT ![a] = IF @.frees = {} THEN Idle
                                   ELSE [at |-> "free", frees |-> @.frees]]
    /\ UNCHANGED <<now, lists, thread>>

FreeRecord(a) ==
    /\ call[a].at = "free"
    /\ live' = live \ call[a].frees
    /\ call' = [call EXCEPT ![a] = Idle]
    /\ UNCHANGED <<now, list_active, list_standby, timer, total_cnt, running_cnt,
                   sem, thread>>
-----------------------------------------------------------------------------
(* The timer thread.                                                       *)

\* tal_semaphore_wait(s_timer_mgr.sem, next_expired) begins ...
Enter ==
    /\ thr = "enter"
    /\ thr' = "asleep"
    /\ wake_at' = IF next_expired = Forever THEN Forever ELSE Min({now + next_expired, MaxNow})
    /\ UNCHANGED <<now, lists, sem, call, nowMS, next_expired, picked>>

\* __timer_dispatch is entered
Dispatch ==
    /\ thr' = "read"
    /\ next_expired' = Forever
    /\ wake_at' = Forever
    /\ nowMS' = 0

\* ... and ends with a token, or at its timeout.
WakeToken ==
    /\ thr = "asleep"
    /\ sem > 0
    /\ sem' = sem - 1
    /\ Dispatch
    /\ UNCHANGED <<now, lists, call, picked>>

WakeTimeout ==
    /\ thr = "asleep"
    /\ sem = 0
    /\ wake_at # Forever
    /\ now >= wake_at
    /\ Dispatch
    /\ UNCHANGED <<now, lists, sem, call, picked>>

ReadClock ==
    /\ thr = "read"
    /\ nowMS' = now
    /\ thr' = "pick"
    /\ UNCHANGED <<now, lists, sem, call, next_expired, wake_at, picked>>

\* Nothing is due: compute the timeout and leave __timer_dispatch.
PickNothing ==
    /\ thr = "pick"
    /\ \/ /\ list_active = <<>>
          /\ UNCHANGED next_expired
       \/ /\ list_active # <<>>
          /\ timer[Head(list_active)].expire_time > nowMS
          /\ next_expired' = timer[Head(list_active)].expire_time - nowMS
    /\ thr' = "enter"
    /\ UNCHANGED <<now, lists, sem, call, nowMS, wake_at, picked>>

Due == list_active # <<>> /\ timer[Head(list_active)].expire_time <= nowMS

PickOnce ==
    /\ thr = "pick"
    /\ Due
    /\ timer[Head(list_active)].type = "ONCE"
    /\ Retire(Head(list_active))
    /\ picked' = Head(list_active)
    /\ thr' = "load"
    /\ UNCHANGED <<now, live, total_cnt, sem, call, nowMS, next_expired, wake_at>>

PickCycle ==
    /\ thr = "pick"
    /\ Due
    /\ LET t == Head(list_active)
           rec == [timer EXCEPT ![t].expire_time = nowMS + timer[t].interval]
       IN  /\ timer[t].type = "CYCLE"
           /\ timer' = rec
           /\ list_active' = Attach(list_active, t, rec)
           /\ picked' = t
    /\ thr' = "load"
    /\ UNCHANGED <<now, live, list_standby, total_cnt, running_cnt, sem, call, nowMS,
                   next_expired, wake_at>>

\* timer_cb(timer->timer_id, timer->data) is entered ...
Load ==
    /\ thr = "load"
    /\ thr' = "call"
    /\ UNCHANGED <<now, lists, sem, call, nowMS, next_expired, wake_at, picked>>

\* ... and returns.
Return ==
    /\ thr = "call"
    /\ call[Thr] = Idle
    /\ thr' = "read"
    /\ picked' = NoTimer
    /\ UNCHANGED <<now, lists, sem, call, nowMS, next_expired, wake_at>>

Tick ==
    /\ now < MaxNow
    /\ now' = now + 1
    /\ UNCHANGED <<lists, sem, call, thread>>
-----------------------------------------------------------------------------
GoOn(a) == Start(a) \/ Post(a) \/ FreeRecord(a)

Api(a) ==
    \/ \E t \in Timers :
           \/ Create(a, t) \/ Stop(a, t) \/ Trigger(a, t) \/ Delete(a, t)
           \/ \E time_ms \in Times, type \in Types : StartRead(a, t, time_ms, type)
    \/ GoOn(a)

ThreadStep ==
    \/ Enter \/ WakeToken \/ WakeTimeout \/ ReadClock \/ PickNothing \/ PickOnce
    \/ PickCycle \/ Load \/ Return

Next == (\E a \in Actors : Api(a)) \/ ThreadStep \/ Tick

\* The scheduler runs every thread and callbacks return.
Fairness ==
    /\ \A a \in Actors : WF_vars(GoOn(a))
    /\ WF_vars(ThreadStep)
    /\ WF_vars(Tick)

Spec == Init /\ [][Next]_vars

FairSpec == Spec /\ Fairness
-----------------------------------------------------------------------------
Calls ==
    {Idle}
    \cup [at : {"start"}, t : Timers, time_ms : Times, type : Types, read : Nat]
    \cup [at : {"post", "free"}, frees : SUBSET Timers]

TypeOK ==
    /\ now \in Nat
    /\ live \subseteq Timers
    /\ list_active \in Seq(Timers)
    /\ list_standby \subseteq Timers
    /\ timer \in [Timers -> Records]
    /\ total_cnt \in Nat /\ running_cnt \in Nat
    /\ sem \in Nat
    /\ call \in [Actors -> Calls]
    /\ thr \in {"enter", "asleep", "read", "pick", "load", "call"}
    /\ nowMS \in Nat
    /\ next_expired \in Nat \cup {Forever}
    /\ wake_at \in Nat \cup {Forever}
    /\ picked \in Timers \cup {NoTimer}

\* Every allocated timer that is not being deleted is in exactly one list, once,
\* the one its is_running flag names, no list holds a freed record, and the manager's
\* counters (tal_sw_timer_get_num) agree with the lists.
ListsPartition ==
    /\ \A t \in live \ BeingDeleted :
           /\ t \in list_standby <=> ~timer[t].is_running
           /\ Cardinality({i \in DOMAIN list_active : list_active[i] = t})
                  = (IF timer[t].is_running THEN 1 ELSE 0)
    /\ Range(list_active) \cup list_standby = live \ BeingDeleted
    /\ running_cnt = Len(list_active)
    /\ total_cnt = Len(list_active) + Cardinality(list_standby)

\* The active list is in the order of expiry: __timer_dispatch, which looks at the
\* first timer only (tal_sw_timer.c:137-159), overlooks none that is due.
ActiveSorted ==
    \A i, j \in DOMAIN list_active : i < j =>
        timer[list_active[i]].expire_time <= timer[list_active[j]].expire_time

Posting == {a \in Actors : call[a].at = "post"}

\* A thread that goes to sleep, or sleeps, with no token there or on its way, computed
\* its timeout for the first expiry of the list as it is now
\* (tal_sw_timer.c:143, 178): starting, triggering, stopping or deleting a timer
\* while it computes its timeout never leaves it with a stale one.
NoOversleep ==
    thr \in {"enter", "asleep"} /\ sem = 0 /\ Posting = {} /\ list_active # <<>> =>
        /\ next_expired # Forever
        /\ nowMS + next_expired = timer[Head(list_active)].expire_time

\* A due timer gets the thread into some callback, unless the calls of others see to
\* it that none is due any more.
AnyDue == \E t \in Range(list_active) : timer[t].expire_time <= now
DueIsServed == AnyDue ~> (thr = "call" \/ ~AnyDue)
=============================================================================
