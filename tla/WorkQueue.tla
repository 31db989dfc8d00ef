----------------------------- MODULE WorkQueue ------------------------------
(***************************************************************************)
(* The work queue of tal_workqueue.c: a bounded list (tuya_queue.c) that   *)
(* any thread fills, a counting semaphore, and one worker thread that      *)
(* takes a semaphore token, then an item, then calls it.                   *)
(*                                                                         *)
(* Every list operation holds the list's mutex and is one step.  Putting   *)
(* an item in and posting the semaphore are two steps, as are taking a     *)
(* token and taking an item, and that is where threads interleave.         *)
(* Allocation failures return an error before any state changes and are    *)
(* left out.  The worker's life (tal_thread.c) is kept to its states; the  *)
(* module ThreadMgr models the rest.                                       *)
(***************************************************************************)
EXTENDS Naturals, Sequences, FiniteSets

CONSTANTS Clients,   \* threads that schedule and cancel work
          Cbs,       \* callbacks
          Datas,     \* callback arguments
          NoCb,      \* the NULL callback: a cancelled item, or none given
          NoData,    \* the NULL argument
          QueueLen   \* tal_workqueue_create's queue_len

ASSUME ClientsFinite == IsFiniteSet(Clients)
ASSUME QueueLenPositive == QueueLen \in Nat \ {0}
ASSUME NullsDistinct == NoCb \notin Cbs /\ NoData \notin Datas

\* A WORK_ITEM_T a client hands in, and one in the list, maybe cancelled.
Jobs == [cb : Cbs, data : Datas \cup {NoData}]
Items == [cb : Cbs \cup {NoCb}, data : Datas \cup {NoData}]

VARIABLES
    queue,        \* TUYA_QUEUE_T.head: the items, first to leave first
    queue_free,   \* TUYA_QUEUE_T.queue_free
    sem,          \* the semaphore's count
    client,       \* client c is "idle", or has put an item and must "post"
    worker,       \* where __WrapRunFunc / __work_thread_cb is
    work_item,    \* the worker's copy of the item it took
    thrdRunSta,   \* THRD_MANAGE.thrdRunSta of the worker, "FREED" once freed
    releaser      \* where tal_workqueue_release is

vars == <<queue, queue_free, sem, client, worker, work_item, thrdRunSta,
          releaser>>

Empty == [cb |-> NoCb, data |-> NoData]

Init ==
    /\ queue = <<>>
    /\ queue_free = QueueLen
    /\ sem = 0
    /\ client = [c \in Clients |-> "idle"]
    /\ worker = "start"
    /\ work_item = Empty
    /\ thrdRunSta = "EMPTY"
    /\ releaser = "none"
-----------------------------------------------------------------------------
(* The clients.  A queue whose handle the owner withdrew, because it is    *)
(* being released, gets no further calls.                                  *)

InUse == releaser = "none"

\* Mutant: the check for a free slot is forgotten.
EnqueueUnchecked(c, newQueue) ==
    /\ InUse
    /\ client[c] = "idle"
    /\ queue' = newQueue
    /\ queue_free' = queue_free - 1
    /\ client' = [client EXCEPT ![c] = "post"]
    /\ UNCHANGED <<sem, worker, work_item, thrdRunSta, releaser>>

\* __enqueue under the mutex: a full list refuses the item.
Enqueue(c, newQueue) ==
    /\ InUse
    /\ client[c] = "idle"
    /\ queue_free > 0
    /\ queue' = newQueue
    /\ queue_free' = queue_free - 1
    /\ client' = [client EXCEPT ![c] = "post"]
    /\ UNCHANGED <<sem, worker, work_item, thrdRunSta, releaser>>

Schedule(c, job) == Enqueue(c, Append(queue, job))

\* Mutant: the instant variant posts once by itself and once in its caller.
ScheduleInstantPosted(c, job) ==
    /\ InUse
    /\ client[c] = "idle"
    /\ queue_free > 0
    /\ queue' = <<job>> \o queue
    /\ queue_free' = queue_free - 1
    /\ sem' = sem + 1
    /\ client' = [client EXCEPT ![c] = "post"]
    /\ UNCHANGED <<worker, work_item, thrdRunSta, releaser>>

ScheduleInstant(c, job) == Enqueue(c, <<job>> \o queue)

\* Mutant: the semaphore is binary.
PostBinary(c) ==
    /\ client[c] = "post"
    /\ sem' = 1
    /\ client' = [client EXCEPT ![c] = "idle"]
    /\ UNCHANGED <<queue, queue_free, worker, work_item, thrdRunSta, releaser>>

\* tal_semaphore_post after a successful tuya_queue_input
Post(c) ==
    /\ client[c] = "post"
    /\ sem' = sem + 1
    /\ client' = [client EXCEPT ![c] = "idle"]
    /\ UNCHANGED <<queue, queue_free, worker, work_item, thrdRunSta, releaser>>

\* __work_cancel_traverse's match: either field, if given, suffices.
Matches(item, cb, data) ==
    \/ cb # NoCb /\ item.cb = cb
    \/ data # NoData /\ item.data = data

\* The item stays in the list, with no callback to call.
CancelItem(item, cb, data) ==
    IF Matches(item, cb, data) THEN [item EXCEPT !.cb = NoCb] ELSE item

Cancel(c, cb, data) ==
    /\ InUse
    /\ client[c] = "idle"
    /\ cb # NoCb \/ data # NoData
    /\ queue' = [i \in 1 .. Len(queue) |-> CancelItem(queue[i], cb, data)]
    /\ UNCHANGED <<queue_free, sem, client, worker, work_item, thrdRunSta,
                   releaser>>
-----------------------------------------------------------------------------
(* The worker thread.                                                      *)

WorkerStart ==
    /\ worker = "start"
    /\ thrdRunSta' = "RUNNING"
    /\ worker' = "check"
    /\ UNCHANGED <<queue, queue_free, sem, client, work_item, releaser>>

\* while (THREAD_STATE_RUNNING == tal_thread_get_state(workqueue->thread))
WorkerCheck ==
    /\ worker = "check"
    /\ worker' = IF thrdRunSta = "RUNNING" THEN "wait" ELSE "exit"
    /\ UNCHANGED <<queue, queue_free, sem, client, work_item, thrdRunSta,
                   releaser>>

\* tal_semaphore_wait(workqueue->sem, SEM_WAIT_FOREVER)
WorkerWait ==
    /\ worker = "wait"
    /\ sem > 0
    /\ sem' = sem - 1
    /\ worker' = "output"
    /\ UNCHANGED <<queue, queue_free, client, work_item, thrdRunSta, releaser>>

\* Mutant: the worker takes the newest item.
WorkerOutputLast ==
    /\ worker = "output"
    /\ queue_free < QueueLen
    /\ work_item' = queue[Len(queue)]
    /\ queue' = SubSeq(queue, 1, Len(queue) - 1)
    /\ queue_free' = queue_free + 1
    /\ worker' = IF queue[Len(queue)].cb # NoCb THEN "run" ELSE "check"
    /\ UNCHANGED <<sem, client, thrdRunSta, releaser>>

\* tuya_queue_output; an item with a callback is called, a cancelled one is
\* skipped.
WorkerOutput ==
    /\ worker = "output"
    /\ queue_free < QueueLen
    /\ work_item' = Head(queue)
    /\ queue' = Tail(queue)
    /\ queue_free' = queue_free + 1
    /\ worker' = IF Head(queue).cb # NoCb THEN "run" ELSE "check"
    /\ UNCHANGED <<sem, client, thrdRunSta, releaser>>

\* tuya_queue_output answers OPRT_NOT_FOUND: sleep and start over.
WorkerNothing ==
    /\ worker = "output"
    /\ queue_free = QueueLen
    /\ worker' = "check"
    /\ UNCHANGED <<queue, queue_free, sem, client, work_item, thrdRunSta,
                   releaser>>

\* work_item.cb(work_item.data) returns.
WorkerDone ==
    /\ worker = "run"
    /\ worker' = "check"
    /\ UNCHANGED <<queue, queue_free, sem, client, work_item, thrdRunSta,
                   releaser>>

\* The tail of __WrapRunFunc: wait for STOP, announce DELETE ...
WorkerExit ==
    /\ worker = "exit"
    /\ thrdRunSta = "STOP"
    /\ thrdRunSta' = "DELETE"
    /\ worker' = "reap"
    /\ UNCHANGED <<queue, queue_free, sem, client, work_item, releaser>>

\* ... and free the thread's own record.
WorkerReap ==
    /\ worker = "reap"
    /\ thrdRunSta' = "FREED"
    /\ worker' = "gone"
    /\ UNCHANGED <<queue, queue_free, sem, client, work_item, releaser>>
-----------------------------------------------------------------------------
(* tal_workqueue_release.                                                  *)

\* tal_thread_delete refuses a thread that has not started: nothing is freed.
ReleaseRefused ==
    /\ InUse
    /\ \A c \in Clients : client[c] = "idle"
    /\ thrdRunSta = "EMPTY"
    /\ releaser' = "failed"
    /\ UNCHANGED <<queue, queue_free, sem, client, worker, work_item,
                   thrdRunSta>>

ReleaseStop ==
    /\ InUse
    /\ \A c \in Clients : client[c] = "idle"
    /\ thrdRunSta # "EMPTY"
    /\ thrdRunSta' = "STOP"
    /\ releaser' = "post"
    /\ UNCHANGED <<queue, queue_free, sem, client, worker, work_item>>

ReleasePost ==
    /\ releaser = "post"
    /\ sem' = sem + 1
    /\ releaser' = "poll"
    /\ UNCHANGED <<queue, queue_free, client, worker, work_item, thrdRunSta>>

\* What tal_thread_get_state may answer: the state, or, from a freed record,
\* whatever the memory holds now.
PollReads(state) == thrdRunSta \in {state, "FREED"}

\* Mutant: release does not wait for the worker.
ReleaseFreeAtOnce ==
    /\ releaser = "poll"
    /\ queue' = <<>>
    /\ queue_free' = QueueLen
    /\ releaser' = "released"
    /\ UNCHANGED <<sem, client, worker, work_item, thrdRunSta>>

\* The loop sees DELETE: the list, the semaphore and the queue are freed.
ReleaseFree ==
    /\ releaser = "poll"
    /\ PollReads("DELETE")
    /\ queue' = <<>>
    /\ queue_free' = QueueLen
    /\ releaser' = "released"
    /\ UNCHANGED <<sem, client, worker, work_item, thrdRunSta>>

\* The loop sees anything else and sleeps ...
ReleasePollAgain ==
    /\ releaser = "poll"
    /\ \E state \in {"STOP", "anything else"} : PollReads(state)
    /\ releaser' = "sleep"
    /\ UNCHANGED <<queue, queue_free, sem, client, worker, work_item,
                   thrdRunSta>>

\* ... for 10 ms.
ReleaseSleep ==
    /\ releaser = "sleep"
    /\ releaser' = "poll"
    /\ UNCHANGED <<queue, queue_free, sem, client, worker, work_item,
                   thrdRunSta>>
-----------------------------------------------------------------------------
ClientStep(c) ==
    \/ \E job \in Jobs : Schedule(c, job) \/ ScheduleInstant(c, job)
    \/ \E cb \in Cbs \cup {NoCb}, data \in Datas \cup {NoData} :
           Cancel(c, cb, data)
    \/ Post(c)

WorkerStep ==
    \/ WorkerStart \/ WorkerCheck \/ WorkerWait \/ WorkerOutput
    \/ WorkerNothing \/ WorkerDone \/ WorkerExit \/ WorkerReap

ReleaseStep ==
    \/ ReleaseRefused \/ ReleaseStop \/ ReleasePost \/ ReleaseFree
    \/ ReleasePollAgain \/ ReleaseSleep

\* A release that was begun goes on; beginning one is the owner's choice.
ReleaseGoesOn == ReleasePost \/ ReleaseFree \/ ReleasePollAgain \/ ReleaseSleep

Next ==
    \/ \E c \in Clients : ClientStep(c)
    \/ WorkerStep
    \/ ReleaseStep

\* The scheduler runs every thread: a client that put an item goes on to post,
\* the worker takes its steps (callbacks return), a begun release goes on.
Fairness ==
    /\ \A c \in Clients : WF_vars(Post(c))
    /\ WF_vars(WorkerStep)
    /\ WF_vars(ReleaseGoesOn)

Spec == Init /\ [][Next]_vars

FairSpec == Spec /\ Fairness
-----------------------------------------------------------------------------
TypeOK ==
    /\ queue \in Seq(Items)
    /\ queue_free \in 0 .. QueueLen
    /\ sem \in Nat
    /\ client \in [Clients -> {"idle", "post"}]
    /\ worker \in {"start", "check", "wait", "output", "run", "exit", "reap",
                   "gone"}
    /\ work_item \in Items
    /\ thrdRunSta \in {"EMPTY", "RUNNING", "STOP", "DELETE", "FREED"}
    /\ releaser \in {"none", "failed", "post", "poll", "sleep",
                     "released"}
-----------------------------------------------------------------------------
(* Semaphore tokens and list items.                                        *)

Posting == {c \in Clients : client[c] = "post"}

\* Tokens that are in the semaphore, owed to it, or in the worker's hand.
Tokens == sem + Cardinality(Posting) + (IF worker = "output" THEN 1 ELSE 0)

\* The list's own counter agrees with the list, whatever cancellations and
\* instant insertions went before.
QueueCounted == queue_free + Len(queue) = QueueLen

\* There is one token for every item; the release adds the one that wakes the
\* worker up to see that it must stop.
TokenPerItem ==
    /\ InUse \/ releaser \in {"failed", "post"} => Tokens = Len(queue)
    /\ releaser \in {"poll", "sleep"} => Tokens \in {Len(queue), Len(queue) + 1}

\* The worker never sleeps on the semaphore (tal_workqueue.c:57) beside an item
\* nobody is going to post for.
NoLostWakeup ==
    worker = "wait" /\ sem = 0 /\ Posting = {} /\ releaser # "released"
        => queue = <<>>

\* The worker that took a token finds an item (tal_workqueue.c:63-67): its
\* error path, which sleeps and throws the token away, belongs to release only.
TokenFindsItem ==
    worker = "output" /\ queue = <<>> => releaser \in {"poll", "sleep"}

\* The semaphore is created with the maximum queue_len (tal_workqueue.c:131).
\* Until release adds its own wake-up, a post never exceeds it, so that a port
\* that enforces the maximum loses no wake-up.
SemWithinMax ==
    releaser \in {"none", "failed", "post"} => sem + Cardinality(Posting) <= QueueLen

\* Once release has freed the list and the semaphore (tal_workqueue.c:304-306)
\* the worker is past its loop and touches neither.
ReleasedIsQuiet == releaser = "released" => worker \in {"reap", "gone"}

\* How the worker's place, its thread's state and the release hang together.
Lifecycle ==
    /\ worker = "start" <=> thrdRunSta = "EMPTY"
    /\ worker = "reap" <=> thrdRunSta = "DELETE"
    /\ worker = "gone" <=> thrdRunSta = "FREED"
    /\ worker = "exit" => thrdRunSta = "STOP"
    /\ thrdRunSta \in {"STOP", "DELETE", "FREED"}
           => releaser \in {"post", "poll", "sleep", "released"}
    /\ ~InUse => Posting = {}
    /\ ReleasedIsQuiet

\* The inductive invariant.
IInv == TypeOK /\ QueueCounted /\ TokenPerItem /\ Lifecycle

\* A list that holds items is served: sooner or later the worker, whatever it
\* does now, comes to take one, unless the queue is being released.
Served == queue # <<>> ~> (worker = "output" \/ ~InUse)
=============================================================================
