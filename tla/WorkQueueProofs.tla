-------------------------- MODULE WorkQueueProofs ---------------------------
(***************************************************************************)
(* The work queue's safety for any number of clients and any queue length, *)
(* that it implements WorkSpec, and that the manager of the threads, one   *)
(* of which is its worker, frees no record too early or twice.             *)
(***************************************************************************)
EXTENDS MCWorkQueue, ThreadMgr, ListFacts, FiniteSetTheorems, TLAPS

\* A client is either posting or not: the set of posting clients is finite.
LEMMA PostingFinite ==
    /\ IsFiniteSet(Posting)
    /\ Cardinality(Posting) \in Nat
  <1>1. Posting \in SUBSET Clients
    BY DEF Posting
  <1>2. IsFiniteSet(Posting)
    BY <1>1, ClientsFinite, FS_Subset
  <1>3. QED
    BY <1>2, FS_CardinalityType

\* The item list as cancellation leaves it is a list of items of the same length.
LEMMA CancelledList ==
    ASSUME NEW q \in Seq(Items), NEW cb, NEW data
    PROVE  LET r == [i \in 1 .. Len(q) |-> CancelItem(q[i], cb, data)]
           IN  r \in Seq(Items) /\ Len(r) = Len(q)
  <1> DEFINE r == [i \in 1 .. Len(q) |-> CancelItem(q[i], cb, data)]
  <1>1. \A i \in 1 .. Len(q) : CancelItem(q[i], cb, data) \in Items
    <2> TAKE i \in 1 .. Len(q)
    <2>1. q[i] \in Items
      OBVIOUS
    <2>2. [q[i] EXCEPT !.cb = NoCb] \in Items
      BY <2>1 DEF Items
    <2> QED
      BY <2>1, <2>2 DEF CancelItem
  <1>2. r \in [1 .. Len(q) -> Items]
    BY <1>1
  <1>3. Len(q) \in Nat
    OBVIOUS
  <1> QED
    BY <1>2, <1>3

\* Init establishes the inductive invariant.
LEMMA InitInv == Init => IInv
  <1> SUFFICES ASSUME Init PROVE IInv
    OBVIOUS
  <1> USE QueueLenPositive DEF Init
  <1>1. TypeOK
    BY DEF TypeOK, Items, Empty
  <1>2. QueueCounted
    BY DEF QueueCounted
  <1>3. Posting = {}
    BY DEF Posting
  <1>4. TokenPerItem
    BY <1>3, FS_EmptySet DEF TokenPerItem, Tokens
  <1>5. Lifecycle
    BY <1>3 DEF Lifecycle, ReleasedIsQuiet
  <1> QED
    BY <1>1, <1>2, <1>4, <1>5 DEF IInv

\* A step that leaves the clients alone leaves the posting clients alone.
LEMMA SamePosting == UNCHANGED client => Posting' = Posting
  BY DEF Posting

\* One more posting client counts one more, one less counts one less.
LEMMA PostingAdds ==
    ASSUME NEW c \in Clients, TypeOK,
           client[c] = "idle", client' = [client EXCEPT ![c] = "post"]
    PROVE  Cardinality(Posting') = Cardinality(Posting) + 1
  <1>1. Posting' = Posting \cup {c}
    BY DEF Posting, TypeOK
  <1>2. c \notin Posting
    BY DEF Posting
  <1> QED
    BY <1>1, <1>2, PostingFinite, FS_AddElement

LEMMA PostingRemoves ==
    ASSUME NEW c \in Clients, TypeOK,
           client[c] = "post", client' = [client EXCEPT ![c] = "idle"]
    PROVE  Cardinality(Posting') = Cardinality(Posting) - 1
  <1>1. Posting' = Posting \ {c}
    BY DEF Posting, TypeOK
  <1>2. c \in Posting
    BY DEF Posting
  <1> QED
    BY <1>1, <1>2, PostingFinite, FS_RemoveElement

\* Putting an item into the list, at either end, keeps the invariant.
LEMMA EnqueueInv ==
    ASSUME IInv, NEW c \in Clients, NEW q \in Seq(Items),
           Len(q) = Len(queue) + 1, Enqueue(c, q)
    PROVE  IInv'
  <1> USE DEF Enqueue, InUse
  <1>t. TypeOK /\ Len(queue) \in Nat
    BY DEF IInv, TypeOK
  <1>1. TypeOK'
    BY <1>t, QueueLenPositive DEF TypeOK
  <1>2. QueueCounted'
    BY <1>t, QueueLenPositive DEF IInv, QueueCounted, TypeOK
  <1>3. Cardinality(Posting') = Cardinality(Posting) + 1
    BY <1>t, PostingAdds
  <1>4. TokenPerItem'
    BY <1>t, <1>3, PostingFinite DEF IInv, TokenPerItem, Tokens, TypeOK
  <1>5. Lifecycle'
    BY DEF IInv, Lifecycle, ReleasedIsQuiet
  <1> QED
    BY <1>1, <1>2, <1>4, <1>5 DEF IInv

LEMMA PostInv ==
    ASSUME IInv, NEW c \in Clients, Post(c)
    PROVE  IInv'
  <1> USE DEF Post
  <1>t. TypeOK /\ Len(queue) \in Nat
    BY DEF IInv, TypeOK
  <1>0. c \in Posting
    BY DEF Posting
  <1>1. TypeOK'
    BY <1>t DEF TypeOK
  <1>2. QueueCounted'
    BY DEF IInv, QueueCounted
  <1>3. Cardinality(Posting') = Cardinality(Posting) - 1
    BY <1>t, PostingRemoves
  <1>4. TokenPerItem'
    BY <1>t, <1>3, PostingFinite DEF IInv, TokenPerItem, Tokens, TypeOK, InUse
  <1>5. Lifecycle'
    BY <1>0 DEF IInv, Lifecycle, ReleasedIsQuiet, InUse
  <1> QED
    BY <1>1, <1>2, <1>4, <1>5 DEF IInv

LEMMA CancelInv ==
    ASSUME IInv, NEW c \in Clients, NEW cb, NEW data, Cancel(c, cb, data)
    PROVE  IInv'
  <1> USE DEF Cancel, InUse
  <1>t. TypeOK /\ queue \in Seq(Items)
    BY DEF IInv, TypeOK
  <1>l. queue' \in Seq(Items) /\ Len(queue') = Len(queue)
    BY <1>t, CancelledList
  <1>p. Posting' = Posting
    BY SamePosting
  <1>1. TypeOK'
    BY <1>t, <1>l DEF TypeOK
  <1>2. QueueCounted'
    BY <1>l DEF IInv, QueueCounted
  <1>4. TokenPerItem'
    BY <1>l, <1>p DEF IInv, TokenPerItem, Tokens
  <1>5. Lifecycle'
    BY <1>p DEF IInv, Lifecycle, ReleasedIsQuiet
  <1> QED
    BY <1>1, <1>2, <1>4, <1>5 DEF IInv

\* The worker's steps: taking the token and taking the item move one from the
\* semaphore to the worker's hand and out of the list.
LEMMA WorkerInv ==
    ASSUME IInv, WorkerStep
    PROVE  IInv'
  <1>t. TypeOK /\ Len(queue) \in Nat /\ queue \in Seq(Items)
    BY DEF IInv, TypeOK
  <1>p. Posting' = Posting
    BY SamePosting DEF WorkerStep, WorkerStart, WorkerCheck, WorkerWait,
       WorkerOutput, WorkerNothing, WorkerDone, WorkerExit, WorkerReap
  <1>c. Cardinality(Posting) \in Nat
    BY PostingFinite
  <1> USE DEF InUse
  <1>1. CASE WorkerStart \/ WorkerCheck \/ WorkerDone \/ WorkerExit \/ WorkerReap
    <2> USE DEF WorkerStart, WorkerCheck, WorkerDone, WorkerExit, WorkerReap
    <2>1. TypeOK'
      BY <1>1, <1>t DEF TypeOK
    <2>2. QueueCounted'
      BY <1>1 DEF IInv, QueueCounted
    <2>3. TokenPerItem'
      BY <1>1, <1>t, <1>p, <1>c DEF IInv, TokenPerItem, Tokens, TypeOK
    <2>4. Lifecycle'
      BY <1>1, <1>p, <1>t DEF IInv, Lifecycle, ReleasedIsQuiet, TypeOK
    <2> QED
      BY <2>1, <2>2, <2>3, <2>4 DEF IInv
  <1>2. CASE WorkerWait
    <2> USE DEF WorkerWait
    <2>1. TypeOK'
      BY <1>2, <1>t DEF TypeOK
    <2>2. QueueCounted'
      BY <1>2 DEF IInv, QueueCounted
    <2>3. TokenPerItem'
      BY <1>2, <1>t, <1>p, <1>c DEF IInv, TokenPerItem, Tokens, TypeOK
    <2>4. Lifecycle'
      BY <1>2, <1>p DEF IInv, Lifecycle, ReleasedIsQuiet
    <2> QED
      BY <2>1, <2>2, <2>3, <2>4 DEF IInv
  <1>3. CASE WorkerOutput
    <2> USE DEF WorkerOutput
    <2>0. queue # <<>>
      BY <1>3, <1>t, QueueLenPositive DEF IInv, QueueCounted, TypeOK
    <2>h. /\ Head(queue) \in Items
          /\ Tail(queue) \in Seq(Items)
          /\ Len(Tail(queue)) = Len(queue) - 1
      BY <2>0, <1>t
    <2>1. TypeOK'
      BY <1>3, <1>t, <2>h, QueueLenPositive DEF TypeOK
    <2>2. QueueCounted'
      BY <1>3, <1>t, <2>h, QueueLenPositive DEF IInv, QueueCounted, TypeOK
    <2>3. TokenPerItem'
      BY <1>3, <1>t, <1>p, <1>c, <2>h DEF IInv, TokenPerItem, Tokens, TypeOK
    <2>4. Lifecycle'
      BY <1>3, <1>p DEF IInv, Lifecycle, ReleasedIsQuiet
    <2> QED
      BY <2>1, <2>2, <2>3, <2>4 DEF IInv
  <1>4. CASE WorkerNothing
    <2> USE DEF WorkerNothing
    <2>0. Len(queue) = 0
      BY <1>4, <1>t, QueueLenPositive DEF IInv, QueueCounted, TypeOK
    <2>1. TypeOK'
      BY <1>4, <1>t DEF TypeOK
    <2>2. QueueCounted'
      BY <1>4 DEF IInv, QueueCounted
    <2>3. TokenPerItem'
      BY <1>4, <1>t, <1>p, <1>c, <2>0 DEF IInv, TokenPerItem, Tokens, TypeOK
    <2>4. Lifecycle'
      BY <1>4, <1>p DEF IInv, Lifecycle, ReleasedIsQuiet
    <2> QED
      BY <2>1, <2>2, <2>3, <2>4 DEF IInv
  <1> QED
    BY <1>1, <1>2, <1>3, <1>4 DEF WorkerStep

\* The release: it begins when no client owes a post, adds one token, and frees
\* the list only when the worker has left its loop.
LEMMA ReleaseInv ==
    ASSUME IInv, ReleaseStep
    PROVE  IInv'
  <1>t. TypeOK /\ Len(queue) \in Nat
    BY DEF IInv, TypeOK
  <1>p. Posting' = Posting
    BY SamePosting DEF ReleaseStep, ReleaseRefused, ReleaseStop, ReleasePost,
       ReleaseFree, ReleasePollAgain, ReleaseSleep
  <1>c. Cardinality(Posting) \in Nat
    BY PostingFinite
  <1> USE DEF InUse
  <1>1. CASE ReleaseRefused \/ ReleaseStop
    <2> USE DEF ReleaseRefused, ReleaseStop
    <2>0. Posting = {}
      BY <1>1 DEF Posting
    <2>1. TypeOK'
      BY <1>1, <1>t DEF TypeOK
    <2>2. QueueCounted'
      BY <1>1 DEF IInv, QueueCounted
    <2>3. TokenPerItem'
      BY <1>1, <1>t, <1>p, <1>c DEF IInv, TokenPerItem, Tokens, TypeOK
    <2>4. Lifecycle'
      BY <1>1, <1>p, <2>0 DEF IInv, Lifecycle, ReleasedIsQuiet
    <2> QED
      BY <2>1, <2>2, <2>3, <2>4 DEF IInv
  <1>2. CASE ReleasePost
    <2> USE DEF ReleasePost
    <2>1. TypeOK'
      BY <1>2, <1>t DEF TypeOK
    <2>2. QueueCounted'
      BY <1>2 DEF IInv, QueueCounted
    <2>3. TokenPerItem'
      BY <1>2, <1>t, <1>p, <1>c DEF IInv, TokenPerItem, Tokens, TypeOK
    <2>4. Lifecycle'
      BY <1>2, <1>p DEF IInv, Lifecycle, ReleasedIsQuiet
    <2> QED
      BY <2>1, <2>2, <2>3, <2>4 DEF IInv
  <1>4. CASE ReleasePollAgain
    <2> USE DEF ReleasePollAgain
    <2>1. TypeOK'
      BY <1>4, <1>t DEF TypeOK
    <2>2. QueueCounted'
      BY <1>4 DEF IInv, QueueCounted
    <2>3. TokenPerItem'
      BY <1>4, <1>t, <1>p, <1>c DEF IInv, TokenPerItem, Tokens, TypeOK
    <2>4. Lifecycle'
      BY <1>4, <1>p DEF IInv, Lifecycle, ReleasedIsQuiet
    <2> QED
      BY <2>1, <2>2, <2>3, <2>4 DEF IInv
  <1>5. CASE ReleaseSleep
    <2> USE DEF ReleaseSleep
    <2>1. TypeOK'
      BY <1>5, <1>t DEF TypeOK
    <2>2. QueueCounted'
      BY <1>5 DEF IInv, QueueCounted
    <2>3. TokenPerItem'
      BY <1>5, <1>t, <1>p, <1>c DEF IInv, TokenPerItem, Tokens, TypeOK
    <2>4. Lifecycle'
      BY <1>5, <1>p DEF IInv, Lifecycle, ReleasedIsQuiet
    <2> QED
      BY <2>1, <2>2, <2>3, <2>4 DEF IInv
  <1>3. CASE ReleaseFree
    <2> USE DEF ReleaseFree, PollReads
    <2>0. worker \in {"reap", "gone"}
      BY <1>3 DEF IInv, Lifecycle
    <2>1. TypeOK'
      BY <1>3, <1>t, QueueLenPositive DEF TypeOK
    <2>2. QueueCounted'
      BY <1>3, QueueLenPositive DEF QueueCounted
    <2>3. TokenPerItem'
      BY <1>3 DEF TokenPerItem
    <2>4. Lifecycle'
      BY <1>3, <1>p, <2>0 DEF IInv, Lifecycle, ReleasedIsQuiet
    <2> QED
      BY <2>1, <2>2, <2>3, <2>4 DEF IInv
  <1> QED
    BY <1>1, <1>2, <1>3, <1>4, <1>5 DEF ReleaseStep

\* Every step keeps the inductive invariant.
LEMMA NextInv == IInv /\ [Next]_vars => IInv'
  <1> SUFFICES ASSUME IInv, [Next]_vars PROVE IInv'
    OBVIOUS
  <1>1. ASSUME NEW c \in Clients, ClientStep(c) PROVE IInv'
    <2>t. queue \in Seq(Items) /\ Jobs \subseteq Items
      BY DEF IInv, TypeOK, Jobs, Items
    <2>1. ASSUME NEW job \in Jobs, Schedule(c, job) PROVE IInv'
      <3>1. Append(queue, job) \in Seq(Items) /\ Len(Append(queue, job)) = Len(queue) + 1
        BY <2>t
      <3> QED
        BY <2>1, <3>1, EnqueueInv DEF Schedule
    <2>2. ASSUME NEW job \in Jobs, ScheduleInstant(c, job) PROVE IInv'
      <3>1. <<job>> \in Seq(Items) /\ Len(<<job>>) = 1
        BY <2>t
      <3>2. <<job>> \o queue \in Seq(Items) /\ Len(<<job>> \o queue) = Len(queue) + 1
        BY <2>t, <3>1
      <3> QED
        BY <2>2, <3>2, EnqueueInv DEF ScheduleInstant
    <2> QED
      BY <1>1, <2>1, <2>2, CancelInv, PostInv DEF ClientStep
  <1>2. CASE UNCHANGED vars
    BY <1>2, SamePosting DEF vars, IInv, TypeOK, QueueCounted, TokenPerItem,
       Tokens, Lifecycle, ReleasedIsQuiet, InUse
  <1> QED
    BY <1>1, <1>2, WorkerInv, ReleaseInv DEF Next

\* The inductive invariant holds throughout.
THEOREM Invariance == Spec => []IInv
  BY InitInv, NextInv, PTL DEF Spec

\* Every variable keeps to its type; in particular the list's free count never
\* leaves 0 .. QueueLen (tuya_queue.c:60-80).
THEOREM TypeCorrect == Spec => []TypeOK
  <1>1. IInv => TypeOK
    BY DEF IInv
  <1> QED
    BY <1>1, Invariance, PTL

\* For any clients and any length there is exactly one semaphore token per list
\* item while the queue is in use (tal_workqueue.c:57-63, 171-174).
THEOREM TokensPaired == Spec => []TokenPerItem
  <1>1. IInv => TokenPerItem
    BY DEF IInv
  <1> QED
    BY <1>1, Invariance, PTL

\* The worker never sleeps beside an item nobody will post for.
THEOREM WakeupsKept == Spec => []NoLostWakeup
  <1>1. IInv => NoLostWakeup
    <2> SUFFICES ASSUME IInv, worker = "wait", sem = 0, Posting = {},
                        releaser # "released"
                 PROVE  queue = <<>>
      BY DEF NoLostWakeup
    <2>t. queue \in Seq(Items) /\ Len(queue) \in Nat /\ releaser \in {"none", "failed", "post", "poll", "sleep", "released"}
      BY DEF IInv, TypeOK
    <2>1. Tokens = 0
      BY FS_EmptySet DEF Tokens
    <2>2. Len(queue) = 0
      BY <2>1, <2>t DEF IInv, TokenPerItem, InUse
    <2> QED
      BY <2>2, <2>t
  <1> QED
    BY <1>1, Invariance, PTL

\* A token in the worker's hand finds an item, except for release's wake-up.
THEOREM TokensRedeemed == Spec => []TokenFindsItem
  <1>1. IInv => TokenFindsItem
    <2> SUFFICES ASSUME IInv, worker = "output", queue = <<>>
                 PROVE  releaser \in {"poll", "sleep"}
      BY DEF TokenFindsItem
    <2>t. sem \in Nat /\ releaser \in {"none", "failed", "post", "poll", "sleep", "released"}
      BY DEF IInv, TypeOK
    <2>1. Tokens # 0
      BY <2>t, PostingFinite DEF Tokens
    <2> QED
      BY <2>1, <2>t DEF IInv, TokenPerItem, InUse, Lifecycle, ReleasedIsQuiet
  <1> QED
    BY <1>1, Invariance, PTL

\* No post of a client exceeds the maximum the semaphore was created with
\* (tal_workqueue.c:131).
THEOREM SemBounded == Spec => []SemWithinMax
  <1>1. IInv => SemWithinMax
    <2> SUFFICES ASSUME IInv, releaser \in {"none", "failed", "post"}
                 PROVE  sem + Cardinality(Posting) <= QueueLen
      BY DEF SemWithinMax
    <2>t. sem \in Nat /\ Len(queue) \in Nat /\ queue_free \in Nat
      BY QueueLenPositive DEF IInv, TypeOK
    <2>1. Tokens = Len(queue)
      BY DEF IInv, TokenPerItem, InUse
    <2>2. Len(queue) <= QueueLen
      BY <2>t, QueueLenPositive DEF IInv, QueueCounted
    <2> QED
      BY <2>1, <2>2, <2>t, PostingFinite, QueueLenPositive DEF Tokens
  <1> QED
    BY <1>1, Invariance, PTL

\* Release frees nothing the worker still uses (tal_workqueue.c:297-306).
THEOREM QuietRelease == Spec => []ReleasedIsQuiet
  <1>1. IInv => ReleasedIsQuiet
    BY DEF IInv, Lifecycle
  <1> QED
    BY <1>1, Invariance, PTL
-----------------------------------------------------------------------------
(* The work queue implements WorkSpec.                                     *)

\* What is in the list as a client handed it in is what still has its callback.
LEMMA JobsAreLive ==
    /\ Jobs \subseteq Items
    /\ \A item \in Items : item \in Jobs <=> item.cb # NoCb
  BY NullsDistinct DEF Jobs, Items

\* The worker only ever executes the callback of a job.
RunsJob == worker = "run" => work_item \in Jobs

LEMMA RunsJobInv == IInv /\ RunsJob /\ [Next]_vars => RunsJob'
  <1> SUFFICES ASSUME IInv, RunsJob, [Next]_vars
               PROVE  RunsJob'
    OBVIOUS
  <1>1. CASE WorkerOutput
    <2>1. queue \in Seq(Items) /\ queue # <<>>
      BY <1>1, QueueLenPositive DEF IInv, TypeOK, QueueCounted, WorkerOutput
    <2>2. Head(queue) \in Items
      BY <2>1
    <2> QED
      BY <1>1, <2>2, JobsAreLive DEF WorkerOutput, RunsJob
  <1>2. CASE ~WorkerOutput
    BY <1>2 DEF RunsJob, Next, vars, ClientStep, Schedule, ScheduleInstant, Enqueue, Cancel,
       Post, WorkerStep, WorkerStart, WorkerCheck, WorkerWait, WorkerNothing, WorkerDone,
       WorkerExit, WorkerReap, ReleaseStep, ReleaseRefused, ReleaseStop, ReleasePost,
       ReleaseFree, ReleasePollAgain, ReleaseSleep
  <1> QED
    BY <1>1, <1>2

\* The list as a cancellation leaves it.
Cancelled(q, cb, data) == [i \in 1 .. Len(q) |-> CancelItem(q[i], cb, data)]

\* The cancelled items leave the abstract queue, and nothing else does.
LEMMA CancelDrops ==
    ASSUME NEW q \in Seq(Items), NEW cb, NEW data
    PROVE  \E S \in SUBSET Jobs :
               Keep(Cancelled(q, cb, data), Jobs) = Keep(Keep(q, Jobs), Jobs \ S)
  <1> DEFINE r == [i \in 1 .. Len(q) |-> CancelItem(q[i], cb, data)]
             S == {j \in Jobs : Matches(j, cb, data)}
  <1>0. r \in Seq(Items) /\ Len(r) = Len(q)
    BY CancelledList
  <1>1. ASSUME NEW n \in 1 .. Len(q)
        PROVE  IF q[n] \in Jobs \ S THEN r[n] = q[n] /\ r[n] \in Jobs ELSE r[n] \notin Jobs
    <2>1. q[n] \in Items /\ r[n] = CancelItem(q[n], cb, data)
      OBVIOUS
    <2>2. CASE Matches(q[n], cb, data)
      <3>1. r[n] = [q[n] EXCEPT !.cb = NoCb] /\ r[n] \in Items
        BY <1>0, <2>1, <2>2 DEF CancelItem, Items
      <3>2. r[n].cb = NoCb
        BY <2>1, <3>1 DEF Items
      <3> HIDE DEF r
      <3> QED
        BY <2>2, <3>1, <3>2, JobsAreLive
    <2>3. CASE ~Matches(q[n], cb, data)
      BY <2>1, <2>3, JobsAreLive DEF CancelItem
    <2> QED
      BY <2>2, <2>3
  <1> HIDE DEF r, S
  <1>2. Keep(r, Jobs) = Keep(q, Jobs \ S)
    BY <1>0, <1>1, KeepOfMarked
  <1>3. Keep(Keep(q, Jobs), Jobs \ S) = Keep(q, Jobs \cap (Jobs \ S))
    BY KeepTwice
  <1>4. Jobs \cap (Jobs \ S) = Jobs \ S /\ S \in SUBSET Jobs
    BY DEF S
  <1> QED
    BY <1>2, <1>3, <1>4 DEF r, Cancelled

\* WorkSpec drops jobs by the same walk.
LEMMA SameKeep ==
    ASSUME NEW s, NEW S
    PROVE  Abstract!Keep(s, S) = Keep(s, S)
  BY DEF Abstract!Keep, Keep

\* Every step of the work queue is a step of WorkSpec, or changes nothing of it.
LEMMA StepImplements ==
    ASSUME IInv, RunsJob, [Next]_vars
    PROVE  [Abstract!SpecNext]_(Abstract!specVars)
  <1> DEFINE jobs == Keep(queue, Jobs)
             running == IF worker = "run" THEN work_item ELSE NoJob
  <1>0. queue \in Seq(Items) /\ jobs \in Seq(Items)
    BY KeepProperties DEF IInv, TypeOK
  <1>u. ASSUME UNCHANGED jobs, UNCHANGED running
        PROVE  UNCHANGED Abstract!specVars
    BY <1>u DEF Abstract!specVars
  <1>1. ASSUME NEW c \in Clients, NEW job \in Jobs, Schedule(c, job)
        PROVE  Abstract!SpecNext
    <2>1. jobs' = Append(jobs, job)
      BY <1>0, <1>1, JobsAreLive, KeepOfAppend DEF Schedule, Enqueue
    <2>2. UNCHANGED running
      BY <1>1 DEF Schedule, Enqueue
    <2>3. Abstract!Accept(job)
      BY <2>1, <2>2 DEF Abstract!Accept
    <2> QED
      BY <2>3 DEF Abstract!SpecNext
  <1>2. ASSUME NEW c \in Clients, NEW job \in Jobs, ScheduleInstant(c, job)
        PROVE  Abstract!SpecNext
    <2>1. jobs' = <<job>> \o jobs
      BY <1>0, <1>2, JobsAreLive, KeepOfCons DEF ScheduleInstant, Enqueue
    <2>2. UNCHANGED running
      BY <1>2 DEF ScheduleInstant, Enqueue
    <2>3. Abstract!AcceptInstant(job)
      BY <2>1, <2>2 DEF Abstract!AcceptInstant
    <2> QED
      BY <2>3 DEF Abstract!SpecNext
  <1>3. ASSUME NEW c \in Clients, NEW cb, NEW data, Cancel(c, cb, data)
        PROVE  Abstract!SpecNext
    <2>0. queue' = Cancelled(queue, cb, data)
      BY <1>3 DEF Cancel, Cancelled
    <2>1. PICK S \in SUBSET Jobs : jobs' = Keep(jobs, Jobs \ S)
      BY <1>0, <2>0, CancelDrops
    <2>2. UNCHANGED running
      BY <1>3 DEF Cancel
    <2>3. Abstract!Cancel(S)
      BY <2>1, <2>2, SameKeep DEF Abstract!Cancel
    <2> QED
      BY <2>3 DEF Abstract!SpecNext
  <1>4. CASE WorkerOutput
    <2>1. queue # <<>>
      BY <1>0, <1>4, QueueLenPositive DEF IInv, TypeOK, QueueCounted, WorkerOutput
    <2> DEFINE h == Head(queue)
               t == Tail(queue)
    <2>2. h \in Items /\ t \in Seq(Items) /\ queue = <<h>> \o t
      BY <1>0, <2>1
    <2>3. queue' = t /\ work_item' = h /\ worker' = IF h.cb # NoCb THEN "run" ELSE "check"
      BY <1>4 DEF WorkerOutput
    <2> HIDE DEF h, t
    <2>4. jobs = IF h \in Jobs THEN <<h>> \o Keep(t, Jobs) ELSE Keep(t, Jobs)
      BY <2>2, KeepOfCons
    <2>5. jobs' = Keep(t, Jobs) /\ Keep(t, Jobs) \in Seq(Items)
      BY <2>2, <2>3, KeepProperties
    <2>6. running = NoJob
      BY <1>4 DEF WorkerOutput
    <2>7. CASE h \in Jobs
      <3>1. h.cb # NoCb /\ running' = h
        BY <2>2, <2>3, <2>7, JobsAreLive
      <3>2. jobs # <<>> /\ Head(jobs) = h /\ Tail(jobs) = Keep(t, Jobs)
        BY <2>2, <2>4, <2>5, <2>7
      <3>3. Abstract!Start
        BY <2>5, <2>6, <3>1, <3>2 DEF Abstract!Start
      <3> QED
        BY <3>3 DEF Abstract!SpecNext
    <2>8. CASE h \notin Jobs
      <3>1. running' = NoJob
        BY <2>2, <2>3, <2>8, JobsAreLive
      <3> QED
        BY <1>u, <2>4, <2>5, <2>6, <2>8, <3>1
    <2> QED
      BY <2>7, <2>8
  <1>5. CASE WorkerDone
    <2>1. running = work_item /\ running # NoJob /\ running' = NoJob /\ UNCHANGED jobs
      BY <1>5, NoJobAssumption DEF WorkerDone, RunsJob
    <2>2. Abstract!Finish
      BY <2>1 DEF Abstract!Finish
    <2> QED
      BY <2>2 DEF Abstract!SpecNext
  <1>6. CASE ReleaseFree
    <2>1. worker \in {"reap", "gone"}
      BY <1>6 DEF IInv, Lifecycle, ReleaseFree, PollReads
    <2>2. running = NoJob /\ UNCHANGED running
      BY <1>6, <2>1 DEF ReleaseFree
    <2>3. jobs' = <<>>
      BY <1>6, KeepOfEmpty DEF ReleaseFree
    <2>4. Abstract!Discard
      BY <2>2, <2>3 DEF Abstract!Discard
    <2> QED
      BY <2>4 DEF Abstract!SpecNext
  <1>7. CASE \/ \E c \in Clients : Post(c)
             \/ WorkerStart \/ WorkerCheck \/ WorkerWait \/ WorkerNothing \/ WorkerExit
             \/ WorkerReap \/ ReleaseRefused \/ ReleaseStop \/ ReleasePost
             \/ ReleasePollAgain \/ ReleaseSleep \/ UNCHANGED vars
    <2>1. UNCHANGED queue /\ UNCHANGED running
      BY <1>7 DEF Post, WorkerStart, WorkerCheck, WorkerWait, WorkerNothing, WorkerExit,
         WorkerReap, ReleaseRefused, ReleaseStop, ReleasePost, ReleasePollAgain,
         ReleaseSleep, vars
    <2> QED
      BY <1>u, <2>1
  <1> QED
    BY <1>1, <1>2, <1>3, <1>4, <1>5, <1>6, <1>7 DEF Next, ClientStep, WorkerStep, ReleaseStep

\* The work queue implements WorkSpec: for any clients, callbacks and length the accepted
\* jobs are started one at a time, in the promised order, each at most once, and a
\* cancelled one never (tal_workqueue.c:57-75, 77-98, 171-174, 218-227).
THEOREM QueueImplementsSpec == Spec => ImplementsWorkSpec
  <1>1. Init => Abstract!SpecInit /\ RunsJob
    BY KeepOfEmpty DEF Init, Abstract!SpecInit, RunsJob
  <1>2. Spec => [](IInv /\ RunsJob)
    BY <1>1, InitInv, NextInv, RunsJobInv, PTL DEF Spec
  <1> QED
    BY <1>1, <1>2, StepImplements, PTL DEF Spec, ImplementsWorkSpec, Abstract!SafeSpec
-----------------------------------------------------------------------------
(* The manager of the threads (ThreadMgr), one of which is the worker's.   *)

\* How a thread's place, its state, its owner and its record hang together.
Stage(t) ==
    /\ sta[t] = "EMPTY" <=> at[t] \in {"none", "start", "enter"}
    /\ sta[t] = "RUNNING" => at[t] \in {"run", "wait"}
    /\ sta[t] = "STOP" => at[t] \in {"run", "wait", "exit"}
    /\ sta[t] = "DELETE" => at[t] \in {"reap", "last", "gone"}
    /\ owner[t] = "idle" => sta[t] \in {"EMPTY", "RUNNING"}
    /\ owner[t] = "delete" => sta[t] = "RUNNING"
    /\ owner[t] = "done" => sta[t] \in {"STOP", "DELETE"}
    /\ record[t] = "none" => at[t] = "none"
    /\ record[t] = "freed" => at[t] \in {"none", "reap", "last", "gone"}
    /\ at[t] = "last" /\ keeps[t] => record[t] = "used"

\* A list holds only records in use: the live threads' until their owner deletes them,
\* those to delete until their thread, or another, takes them out for good.
Linked(t) ==
    /\ t \in s_all => record[t] = "used" /\ owner[t] = "idle"
    /\ t \in Range(s_del) =>
           owner[t] = "done" /\ record[t] = "used" /\ at[t] \notin {"last", "gone"}

MInv == MgrTypeOK /\ \A t \in Threads : Stage(t) /\ Linked(t)

LEMMA ManagerInit == MgrInit => MInv
  <1> SUFFICES ASSUME MgrInit PROVE MInv
    OBVIOUS
  <1>1. s_del \in Seq(Threads) /\ DOMAIN s_del = {}
    BY DEF MgrInit
  <1>2. IsInjective(s_del) /\ Range(s_del) = {}
    BY <1>1 DEF IsInjective, Range
  <1> QED
    BY <1>1, <1>2 DEF MgrInit, MInv, MgrTypeOK, Stage, Linked

\* The steps that leave the list of those to delete alone.
LEMMA MgrQuiet ==
    ASSUME MInv, NEW t \in Threads, UNCHANGED s_del,
           \/ Create(t) \/ CreateFails(t) \/ Run(t) \/ FuncReturns(t)
           \/ SeeStop(t) \/ Exit(t) \/ FreeSelf(t) \/ Delete(t)
    PROVE  MInv'
  <1> USE DEF MInv, MgrTypeOK, Stage, Linked
  <1>0. UNCHANGED Range(s_del) /\ UNCHANGED IsInjective(s_del)
    OBVIOUS
  <1>1. CASE Create(t)
    BY <1>0, <1>1 DEF Create
  <1>2. CASE CreateFails(t)
    BY <1>0, <1>2 DEF CreateFails
  <1>3. CASE Run(t)
    BY <1>0, <1>3 DEF Run
  <1>4. CASE FuncReturns(t)
    BY <1>0, <1>4 DEF FuncReturns
  <1>5. CASE SeeStop(t)
    BY <1>0, <1>5 DEF SeeStop
  <1>6. CASE Exit(t)
    BY <1>0, <1>6 DEF Exit
  <1>7. CASE FreeSelf(t)
    BY <1>0, <1>7 DEF FreeSelf
  <1>8. CASE Delete(t)
    BY <1>0, <1>8 DEF Delete
  <1> QED
    BY <1>1, <1>2, <1>3, <1>4, <1>5, <1>6, <1>7, <1>8

\* A record is linked to those to delete once.
LEMMA MgrMark ==
    ASSUME MInv, NEW t \in Threads, DeleteMark(t)
    PROVE  MInv'
  <1>0. s_del \in Seq(Threads) /\ IsInjective(s_del) /\ owner[t] = "delete"
    BY DEF MInv, MgrTypeOK, DeleteMark
  <1>1. t \notin Range(s_del)
    BY <1>0 DEF MInv, Linked
  <1> DEFINE v == Append(s_del, t)
  <1>2. /\ v \in Seq(Threads) /\ Len(s_del) \in Nat
        /\ DOMAIN s_del = 1 .. Len(s_del) /\ DOMAIN v = 1 .. Len(s_del) + 1
        /\ v[Len(s_del) + 1] = t /\ \A i \in 1 .. Len(s_del) : v[i] = s_del[i]
    BY <1>0
  <1>3. s_del' = v
    BY DEF DeleteMark
  <1> HIDE DEF v
  <1>4. \A i \in 1 .. Len(s_del) + 1 : i \in 1 .. Len(s_del) \/ i = Len(s_del) + 1
    BY <1>2
  <1>5. Len(s_del) + 1 \in 1 .. Len(s_del) + 1 /\ \A i \in 1 .. Len(s_del) : i \in 1 .. Len(s_del) + 1
    BY <1>2
  <1>6. Range(v) = Range(s_del) \cup {t}
    BY <1>2, <1>4, <1>5 DEF Range
  <1>7. IsInjective(v)
    <2>1. \A i \in 1 .. Len(s_del) : s_del[i] # t
      BY <1>1, <1>2 DEF Range
    <2>2. \A i, j \in 1 .. Len(s_del) : s_del[i] = s_del[j] => i = j
      BY <1>0, <1>2 DEF IsInjective
    <2>3. \A i, j \in 1 .. Len(s_del) + 1 : v[i] = v[j] => i = j
      BY <1>2, <1>4, <2>1, <2>2
    <2> QED
      BY <1>2, <2>3 DEF IsInjective
  <1>8. /\ s_del' \in Seq(Threads) /\ IsInjective(s_del')
        /\ Range(s_del)' = Range(s_del) \cup {t}
    BY <1>2, <1>3, <1>6, <1>7
  <1>9. MgrTypeOK'
    BY <1>8 DEF MInv, MgrTypeOK, DeleteMark
  <1>10. \A u \in Threads : Stage(u)'
    BY DEF MInv, MgrTypeOK, DeleteMark, Stage
  <1>11. \A u \in Threads : Linked(u)'
    BY <1>8 DEF MInv, MgrTypeOK, DeleteMark, Stage, Linked
  <1> QED
    BY <1>9, <1>10, <1>11 DEF MInv

\* A thread frees the records of the others that have announced DELETE; its own is left
\* for it to free.
LEMMA MgrReap ==
    ASSUME MInv, NEW t \in Threads, Start(t) \/ Reap(t)
    PROVE  MInv'
  <1> DEFINE D == Deleted
             gone == Keep(s_del, D)
             left == Keep(s_del, Threads \ D)
  <1>0. s_del \in Seq(Threads) /\ IsInjective(s_del)
    BY DEF MInv, MgrTypeOK
  <1>1. /\ gone \in Seq(Threads) /\ Range(gone) = Range(s_del) \cap D
        /\ left \in Seq(Threads) /\ Range(left) = Range(s_del) \cap (Threads \ D)
        /\ IsInjective(left)
    BY <1>0, KeepProperties
  <1>2. D = {u \in Threads : sta[u] = "DELETE"}
    BY DEF Deleted
  <1>3. /\ s_del' = left
        /\ record' = [u \in Threads |-> IF u # t /\ u \in Range(gone) THEN "freed" ELSE record[u]]
        /\ keeps' = [keeps EXCEPT ![t] = gone # <<>> /\ Last(gone) = t]
        /\ UNCHANGED <<sta, s_all, owner>>
        /\ \/ at[t] = "start" /\ at' = [at EXCEPT ![t] = "enter"]
           \/ at[t] = "reap" /\ at' = [at EXCEPT ![t] = "last"]
    BY DEF Start, Reap, Reaps, Deletable
  <1>4. gone # <<>> /\ Last(gone) = t => t \in Range(s_del) \cap D
    <2>1. gone # <<>> => Last(gone) \in Range(gone)
      BY <1>1 DEF Last, Range
    <2> QED
      BY <1>1, <2>1
  <1> HIDE DEF D, gone, left
  <1>5. /\ s_del' \in Seq(Threads) /\ IsInjective(s_del')
        /\ Range(s_del)' = Range(s_del) \ D
    <2>1. Range(s_del) \subseteq Threads
      BY <1>0 DEF Range
    <2> QED
      BY <1>1, <1>3, <2>1
  <1>6. MgrTypeOK'
    BY <1>3, <1>5 DEF MInv, MgrTypeOK
  <1>7. ASSUME NEW u \in Threads
        PROVE  Stage(u)' /\ Linked(u)'
    <2>0. Stage(u) /\ Linked(u) /\ MgrTypeOK /\ (u \in D <=> sta[u] = "DELETE")
      BY <1>2 DEF MInv
    <2>1. CASE u = t
      BY <1>1, <1>3, <1>4, <1>5, <2>0, <2>1 DEF Stage, Linked, MgrTypeOK
    <2>2. CASE u # t
      BY <1>1, <1>3, <1>5, <2>0, <2>2 DEF Stage, Linked, MgrTypeOK
    <2> QED
      BY <2>1, <2>2
  <1> QED
    BY <1>6, <1>7 DEF MInv

LEMMA ManagerNext == MInv /\ [MgrNext]_mgrVars => MInv'
  <1> SUFFICES ASSUME MInv, [MgrNext]_mgrVars
               PROVE  MInv'
    OBVIOUS
  <1>1. CASE UNCHANGED mgrVars
    <2>1. UNCHANGED Range(s_del) /\ UNCHANGED IsInjective(s_del)
      BY <1>1 DEF mgrVars
    <2> QED
      BY <1>1, <2>1 DEF mgrVars, MInv, MgrTypeOK, Stage, Linked
  <1>2. ASSUME NEW t \in Threads, \/ Create(t) \/ CreateFails(t) \/ ThreadStep(t)
                                \/ Delete(t) \/ DeleteMark(t)
        PROVE  MInv'
    <2>1. CASE Start(t) \/ Reap(t)
      BY <2>1, MgrReap
    <2>2. CASE DeleteMark(t)
      BY <2>2, MgrMark
    <2>3. CASE \/ Create(t) \/ CreateFails(t) \/ Run(t) \/ FuncReturns(t)
               \/ SeeStop(t) \/ Exit(t) \/ FreeSelf(t) \/ Delete(t)
      <3>1. UNCHANGED s_del
        BY <2>3 DEF Create, CreateFails, Run, FuncReturns, SeeStop,
           Exit, FreeSelf, Delete
      <3> QED
        BY <2>3, <3>1, MgrQuiet
    <2> QED
      BY <1>2, <2>1, <2>2, <2>3 DEF ThreadStep
  <1> QED
    BY <1>1, <1>2 DEF MgrNext

LEMMA ManagerInductive == MgrSpec => []MInv
  BY ManagerInit, ManagerNext, PTL DEF MgrSpec

\* For any threads every variable of the manager keeps to its type, and no record is
\* linked twice to those to delete.
THEOREM ManagerTypeCorrect == MgrSpec => []MgrTypeOK
  <1>1. MInv => MgrTypeOK
    BY DEF MInv
  <1> QED
    BY <1>1, ManagerInductive, PTL

\* For any threads no record is freed while its thread still uses it or a list holds it,
\* and none is freed twice (tal_thread.c:112-152, 222-257).
THEOREM RecordsFreedUnused == MgrSpec => []FreedIsUnused
  <1>1. MInv => FreedIsUnused
    <2> SUFFICES ASSUME MInv, NEW t \in Threads
                 PROVE  /\ record[t] = "freed" =>
                               /\ at[t] \in {"none", "reap", "last", "gone"}
                               /\ t \notin s_all \cup Range(s_del)
                        /\ at[t] = "last" /\ keeps[t] =>
                               record[t] = "used" /\ t \notin Range(s_del)
      BY DEF FreedIsUnused
    <2> QED
      BY DEF MInv, Stage, Linked
  <1> QED
    BY <1>1, ManagerInductive, PTL
=============================================================================
