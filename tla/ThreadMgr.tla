----------------------------- MODULE ThreadMgr ------------------------------
(***************************************************************************)
(* The thread manager of tal_thread.c: a record per thread, a list of the  *)
(* live ones and a list of those to delete.  A thread whose function ended *)
(* waits until its owner deletes it, announces DELETE and then frees all   *)
(* records of the list that are in that state; a starting thread does the  *)
(* same.  A thread's own record is freed last.                             *)
(*                                                                         *)
(* What happens under the manager's mutex is one step.  The owner calls    *)
(* tal_thread_delete once per thread.                                      *)
(***************************************************************************)
EXTENDS Naturals, Sequences, SequencesExt, Lists

CONSTANT Threads

VARIABLES
    record,     \* THRD_MANAGE of each thread: "none", "used" or "freed"
    sta,        \* its thrdRunSta
    at,         \* where the thread is in __WrapRunFunc
    s_all,      \* s_all_thrd_mag
    s_del,      \* s_del_thrd_mag->list
    owner,      \* what the owner does: "idle", "delete" (between its two steps)
                \* or "done"
    keeps       \* is_self: the thread is left with its own record to free

mgrVars == <<record, sta, at, s_all, s_del, owner, keeps>>

MgrInit ==
    /\ record = [t \in Threads |-> "none"]
    /\ sta = [t \in Threads |-> "EMPTY"]
    /\ at = [t \in Threads |-> "none"]
    /\ s_all = {}
    /\ s_del = <<>>
    /\ owner = [t \in Threads |-> "idle"]
    /\ keeps = [t \in Threads |-> FALSE]
-----------------------------------------------------------------------------
\* tal_thread_create_and_start
Create(t) ==
    /\ record[t] = "none"
    /\ record' = [record EXCEPT ![t] = "used"]
    /\ at' = [at EXCEPT ![t] = "start"]
    /\ s_all' = s_all \cup {t}
    /\ UNCHANGED <<sta, s_del, owner, keeps>>

\* tkl_thread_create fails: the record is unlinked and freed again.
CreateFails(t) ==
    /\ record[t] = "none"
    /\ record' = [record EXCEPT ![t] = "freed"]
    /\ UNCHANGED <<sta, at, s_all, s_del, owner, keeps>>

\* The threads in state DELETE, and their records in the list.
Deleted == {t \in Threads : sta[t] = "DELETE"}
Deletable == Keep(s_del, Deleted)

\* Mutant: the thread's own record stays in the list.
ReapsButSelf(t) ==
    /\ s_del' = Keep(s_del, (Threads \ Deleted) \cup {t})
    /\ record' = [u \in Threads |->
                     IF u # t /\ u \in Range(Deletable) THEN "freed" ELSE record[u]]
    /\ keeps' = [keeps EXCEPT ![t] = Deletable # <<>> /\ Last(Deletable) = t]

\* __free_all_del_thrd_node as thread t runs it.  All records in state DELETE leave the
\* list, the others' are freed; is_self is what it was for the last of them.
Reaps(t) ==
    /\ s_del' = Keep(s_del, Threads \ Deleted)
    /\ record' = [u \in Threads |->
                     IF u # t /\ u \in Range(Deletable) THEN "freed" ELSE record[u]]
    /\ keeps' = [keeps EXCEPT ![t] = Deletable # <<>> /\ Last(Deletable) = t]

\* __WrapRunFunc
Start(t) ==
    /\ at[t] = "start"
    /\ Reaps(t)
    /\ at' = [at EXCEPT ![t] = "enter"]
    /\ UNCHANGED <<sta, s_all, owner>>

Run(t) ==
    /\ at[t] = "enter"
    /\ sta' = [sta EXCEPT ![t] = "RUNNING"]
    /\ at' = [at EXCEPT ![t] = "run"]
    /\ UNCHANGED <<record, s_all, s_del, owner, keeps>>

\* pThrdFunc returns, of its own accord or because it sees STOP.
FuncReturns(t) ==
    /\ at[t] = "run"
    /\ at' = [at EXCEPT ![t] = "wait"]
    /\ UNCHANGED <<record, sta, s_all, s_del, owner, keeps>>

SeeStop(t) ==
    /\ at[t] = "wait"
    /\ sta[t] = "STOP"
    /\ at' = [at EXCEPT ![t] = "exit"]
    /\ UNCHANGED <<record, sta, s_all, s_del, owner, keeps>>

Exit(t) ==
    /\ at[t] = "exit"
    /\ sta' = [sta EXCEPT ![t] = "DELETE"]
    /\ at' = [at EXCEPT ![t] = "reap"]
    /\ UNCHANGED <<record, s_all, s_del, owner, keeps>>

Reap(t) ==
    /\ at[t] = "reap"
    /\ Reaps(t)
    /\ at' = [at EXCEPT ![t] = "last"]
    /\ UNCHANGED <<sta, s_all, owner>>

\* The end of __free_all_del_thrd_node
FreeSelf(t) ==
    /\ at[t] = "last"
    /\ record' = [record EXCEPT ![t] = IF keeps[t] THEN "freed" ELSE @]
    /\ at' = [at EXCEPT ![t] = "gone"]
    /\ UNCHANGED <<sta, s_all, s_del, owner, keeps>>

\* Mutant: a thread that has not begun to run can be deleted.
DeleteEmptyToo(t) ==
    /\ record[t] = "used"
    /\ owner[t] = "idle"
    /\ s_all' = s_all \ {t}
    /\ owner' = [owner EXCEPT ![t] = "delete"]
    /\ UNCHANGED <<record, sta, at, s_del, keeps>>

\* tal_thread_delete: unlinked from the live threads in one critical section ...
Delete(t) ==
    /\ record[t] = "used"
    /\ owner[t] = "idle"
    /\ sta[t] # "EMPTY"
    /\ s_all' = s_all \ {t}
    /\ owner' = [owner EXCEPT ![t] = "delete"]
    /\ UNCHANGED <<record, sta, at, s_del, keeps>>

\* Mutant: the same thread can be marked again.
DeleteMarkAgain(t) ==
    /\ owner[t] = "delete"
    /\ sta' = [sta EXCEPT ![t] = "STOP"]
    /\ s_del' = Append(s_del, t)
    /\ UNCHANGED <<record, at, s_all, owner, keeps>>

\* ... and linked to those to delete in another (__add_del_thrd_node).
DeleteMark(t) ==
    /\ owner[t] = "delete"
    /\ sta' = [sta EXCEPT ![t] = "STOP"]
    /\ s_del' = Append(s_del, t)
    /\ owner' = [owner EXCEPT ![t] = "done"]
    /\ UNCHANGED <<record, at, s_all, keeps>>
-----------------------------------------------------------------------------
ThreadStep(t) ==
    \/ Start(t) \/ Run(t) \/ FuncReturns(t) \/ SeeStop(t) \/ Exit(t) \/ Reap(t)
    \/ FreeSelf(t)

MgrNext ==
    \E t \in Threads :
        Create(t) \/ CreateFails(t) \/ ThreadStep(t) \/ Delete(t) \/ DeleteMark(t)

MgrSpec == MgrInit /\ [][MgrNext]_mgrVars

\* Threads run, thread functions return when told to stop, a begun deletion ends.
MgrFairSpec ==
    /\ MgrSpec
    /\ \A t \in Threads : WF_mgrVars(ThreadStep(t)) /\ WF_mgrVars(DeleteMark(t))
-----------------------------------------------------------------------------
MgrTypeOK ==
    /\ record \in [Threads -> {"none", "used", "freed"}]
    /\ sta \in [Threads -> {"EMPTY", "RUNNING", "STOP", "DELETE"}]
    /\ at \in [Threads -> {"none", "start", "enter", "run", "wait", "exit", "reap",
                           "last", "gone"}]
    /\ s_all \subseteq Threads
    /\ s_del \in Seq(Threads) /\ IsInjective(s_del)
    /\ owner \in [Threads -> {"idle", "delete", "done"}]
    /\ keeps \in [Threads -> BOOLEAN]

\* A record is freed only when its thread has made its last access to it: it is at the
\* clean-up at the end of __WrapRunFunc (tal_thread.c:256), or gone, or never began;
\* and no list holds a freed record.  Nor is a record freed twice: a thread that is about
\* to free its own is the only one left to do so (tal_thread.c:146-151).
FreedIsUnused ==
    \A t \in Threads :
        /\ record[t] = "freed" =>
               /\ at[t] \in {"none", "reap", "last", "gone"}
               /\ t \notin s_all \cup Range(s_del)
        /\ at[t] = "last" /\ keeps[t] =>
               record[t] = "used" /\ t \notin Range(s_del)

\* A deleted thread comes to its end.
DeletedEnds == \A t \in Threads : owner[t] = "done" ~> at[t] = "gone"
=============================================================================
