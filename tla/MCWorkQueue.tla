---------------------------- MODULE MCWorkQueue -----------------------------
(***************************************************************************)
(* WorkQueue checked against WorkSpec: what waits in the list with a       *)
(* callback, that is, as a client handed it in, are the waiting jobs, the  *)
(* item whose callback executes is the running job.                        *)
(***************************************************************************)
EXTENDS WorkQueue, Lists

CONSTANT NoJob

ASSUME NoJobAssumption == NoJob \notin Jobs

Abstract == INSTANCE WorkSpec WITH
    None <- NoJob,
    jobs <- Keep(queue, Jobs),
    running <- IF worker = "run" THEN work_item ELSE NoJob

\* Work is started in the promised order, one at a time, each accepted item at
\* most once and a cancelled one never, however the two-step schedule
\* (tal_workqueue.c:171-174) and the two-step take (57-63) interleave.
ImplementsWorkSpec == Abstract!SafeSpec
=============================================================================
