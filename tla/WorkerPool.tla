----------------------------- MODULE WorkerPool -----------------------------
(***************************************************************************)
(* What the scheduler relies on when it hands work to its vrows: a worker  *)
(* is reserved before it is given a job, holds one job at a time, and the  *)
(* job leaves it before the worker can be reserved again.                  *)
(***************************************************************************)
CONSTANTS Workers, Jobs, NoJob

VARIABLES
    worker,     \* "idle", "reserved" or "busy", per worker
    job         \* the job of a busy worker

poolVars == <<worker, job>>

PoolInit ==
    /\ worker = [w \in Workers |-> "idle"]
    /\ job = [w \in Workers |-> NoJob]

Becomes(w, from, to) == worker[w] = from /\ worker' = [worker EXCEPT ![w] = to]

Reserve(w) == Becomes(w, "idle", "reserved") /\ UNCHANGED job
Cancel(w) == Becomes(w, "reserved", "idle") /\ UNCHANGED job
Assign(w, j) == Becomes(w, "reserved", "busy") /\ job' = [job EXCEPT ![w] = j]

\* The job is over and the worker may be reserved again.
Complete(w) == Becomes(w, "busy", "idle") /\ job' = [job EXCEPT ![w] = NoJob]

\* The job is given up and the worker never comes back to the pool.
Drop(w) == Becomes(w, "busy", "reserved") /\ job' = [job EXCEPT ![w] = NoJob]

PoolStep(w) ==
    \/ Reserve(w) \/ Cancel(w)
    \/ \E j \in Jobs : Assign(w, j)
    \/ Complete(w) \/ Drop(w)

PoolNext == \E w \in Workers : PoolStep(w)

PoolSpec ==
    /\ PoolInit /\ [][PoolNext]_poolVars
    /\ \A w \in Workers : WF_poolVars(Complete(w) \/ Drop(w))
=============================================================================
