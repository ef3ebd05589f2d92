---------------------------- MODULE MCWorkerPool ----------------------------
(* Instances of WorkerPool for TLC. *)
EXTENDS WorkerPool, TLC

CONSTANTS j1, j2, j3, j4, j5

\* Jobs j1 and j2 each submit another one, as a failed fetch does.
Refetching == (j1 :> j4) @@ (j2 :> j5) @@ (j3 :> NoJob) @@ (j4 :> NoJob) @@ (j5 :> NoJob)

\* Only j1 does: a worker is always left to execute what it submits.
OneRefetch == (j1 :> j4) @@ (j2 :> NoJob) @@ (j3 :> NoJob) @@ (j4 :> NoJob)
=============================================================================
