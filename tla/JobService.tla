----------------------------- MODULE JobService -----------------------------
(***************************************************************************)
(* What the clients of a worker pool rely on, without dispatcher, workers  *)
(* or channels: a job is accepted only while the service is open, is       *)
(* executed at most once and only if it was accepted, and once Stop has    *)
(* returned no job is executing or will be.  (An accepted job may be       *)
(* executed never: whether that happens is a liveness question.)           *)
(***************************************************************************)
CONSTANT Jobs
VARIABLES st, open, stopped

Init ==
  /\ st = [j \in Jobs |-> "new"]
  /\ open = TRUE
  /\ stopped = FALSE

Step(j, from, to) == st[j] = from /\ st' = [st EXCEPT ![j] = to]

Accept(j) == open /\ Step(j, "new", "accepted") /\ UNCHANGED <<open, stopped>>
Refuse(j) == ~open /\ Step(j, "new", "refused") /\ UNCHANGED <<open, stopped>>
Run(j) == ~stopped /\ Step(j, "accepted", "running") /\ UNCHANGED <<open, stopped>>
Complete(j) == ~stopped /\ Step(j, "running", "done") /\ UNCHANGED <<open, stopped>>

Close == open /\ open' = FALSE /\ UNCHANGED <<st, stopped>>

StopReturns ==
  /\ ~open /\ ~stopped
  /\ \A j \in Jobs : st[j] # "running"
  /\ stopped' = TRUE
  /\ UNCHANGED <<st, open>>

Next ==
  \/ \E j \in Jobs : Accept(j) \/ Refuse(j) \/ Run(j) \/ Complete(j)
  \/ Close \/ StopReturns

Spec == Init /\ [][Next]_<<st, open, stopped>>
=============================================================================
