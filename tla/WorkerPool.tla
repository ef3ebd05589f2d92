----------------------------- MODULE WorkerPool -----------------------------
(***************************************************************************)
(* The goroutine pool of src/ndn/utils/workerpool.go.  A dispatcher (run)  *)
(* pairs the channel of an idle worker with the next job; workers register *)
(* their channel, then wait for a job or for quit; Submit and Stop are     *)
(* called by any goroutine, Submit also by a job that is being executed.   *)
(* Each action is one channel operation, one critical section or one other *)
(* step that another goroutine can observe.                                *)
(***************************************************************************)
EXTENDS Naturals, Sequences, FiniteSets, Functions

CONSTANTS
  Workers,      \* the workers of the pool
  Jobs,         \* the jobs its clients submit
  NoJob,        \* no job (nil)
  Child,        \* Child[j]: the job that j submits while it executes, or NoJob
  EarlyStop,    \* may Stop be called before every worker has started?
  CallStop      \* is Stop called at all?

ASSUME PoolAssumption ==
  /\ IsFiniteSet(Workers)
  /\ NoJob \notin Jobs
  /\ Child \in [Jobs -> Jobs \cup {NoJob}]
  /\ EarlyStop \in BOOLEAN
  /\ CallStop \in BOOLEAN

VARIABLES
  workerCh,     \* workerPool.workerCh: channels of the registered workers
  workerClosed, \* workerCh is closed
  jobCh,        \* workerPool.jobCh, capacity 1: the job it holds, or NoJob
  jobClosed,    \* jobCh is closed
  wjobCh,       \* Worker.jobCh of each worker, capacity 1, likewise
  quit,         \* the workers whose quit channel is closed
  running,      \* Worker.running of each worker
  mutex,        \* workerPool.mutex: the job whose Submit holds it, or NoJob
  closed,       \* workerPool.closed
  wg,           \* workerPool.wg
  dpc, dwch, djob, \* run: its place, and its variables wch and job
  wpc, wjob,    \* work: the place of each worker, and its variable job
  spc,          \* Stop: the place of the one caller that found it open
  tostop,       \* Stop: the workers it has yet to stop
  jst,          \* each job: the outcome of its Submit and of its Execute
  killed        \* the jobs whose Kill was called

chans == <<workerCh, workerClosed, jobCh, jobClosed, wjobCh, quit>>
dvars == <<dpc, dwch, djob>>
wvars == <<wpc, wjob, running, wg>>
svars == <<spc, tostop, killed>>
vars == <<chans, dvars, wvars, svars, mutex, closed, jst>>

Parents(k) == { j \in Jobs : Child[j] = k }

-----------------------------------------------------------------------------
\* NewWorkerPool
Init ==
  /\ workerCh = <<>> /\ workerClosed = FALSE
  /\ jobCh = NoJob /\ jobClosed = FALSE
  /\ wjobCh = [w \in Workers |-> NoJob]
  /\ quit = {}
  /\ running = [w \in Workers |-> NoJob]
  /\ mutex = NoJob /\ closed = FALSE /\ wg = 0
  /\ dpc = "spawn" /\ dwch = {} /\ djob = NoJob
  /\ wpc = [w \in Workers |-> "unborn"] /\ wjob = [w \in Workers |-> NoJob]
  /\ spc = "idle" /\ tostop = {}
  /\ jst = [j \in Jobs |-> "new"] /\ killed = {}

-----------------------------------------------------------------------------
(* workerPool.run *)

\* The loop that starts the workers: go w.work(c)
Spawn ==
  /\ dpc = "spawn"
  /\ \/ \E w \in Workers :
          /\ wpc[w] = "unborn"
          /\ wpc' = [wpc EXCEPT ![w] = "spawned"]
          /\ UNCHANGED dpc
     \/ /\ \A w \in Workers : wpc[w] # "unborn"
        /\ dpc' = "worker"
        /\ UNCHANGED wpc
  /\ UNCHANGED <<chans, dwch, djob, wjob, running, wg, svars, mutex, closed, jst>>

\* Mutant: the channel of the worker stays in the queue
takeWorkerPeek ==
  /\ dpc = "worker"
  /\ \/ /\ workerCh # <<>>
        /\ dwch' = {Head(workerCh)} /\ workerCh' = workerCh
        /\ dpc' = "job"
     \/ /\ workerCh = <<>> /\ workerClosed
        /\ dpc' = "done"
        /\ UNCHANGED <<dwch, workerCh>>
  /\ UNCHANGED <<workerClosed, jobCh, jobClosed, wjobCh, quit, djob, wvars,
                 svars, mutex, closed, jst>>

\* for wch := range wp.workerCh
TakeWorker ==
  /\ dpc = "worker"
  /\ \/ /\ workerCh # <<>>
        /\ dwch' = {Head(workerCh)} /\ workerCh' = Tail(workerCh)
        /\ dpc' = "job"
     \/ /\ workerCh = <<>> /\ workerClosed
        /\ dpc' = "done"
        /\ UNCHANGED <<dwch, workerCh>>
  /\ UNCHANGED <<workerClosed, jobCh, jobClosed, wjobCh, quit, djob, wvars,
                 svars, mutex, closed, jst>>

\* job, ok := <-wp.jobCh; a closed channel still delivers what it holds
TakeJob ==
  /\ dpc = "job"
  /\ \/ /\ jobCh # NoJob
        /\ djob' = jobCh /\ jobCh' = NoJob
        /\ dpc' = "send"
     \/ /\ jobCh = NoJob /\ jobClosed
        /\ dpc' = "done"
        /\ UNCHANGED <<djob, jobCh>>
  /\ UNCHANGED <<workerCh, workerClosed, jobClosed, wjobCh, quit, dwch, wvars,
                 svars, mutex, closed, jst>>

\* wch <- job
SendJob ==
  /\ dpc = "send"
  /\ \E w \in dwch :
       /\ wjobCh[w] = NoJob
       /\ wjobCh' = [wjobCh EXCEPT ![w] = djob]
  /\ dpc' = "worker" /\ dwch' = {} /\ djob' = NoJob
  /\ UNCHANGED <<workerCh, workerClosed, jobCh, jobClosed, quit, wvars, svars,
                 mutex, closed, jst>>

-----------------------------------------------------------------------------
(* Worker.work *)

\* w.wg.Add(1), inside the goroutine
Begin(w) ==
  /\ wpc[w] = "spawned"
  /\ wg' = wg + 1
  /\ wpc' = [wpc EXCEPT ![w] = "register"]
  /\ UNCHANGED <<chans, dvars, wjob, running, svars, mutex, closed, jst>>

\* c <- w.jobCh; a send on the closed channel panics
Register(w) ==
  /\ wpc[w] = "register"
  /\ workerClosed \/ Len(workerCh) < Cardinality(Workers)
  /\ workerCh' = IF workerClosed THEN workerCh ELSE Append(workerCh, w)
  /\ wpc' = [wpc EXCEPT ![w] = IF workerClosed THEN "panic" ELSE "select"]
  /\ UNCHANGED <<workerClosed, jobCh, jobClosed, wjobCh, quit, dvars, wjob,
                 running, wg, svars, mutex, closed, jst>>

\* Mutant: the job stays in the worker's channel
receivePeek(w) ==
  /\ wpc[w] = "select" /\ wjobCh[w] # NoJob
  /\ wjob' = [wjob EXCEPT ![w] = wjobCh[w]]
  /\ UNCHANGED wjobCh
  /\ wpc' = [wpc EXCEPT ![w] = "received"]
  /\ UNCHANGED <<workerCh, workerClosed, jobCh, jobClosed, quit, dvars, running,
                 wg, svars, mutex, closed, jst>>

\* case job := <-w.jobCh
Receive(w) ==
  /\ wpc[w] = "select" /\ wjobCh[w] # NoJob
  /\ wjob' = [wjob EXCEPT ![w] = wjobCh[w]]
  /\ wjobCh' = [wjobCh EXCEPT ![w] = NoJob]
  /\ wpc' = [wpc EXCEPT ![w] = "received"]
  /\ UNCHANGED <<workerCh, workerClosed, jobCh, jobClosed, quit, dvars, running,
                 wg, svars, mutex, closed, jst>>

\* w.setRunningJob(job) and the start of job.Execute()
Execute(w) ==
  /\ wpc[w] = "received"
  /\ running' = [running EXCEPT ![w] = wjob[w]]
  /\ jst' = [jst EXCEPT ![wjob[w]] = "running"]
  /\ wpc' = [wpc EXCEPT ![w] = "execute"]
  /\ UNCHANGED <<chans, dvars, wjob, wg, svars, mutex, closed>>

\* Mutant: the worker ends after its first job
finishExits(w) ==
  /\ wpc[w] = "execute"
  /\ Child[wjob[w]] # NoJob => jst[Child[wjob[w]]] \notin {"new", "sending"}
  /\ jst' = [jst EXCEPT ![wjob[w]] = "done"]
  /\ running' = [running EXCEPT ![w] = NoJob]
  /\ wjob' = [wjob EXCEPT ![w] = NoJob]
  /\ wpc' = [wpc EXCEPT ![w] = "exited"]
  /\ UNCHANGED <<chans, dvars, wg, svars, mutex, closed>>

\* job.Execute() returns, after the Submit it makes has; w.setRunningJob(nil)
Finish(w) ==
  /\ wpc[w] = "execute"
  /\ Child[wjob[w]] # NoJob => jst[Child[wjob[w]]] \notin {"new", "sending"}
  /\ jst' = [jst EXCEPT ![wjob[w]] = "done"]
  /\ running' = [running EXCEPT ![w] = NoJob]
  /\ wjob' = [wjob EXCEPT ![w] = NoJob]
  /\ wpc' = [wpc EXCEPT ![w] = "register"]
  /\ UNCHANGED <<chans, dvars, wg, svars, mutex, closed>>

\* case <-w.quit: break LOOP; w.wg.Done()
Quit(w) ==
  /\ wpc[w] = "select" /\ w \in quit
  /\ wg' = wg - 1
  /\ wpc' = [wpc EXCEPT ![w] = "exited"]
  /\ UNCHANGED <<chans, dvars, wjob, running, svars, mutex, closed, jst>>
-----------------------------------------------------------------------------
(* workerPool.Submit, called by a client or by a job that is being executed *)

Callable(j) ==
  Parents(j) = {} \/ \E w \in Workers : wpc[w] = "execute" /\ wjob[w] \in Parents(j)

\* Lock, and the test of closed
SubmitLock(j) ==
  /\ jst[j] = "new" /\ Callable(j)
  /\ mutex = NoJob
  /\ \/ /\ closed
        /\ jst' = [jst EXCEPT ![j] = "refused"]
        /\ UNCHANGED mutex
     \/ /\ ~closed
        /\ jst' = [jst EXCEPT ![j] = "sending"]
        /\ mutex' = j
  /\ UNCHANGED <<chans, dvars, wvars, svars, closed>>

\* wp.jobCh <- job, with the mutex held; Unlock.  A send on the closed channel
\* would panic.
SubmitSend(j) ==
  /\ jst[j] = "sending"
  /\ jobCh # NoJob => jobClosed
  /\ jobCh' = IF jobClosed THEN jobCh ELSE j
  /\ jst' = [jst EXCEPT ![j] = IF jobClosed THEN "panic" ELSE "queued"]
  /\ mutex' = NoJob
  /\ UNCHANGED <<workerCh, workerClosed, jobClosed, wjobCh, quit, dvars, wvars,
                 svars, closed>>

-----------------------------------------------------------------------------
(* workerPool.Stop *)

StopCall ==
  /\ CallStop /\ spc = "idle"
  /\ EarlyStop \/ \A w \in Workers : wpc[w] \notin {"unborn", "spawned"}
  /\ mutex = NoJob
  /\ closed' = TRUE
  /\ spc' = "closejob"
  /\ UNCHANGED <<chans, dvars, wvars, tostop, killed, mutex, jst>>

\* close(wp.jobCh)
StopCloseJob ==
  /\ spc = "closejob"
  /\ jobClosed' = TRUE
  /\ tostop' = Workers
  /\ spc' = "stop"
  /\ UNCHANGED <<workerCh, workerClosed, jobCh, wjobCh, quit, dvars, wvars,
                 killed, mutex, closed, jst>>

\* Mutant: a worker is killed but not told to quit
stopNoQuit(w) ==
  /\ spc = "stop" /\ w \in tostop
  /\ killed' = killed \cup ({running[w]} \ {NoJob})
  /\ quit' = quit
  /\ tostop' = tostop \ {w}
  /\ UNCHANGED <<workerCh, workerClosed, jobCh, jobClosed, wjobCh, dvars, wvars,
                 spc, mutex, closed, jst>>

\* w.stop(): kill the running job, close(w.quit)
StopWorker(w) ==
  /\ spc = "stop" /\ w \in tostop
  /\ killed' = killed \cup ({running[w]} \ {NoJob})
  /\ quit' = quit \cup {w}
  /\ tostop' = tostop \ {w}
  /\ UNCHANGED <<workerCh, workerClosed, jobCh, jobClosed, wjobCh, dvars, wvars,
                 spc, mutex, closed, jst>>

\* Mutant: Stop does not wait for the workers
stopNoWait ==
  /\ spc = "stop" /\ tostop = {}
  /\ spc' = "closeworker"
  /\ UNCHANGED <<chans, dvars, wvars, tostop, killed, mutex, closed, jst>>

\* wp.wg.Wait()
StopWait ==
  /\ spc = "stop" /\ tostop = {}
  /\ wg = 0
  /\ spc' = "closeworker"
  /\ UNCHANGED <<chans, dvars, wvars, tostop, killed, mutex, closed, jst>>

\* close(wp.workerCh)
StopCloseWorker ==
  /\ spc = "closeworker"
  /\ workerClosed' = TRUE
  /\ spc' = "done"
  /\ UNCHANGED <<workerCh, jobCh, jobClosed, wjobCh, quit, dvars, wvars, tostop,
                 killed, mutex, closed, jst>>

-----------------------------------------------------------------------------
Dispatcher == Spawn \/ TakeWorker \/ TakeJob \/ SendJob
Worker(w) ==
  Begin(w) \/ Register(w) \/ Receive(w) \/ Execute(w) \/ Finish(w) \/ Quit(w)
Submit(j) == SubmitLock(j) \/ SubmitSend(j)
Stop ==
  \/ StopCall \/ StopCloseJob \/ StopWait \/ StopCloseWorker
  \/ \E w \in Workers : StopWorker(w)

Next ==
  \/ Dispatcher
  \/ \E w \in Workers : Worker(w)
  \/ \E j \in Jobs : Submit(j)
  \/ Stop

Spec == Init /\ [][Next]_vars

\* The Go scheduler runs every goroutine that can go on, and the jobs of this
\* program end by themselves (their interests time out).  That a client calls
\* Submit, or anybody Stop, is not assumed; a call that has begun goes on.
Fairness ==
  /\ WF_vars(Dispatcher)
  /\ \A w \in Workers : WF_vars(Worker(w))
  /\ \A j \in Jobs : WF_vars(SubmitSend(j))
  /\ \A j \in Jobs : Parents(j) # {} => WF_vars(SubmitLock(j))
  /\ WF_vars(spc # "idle" /\ Stop)

FairSpec == Spec /\ Fairness

-----------------------------------------------------------------------------
\* Types, channel capacities included.
TypeOK ==
  /\ workerCh \in Seq(Workers) /\ workerClosed \in BOOLEAN
  /\ jobCh \in Jobs \cup {NoJob} /\ jobClosed \in BOOLEAN
  /\ wjobCh \in [Workers -> Jobs \cup {NoJob}]
  /\ quit \subseteq Workers
  /\ running \in [Workers -> Jobs \cup {NoJob}]
  /\ mutex \in Jobs \cup {NoJob}
  /\ closed \in BOOLEAN
  /\ wg \in 0 .. Cardinality(Workers)
  /\ dpc \in {"spawn", "worker", "job", "send", "done"}
  /\ dwch \subseteq Workers /\ djob \in Jobs \cup {NoJob}
  /\ wpc \in [Workers -> {"unborn", "spawned", "register", "select", "received",
                          "execute", "exited", "panic"}]
  /\ wjob \in [Workers -> Jobs \cup {NoJob}]
  /\ spc \in {"idle", "closejob", "stop", "closeworker", "done"}
  /\ tostop \subseteq Workers
  /\ jst \in [Jobs -> {"new", "sending", "queued", "refused", "running", "done",
                       "panic"}]
  /\ killed \subseteq Jobs

\* "c <- w.jobCh //never blocked" (workerpool.go:152): when a worker comes to
\* register there is room in workerCh, however jobs, Stop and the exits of
\* other workers interleave.
RegisterNeverBlocks ==
  \A w \in Workers :
    wpc[w] = "register" /\ ~workerClosed => Len(workerCh) < Cardinality(Workers)

\* wch <- job never blocks the dispatcher, even if the worker has quit.
DispatchNeverBlocks == dpc = "send" => \A w \in dwch : wjobCh[w] = NoJob

\* "never blocked", for both sides of the hand-over of a worker's channel: the
\* worker that registers (workerpool.go:152) and the dispatcher (workerpool.go:95).
NeverBlocked == RegisterNeverBlocks /\ DispatchNeverBlocks

\* Where the channel of a worker can be: in workerCh, with the dispatcher, or
\* (the worker being busy, starting or about to register) nowhere.  Together
\* with the next four definitions this is inductive.
Registration ==
  /\ IsInjective(workerCh)
  /\ dwch \cap Range(workerCh) = {}
  /\ \A v, w \in dwch : v = w
  /\ dpc \in {"spawn", "worker"} => dwch = {}
  /\ \A w \in Workers :
       /\ wpc[w] \notin {"select", "exited"} =>
            w \notin Range(workerCh) \cup dwch /\ wjobCh[w] = NoJob
       /\ w \in Range(workerCh) \cup dwch => wjobCh[w] = NoJob

\* The job the dispatcher is about to hand over is a job.
DispatchesJob == djob # NoJob <=> dpc = "send"

\* A job that is waiting somewhere is one that Submit has accepted and nobody
\* has executed, and a job executes exactly while a worker is busy with it.
JobStates ==
  /\ jobCh # NoJob => jst[jobCh] = "queued"
  /\ djob # NoJob => jst[djob] = "queued"
  /\ \A w \in Workers :
       /\ wjobCh[w] # NoJob => jst[wjobCh[w]] = "queued"
       /\ wjob[w] # NoJob <=> wpc[w] \in {"received", "execute"}
       /\ wpc[w] = "received" => jst[wjob[w]] = "queued"
       /\ wpc[w] = "execute" => jst[wjob[w]] = "running"

\* An accepted job is in at most one place: jobCh, the dispatcher, the channel
\* of one worker, or that worker.
JobPlaces ==
  /\ jobCh # NoJob => jobCh # djob
  /\ \A w \in Workers :
       /\ wjobCh[w] # NoJob => wjobCh[w] \notin {jobCh, djob}
       /\ wjob[w] # NoJob => wjob[w] \notin {jobCh, djob}
  /\ \A v, w \in Workers :
       /\ wjobCh[v] # NoJob => wjobCh[v] # wjob[w]
       /\ wjobCh[v] # NoJob /\ wjobCh[v] = wjobCh[w] => v = w
       /\ wjob[v] # NoJob /\ wjob[v] = wjob[w] => v = w

\* A job that is marked as running has a worker.
RunningHasWorker ==
  \A j \in Jobs : jst[j] = "running" =>
    \E w \in Workers : wpc[w] = "execute" /\ wjob[w] = j

\* closed changes only while nobody is inside Submit, and before jobCh closes.
SubmitLocking ==
  /\ \A j \in Jobs : jst[j] = "sending" <=> mutex = j
  /\ mutex # NoJob => ~closed
  /\ jobClosed => closed
  /\ spc \notin {"idle", "closejob"} <=> jobClosed
  /\ closed <=> spc # "idle"

\* wg counts the workers that are inside work.
Active == { w \in Workers : wpc[w] \notin {"unborn", "spawned", "exited"} }
WaitGroupCounts == wg = Cardinality(Active)

\* Submit never sends on the closed jobCh: Stop cannot close it under a Submit
\* that has passed the test of closed.
NoSubmitPanic == \A j \in Jobs : jst[j] # "panic"

PoolInv ==
  /\ TypeOK
  /\ Registration
  /\ DispatchesJob
  /\ JobStates
  /\ JobPlaces
  /\ RunningHasWorker
  /\ SubmitLocking
  /\ WaitGroupCounts
  /\ NoSubmitPanic

\* A worker never registers on the closed workerCh.
NoWorkerPanic == \A w \in Workers : wpc[w] # "panic"

\* Nobody sends on a channel that Stop has closed: neither Submit on jobCh nor a
\* worker on workerCh.  Such a send would panic.
NoPanic == NoSubmitPanic /\ NoWorkerPanic

\* "wait for all workers stop" (workerpool.go:134): when Stop goes on to close
\* workerCh, every worker has left its loop.
StopWaitsForWorkers ==
  spc \in {"closeworker", "done"} => \A w \in Workers : wpc[w] = "exited"

\* When Stop is called only after every worker has started, this is inductive
\* relative to PoolInv.
StopInv ==
  /\ spc # "idle" => \A w \in Workers : wpc[w] \notin {"unborn", "spawned"}
  /\ workerClosed => spc = "done"
  /\ StopWaitsForWorkers
  /\ NoWorkerPanic

\* A job that Submit has accepted (workerpool.go:108-113) is executed to its
\* end, unless Stop is called.
AcceptedJobRuns ==
  \A j \in Jobs : (jst[j] = "queued") ~> (jst[j] = "done" \/ closed)

\* "try until either the block is fetched or there is no more peer"
\* (eth/blockfetcher.go:468): a fetching job that goes on to submit its retry
\* to the pool it runs on comes to its end.
ExecutionEnds == \A j \in Jobs : (jst[j] = "running") ~> (jst[j] = "done")

\* Once Stop has closed the pool, it returns.
StopTerminates == (spc # "idle") ~> (spc = "done")

\* The pool implements the service its clients rely on.
Status(s) == CASE s = "sending" -> "new" [] s = "queued" -> "accepted" [] OTHER -> s

Service == INSTANCE JobService WITH
  st <- [j \in Jobs |-> Status(jst[j])],
  open <- ~closed,
  stopped <- (spc = "done")

\* Jobs are accepted only while the pool is open, executed at most once, and
\* never while or after Stop returns.
ServiceSpec == Service!Spec
=============================================================================
