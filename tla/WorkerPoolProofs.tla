-------------------------- MODULE WorkerPoolProofs --------------------------
(***************************************************************************)
(* Proofs about WorkerPool, for any set of workers and jobs, whenever Stop *)
(* is called and whatever the jobs submit: registration and dispatch never *)
(* block, and Submit never sends on a closed channel.                      *)
(***************************************************************************)
EXTENDS WorkerPool, SequenceLemmas, FiniteSetTheorems, TLAPS

\* A queue that holds each worker at most once, and one worker not at all, is
\* shorter than the number of workers.
LEMMA ShortQueue ==
  ASSUME NEW s \in Seq(Workers), IsInjective(s), NEW w \in Workers,
         w \notin Range(s)
  PROVE  Len(s) < Cardinality(Workers)
<1> DEFINE T == Workers \ {w}  n == Len(s)
<1>1. n \in Nat /\ DOMAIN s = 1 .. n
  OBVIOUS
<1>2. s \in [1 .. n -> T]
  <2>1. \A i \in 1 .. n : s[i] \in Workers /\ s[i] \in Range(s)
    BY <1>1 DEF Range
  <2> QED BY <1>1, <2>1
<1>3. s \in Injection(1 .. n, T)
  BY <1>1, <1>2, Zenon DEF Injection
<1>4. IsFiniteSet(Workers) /\ Cardinality(Workers) \in Nat
  BY PoolAssumption, FS_CardinalityType, Zenon
<1>5. IsFiniteSet(T) /\ Cardinality(T) = Cardinality(Workers) - 1
  BY <1>4, FS_RemoveElement, Zenon
<1> HIDE DEF n, T
<1>6. Cardinality(1 .. n) <= Cardinality(T)
  BY <1>3, <1>5, FS_Injection, Zenon
<1>7. Cardinality(1 .. n) = n
  <2>1. Cardinality(1 .. n) = IF 1 > n THEN 0 ELSE n - 1 + 1
    BY <1>1, FS_Interval
  <2> QED BY <1>1, <2>1
<1> QED BY <1>1, <1>4, <1>5, <1>6, <1>7 DEF n

\* What registering a worker does to the queue.
LEMMA RegisteredFacts ==
  ASSUME NEW s \in Seq(Workers), NEW w \in Workers, IsInjective(s),
         w \notin Range(s), NEW q, q = Append(s, w)
  PROVE  q \in Seq(Workers) /\ IsInjective(q) /\ Range(q) = Range(s) \cup {w}
BY AppendFacts

\* The pool starts in PoolInv.
LEMMA PoolInit == Init => PoolInv
<1> SUFFICES ASSUME Init PROVE PoolInv
  OBVIOUS
<1>1. Cardinality({}) = 0 /\ Cardinality(Workers) \in Nat
  BY PoolAssumption, FS_EmptySet, FS_CardinalityType, Zenon
<1>2. TypeOK
  <2>1. workerCh \in Seq(Workers) /\ jobCh \in Jobs \cup {NoJob}
    BY DEF Init
  <2>2. wjobCh \in [Workers -> Jobs \cup {NoJob}]
    BY Zenon DEF Init
  <2>3. wg \in 0 .. Cardinality(Workers)
    BY <1>1 DEF Init
  <2>4. /\ running \in [Workers -> Jobs \cup {NoJob}]
        /\ wjob \in [Workers -> Jobs \cup {NoJob}]
    BY Zenon DEF Init
  <2>5. jst \in [Jobs -> {"new", "sending", "queued", "refused", "running", "done",
                       "panic"}]
    BY Zenon DEF Init
  <2>6. wpc \in [Workers -> {"unborn", "spawned", "register", "select", "received",
                          "execute", "exited", "panic"}]
    BY Zenon DEF Init
  <2>7. dpc \in {"spawn", "worker", "job", "send", "done"} /\ spc \in {"idle", "closejob", "stop", "closeworker", "done"}
    BY Zenon DEF Init
  <2>8. closed \in BOOLEAN /\ workerClosed \in BOOLEAN /\ jobClosed \in BOOLEAN
    BY Zenon DEF Init
  <2>9. quit \subseteq Workers /\ killed \subseteq Jobs /\ tostop \subseteq Workers /\ dwch \subseteq Workers
    BY Zenon DEF Init
  <2>10. mutex \in Jobs \cup {NoJob} /\ djob \in Jobs \cup {NoJob}
    BY Zenon DEF Init
  <2> QED BY <2>1, <2>2, <2>3, <2>4, <2>5, <2>6, <2>7, <2>8, <2>9, <2>10, Zenon DEF TypeOK
<1>3. Registration
  BY DEF Init, Registration, IsInjective, Range
<1>4. Active = {}
  BY Zenon DEF Init, Active
<1>5. SubmitLocking
  BY PoolAssumption, Zenon DEF Init, SubmitLocking
<1> QED BY <1>1, <1>2, <1>3, <1>4, <1>5, Zenon
        DEF Init, PoolInv, DispatchesJob, JobStates, JobPlaces, RunningHasWorker,
            WaitGroupCounts, NoSubmitPanic
\* Every step of the pool preserves PoolInv.
LEMMA PoolStep == PoolInv /\ [Next]_vars => PoolInv'
<1> SUFFICES ASSUME TypeOK, Registration, DispatchesJob, JobStates, JobPlaces,
                    RunningHasWorker, SubmitLocking, WaitGroupCounts, NoSubmitPanic
             PROVE  [Next]_vars => PoolInv'
  BY Zenon DEF PoolInv
<1> USE PoolAssumption DEF vars, chans, dvars, wvars, svars
<1>1. ASSUME Spawn PROVE PoolInv'
  <2>1. UNCHANGED <<jobCh, djob, wjobCh, wjob, jst, mutex, closed,
                    jobClosed, spc>>
    BY <1>1, Zenon DEF Spawn
  <2>2. JobPlaces'
    BY <2>1, Zenon DEF JobPlaces
  <2>3. SubmitLocking'
    BY <2>1, Zenon DEF SubmitLocking
  <2>4. NoSubmitPanic'
    BY <2>1, Zenon DEF NoSubmitPanic
  <2>5. Active' = Active
    BY <1>1, Zenon DEF Spawn, Active, TypeOK
  <2>6. TypeOK'
    BY <1>1, SMTT(30) DEF Spawn, TypeOK
  <2>7. Registration'
    BY <1>1, SMTT(30) DEF Spawn, TypeOK, Registration
  <2>8. DispatchesJob'
    BY <1>1, Zenon DEF Spawn, TypeOK, DispatchesJob
  <2>9. JobStates'
    BY <1>1, SMTT(30) DEF Spawn, TypeOK, DispatchesJob, JobStates,
                              JobPlaces
  <2>10. RunningHasWorker'
    BY <1>1, SMTT(30) DEF Spawn, TypeOK, JobStates, RunningHasWorker
  <2>11. WaitGroupCounts'
    BY <1>1, <2>5, Zenon DEF Spawn, WaitGroupCounts
  <2> QED BY <2>2, <2>3, <2>4, <2>6, <2>7, <2>8, <2>9, <2>10, <2>11, Zenon DEF PoolInv
<1>2. ASSUME TakeWorker PROVE PoolInv'
  <2>1. workerCh # <<>> =>
          /\ Head(workerCh) \in Workers
          /\ Tail(workerCh) \in Seq(Workers)
          /\ Range(workerCh) = Range(Tail(workerCh)) \cup {Head(workerCh)}
          /\ IsInjective(workerCh) => IsInjective(Tail(workerCh))
          /\ IsInjective(workerCh) => Head(workerCh) \notin Range(Tail(workerCh))
    BY TailFacts, Zenon DEF TypeOK
  <2>2. UNCHANGED <<jobCh, djob, jst, wjobCh, wjob, wpc, mutex, closed,
                    jobClosed, spc, wg>>
    BY <1>2, Zenon DEF TakeWorker
  <2>3. JobStates'
    BY <2>2, Zenon DEF JobStates
  <2>4. JobPlaces'
    BY <2>2, Zenon DEF JobPlaces
  <2>5. RunningHasWorker'
    BY <2>2, Zenon DEF RunningHasWorker
  <2>6. SubmitLocking'
    BY <2>2, Zenon DEF SubmitLocking
  <2>7. WaitGroupCounts'
    BY <2>2, Zenon DEF WaitGroupCounts, Active
  <2>8. NoSubmitPanic'
    BY <2>2, Zenon DEF NoSubmitPanic
  <2>9. TypeOK'
    <3>1. workerCh' \in Seq(Workers) /\ dwch' \subseteq Workers /\ dpc' \in {"job", "done"}
      BY <1>2, <2>1, Zenon DEF TakeWorker, TypeOK
    <3>2. UNCHANGED <<workerClosed, jobCh, jobClosed, wjobCh, quit, djob, wvars, svars,
                      mutex, closed, jst>>
      BY <1>2, Zenon DEF TakeWorker
    <3> QED BY <3>1, <3>2 DEF TypeOK
  <2>10. Registration'
    <3>1. CASE workerCh # <<>>
      <4>1. /\ dwch' = {Head(workerCh)} /\ workerCh' = Tail(workerCh)
            /\ dpc' = "job" /\ wpc' = wpc /\ wjobCh' = wjobCh /\ Registration
        BY <1>2, <3>1, Zenon DEF TakeWorker
      <4> QED BY <2>1, <3>1, <4>1 DEF Registration
    <3>2. CASE workerCh = <<>>
      BY <1>2, <3>2, Zenon DEF TakeWorker, Registration
    <3> QED BY <3>1, <3>2, Zenon
  <2>11. DispatchesJob'
    BY <1>2, <2>1, Zenon DEF TakeWorker, TypeOK, DispatchesJob
  <2> QED BY <2>3, <2>4, <2>5, <2>6, <2>7, <2>8, <2>9, <2>10, <2>11, Zenon DEF PoolInv
<1>3. ASSUME TakeJob PROVE PoolInv'
  <2>1. UNCHANGED <<jst, wpc, wjob, mutex, closed, jobClosed, spc, wg>>
    BY <1>3, Zenon DEF TakeJob
  <2>2. RunningHasWorker'
    BY <2>1, Zenon DEF RunningHasWorker
  <2>3. SubmitLocking'
    BY <2>1, Zenon DEF SubmitLocking
  <2>4. WaitGroupCounts'
    BY <2>1, Zenon DEF WaitGroupCounts, Active
  <2>5. NoSubmitPanic'
    BY <2>1, Zenon DEF NoSubmitPanic
  <2>6. TypeOK'
    BY <1>3, Zenon DEF TakeJob, TypeOK
  <2>7. Registration'
    BY <1>3, Zenon DEF TakeJob, TypeOK, Registration
  <2>8. DispatchesJob'
    BY <1>3, Zenon DEF TakeJob, TypeOK, DispatchesJob
  <2>9. JobStates'
    BY <1>3, Zenon DEF TakeJob, TypeOK, DispatchesJob, JobStates,
                              JobPlaces
  <2>10. JobPlaces'
    BY <1>3, SMTT(30) DEF TakeJob, TypeOK, DispatchesJob, JobStates,
                              JobPlaces
  <2> QED BY <2>2, <2>3, <2>4, <2>5, <2>6, <2>7, <2>8, <2>9, <2>10, Zenon DEF PoolInv
<1>4. ASSUME SendJob PROVE PoolInv'
  <2>1. djob \in Jobs /\ jst[djob] = "queued"
    BY <1>4, Zenon DEF SendJob, DispatchesJob, JobStates, TypeOK
  <2>2. UNCHANGED <<jst, wpc, wjob, mutex, closed, jobClosed, spc, wg>>
    BY <1>4, Zenon DEF SendJob
  <2>3. RunningHasWorker'
    BY <2>2, Zenon DEF RunningHasWorker
  <2>4. SubmitLocking'
    BY <2>2, Zenon DEF SubmitLocking
  <2>5. WaitGroupCounts'
    BY <2>2, Zenon DEF WaitGroupCounts, Active
  <2>6. NoSubmitPanic'
    BY <2>2, Zenon DEF NoSubmitPanic
  <2>7. TypeOK'
    BY <1>4, <2>1, SMTT(30) DEF SendJob, TypeOK
  <2>8. Registration'
    BY <1>4, <2>1, SMTT(30) DEF SendJob, TypeOK, Registration
  <2>9. DispatchesJob'
    BY <1>4, <2>1, Zenon DEF SendJob, TypeOK, DispatchesJob
  <2>10. JobStates'
    BY <1>4, <2>1, SMTT(30) DEF SendJob, TypeOK, DispatchesJob, JobStates,
                              JobPlaces
  <2>11. JobPlaces'
    BY <1>4, <2>1, SMTT(30) DEF SendJob, TypeOK, DispatchesJob, JobStates,
                              JobPlaces
  <2> QED BY <2>3, <2>4, <2>5, <2>6, <2>7, <2>8, <2>9, <2>10, <2>11, Zenon DEF PoolInv
<1>5. ASSUME NEW w \in Workers, Begin(w) PROVE PoolInv'
  <2>1. UNCHANGED <<djob, dpc, jobCh, wjobCh, wjob, jst, mutex, closed,
                    jobClosed, spc>>
    BY <1>5, Zenon DEF Begin
  <2>2. DispatchesJob'
    BY <2>1, Zenon DEF DispatchesJob
  <2>3. JobPlaces'
    BY <2>1, Zenon DEF JobPlaces
  <2>4. SubmitLocking'
    BY <2>1, Zenon DEF SubmitLocking
  <2>5. NoSubmitPanic'
    BY <2>1, Zenon DEF NoSubmitPanic
  <2>6. Active' = Active \cup {w} /\ w \notin Active
    BY <1>5 DEF Begin, Active, TypeOK
  <2>7. /\ IsFiniteSet(Active) /\ Cardinality(Active) \in Nat
         /\ Cardinality(Active') <= Cardinality(Workers)
         /\ Cardinality(Active') \in Nat /\ Cardinality(Workers) \in Nat
    BY FS_Subset, FS_CardinalityType, Zenon DEF Active
  <2>8. Cardinality(Active') = wg'
    BY <1>5, <2>6, <2>7, FS_AddElement, FS_RemoveElement, Zenon DEF Begin, WaitGroupCounts
  <2>9. TypeOK'
    BY <1>5, <2>7, <2>8, SMTT(30) DEF Begin, TypeOK
  <2>10. Registration'
    BY <1>5, Zenon DEF Begin, TypeOK, Registration
  <2>11. JobStates'
    BY <1>5, SMTT(30) DEF Begin, TypeOK, DispatchesJob, JobStates,
                              JobPlaces
  <2>12. RunningHasWorker'
    BY <1>5, SMTT(30) DEF Begin, TypeOK, JobStates, RunningHasWorker
  <2>13. WaitGroupCounts'
    BY <2>8, Zenon DEF WaitGroupCounts
  <2> QED BY <2>2, <2>3, <2>4, <2>5, <2>9, <2>10, <2>11, <2>12, <2>13, Zenon DEF PoolInv
<1>6. ASSUME NEW w \in Workers, Register(w) PROVE PoolInv'
  <2>1. /\ Append(workerCh, w) \in Seq(Workers)
         /\ Range(Append(workerCh, w)) = Range(workerCh) \cup {w}
         /\ IsInjective(workerCh) /\ w \notin Range(workerCh)
              => IsInjective(Append(workerCh, w))
    BY AppendFacts, Zenon DEF TypeOK
  <2>2. UNCHANGED <<djob, dpc, jobCh, wjobCh, wjob, jst, mutex, closed,
                    jobClosed, spc>>
    BY <1>6, Zenon DEF Register
  <2>3. DispatchesJob'
    BY <2>2, Zenon DEF DispatchesJob
  <2>4. JobPlaces'
    BY <2>2, Zenon DEF JobPlaces
  <2>5. SubmitLocking'
    BY <2>2, Zenon DEF SubmitLocking
  <2>6. NoSubmitPanic'
    BY <2>2, Zenon DEF NoSubmitPanic
  <2>7. Active' = Active
    BY <1>6, Zenon DEF Register, Active, TypeOK
  <2>8. TypeOK'
    <3>0. workerCh \in Seq(Workers)
      BY Zenon DEF TypeOK
    <3>1. workerCh' = workerCh \/ workerCh' = Append(workerCh, w)
      BY <1>6, Zenon DEF Register
    <3>2. wpc' \in [Workers -> {"unborn", "spawned", "register", "select", "received",
                               "execute", "exited", "panic"}]
      BY <1>6, Zenon DEF Register, TypeOK
    <3>3. workerCh' \in Seq(Workers)
      <4> QED BY <2>1, <3>0, <3>1
    <3> QED BY <1>6, <3>3, <3>2, SMTT(30) DEF Register, TypeOK
  <2>9. Registration'
    <3>1. w \notin Range(workerCh) \cup dwch /\ wjobCh[w] = NoJob
      BY <1>6, Zenon DEF Register, Registration
    <3>2. /\ dwch' = dwch /\ dpc' = dpc /\ wjobCh' = wjobCh
          /\ \A v \in Workers : v # w => wpc'[v] = wpc[v]
          /\ wpc'[w] \in {"select", "panic"}
      BY <1>6, Zenon DEF Register, TypeOK
    <3>3. CASE workerCh' = workerCh /\ wpc'[w] = "panic"
      BY <3>1, <3>2, <3>3, Zenon DEF Registration
    <3>4. CASE workerCh' = Append(workerCh, w) /\ wpc'[w] = "select"
      <4>0. IsInjective(workerCh) /\ workerCh \in Seq(Workers)
        BY Zenon DEF Registration, TypeOK
      <4>1. IsInjective(workerCh') /\ Range(workerCh') = Range(workerCh) \cup {w}
        BY <3>1, <3>4, <4>0, RegisteredFacts, Zenon
      <4> QED BY <3>1, <3>2, <3>4, <4>1 DEF Registration
    <3> QED BY <1>6, <3>3, <3>4, Zenon DEF Register, TypeOK
  <2>10. JobStates'
    BY <1>6, <2>1, SMTT(30) DEF Register, TypeOK, DispatchesJob, JobStates,
                              JobPlaces
  <2>11. RunningHasWorker'
    BY <1>6, <2>1, SMTT(30) DEF Register, TypeOK, JobStates, RunningHasWorker
  <2>12. WaitGroupCounts'
    BY <1>6, <2>7, Zenon DEF Register, WaitGroupCounts
  <2> QED BY <2>3, <2>4, <2>5, <2>6, <2>8, <2>9, <2>10, <2>11, <2>12, Zenon DEF PoolInv
<1>7. ASSUME NEW w \in Workers, Receive(w) PROVE PoolInv'
  <2>1. wjobCh[w] \in Jobs /\ jst[wjobCh[w]] = "queued"
    BY <1>7 DEF Receive, JobStates, TypeOK
  <2>2. UNCHANGED <<djob, dpc, jst, mutex, closed, jobClosed, spc>>
    BY <1>7, Zenon DEF Receive
  <2>3. DispatchesJob'
    BY <2>2, Zenon DEF DispatchesJob
  <2>4. SubmitLocking'
    BY <2>2, Zenon DEF SubmitLocking
  <2>5. NoSubmitPanic'
    BY <2>2, Zenon DEF NoSubmitPanic
  <2>6. Active' = Active
    BY <1>7, Zenon DEF Receive, Active, TypeOK
  <2>7. TypeOK'
    BY <1>7, <2>1, SMTT(30) DEF Receive, TypeOK
  <2>8. Registration'
    BY <1>7, <2>1, SMTT(30) DEF Receive, TypeOK, Registration
  <2>9. JobStates'
    BY <1>7, <2>1, SMTT(30) DEF Receive, TypeOK, DispatchesJob, JobStates,
                              JobPlaces
  <2>10. JobPlaces'
    BY <1>7, <2>1, SMTT(30) DEF Receive, TypeOK, DispatchesJob, JobStates,
                              JobPlaces
  <2>11. RunningHasWorker'
    BY <1>7, <2>1, Zenon DEF Receive, TypeOK, JobStates, RunningHasWorker
  <2>12. WaitGroupCounts'
    BY <1>7, <2>6, Zenon DEF Receive, WaitGroupCounts
  <2> QED BY <2>3, <2>4, <2>5, <2>7, <2>8, <2>9, <2>10, <2>11, <2>12, Zenon DEF PoolInv
<1>8. ASSUME NEW w \in Workers, Execute(w) PROVE PoolInv'
  <2>1. wjob[w] \in Jobs /\ jst[wjob[w]] = "queued"
    BY <1>8 DEF Execute, JobStates, TypeOK
  <2>2. UNCHANGED <<djob, dpc, jobCh, wjobCh, wjob>>
    BY <1>8, Zenon DEF Execute
  <2>3. DispatchesJob'
    BY <2>2, Zenon DEF DispatchesJob
  <2>4. JobPlaces'
    BY <2>2, Zenon DEF JobPlaces
  <2>5. Active' = Active
    BY <1>8, Zenon DEF Execute, Active, TypeOK
  <2>6. TypeOK'
    BY <1>8, <2>1, SMTT(30) DEF Execute, TypeOK
  <2>7. Registration'
    BY <1>8, <2>1, Zenon DEF Execute, TypeOK, Registration
  <2>8. JobStates'
    BY <1>8, <2>1, SMTT(30) DEF Execute, TypeOK, DispatchesJob, JobStates,
                              JobPlaces
  <2>9. RunningHasWorker'
    BY <1>8, <2>1, SMTT(30) DEF Execute, TypeOK, JobStates, RunningHasWorker
  <2>10. SubmitLocking'
    BY <1>8, <2>1, Zenon DEF Execute, TypeOK, SubmitLocking
  <2>11. WaitGroupCounts'
    BY <1>8, <2>5, Zenon DEF Execute, WaitGroupCounts
  <2>12. NoSubmitPanic'
    BY <1>8, <2>1, Zenon DEF Execute, TypeOK, NoSubmitPanic
  <2> QED BY <2>3, <2>4, <2>6, <2>7, <2>8, <2>9, <2>10, <2>11, <2>12, Zenon DEF PoolInv
<1>9. ASSUME NEW w \in Workers, Finish(w) PROVE PoolInv'
  <2>1. wjob[w] \in Jobs /\ jst[wjob[w]] = "running"
    BY <1>9 DEF Finish, JobStates, TypeOK
  <2>2. UNCHANGED <<djob, dpc>>
    BY <1>9, Zenon DEF Finish
  <2>3. DispatchesJob'
    BY <2>2, Zenon DEF DispatchesJob
  <2>4. Active' = Active
    BY <1>9, Zenon DEF Finish, Active, TypeOK
  <2>5. TypeOK'
    BY <1>9, <2>1, SMTT(30) DEF Finish, TypeOK
  <2>6. Registration'
    BY <1>9, <2>1, SMTT(30) DEF Finish, TypeOK, Registration
  <2>7. JobStates'
    BY <1>9, <2>1, SMTT(90) DEF Finish, TypeOK, DispatchesJob, JobStates,
                              JobPlaces
  <2>8. JobPlaces'
    BY <1>9, <2>1, SMTT(90) DEF Finish, TypeOK, DispatchesJob, JobStates,
                              JobPlaces
  <2>9. RunningHasWorker'
    BY <1>9, <2>1, SMTT(30) DEF Finish, TypeOK, JobStates, RunningHasWorker
  <2>10. SubmitLocking'
    BY <1>9, <2>1, Zenon DEF Finish, TypeOK, SubmitLocking
  <2>11. WaitGroupCounts'
    BY <1>9, <2>4, Zenon DEF Finish, WaitGroupCounts
  <2>12. NoSubmitPanic'
    BY <1>9, <2>1, Zenon DEF Finish, TypeOK, NoSubmitPanic
  <2> QED BY <2>3, <2>5, <2>6, <2>7, <2>8, <2>9, <2>10, <2>11, <2>12, Zenon DEF PoolInv
<1>10. ASSUME NEW w \in Workers, Quit(w) PROVE PoolInv'
  <2>1. UNCHANGED <<djob, dpc, jobCh, wjobCh, wjob, jst, mutex, closed,
                    jobClosed, spc>>
    BY <1>10, Zenon DEF Quit
  <2>2. DispatchesJob'
    BY <2>1, Zenon DEF DispatchesJob
  <2>3. JobPlaces'
    BY <2>1, Zenon DEF JobPlaces
  <2>4. SubmitLocking'
    BY <2>1, Zenon DEF SubmitLocking
  <2>5. NoSubmitPanic'
    BY <2>1, Zenon DEF NoSubmitPanic
  <2>6. Active' = Active \ {w} /\ w \in Active
    BY <1>10, Zenon DEF Quit, Active, TypeOK
  <2>7. /\ IsFiniteSet(Active) /\ Cardinality(Active) \in Nat
         /\ Cardinality(Active') <= Cardinality(Workers)
         /\ Cardinality(Active') \in Nat /\ Cardinality(Workers) \in Nat
    BY FS_Subset, FS_CardinalityType, Zenon DEF Active
  <2>8. Cardinality(Active') = wg'
    BY <1>10, <2>6, <2>7, FS_AddElement, FS_RemoveElement, Zenon DEF Quit, WaitGroupCounts
  <2>9. TypeOK'
    BY <1>10, <2>7, <2>8, SMTT(30) DEF Quit, TypeOK
  <2>10. Registration'
    BY <1>10, Zenon DEF Quit, TypeOK, Registration
  <2>11. JobStates'
    BY <1>10, SMTT(30) DEF Quit, TypeOK, DispatchesJob, JobStates,
                              JobPlaces
  <2>12. RunningHasWorker'
    BY <1>10, SMTT(30) DEF Quit, TypeOK, JobStates, RunningHasWorker
  <2>13. WaitGroupCounts'
    BY <2>8, Zenon DEF WaitGroupCounts
  <2> QED BY <2>2, <2>3, <2>4, <2>5, <2>9, <2>10, <2>11, <2>12, <2>13, Zenon DEF PoolInv
<1>11. ASSUME NEW j \in Jobs, SubmitLock(j) PROVE PoolInv'
  <2>1. UNCHANGED <<workerCh, dwch, dpc, wpc, wjobCh, djob, jobCh, wjob, wg>>
    BY <1>11, Zenon DEF SubmitLock
  <2>2. Registration'
    BY <2>1, Zenon DEF Registration
  <2>3. DispatchesJob'
    BY <2>1, Zenon DEF DispatchesJob
  <2>4. JobPlaces'
    BY <2>1, Zenon DEF JobPlaces
  <2>5. WaitGroupCounts'
    BY <2>1, Zenon DEF WaitGroupCounts, Active
  <2>6. TypeOK'
    BY <1>11, SMTT(30) DEF SubmitLock, TypeOK
  <2>7. JobStates'
    BY <1>11, SMTT(90) DEF SubmitLock, TypeOK, DispatchesJob, JobStates,
                              JobPlaces
  <2>8. RunningHasWorker'
    BY <1>11, SMTT(30) DEF SubmitLock, TypeOK, JobStates,
                              RunningHasWorker
  <2>9. SubmitLocking'
    BY <1>11, SMTT(30) DEF SubmitLock, TypeOK, SubmitLocking
  <2>10. NoSubmitPanic'
    BY <1>11, Zenon DEF SubmitLock, TypeOK, NoSubmitPanic
  <2> QED BY <2>2, <2>3, <2>4, <2>5, <2>6, <2>7, <2>8, <2>9, <2>10, Zenon DEF PoolInv
<1>12. ASSUME NEW j \in Jobs, SubmitSend(j) PROVE PoolInv'
  <2>1. ~jobClosed /\ mutex = j
    BY <1>12, Zenon DEF SubmitSend, SubmitLocking
  <2>2. jobCh = NoJob /\ jobCh' = j /\ jst' = [jst EXCEPT ![j] = "queued"]
    BY <1>12, <2>1, Zenon DEF SubmitSend
  <2>3. UNCHANGED <<workerCh, dwch, dpc, wpc, wjobCh, djob, wg>>
    BY <1>12, Zenon DEF SubmitSend
  <2>4. Registration'
    BY <2>3, Zenon DEF Registration
  <2>5. DispatchesJob'
    BY <2>3, Zenon DEF DispatchesJob
  <2>6. WaitGroupCounts'
    BY <2>3, Zenon DEF WaitGroupCounts, Active
  <2>7. TypeOK'
    BY <1>12, <2>1, <2>2, SMTT(90) DEF SubmitSend, TypeOK
  <2>8. JobStates'
    BY <1>12, <2>1, <2>2, SMTT(90) DEF SubmitSend, TypeOK, DispatchesJob, JobStates,
                              JobPlaces
  <2>9. JobPlaces'
    BY <1>12, <2>1, <2>2, SMTT(90) DEF SubmitSend, TypeOK, DispatchesJob, JobStates,
                              JobPlaces
  <2>10. RunningHasWorker'
    BY <1>12, <2>1, <2>2, SMTT(90) DEF SubmitSend, TypeOK, JobStates,
                              RunningHasWorker
  <2>11. SubmitLocking'
    BY <1>12, <2>1, <2>2, SMTT(30) DEF SubmitSend, TypeOK, SubmitLocking
  <2>12. NoSubmitPanic'
    BY <1>12, <2>1, <2>2, Zenon DEF SubmitSend, TypeOK, NoSubmitPanic
  <2> QED BY <2>4, <2>5, <2>6, <2>7, <2>8, <2>9, <2>10, <2>11, <2>12, Zenon DEF PoolInv
<1>13. ASSUME StopCall PROVE PoolInv'
  <2>1. UNCHANGED <<workerCh, dwch, dpc, wpc, wjobCh, djob, jobCh, jst,
                    wjob, wg>>
    BY <1>13, Zenon DEF StopCall
  <2>2. Registration'
    BY <2>1, Zenon DEF Registration
  <2>3. DispatchesJob'
    BY <2>1, Zenon DEF DispatchesJob
  <2>4. JobStates'
    BY <2>1, Zenon DEF JobStates
  <2>5. JobPlaces'
    BY <2>1, Zenon DEF JobPlaces
  <2>6. RunningHasWorker'
    BY <2>1, Zenon DEF RunningHasWorker
  <2>7. WaitGroupCounts'
    BY <2>1, Zenon DEF WaitGroupCounts, Active
  <2>8. NoSubmitPanic'
    BY <2>1, Zenon DEF NoSubmitPanic
  <2>9. TypeOK'
    BY <1>13, Zenon DEF StopCall, TypeOK
  <2>10. SubmitLocking'
    BY <1>13, Zenon DEF StopCall, TypeOK, SubmitLocking
  <2> QED BY <2>2, <2>3, <2>4, <2>5, <2>6, <2>7, <2>8, <2>9, <2>10, Zenon DEF PoolInv
<1>14. ASSUME StopCloseJob PROVE PoolInv'
  <2>1. UNCHANGED <<workerCh, dwch, dpc, wpc, wjobCh, djob, jobCh, jst,
                    wjob, wg>>
    BY <1>14, Zenon DEF StopCloseJob
  <2>2. Registration'
    BY <2>1, Zenon DEF Registration
  <2>3. DispatchesJob'
    BY <2>1, Zenon DEF DispatchesJob
  <2>4. JobStates'
    BY <2>1, Zenon DEF JobStates
  <2>5. JobPlaces'
    BY <2>1, Zenon DEF JobPlaces
  <2>6. RunningHasWorker'
    BY <2>1, Zenon DEF RunningHasWorker
  <2>7. WaitGroupCounts'
    BY <2>1, Zenon DEF WaitGroupCounts, Active
  <2>8. NoSubmitPanic'
    BY <2>1, Zenon DEF NoSubmitPanic
  <2>9. TypeOK'
    BY <1>14, Zenon DEF StopCloseJob, TypeOK
  <2>10. SubmitLocking'
    BY <1>14, Zenon DEF StopCloseJob, TypeOK, SubmitLocking
  <2> QED BY <2>2, <2>3, <2>4, <2>5, <2>6, <2>7, <2>8, <2>9, <2>10, Zenon DEF PoolInv
<1>15. ASSUME NEW w \in Workers, StopWorker(w) PROVE PoolInv'
  <2>1. UNCHANGED <<workerCh, dwch, dpc, wpc, wjobCh, djob, jobCh, jst,
                    wjob, mutex, closed, jobClosed, spc, wg>>
    BY <1>15, Zenon DEF StopWorker
  <2>2. Registration'
    BY <2>1, Zenon DEF Registration
  <2>3. DispatchesJob'
    BY <2>1, Zenon DEF DispatchesJob
  <2>4. JobStates'
    BY <2>1, Zenon DEF JobStates
  <2>5. JobPlaces'
    BY <2>1, Zenon DEF JobPlaces
  <2>6. RunningHasWorker'
    BY <2>1, Zenon DEF RunningHasWorker
  <2>7. SubmitLocking'
    BY <2>1, Zenon DEF SubmitLocking
  <2>8. WaitGroupCounts'
    BY <2>1, Zenon DEF WaitGroupCounts, Active
  <2>9. NoSubmitPanic'
    BY <2>1, Zenon DEF NoSubmitPanic
  <2>10. TypeOK'
    <3>1. quit' \subseteq Workers /\ tostop' \subseteq Workers /\ killed' \subseteq Jobs
      BY <1>15, Zenon DEF StopWorker, TypeOK
    <3>2. UNCHANGED <<workerCh, workerClosed, jobCh, jobClosed, wjobCh, dvars, wvars,
                      spc, mutex, closed, jst>>
      BY <1>15, Zenon DEF StopWorker
    <3> QED BY <3>1, <3>2 DEF TypeOK
  <2> QED BY <2>2, <2>3, <2>4, <2>5, <2>6, <2>7, <2>8, <2>9, <2>10, Zenon DEF PoolInv
<1>16. ASSUME StopWait PROVE PoolInv'
  <2>1. UNCHANGED <<workerCh, dwch, dpc, wpc, wjobCh, djob, jobCh, jst,
                    wjob, wg>>
    BY <1>16, Zenon DEF StopWait
  <2>2. Registration'
    BY <2>1, Zenon DEF Registration
  <2>3. DispatchesJob'
    BY <2>1, Zenon DEF DispatchesJob
  <2>4. JobStates'
    BY <2>1, Zenon DEF JobStates
  <2>5. JobPlaces'
    BY <2>1, Zenon DEF JobPlaces
  <2>6. RunningHasWorker'
    BY <2>1, Zenon DEF RunningHasWorker
  <2>7. WaitGroupCounts'
    BY <2>1, Zenon DEF WaitGroupCounts, Active
  <2>8. NoSubmitPanic'
    BY <2>1, Zenon DEF NoSubmitPanic
  <2>9. TypeOK'
    BY <1>16, SMTT(30) DEF StopWait, TypeOK
  <2>10. SubmitLocking'
    BY <1>16, Zenon DEF StopWait, TypeOK, SubmitLocking
  <2> QED BY <2>2, <2>3, <2>4, <2>5, <2>6, <2>7, <2>8, <2>9, <2>10, Zenon DEF PoolInv
<1>17. ASSUME StopCloseWorker PROVE PoolInv'
  <2>1. UNCHANGED <<workerCh, dwch, dpc, wpc, wjobCh, djob, jobCh, jst,
                    wjob, wg>>
    BY <1>17, Zenon DEF StopCloseWorker
  <2>2. Registration'
    BY <2>1, Zenon DEF Registration
  <2>3. DispatchesJob'
    BY <2>1, Zenon DEF DispatchesJob
  <2>4. JobStates'
    BY <2>1, Zenon DEF JobStates
  <2>5. JobPlaces'
    BY <2>1, Zenon DEF JobPlaces
  <2>6. RunningHasWorker'
    BY <2>1, Zenon DEF RunningHasWorker
  <2>7. WaitGroupCounts'
    BY <2>1, Zenon DEF WaitGroupCounts, Active
  <2>8. NoSubmitPanic'
    BY <2>1, Zenon DEF NoSubmitPanic
  <2>9. TypeOK'
    BY <1>17, Zenon DEF StopCloseWorker, TypeOK
  <2>10. SubmitLocking'
    BY <1>17, Zenon DEF StopCloseWorker, TypeOK, SubmitLocking
  <2> QED BY <2>2, <2>3, <2>4, <2>5, <2>6, <2>7, <2>8, <2>9, <2>10, Zenon DEF PoolInv
<1>18. ASSUME UNCHANGED vars PROVE PoolInv'
  <2>1. TypeOK'
    BY <1>18, SMTT(90) DEF TypeOK
  <2>2. Registration'
    BY <1>18, Zenon DEF Registration
  <2>3. DispatchesJob'
    BY <1>18, Zenon DEF DispatchesJob
  <2>4. JobStates'
    BY <1>18, Zenon DEF JobStates
  <2>5. JobPlaces'
    BY <1>18, Zenon DEF JobPlaces
  <2>6. RunningHasWorker'
    BY <1>18, Zenon DEF RunningHasWorker
  <2>7. SubmitLocking'
    BY <1>18, Zenon DEF SubmitLocking
  <2>8. WaitGroupCounts'
    BY <1>18, Zenon DEF WaitGroupCounts, Active
  <2>9. NoSubmitPanic'
    BY <1>18, Zenon DEF NoSubmitPanic
  <2> QED BY <2>1, <2>2, <2>3, <2>4, <2>5, <2>6, <2>7, <2>8, <2>9, Zenon DEF PoolInv
<1> QED
  BY <1>1, <1>2, <1>3, <1>4, <1>5, <1>6, <1>7, <1>8, <1>9, <1>10, <1>11,
     <1>12, <1>13, <1>14, <1>15, <1>16, <1>17, <1>18, Zenon
  DEF Next, Dispatcher, Worker, Submit, Stop

\* PoolInv holds in every reachable state, for any pool, jobs and clients.
THEOREM PoolInvariance == Spec => []PoolInv
BY PoolInit, PoolStep, PTL DEF Spec

\* The types of the pool's state and the capacities of its channels.
THEOREM PoolTypes == Spec => []TypeOK
BY PoolInvariance, PTL DEF PoolInv

\* "c <- w.jobCh //never blocked" (workerpool.go:152): a worker that comes to
\* register always finds room in workerCh, and the dispatcher never blocks on the
\* channel of the worker it has chosen (workerpool.go:95).
THEOREM HandOverNeverBlocks == Spec => []NeverBlocked
<1>1. PoolInv => RegisterNeverBlocks
  BY ShortQueue, Zenon DEF PoolInv, TypeOK, Registration, RegisterNeverBlocks
<1>2. PoolInv => DispatchNeverBlocks
  BY Zenon DEF PoolInv, TypeOK, Registration, DispatchNeverBlocks
<1> QED BY <1>1, <1>2, PoolInvariance, PTL DEF NeverBlocked

\* Submit never sends on the channel that Stop closes (workerpool.go:111, 128).
THEOREM SubmitNeverPanics == Spec => []NoSubmitPanic
BY PoolInvariance, PTL DEF PoolInv

-----------------------------------------------------------------------------
\* If Stop waits for the start of every worker, StopInv is preserved.
LEMMA StopStep ==
  ASSUME ~EarlyStop, PoolInv, StopInv, [Next]_vars
  PROVE  StopInv'
<1> USE DEF vars, chans, dvars, wvars, svars
<1>0. TypeOK
  BY Zenon DEF PoolInv
<1>1. CASE Dispatcher
  <2>1. CASE Spawn
    <3>1. spc' = spc /\ workerClosed' = workerClosed
      BY <2>1, Zenon DEF Spawn
    <3>2. CASE wpc' = wpc
      BY <3>1, <3>2, Zenon DEF StopInv, StopWaitsForWorkers, NoWorkerPanic
    <3>3. ASSUME NEW w \in Workers, wpc[w] = "unborn",
                 wpc' = [wpc EXCEPT ![w] = "spawned"]
          PROVE  StopInv'
      <4>1. spc = "idle"
        BY <3>3, Zenon DEF StopInv
      <4>2. \A v \in Workers : wpc'[v] # "panic"
        BY <1>0, <3>3, Zenon DEF TypeOK, StopInv, NoWorkerPanic
      <4> QED BY <3>1, <4>1, <4>2, Zenon DEF StopInv, StopWaitsForWorkers, NoWorkerPanic
    <3> QED BY <2>1, <3>2, <3>3, Zenon DEF Spawn
  <2>2. CASE TakeWorker \/ TakeJob \/ SendJob
    <3>1. spc' = spc /\ workerClosed' = workerClosed /\ wpc' = wpc
      BY <2>2, Zenon DEF TakeWorker, TakeJob, SendJob
    <3> QED BY <3>1, Zenon DEF StopInv, StopWaitsForWorkers, NoWorkerPanic
  <2> QED BY <1>1, <2>1, <2>2, Zenon DEF Dispatcher
<1>2. ASSUME NEW w \in Workers, Worker(w) PROVE StopInv'
  <2>1. spc # "done" /\ ~workerClosed /\ spc' = spc /\ workerClosed' = workerClosed
    BY <1>2, Zenon DEF Worker, Begin, Register, Receive, Execute, Finish, Quit, StopInv,
                StopWaitsForWorkers
  <2>2. spc # "closeworker"
    BY <1>2, Zenon DEF Worker, Begin, Register, Receive, Execute, Finish, Quit, StopInv,
                StopWaitsForWorkers
  <2>3. /\ \A v \in Workers : v # w => wpc'[v] = wpc[v]
        /\ wpc'[w] \notin {"unborn", "spawned", "panic"}
    BY <1>0, <1>2, <2>1, Zenon DEF Worker, Begin, Register, Receive, Execute, Finish, Quit,
                            TypeOK
  <2> QED BY <2>1, <2>2, <2>3, Zenon DEF StopInv, StopWaitsForWorkers, NoWorkerPanic
<1>3. ASSUME NEW j \in Jobs, Submit(j) PROVE StopInv'
  <2>1. UNCHANGED <<spc, wpc, workerClosed>>
    BY <1>3, Zenon DEF Submit, SubmitLock, SubmitSend
  <2> QED BY <2>1, Zenon DEF StopInv, StopWaitsForWorkers, NoWorkerPanic
<1>4. CASE StopWait
  <2>1. Active = {}
    <3>1. IsFiniteSet(Active) /\ Cardinality(Active) = 0
      BY <1>4, PoolAssumption, FS_Subset, Zenon
      DEF StopWait, PoolInv, WaitGroupCounts, Active
    <3> QED BY <3>1, FS_EmptySet, Zenon
  <2>2. \A w \in Workers : wpc[w] = "exited"
    BY <1>4, <2>1, Zenon DEF Active, StopWait, StopInv
  <2> QED BY <1>4, <2>2, Zenon DEF StopWait, StopInv, StopWaitsForWorkers, NoWorkerPanic
<1>5. CASE StopCall \/ StopCloseJob \/ StopCloseWorker
  <2>1. CASE StopCall
    BY <2>1, Zenon DEF StopCall, StopInv, StopWaitsForWorkers, NoWorkerPanic
  <2>2. CASE StopCloseJob
    BY <2>2, Zenon DEF StopCloseJob, StopInv, StopWaitsForWorkers, NoWorkerPanic
  <2>3. CASE StopCloseWorker
    BY <2>3, Zenon DEF StopCloseWorker, StopInv, StopWaitsForWorkers, NoWorkerPanic
  <2> QED BY <1>5, <2>1, <2>2, <2>3, Zenon
<1>6. ASSUME NEW w \in Workers, StopWorker(w) PROVE StopInv'
  <2>1. UNCHANGED <<spc, wpc, workerClosed>>
    BY <1>6, Zenon DEF StopWorker
  <2> QED BY <2>1, Zenon DEF StopInv, StopWaitsForWorkers, NoWorkerPanic
<1>7. CASE UNCHANGED vars
  BY <1>7, Zenon DEF StopInv, StopWaitsForWorkers, NoWorkerPanic
<1> QED BY <1>1, <1>2, <1>3, <1>4, <1>5, <1>6, <1>7, Zenon DEF Next, Stop

LEMMA StopInvariance == ASSUME ~EarlyStop PROVE Spec => []StopInv
<1>1. Init => StopInv
  BY Zenon DEF Init, StopInv, StopWaitsForWorkers, NoWorkerPanic
<1>2. PoolInv /\ StopInv /\ [Next]_vars => StopInv'
  BY StopStep, Zenon
<1> QED BY <1>1, <1>2, PoolInvariance, PTL DEF Spec

\* "wait for all workers stop" (workerpool.go:134) is true of every call of
\* Stop that comes after the start of the workers.
THEOREM StopWaits == ASSUME ~EarlyStop PROVE Spec => []StopWaitsForWorkers
BY StopInvariance, PTL DEF StopInv

\* After such a call no worker sends on the closed workerCh, and Submit never
\* sends on the closed jobCh.
THEOREM SendsNeverPanic == ASSUME ~EarlyStop PROVE Spec => []NoPanic
BY StopInvariance, PoolInvariance, PTL DEF StopInv, PoolInv, NoPanic

-----------------------------------------------------------------------------
\* Every step of the pool is a step of the service its clients see, or none.
LEMMA ServiceStep ==
  ASSUME PoolInv, StopInv, [Next]_vars
  PROVE  [Service!Next]_<<[j \in Jobs |-> Status(jst[j])], ~closed, spc = "done">>
<1> USE DEF vars, chans, dvars, wvars, svars
<1> DEFINE st == [j \in Jobs |-> Status(jst[j])]
<1>0. TypeOK /\ JobStates
  BY Zenon DEF PoolInv
<1>10. ASSUME NEW w \in Workers, wpc[w] \in {"received", "execute"}
       PROVE  wjob[w] \in Jobs /\ spc # "done"
  <2>1. wjob[w] \in Jobs
    BY <1>0, <1>10 DEF JobStates, TypeOK
  <2>2. spc # "done"
    BY <1>10, Zenon DEF StopInv, StopWaitsForWorkers
  <2> QED BY <2>1, <2>2, Zenon
<1>1. ASSUME jst' = jst, closed' = closed, (spc = "done") <=> (spc' = "done")
      PROVE  [Service!Next]_<<st, ~closed, spc = "done">>
  BY <1>1, Zenon
<1>2. ASSUME Dispatcher \/ StopCloseJob \/ StopWait \/ UNCHANGED vars
      PROVE  [Service!Next]_<<st, ~closed, spc = "done">>
  BY <1>1, <1>2, Zenon DEF Dispatcher, Spawn, TakeWorker, TakeJob, SendJob, StopCloseJob,
                    StopWait
<1>3. ASSUME NEW w \in Workers,
             Begin(w) \/ Register(w) \/ Receive(w) \/ Quit(w) \/ StopWorker(w)
      PROVE  jst' = jst /\ closed' = closed /\ spc' = spc
  BY <1>3, Zenon DEF Begin, Register, Receive, Quit, StopWorker
<1>4. ASSUME NEW w \in Workers, Execute(w) PROVE Service!Run(wjob[w])
  <2>1. wjob[w] \in Jobs /\ jst[wjob[w]] = "queued" /\ spc # "done"
    BY <1>0, <1>4, <1>10, Zenon DEF Execute, JobStates
  <2>2. jst' = [jst EXCEPT ![wjob[w]] = "running"] /\ closed' = closed /\ spc' = spc
    BY <1>4, Zenon DEF Execute
  <2>3. st' = [st EXCEPT ![wjob[w]] = "running"] /\ st[wjob[w]] = "accepted"
    BY <1>0, <2>1, <2>2, Zenon DEF Status, TypeOK
  <2> QED BY <2>1, <2>2, <2>3, Zenon DEF Service!Run, Service!Step
<1>5. ASSUME NEW w \in Workers, Finish(w) PROVE Service!Complete(wjob[w])
  <2>1. wjob[w] \in Jobs /\ jst[wjob[w]] = "running" /\ spc # "done"
    BY <1>0, <1>5, <1>10, Zenon DEF Finish, JobStates
  <2>2. jst' = [jst EXCEPT ![wjob[w]] = "done"] /\ closed' = closed /\ spc' = spc
    BY <1>5, Zenon DEF Finish
  <2>3. st' = [st EXCEPT ![wjob[w]] = "done"] /\ st[wjob[w]] = "running"
    BY <1>0, <2>1, <2>2, Zenon DEF Status, TypeOK
  <2> QED BY <2>1, <2>2, <2>3, Zenon DEF Service!Complete, Service!Step
<1>6. ASSUME NEW j \in Jobs, SubmitLock(j)
      PROVE  Service!Refuse(j) \/ UNCHANGED <<st, ~closed, spc = "done">>
  <2>1. CASE closed
    <3>1. st' = [st EXCEPT ![j] = "refused"] /\ st[j] = "new"
      BY <1>0, <1>6, <2>1, Zenon DEF SubmitLock, Status, TypeOK
    <3> QED BY <1>6, <2>1, <3>1, Zenon DEF SubmitLock, Service!Refuse, Service!Step
  <2>2. CASE ~closed
    <3>1. jst' = [jst EXCEPT ![j] = "sending"] /\ jst[j] = "new"
      BY <1>6, <2>2, Zenon DEF SubmitLock
    <3>2. st' = st
      BY <1>0, <3>1, Zenon DEF Status, TypeOK
    <3> QED BY <1>6, <3>2, Zenon DEF SubmitLock
  <2> QED BY <2>1, <2>2, Zenon
<1>7. ASSUME NEW j \in Jobs, SubmitSend(j) PROVE Service!Accept(j)
  <2>1. mutex = j /\ ~closed /\ ~jobClosed
    BY <1>7, PoolAssumption, Zenon DEF SubmitSend, PoolInv, SubmitLocking
  <2>2. st' = [st EXCEPT ![j] = "accepted"] /\ st[j] = "new"
    BY <1>0, <1>7, <2>1, Zenon DEF SubmitSend, Status, TypeOK
  <2> QED BY <1>7, <2>1, <2>2, Zenon DEF SubmitSend, Service!Accept, Service!Step
<1>8. ASSUME StopCall
      PROVE  [Service!Next]_<<st, ~closed, spc = "done">>
  <2>1. ~closed
    BY <1>8, Zenon DEF StopCall, PoolInv, SubmitLocking
  <2> QED BY <1>8, <2>1, Zenon DEF StopCall, Service!Next, Service!Close
<1>9. ASSUME StopCloseWorker
      PROVE  [Service!Next]_<<st, ~closed, spc = "done">>
  <2>1. \A j \in Jobs : jst[j] # "running"
    BY <1>9, Zenon DEF StopCloseWorker, PoolInv, RunningHasWorker, StopInv,
                StopWaitsForWorkers
  <2>2. \A j \in Jobs : st[j] # "running"
    BY <1>0, <2>1, Zenon DEF Status, TypeOK
  <2>3. closed
    BY <1>9, Zenon DEF StopCloseWorker, PoolInv, SubmitLocking
  <2> QED BY <1>9, <2>2, <2>3, Zenon DEF StopCloseWorker, Service!Next, Service!StopReturns
<1> HIDE DEF st, vars, chans, dvars, wvars, svars
<1>11. ASSUME NEW w \in Workers, Worker(w) \/ StopWorker(w)
       PROVE  [Service!Next]_<<st, ~closed, spc = "done">>
  <2>1. CASE Begin(w) \/ Register(w) \/ Receive(w) \/ Quit(w) \/ StopWorker(w)
    <3>1. jst' = jst /\ closed' = closed /\ spc' = spc
      BY <1>3, <2>1, Zenon
    <3> QED BY <1>1, <3>1, Zenon
  <2>2. CASE Execute(w)
    <3>1. wjob[w] \in Jobs /\ Service!Run(wjob[w])
      BY <1>4, <1>10, <2>2, Zenon DEF Execute
    <3> QED BY <3>1, Zenon DEF Service!Next
  <2>3. CASE Finish(w)
    <3>1. wjob[w] \in Jobs /\ Service!Complete(wjob[w])
      BY <1>5, <1>10, <2>3, Zenon DEF Finish
    <3> QED BY <3>1, Zenon DEF Service!Next
  <2> QED BY <1>11, <2>1, <2>2, <2>3, Zenon DEF Worker
<1>12. ASSUME NEW j \in Jobs, Submit(j)
       PROVE  [Service!Next]_<<st, ~closed, spc = "done">>
  <2>1. \/ Service!Refuse(j) \/ Service!Accept(j)
        \/ UNCHANGED <<st, ~closed, spc = "done">>
    BY <1>6, <1>7, <1>12, Zenon DEF Submit
  <2> QED BY <2>1, Zenon DEF Service!Next
<1>13. [Service!Next]_<<st, ~closed, spc = "done">>
  BY <1>2, <1>8, <1>9, <1>11, <1>12, Zenon DEF Next, Stop
<1> QED BY <1>13, Zenon DEF st

\* The pool implements JobService: jobs are accepted only while it is open,
\* executed at most once and only if accepted, and when Stop has returned no
\* job executes any more (workerpool.go:99-139).
THEOREM PoolImplementsService == ASSUME ~EarlyStop PROVE Spec => ServiceSpec
<1>1. Init => Service!Init
  BY Zenon DEF Init, Service!Init, Status
<1> QED BY <1>1, ServiceStep, PoolInvariance, StopInvariance, PTL
        DEF Spec, ServiceSpec, Service!Spec
-----------------------------------------------------------------------------
(* Where the pool can get stuck *)

\* Every accepted job that nobody has executed is somewhere: in jobCh, with the
\* dispatcher, in the channel of a worker, or with a worker that has received it.
JobKept ==
  \A j \in Jobs : jst[j] = "queued" =>
    j \in {jobCh, djob} \/ \E w \in Workers : j \in {wjobCh[w], wjob[w]}

\* So is the channel of every worker that waits, or there is a job in it, and the
\* dispatcher that waits for a job has the channel of a worker.
WorkerKept ==
  /\ \A w \in Workers : wpc[w] = "select" =>
       w \in Range(workerCh) \cup dwch \/ wjobCh[w] # NoJob
  /\ dpc \in {"job", "send"} => dwch # {}

\* Who has ended was told to.
Phases ==
  /\ dpc = "done" => jobClosed
  /\ workerClosed => spc = "done"
  /\ spc = "stop" => Workers \subseteq quit \cup tostop
  /\ quit # {} => jobClosed
  /\ \A w \in Workers :
       /\ wpc[w] = "unborn" => dpc = "spawn"
       /\ wpc[w] = "exited" => w \in quit
       /\ wpc[w] = "panic" => workerClosed

LEMMA JobKeptStep ==
  ASSUME PoolInv, JobKept, [Next]_vars
  PROVE  JobKept'
<1> USE DEF vars, chans, dvars, wvars, svars
<1>0. TypeOK /\ DispatchesJob /\ JobStates /\ SubmitLocking
  BY Zenon DEF PoolInv
<1>a. NoJob \notin Jobs
  BY PoolAssumption, Zenon
<1>b. ASSUME UNCHANGED <<jobCh, djob, wjobCh, wjob, jst>> PROVE JobKept'
  BY <1>b, Zenon DEF JobKept
<1>1. CASE TakeJob
  <2>1. djob = NoJob /\ UNCHANGED <<wjobCh, wjob, jst>>
    BY <1>0, <1>1, Zenon DEF TakeJob, DispatchesJob
  <2>2. (djob' = jobCh /\ jobCh' = NoJob) \/ UNCHANGED <<jobCh, djob>>
    BY <1>1, Zenon DEF TakeJob
  <2>3. ASSUME NEW j \in Jobs, j \in {jobCh, djob} PROVE j \in {jobCh', djob'}
    BY <1>a, <2>1, <2>2, <2>3, Zenon
  <2> QED BY <2>1, <2>3, Zenon DEF JobKept
<1>2. CASE SendJob
  <2>1. PICK w \in dwch : wjobCh[w] = NoJob /\ wjobCh' = [wjobCh EXCEPT ![w] = djob]
    BY <1>2, Zenon DEF SendJob
  <2>2. w \in Workers /\ wjobCh'[w] = djob
        /\ \A v \in Workers : v # w => wjobCh'[v] = wjobCh[v]
    BY <1>0, <2>1, Zenon DEF TypeOK
  <2>3. UNCHANGED <<jobCh, wjob, jst>>
    BY <1>2, Zenon DEF SendJob
  <2>4. ASSUME NEW j \in Jobs, NEW v \in Workers, j \in {wjobCh[v], wjob[v]}
        PROVE  \E u \in Workers : j \in {wjobCh'[u], wjob'[u]}
    <3>1. j = wjobCh[v] => v # w
      BY <1>a, <2>1, Zenon
    <3> QED BY <2>2, <2>3, <2>4, <3>1, Zenon
  <2>5. ASSUME NEW j \in Jobs, j \in {jobCh, djob}
        PROVE  j = jobCh' \/ \E u \in Workers : j \in {wjobCh'[u], wjob'[u]}
    BY <2>2, <2>3, <2>5, Zenon
  <2> QED BY <2>3, <2>4, <2>5, Zenon DEF JobKept
<1>3. ASSUME NEW w \in Workers, Receive(w) PROVE JobKept'
  <2>1. wjob[w] = NoJob
    BY <1>0, <1>3, Zenon DEF Receive, JobStates
  <2>2. /\ wjob'[w] = wjobCh[w]
        /\ \A v \in Workers : v # w => wjobCh'[v] = wjobCh[v] /\ wjob'[v] = wjob[v]
    BY <1>0, <1>3, Zenon DEF Receive, TypeOK
  <2>3. UNCHANGED <<jobCh, djob, jst>>
    BY <1>3, Zenon DEF Receive
  <2>4. ASSUME NEW j \in Jobs, NEW v \in Workers, j \in {wjobCh[v], wjob[v]}
        PROVE  j \in {wjobCh'[v], wjob'[v]}
    <3>1. CASE v = w
      BY <1>a, <2>1, <2>2, <2>4, <3>1, Zenon
    <3>2. CASE v # w
      BY <2>2, <2>4, <3>2, Zenon
    <3> QED BY <3>1, <3>2, Zenon
  <2> QED BY <2>3, <2>4, Zenon DEF JobKept
<1>4. ASSUME NEW w \in Workers, Execute(w) PROVE JobKept'
  <2>1. UNCHANGED <<jobCh, djob, wjobCh, wjob>>
    BY <1>4, Zenon DEF Execute
  <2>2. \A j \in Jobs : jst'[j] = "queued" => jst[j] = "queued"
    BY <1>0, <1>4, Zenon DEF Execute, TypeOK
  <2> QED BY <2>1, <2>2, Zenon DEF JobKept
<1>5. ASSUME NEW w \in Workers, Finish(w) PROVE JobKept'
  <2>1. UNCHANGED <<jobCh, djob, wjobCh>>
    BY <1>5, Zenon DEF Finish
  <2>2. \A j \in Jobs : jst'[j] = "queued" => jst[j] = "queued"
    BY <1>0, <1>5, Zenon DEF Finish, TypeOK
  <2>3. jst[wjob[w]] = "running"
    BY <1>0, <1>5, Zenon DEF Finish, JobStates
  <2>4. \A v \in Workers : v # w => wjob'[v] = wjob[v]
    BY <1>0, <1>5, Zenon DEF Finish, TypeOK
  <2>5. ASSUME NEW j \in Jobs, jst[j] = "queued", NEW v \in Workers,
               j \in {wjobCh[v], wjob[v]}
        PROVE  j \in {wjobCh'[v], wjob'[v]}
    <3>1. j = wjob[v] => v # w
      BY <2>3, <2>5, Zenon
    <3> QED BY <2>1, <2>4, <2>5, <3>1, Zenon
  <2> QED BY <2>1, <2>2, <2>5, Zenon DEF JobKept
<1>6. ASSUME NEW k \in Jobs, SubmitLock(k) PROVE JobKept'
  <2>1. UNCHANGED <<jobCh, djob, wjobCh, wjob>>
    BY <1>6, Zenon DEF SubmitLock
  <2>2. \A j \in Jobs : jst'[j] = "queued" => jst[j] = "queued"
    BY <1>0, <1>6, Zenon DEF SubmitLock, TypeOK
  <2> QED BY <2>1, <2>2, Zenon DEF JobKept
<1>7. ASSUME NEW k \in Jobs, SubmitSend(k) PROVE JobKept'
  <2>1. ~jobClosed
    BY <1>0, <1>7, <1>a, Zenon DEF SubmitSend, SubmitLocking
  <2>2. jobCh = NoJob /\ jobCh' = k /\ UNCHANGED <<djob, wjobCh, wjob>>
    BY <1>7, <2>1, Zenon DEF SubmitSend
  <2>3. \A j \in Jobs : j # k /\ jst'[j] = "queued" => jst[j] = "queued"
    BY <1>0, <1>7, Zenon DEF SubmitSend, TypeOK
  <2>4. ASSUME NEW j \in Jobs, j # k, jst'[j] = "queued"
        PROVE  j = djob \/ \E w \in Workers : j \in {wjobCh[w], wjob[w]}
    BY <1>a, <2>2, <2>3, <2>4, Zenon DEF JobKept
  <2> QED BY <2>2, <2>4, Zenon DEF JobKept
<1>8. CASE Spawn \/ TakeWorker \/ Stop \/ UNCHANGED vars
  BY <1>8, <1>b, Zenon DEF Spawn, TakeWorker, Stop, StopCall, StopCloseJob, StopWait,
                           StopCloseWorker, StopWorker
<1>9. ASSUME NEW w \in Workers, Begin(w) \/ Register(w) \/ Quit(w) PROVE JobKept'
  BY <1>9, <1>b, Zenon DEF Begin, Register, Quit
<1> QED BY <1>1, <1>2, <1>3, <1>4, <1>5, <1>6, <1>7, <1>8, <1>9, Zenon
        DEF Next, Dispatcher, Worker, Submit

\* No accepted job is lost on its way to a worker, whatever Stop does meanwhile
\* (workerpool.go:89-96, 111, 154-158).
THEOREM JobsAreKept == Spec => []JobKept
<1>1. Init => JobKept
  BY Zenon DEF Init, JobKept
<1> QED BY <1>1, JobKeptStep, PoolInvariance, PTL DEF Spec

LEMMA WorkerKeptStep ==
  ASSUME PoolInv, WorkerKept, [Next]_vars
  PROVE  WorkerKept'
<1> USE DEF vars, chans, dvars, wvars, svars
<1>0. TypeOK /\ Registration /\ DispatchesJob
  BY Zenon DEF PoolInv
<1>a. ASSUME UNCHANGED <<workerCh, wjobCh>>, dwch' = dwch,
             dpc' \in {"job", "send"} => dpc \in {"job", "send"},
             \A w \in Workers : wpc'[w] = "select" => wpc[w] = "select"
      PROVE  WorkerKept'
  BY <1>a, Zenon DEF WorkerKept
<1>1. CASE Spawn
  <2>1. \A w \in Workers : wpc'[w] = "select" => wpc[w] = "select"
    BY <1>0, <1>1, Zenon DEF Spawn, TypeOK
  <2>2. UNCHANGED <<workerCh, wjobCh, dwch>> /\ dpc' \notin {"job", "send"}
    BY <1>1, Zenon DEF Spawn
  <2> QED BY <1>a, <2>1, <2>2, Zenon
<1>2. CASE TakeWorker
  <2>1. UNCHANGED <<wpc, wjobCh>>
    BY <1>2, Zenon DEF TakeWorker
  <2>2. CASE workerCh # <<>>
    <3>1. dwch = {} /\ dwch' = {Head(workerCh)} /\ workerCh' = Tail(workerCh)
      BY <1>0, <1>2, <2>2, Zenon DEF TakeWorker, Registration
    <3>2. Range(workerCh) = Range(Tail(workerCh)) \cup {Head(workerCh)}
      BY <1>0, <2>2, TailFacts, Zenon DEF TypeOK
    <3>3. Range(workerCh)' \cup dwch' = Range(workerCh) \cup dwch
      BY <3>1, <3>2, Zenon
    <3> QED BY <2>1, <3>1, <3>3, Zenon DEF WorkerKept
  <2>3. CASE workerCh = <<>>
    <3>1. UNCHANGED <<dwch, workerCh>> /\ dpc' = "done"
      BY <1>2, <2>3, Zenon DEF TakeWorker
    <3> QED BY <1>a, <2>1, <3>1, Zenon
  <2> QED BY <2>2, <2>3, Zenon
<1>3. CASE TakeJob
  <2>1. UNCHANGED <<workerCh, wjobCh, wpc, dwch>> /\ dpc = "job"
    BY <1>3, Zenon DEF TakeJob
  <2> QED BY <1>a, <2>1, Zenon
<1>4. CASE SendJob
  <2>1. PICK w \in dwch : wjobCh' = [wjobCh EXCEPT ![w] = djob]
    BY <1>4, Zenon DEF SendJob
  <2>2. /\ wjobCh'[w] = djob /\ djob # NoJob
        /\ \A v \in Workers : v # w => wjobCh'[v] = wjobCh[v] /\ v \notin dwch
    BY <1>0, <1>4, <2>1, Zenon DEF TypeOK, Registration, DispatchesJob, SendJob
  <2>3. UNCHANGED <<wpc, workerCh>> /\ dpc' = "worker"
    BY <1>4, Zenon DEF SendJob
  <2>4. ASSUME NEW v \in Workers, wpc'[v] = "select"
        PROVE  v \in Range(workerCh') \/ wjobCh'[v] # NoJob
    <3>1. CASE v = w
      BY <2>2, <3>1, Zenon
    <3>2. CASE v # w
      BY <2>2, <2>3, <2>4, <3>2, Zenon DEF WorkerKept
    <3> QED BY <3>1, <3>2, Zenon
  <2> QED BY <2>3, <2>4, Zenon DEF WorkerKept
<1>5. ASSUME NEW w \in Workers, Register(w) PROVE WorkerKept'
  <2>1. \A v \in Workers : v # w => wpc'[v] = wpc[v]
    BY <1>0, <1>5, Zenon DEF Register, TypeOK
  <2>2. UNCHANGED <<wjobCh, dwch, dpc>>
    BY <1>5, Zenon DEF Register
  <2>3. CASE workerClosed
    <3>1. workerCh' = workerCh /\ wpc'[w] = "panic"
      BY <1>0, <1>5, <2>3, Zenon DEF Register, TypeOK
    <3>2. \A v \in Workers : wpc'[v] = "select" => wpc[v] = "select"
      BY <2>1, <3>1, Zenon
    <3> QED BY <1>a, <2>2, <3>1, <3>2, Zenon
  <2>4. CASE ~workerClosed
    <3>1. workerCh' = Append(workerCh, w)
      BY <1>5, <2>4, Zenon DEF Register
    <3>2. workerCh \in Seq(Workers)
      BY <1>0, Zenon DEF TypeOK
    <3>3. Range(Append(workerCh, w)) = Range(workerCh) \cup {w}
      BY <3>2, AppendFacts
    <3> QED BY <2>1, <2>2, <3>1, <3>3, Zenon DEF WorkerKept
  <2> QED BY <2>3, <2>4, Zenon
<1>6. ASSUME NEW w \in Workers, Receive(w) PROVE WorkerKept'
  <2>1. /\ wpc'[w] = "received"
        /\ \A v \in Workers : v # w => wpc'[v] = wpc[v] /\ wjobCh'[v] = wjobCh[v]
    BY <1>0, <1>6, Zenon DEF Receive, TypeOK
  <2>2. UNCHANGED <<workerCh, dwch, dpc>>
    BY <1>6, Zenon DEF Receive
  <2> QED BY <2>1, <2>2, Zenon DEF WorkerKept
<1>7. ASSUME NEW w \in Workers, Begin(w) \/ Execute(w) \/ Finish(w) \/ Quit(w)
      PROVE  WorkerKept'
  <2>1. UNCHANGED <<workerCh, wjobCh, dwch, dpc>>
    BY <1>7, Zenon DEF Begin, Execute, Finish, Quit
  <2>2. \A v \in Workers : wpc'[v] = "select" => wpc[v] = "select"
    BY <1>0, <1>7, Zenon DEF Begin, Execute, Finish, Quit, TypeOK
  <2> QED BY <1>a, <2>1, <2>2, Zenon
<1>8. ASSUME NEW j \in Jobs, Submit(j) PROVE WorkerKept'
  BY <1>a, <1>8, Zenon DEF Submit, SubmitLock, SubmitSend
<1>9. CASE Stop \/ UNCHANGED vars
  BY <1>a, <1>9, Zenon DEF Stop, StopCall, StopCloseJob, StopWait, StopCloseWorker,
                           StopWorker
<1> QED BY <1>1, <1>2, <1>3, <1>4, <1>5, <1>6, <1>7, <1>8, <1>9, Zenon
        DEF Next, Dispatcher, Worker

LEMMA PhasesStep ==
  ASSUME PoolInv, Phases, [Next]_vars
  PROVE  Phases'
<1> USE DEF vars, chans, dvars, wvars, svars
<1>0. TypeOK /\ SubmitLocking
  BY Zenon DEF PoolInv
<1>a. ASSUME UNCHANGED <<dpc, jobClosed, workerClosed, spc, quit, tostop, wpc>>
      PROVE  Phases'
  BY <1>a, Zenon DEF Phases
<1>1. CASE Spawn
  <2>1. UNCHANGED <<jobClosed, workerClosed, spc, quit, tostop>> /\ dpc = "spawn"
    BY <1>1, Zenon DEF Spawn
  <2>2. ASSUME dpc' = "worker", wpc' = wpc, \A w \in Workers : wpc[w] # "unborn"
        PROVE  Phases'
    BY <2>1, <2>2, Zenon DEF Phases
  <2>3. ASSUME NEW w \in Workers, wpc' = [wpc EXCEPT ![w] = "spawned"], dpc' = dpc
        PROVE  Phases'
    <3>1. wpc'[w] = "spawned" /\ \A v \in Workers : v # w => wpc'[v] = wpc[v]
      BY <1>0, <2>3, Zenon DEF TypeOK
    <3> QED BY <2>1, <2>3, <3>1, Zenon DEF Phases
  <2> QED BY <1>1, <2>2, <2>3, Zenon DEF Spawn
<1>2. CASE TakeWorker \/ TakeJob \/ SendJob
  <2>1. /\ UNCHANGED <<jobClosed, workerClosed, spc, quit, tostop, wpc>>
        /\ dpc # "spawn" /\ (dpc' = "done" => workerClosed \/ jobClosed)
    BY <1>2, Zenon DEF TakeWorker, TakeJob, SendJob
  <2>2. workerClosed => jobClosed
    BY <1>0, Zenon DEF Phases, SubmitLocking
  <2> QED BY <2>1, <2>2, Zenon DEF Phases
<1>3. ASSUME NEW w \in Workers, Worker(w) PROVE Phases'
  <2>1. UNCHANGED <<dpc, jobClosed, workerClosed, spc, quit, tostop>>
    BY <1>3, Zenon DEF Worker, Begin, Register, Receive, Execute, Finish, Quit
  <2>2. /\ \A v \in Workers : v # w => wpc'[v] = wpc[v]
        /\ wpc'[w] # "unborn"
        /\ wpc'[w] = "exited" => w \in quit
        /\ wpc'[w] = "panic" => workerClosed
    BY <1>0, <1>3, Zenon DEF Worker, Begin, Register, Receive, Execute, Finish, Quit,
                             TypeOK
  <2> QED BY <2>1, <2>2, Zenon DEF Phases
<1>4. ASSUME NEW j \in Jobs, Submit(j) PROVE Phases'
  BY <1>4, <1>a, Zenon DEF Submit, SubmitLock, SubmitSend
<1>5. CASE StopCall
  <2>1. /\ spc = "idle" /\ spc' = "closejob"
        /\ UNCHANGED <<dpc, jobClosed, workerClosed, quit, tostop, wpc>>
    BY <1>5, Zenon DEF StopCall
  <2> QED BY <2>1, Zenon DEF Phases
<1>6. CASE StopCloseJob
  <2>1. /\ spc = "closejob" /\ spc' = "stop" /\ jobClosed' = TRUE /\ tostop' = Workers
        /\ UNCHANGED <<dpc, workerClosed, quit, wpc>>
    BY <1>6, Zenon DEF StopCloseJob
  <2> QED BY <2>1, Zenon DEF Phases
<1>7. ASSUME NEW w \in Workers, StopWorker(w) PROVE Phases'
  <2>1. /\ spc = "stop" /\ quit' = quit \cup {w} /\ tostop' = tostop \ {w}
        /\ UNCHANGED <<dpc, jobClosed, workerClosed, spc, wpc>>
    BY <1>7, Zenon DEF StopWorker
  <2>2. jobClosed
    BY <1>0, <2>1, Zenon DEF SubmitLocking
  <2> QED BY <2>1, <2>2, Zenon DEF Phases
<1>8. CASE StopWait
  <2>1. /\ spc = "stop" /\ spc' = "closeworker"
        /\ UNCHANGED <<dpc, jobClosed, workerClosed, quit, tostop, wpc>>
    BY <1>8, Zenon DEF StopWait
  <2> QED BY <2>1, Zenon DEF Phases
<1>9. CASE StopCloseWorker
  <2>1. /\ spc' = "done" /\ workerClosed' = TRUE
        /\ UNCHANGED <<dpc, jobClosed, quit, tostop, wpc>>
    BY <1>9, Zenon DEF StopCloseWorker
  <2> QED BY <2>1, Zenon DEF Phases
<1> QED BY <1>1, <1>2, <1>3, <1>4, <1>5, <1>6, <1>7, <1>8, <1>9, <1>a, Zenon
        DEF Next, Dispatcher, Stop

LEMMA PlacesKept == Spec => [](PoolInv /\ JobKept /\ WorkerKept /\ Phases)
<1>1. Init => WorkerKept /\ Phases
  BY Zenon DEF Init, WorkerKept, Phases
<1> QED BY <1>1, WorkerKeptStep, PhasesStep, JobsAreKept, PoolInvariance, PTL DEF Spec

-----------------------------------------------------------------------------
\* A goroutine of the pool can go on: the guards of the actions that Fairness
\* names, of the dispatcher, of worker w, of the Submit of job j that has begun
\* or is made by a job in execution, and of the Stop that has begun.
DispatcherCan ==
  \/ dpc = "spawn"
  \/ dpc = "worker" /\ (workerCh # <<>> \/ workerClosed)
  \/ dpc = "job" /\ (jobCh # NoJob \/ jobClosed)
  \/ dpc = "send" /\ \E w \in dwch : wjobCh[w] = NoJob
WorkerCan(w) ==
  \/ wpc[w] \in {"spawned", "received"}
  \/ wpc[w] = "register" /\ (workerClosed \/ Len(workerCh) < Cardinality(Workers))
  \/ wpc[w] = "select" /\ (wjobCh[w] # NoJob \/ w \in quit)
  \/ wpc[w] = "execute" /\ (Child[wjob[w]] # NoJob =>
                              jst[Child[wjob[w]]] \notin {"new", "sending"})
SubmitCan(j) ==
  \/ jst[j] = "sending" /\ (jobCh # NoJob => jobClosed)
  \/ jst[j] = "new" /\ Parents(j) # {} /\ Callable(j) /\ mutex = NoJob
StopCan ==
  \/ spc \in {"closejob", "closeworker"}
  \/ spc = "stop" /\ (tostop # {} \/ wg = 0)
PoolCan ==
  \/ DispatcherCan \/ StopCan
  \/ \E w \in Workers : WorkerCan(w)
  \/ \E j \in Jobs : SubmitCan(j)

\* Somebody waits for the pool: a caller of Submit or Stop, a job that has begun,
\* or one that was accepted by a pool that is still open.
Busy ==
  \/ spc \notin {"idle", "done"}
  \/ \E j \in Jobs : jst[j] \in {"sending", "running"} \/ (jst[j] = "queued" /\ ~closed)

\* Every worker executes a job that is inside Submit to this very pool, one of
\* them with the mutex held, and jobCh is full.
Jammed ==
  /\ jobCh # NoJob /\ mutex # NoJob
  /\ \A w \in Workers : /\ wpc[w] = "execute" /\ Child[wjob[w]] # NoJob
                        /\ jst[Child[wjob[w]]] \in {"new", "sending"}
NeverWaitsInVain == Busy => PoolCan \/ Jammed

\* A job that is inside Submit can go on, unless jobCh is full and open.
LEMMA InSubmit ==
  ASSUME PoolInv, NEW w \in Workers, wpc[w] = "execute", ~WorkerCan(w),
         \A j \in Jobs : ~SubmitCan(j)
  PROVE  /\ Child[wjob[w]] # NoJob /\ jst[Child[wjob[w]]] \in {"new", "sending"}
         /\ mutex # NoJob /\ ~closed /\ jobCh # NoJob
<1> DEFINE c == Child[wjob[w]]
<1>0. TypeOK /\ SubmitLocking /\ JobStates
  BY Zenon DEF PoolInv
<1>1. c # NoJob /\ jst[c] \in {"new", "sending"}
  BY Zenon DEF WorkerCan
<1>2. wjob[w] \in Jobs
  <2>1. wjob[w] # NoJob
    BY <1>0, Zenon DEF JobStates
  <2>2. wjob[w] \in Jobs \cup {NoJob}
    BY <1>0, Zenon DEF TypeOK
  <2> QED BY <2>1, <2>2, Zenon
<1>3. c \in Jobs /\ wjob[w] \in Parents(c)
  BY <1>1, <1>2, PoolAssumption, Zenon DEF Parents
<1> HIDE DEF c
<1>4. mutex # NoJob
  <2>1. CASE jst[c] = "new"
    BY <1>3, <2>1, Zenon DEF SubmitCan, Callable
  <2>2. CASE jst[c] = "sending"
    BY <1>0, <1>1, <1>3, <2>2, Zenon DEF SubmitLocking
  <2> QED BY <1>1, <2>1, <2>2, Zenon
<1>5. mutex \in Jobs /\ jst[mutex] = "sending" /\ ~closed /\ ~jobClosed
  BY <1>0, <1>4, Zenon DEF TypeOK, SubmitLocking
<1>6. jobCh # NoJob
  BY <1>5, Zenon DEF SubmitCan
<1> QED BY <1>1, <1>4, <1>5, <1>6, Zenon DEF c

LEMMA OnlyJams ==
  ASSUME Workers # {}, PoolInv, JobKept, WorkerKept, Phases
  PROVE  NeverWaitsInVain
<1>0. TypeOK /\ Registration /\ DispatchesJob /\ JobStates /\ RunningHasWorker
      /\ SubmitLocking /\ WaitGroupCounts
  BY Zenon DEF PoolInv
<1> SUFFICES ASSUME Busy, ~PoolCan PROVE Jammed
  BY Zenon DEF NeverWaitsInVain
<1>1. /\ ~DispatcherCan /\ ~StopCan
      /\ \A w \in Workers : ~WorkerCan(w)
      /\ \A j \in Jobs : ~SubmitCan(j)
  BY Zenon DEF PoolCan
<1>2. \A w \in Workers : wpc[w] # "register"
  BY <1>0, <1>1, ShortQueue, Zenon DEF WorkerCan, TypeOK, Registration
<1>3. ASSUME NEW w \in Workers, wpc[w] = "execute"
      PROVE  /\ Child[wjob[w]] # NoJob /\ jst[Child[wjob[w]]] \in {"new", "sending"}
             /\ mutex # NoJob /\ ~closed /\ jobCh # NoJob
  BY <1>1, <1>3, InSubmit, Zenon
<1>4. spc \in {"idle", "done"}
  <2> SUFFICES ASSUME spc = "stop" PROVE FALSE
    BY <1>0, <1>1, Zenon DEF StopCan, TypeOK
  <2>1. tostop = {} /\ wg # 0
    BY <1>1, Zenon DEF StopCan
  <2>2. PICK w \in Workers : wpc[w] \notin {"unborn", "spawned", "exited"}
    <3>1. Active # {}
      BY <1>0, <2>1, FS_EmptySet, Zenon DEF WaitGroupCounts
    <3> QED BY <3>1, Zenon DEF Active
  <2>3. w \in quit /\ closed /\ ~workerClosed
    BY <1>0, <2>1, Zenon DEF Phases, SubmitLocking
  <2>4. wpc[w] \in {"register", "select", "received", "execute"}
    BY <1>0, <2>2, <2>3, Zenon DEF TypeOK, Phases
  <2> QED BY <1>1, <1>2, <1>3, <2>3, <2>4, Zenon DEF WorkerCan
<1>5. ~closed
  <2> SUFFICES ASSUME closed PROVE FALSE
    OBVIOUS
  <2>1. PICK j \in Jobs : jst[j] = "running"
    <3>1. PICK j \in Jobs : jst[j] \in {"sending", "running"}
      BY <1>4, Zenon DEF Busy
    <3>2. jst[j] # "sending"
      BY <1>0, PoolAssumption, Zenon DEF SubmitLocking
    <3> QED BY <3>1, <3>2, Zenon
  <2>2. PICK w \in Workers : wpc[w] = "execute"
    BY <1>0, <2>1, Zenon DEF RunningHasWorker
  <2> QED BY <1>3, <2>2, Zenon
<1>6. /\ ~jobClosed /\ ~workerClosed /\ quit = {}
      /\ dpc \notin {"spawn", "done"}
      /\ \A w \in Workers : wpc[w] \notin {"unborn", "exited", "panic"}
  <2>1. ~jobClosed /\ spc = "idle"
    BY <1>0, <1>5, Zenon DEF SubmitLocking
  <2>2. quit = {} /\ ~workerClosed /\ dpc \notin {"spawn", "done"}
    BY <1>1, <2>1, Zenon DEF Phases, DispatcherCan
  <2> QED BY <2>1, <2>2, Zenon DEF Phases
<1>7. ASSUME NEW w \in Workers
      PROVE  wpc[w] = "execute" \/ (wpc[w] = "select" /\ wjobCh[w] = NoJob
                                    /\ w \in Range(workerCh) \cup dwch)
  <2>1. wpc[w] \in {"select", "execute"}
    <3>1. wpc[w] \notin {"spawned", "received"}
      BY <1>1, Zenon DEF WorkerCan
    <3>2. wpc[w] \in {"unborn", "spawned", "register", "select", "received",
                      "execute", "exited", "panic"}
      BY <1>0, Zenon DEF TypeOK
    <3> QED BY <1>2, <1>6, <3>1, <3>2, Zenon
  <2> QED BY <1>1, <2>1, Zenon DEF WorkerCan, WorkerKept
<1>8. dpc # "send"
  <2> SUFFICES ASSUME dpc = "send" PROVE FALSE
    OBVIOUS
  <2>1. PICK w \in dwch : TRUE
    BY Zenon DEF WorkerKept
  <2>2. wjobCh[w] = NoJob
    BY <1>0, <2>1, Zenon DEF TypeOK, Registration
  <2> QED BY <1>1, <2>1, <2>2, Zenon DEF DispatcherCan
<1>9. dpc # "job"
  <2> SUFFICES ASSUME dpc = "job" PROVE FALSE
    OBVIOUS
  <2>1. jobCh = NoJob
    BY <1>1, Zenon DEF DispatcherCan
  <2>2. \A w \in Workers : wpc[w] = "select" /\ wjobCh[w] = NoJob /\ wjob[w] = NoJob
    <3>1. ASSUME NEW w \in Workers PROVE wpc[w] = "select" /\ wjobCh[w] = NoJob
      BY <1>3, <1>7, <2>1, Zenon
    <3>2. ASSUME NEW w \in Workers PROVE wjob[w] = NoJob
      BY <1>0, <3>1, Zenon DEF JobStates
    <3> QED BY <3>1, <3>2, Zenon
  <2>3. djob = NoJob
    BY <1>0, <1>8, Zenon DEF DispatchesJob
  <2>4. \A j \in Jobs : jst[j] # "queued"
    BY <2>1, <2>2, <2>3, PoolAssumption, Zenon DEF JobKept
  <2>5. \A j \in Jobs : jst[j] # "running"
    BY <2>2, <1>0, Zenon DEF RunningHasWorker
  <2>6. \A j \in Jobs : jst[j] # "sending"
    BY <1>1, <2>1, Zenon DEF SubmitCan
  <2> QED BY <1>4, <2>4, <2>5, <2>6, Zenon DEF Busy
<1>10. dpc = "worker" /\ workerCh = <<>> /\ dwch = {}
  <2>1. dpc = "worker"
    BY <1>0, <1>6, <1>8, <1>9, Zenon DEF TypeOK
  <2> QED BY <1>0, <1>1, <2>1, Zenon DEF DispatcherCan, Registration
<1>11. Range(workerCh) = {}
  BY <1>10 DEF Range
<1>12. \A w \in Workers : wpc[w] = "execute"
  BY <1>7, <1>10, <1>11, Zenon
<1> QED BY <1>3, <1>12, Zenon DEF Jammed

\* The pool never leaves anybody waiting, whether for a job, for Submit or for
\* Stop, except in one way: every worker executes a job that submits to the pool
\* it runs on, and jobCh is full (workerpool.go:89-97, 101-113, 116-139).
THEOREM PoolOnlyJams == ASSUME Workers # {} PROVE Spec => []NeverWaitsInVain
<1>1. PoolInv /\ JobKept /\ WorkerKept /\ Phases => NeverWaitsInVain
  BY OnlyJams, Zenon
<1> QED BY <1>1, PlacesKept, PTL

\* A pool whose jobs do not submit to it never gets stuck, during Stop or before.
THEOREM PoolNeverStuck ==
  ASSUME Workers # {}, \A j \in Jobs : Child[j] = NoJob
  PROVE  Spec => [](Busy => PoolCan)
<1>1. PoolInv /\ NeverWaitsInVain => (Busy => PoolCan)
  <2> SUFFICES ASSUME PoolInv, Jammed PROVE FALSE
    BY Zenon DEF NeverWaitsInVain
  <2>1. PICK w \in Workers : TRUE
    OBVIOUS
  <2>2. wpc[w] = "execute" /\ Child[wjob[w]] # NoJob
    BY Zenon DEF Jammed
  <2>3. wjob[w] # NoJob
    BY <2>2, Zenon DEF PoolInv, JobStates
  <2>4. wjob[w] \in Jobs \cup {NoJob}
    BY Zenon DEF PoolInv, TypeOK
  <2> QED BY <2>2, <2>3, <2>4, Zenon
<1> QED BY <1>1, PoolOnlyJams, PoolInvariance, PTL

\* What a jam rules out: Stop has not begun, and the dispatcher waits for a worker.
LEMMA JamFacts ==
  ASSUME PoolInv, WorkerKept, Phases, Jammed
  PROVE  /\ ~closed /\ ~jobClosed /\ ~workerClosed /\ spc = "idle"
         /\ workerCh = <<>> /\ dwch = {} /\ dpc \notin {"job", "send"}
<1>0. TypeOK /\ Registration /\ SubmitLocking
  BY Zenon DEF PoolInv
<1>1. ~closed /\ ~jobClosed /\ spc = "idle"
  BY <1>0, Zenon DEF Jammed, SubmitLocking
<1>2. ~workerClosed
  BY <1>1, Zenon DEF Phases
<1>3. \A w \in Workers : w \notin Range(workerCh) \cup dwch
  BY <1>0, Zenon DEF Registration, Jammed
<1>4. dwch = {}
  BY <1>0, <1>3, Zenon DEF TypeOK
<1>5. workerCh = <<>>
  <2> SUFFICES ASSUME workerCh # <<>> PROVE FALSE
    OBVIOUS
  <2>1. Head(workerCh) \in Workers /\ Head(workerCh) \in Range(workerCh)
    BY <1>0, TailFacts, Zenon DEF TypeOK
  <2> QED BY <1>3, <2>1, Zenon
<1>6. dpc \notin {"job", "send"}
  BY <1>4, Zenon DEF WorkerKept
<1> QED BY <1>1, <1>2, <1>4, <1>5, <1>6, Zenon

LEMMA JamStep ==
  ASSUME PoolInv, WorkerKept, Phases, Jammed, [Next]_vars
  PROVE  Jammed'
<1> USE DEF vars, chans, dvars, wvars, svars
<1>0. /\ ~closed /\ ~jobClosed /\ ~workerClosed /\ spc = "idle"
      /\ workerCh = <<>> /\ dwch = {} /\ dpc \notin {"job", "send"}
  BY JamFacts, Zenon
<1>1. CASE Spawn
  <2>1. \A w \in Workers : wpc[w] # "unborn"
    BY Zenon DEF Jammed
  <2>2. UNCHANGED <<wpc, wjob, jst, jobCh, mutex>>
    BY <1>1, <2>1, Zenon DEF Spawn
  <2> QED BY <2>2, Zenon DEF Jammed
<1>2. ~(TakeWorker \/ TakeJob \/ SendJob)
  BY <1>0, Zenon DEF TakeWorker, TakeJob, SendJob
<1>3. ASSUME NEW w \in Workers PROVE ~Worker(w)
  BY Zenon DEF Jammed, Worker, Begin, Register, Receive, Execute, Finish, Quit
<1>4. ASSUME NEW j \in Jobs PROVE ~Submit(j)
  BY <1>0, Zenon DEF Jammed, Submit, SubmitLock, SubmitSend
<1>5. ~Stop
  BY <1>0, Zenon DEF Jammed, Stop, StopCall, StopCloseJob, StopWait, StopCloseWorker,
                     StopWorker
<1>6. CASE UNCHANGED vars
  BY <1>6, Zenon DEF Jammed
<1> QED BY <1>1, <1>2, <1>3, <1>4, <1>5, <1>6, Zenon DEF Next, Dispatcher

\* A jam is never resolved: no worker ends its job, nobody takes the job in jobCh,
\* and Stop waits for the mutex that Submit holds (workerpool.go:111, 117).
JamStays == [][Jammed => Jammed']_vars
THEOREM JamIsForEver == Spec => JamStays
<1>1. PoolInv /\ WorkerKept /\ Phases /\ [Next]_vars => [Jammed => Jammed']_vars
  BY JamStep, Zenon
<1> QED BY <1>1, PlacesKept, PTL DEF Spec, JamStays
=============================================================================
