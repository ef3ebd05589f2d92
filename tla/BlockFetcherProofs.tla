------------------------- MODULE BlockFetcherProofs -------------------------
(***************************************************************************)
(* FetcherInv is inductive: with any number of works, announcements and    *)
(* pushed blocks, and a channel fetchedSig of any capacity, both parts of  *)
(* a block meet, the loop does not sleep over a block that it can insert,  *)
(* the fetching list holds no work that is over, and a block is fetched    *)
(* twice at a time only after an earlier work for it.                      *)
(***************************************************************************)
EXTENDS BlockFetcher, TLAPS

Places == {"none", "pool", "build", "assemble", "done", "signal", "remove"}
WithWork == {"build", "assemble", "fetchheader", "fetchbody", "addwork"}
NoWork == {"begin", "insert", "select", "ended"}

\* The values of the variables
ChainTypes ==
  /\ height \in Nat /\ pclosed \in BOOLEAN
  /\ fetchedSig \in Nat /\ fetchedSig <= SigCap
  /\ fetched \subseteq Blocks
  /\ upc \in {"none", "signal"} /\ moved \in BOOLEAN

WorkTypes ==
  /\ fetching \in [Blocks -> Works \cup {0}]
  /\ block \in [Works -> Blocks \cup {0}]
  /\ parts \in [Works -> SUBSET Parts]
  /\ built \subseteq Works /\ err \subseteq Works
  /\ early \subseteq Works /\ aside \subseteq Works

JobTypes == jpc \in [Works -> [Parts -> Places]]

\* The loop has a work at hand exactly while it creates or builds one
LoopTypes ==
  /\ lpc \in NoWork \cup WithWork
  /\ lpc \in NoWork => lw = 0
  /\ lpc \in WithWork => lw \in Works /\ block[lw] # 0

TypeOK == ChainTypes /\ WorkTypes /\ JobTypes /\ LoopTypes

\* Nothing is known of a work before it is created
Unborn ==
  \A w \in Works : block[w] = 0 =>
    /\ parts[w] = {} /\ w \notin built \cup err
    /\ \A x \in Parts : jpc[w][x] = "none"
    /\ \A b \in Blocks : fetching[b] # w

\* The fetching list is indexed by the block of the work
Indexed == \A b \in Blocks : fetching[b] # 0 => block[fetching[b]] = b

\* Who builds a block has its parts, and who is done has a block or an error
Stages ==
  \A w \in Works :
    /\ w \in built => parts[w] = Parts
    /\ lpc = "assemble" /\ lw = w => parts[w] = Parts
    /\ \A x \in Parts :
         /\ jpc[w][x] \in {"build", "assemble"} => x \in parts[w]
         /\ jpc[w][x] = "assemble" => parts[w] = Parts
         /\ jpc[w][x] \in {"done", "signal", "remove"} =>
              w \in built \cup err \/ pclosed

\* A work that is being submitted is not in the list, and no job of it runs
\* that was not submitted yet
Submitting ==
  /\ lpc \in {"fetchheader", "fetchbody", "addwork"} => fetching[block[lw]] = 0
  /\ lpc = "fetchheader" => jpc[lw]["header"] = "none"
  /\ lpc \in {"fetchheader", "fetchbody"} =>
       jpc[lw]["body"] = "none" /\ "body" \notin parts[lw]

\* The exceptions of ListedIsAlive
Excused(w) == w \in early \cup aside \/ pclosed
InList(w) == (\E b \in Blocks : fetching[b] = w) \/ (lpc = "addwork" /\ lw = w)

\* Of a listed work, or one about to be, a job that has left has brought its
\* part, the job that has the block is on its way to remove the work, and one
\* of the jobs is still there
Progress ==
  \A w \in Works : InList(w) /\ ~Excused(w) =>
    /\ \A x \in Parts : jpc[w][x] = "none" => x \in parts[w]
    /\ w \in built => \E x \in Parts : jpc[w][x] \in {"done", "signal", "remove"}
    /\ \E x \in Parts : jpc[w][x] # "none"

\* The same of the header, before the body is submitted
HeaderFirst ==
  lpc = "fetchbody" /\ ~Excused(lw) /\ jpc[lw]["header"] = "none" =>
    "header" \in parts[lw]

Live(w) == w \notin built \cup err /\ \E x \in Parts : jpc[w][x] = "pool"
Ended(b) == \E u \in built \cup err : block[u] = b

\* A work that is fetching is in the list or about to be added, unless another
\* one for its block has ended
Tracked ==
  \A w \in Works : Live(w) =>
    \/ Ended(block[w]) \/ pclosed
    \/ fetching[block[w]] = w
    \/ lw = w /\ lpc \in {"fetchbody", "addwork"}

FetcherInv ==
  /\ TypeOK /\ Unborn /\ Indexed /\ Stages /\ Submitting /\ HeaderFirst
  /\ Progress /\ Tracked /\ PartsMeet /\ Awake /\ NoDoubleFetch

-----------------------------------------------------------------------------
(* A conjunct is kept by a step that changes none of its variables *)

LEMMA KeepChainTypes ==
  ASSUME ChainTypes, UNCHANGED <<height, pclosed, fetchedSig, fetched, upc, moved>>
  PROVE  ChainTypes'
BY Zenon DEF ChainTypes

LEMMA KeepWorkTypes ==
  ASSUME WorkTypes, UNCHANGED <<fetching, block, parts, built, err, early, aside>>
  PROVE  WorkTypes'
BY Zenon DEF WorkTypes

LEMMA KeepJobTypes ==
  ASSUME JobTypes, UNCHANGED <<jpc>>
  PROVE  JobTypes'
BY Zenon DEF JobTypes

LEMMA KeepLoopTypes ==
  ASSUME LoopTypes, UNCHANGED <<lpc, lw, block>>
  PROVE  LoopTypes'
BY Zenon DEF LoopTypes, NoWork, WithWork

LEMMA KeepUnborn ==
  ASSUME Unborn, UNCHANGED <<block, parts, built, err, jpc, fetching>>
  PROVE  Unborn'
BY Zenon DEF Unborn

LEMMA KeepIndexed ==
  ASSUME Indexed, UNCHANGED <<fetching, block>>
  PROVE  Indexed'
BY Zenon DEF Indexed

LEMMA KeepStages ==
  ASSUME Stages, UNCHANGED <<parts, built, err, lpc, lw, jpc, pclosed>>
  PROVE  Stages'
BY Zenon DEF Stages

LEMMA KeepSubmitting ==
  ASSUME Submitting, UNCHANGED <<lpc, lw, fetching, block, jpc, parts>>
  PROVE  Submitting'
BY Zenon DEF Submitting

LEMMA KeepHeaderFirst ==
  ASSUME HeaderFirst, UNCHANGED <<lpc, lw, early, aside, pclosed, jpc, parts>>
  PROVE  HeaderFirst'
BY Zenon DEF HeaderFirst, Excused

LEMMA KeepProgress ==
  ASSUME Progress, UNCHANGED <<fetching, lpc, lw, early, aside, pclosed, jpc, parts,
         built>>
  PROVE  Progress'
BY Zenon DEF Progress, InList, Excused

LEMMA KeepTracked ==
  ASSUME Tracked, UNCHANGED <<built, err, jpc, block, pclosed, fetching, lw, lpc>>
  PROVE  Tracked'
BY Zenon DEF Tracked, Live, Ended

LEMMA KeepPartsMeet ==
  ASSUME PartsMeet, UNCHANGED <<parts, jpc, lw, lpc, built>>
  PROVE  PartsMeet'
BY Zenon DEF PartsMeet

LEMMA KeepAwake ==
  ASSUME Awake, UNCHANGED <<lpc, fetched, height, fetchedSig, upc, moved, jpc>>
  PROVE  Awake'
BY Zenon DEF Awake

LEMMA KeepNoDoubleFetch ==
  ASSUME NoDoubleFetch, UNCHANGED <<built, err, jpc, block>>
  PROVE  NoDoubleFetch'
BY DEF NoDoubleFetch

\* Place moves one job and leaves the others where they are.
LEMMA PlaceFacts ==
  ASSUME JobTypes, NEW w \in Works, NEW x \in Parts, NEW l \in Places,
         Place(w, x, l)
  PROVE  /\ JobTypes'
         /\ jpc'[w][x] = l
         /\ \A v \in Works, y \in Parts :
              v # w \/ y # x => jpc'[v][y] = jpc[v][y]
BY Zenon DEF JobTypes, Place

\* Tracked and NoDoubleFetch are kept when no job enters the pool.
LEMMA NoneSubmittedTracked ==
  ASSUME Tracked, UNCHANGED <<block, pclosed, fetching, lw, lpc>>,
         built \subseteq built', err \subseteq err',
         \A v \in Works, y \in Parts : jpc'[v][y] = "pool" => jpc[v][y] = "pool"
  PROVE  Tracked'
BY Zenon DEF Tracked, Live, Ended

LEMMA NoneSubmittedDouble ==
  ASSUME NoDoubleFetch, UNCHANGED block,
         built \subseteq built', err \subseteq err',
         \A v \in Works, y \in Parts : jpc'[v][y] = "pool" => jpc[v][y] = "pool"
  PROVE  NoDoubleFetch'
<1> SUFFICES ASSUME NEW v \in Works, NEW w \in Works, v # w, block[v] = block[w],
                    v \notin built' \cup err', \E y \in Parts : jpc'[v][y] = "pool",
                    w \notin built' \cup err', \E y \in Parts : jpc'[w][y] = "pool"
             PROVE  \E u \in built' \cup err' : block[u] = block[v]
  BY Zenon DEF NoDoubleFetch
<1>1. /\ v \notin built \cup err /\ \E y \in Parts : jpc[v][y] = "pool"
      /\ w \notin built \cup err /\ \E y \in Parts : jpc[w][y] = "pool"
  BY Zenon
<1> QED BY <1>1, Zenon DEF NoDoubleFetch


-----------------------------------------------------------------------------
(* FetcherInv is preserved by every action; the hypotheses are its conjuncts *)

(* The environment *)

LEMMA ChainGrowsStep ==
  ASSUME ChainTypes, WorkTypes, JobTypes, LoopTypes, Unborn, Indexed, Stages,
         Submitting, HeaderFirst, Progress, Tracked, PartsMeet, Awake,
         NoDoubleFetch, ChainGrows
  PROVE  FetcherInv'
<1>1. UNCHANGED <<pclosed, fetchedSig, fetching, fetched, block, parts, built, err,
                  jpc, lpc, lw, upc, early, aside>>
  BY Zenon DEF ChainGrows, wvars
<1>2. WorkTypes' /\ JobTypes' /\ LoopTypes' /\ Unborn' /\ Indexed' /\ Stages' /\
      Submitting' /\ HeaderFirst' /\ Progress' /\ Tracked' /\ PartsMeet' /\
      NoDoubleFetch'
  BY <1>1, KeepWorkTypes, KeepJobTypes, KeepLoopTypes, KeepUnborn, KeepIndexed,
      KeepStages, KeepSubmitting, KeepHeaderFirst, KeepProgress, KeepTracked,
      KeepPartsMeet, KeepNoDoubleFetch, Zenon
<1>3. ChainTypes'
  BY <1>1, FetcherAssumption DEF ChainGrows, ChainTypes, ChainTypes, Blocks
<1>4. Awake'
  <2>1. ASSUME NEW b \in fetched, b <= height' + 1
        PROVE  b <= height + 1 \/ moved'
    <3>1. b <= height + 1 \/ b = height + 2
      BY <1>1, <2>1, FetcherAssumption DEF ChainGrows, ChainTypes, Blocks
    <3> QED BY <2>1, <3>1, Zenon DEF ChainGrows
  <2>2. moved => moved'
    BY Zenon DEF ChainGrows
  <2> QED BY <1>1, <2>1, <2>2, Zenon DEF ChainGrows, Awake
<1> QED BY <1>2, <1>3, <1>4, Zenon DEF FetcherInv, TypeOK

LEMMA PoolStopStep ==
  ASSUME ChainTypes, WorkTypes, JobTypes, LoopTypes, Unborn, Indexed, Stages,
         Submitting, HeaderFirst, Progress, Tracked, PartsMeet, Awake,
         NoDoubleFetch, PoolStop
  PROVE  FetcherInv'
<1>1. UNCHANGED <<height, fetchedSig, fetching, fetched, block, parts, built, err,
                  jpc, lpc, lw, upc, early, aside, moved>>
  BY Zenon DEF PoolStop, wvars, hist
<1>2. WorkTypes' /\ JobTypes' /\ LoopTypes' /\ Unborn' /\ Indexed' /\ Submitting' /\
      PartsMeet' /\ Awake' /\ NoDoubleFetch'
  BY <1>1, KeepWorkTypes, KeepJobTypes, KeepLoopTypes, KeepUnborn, KeepIndexed,
      KeepSubmitting, KeepPartsMeet, KeepAwake, KeepNoDoubleFetch, Zenon
<1>3. ChainTypes'
  BY <1>1, Zenon DEF PoolStop, ChainTypes
<1>4. Stages'
  BY <1>1, Zenon DEF PoolStop, Stages
<1>5. HeaderFirst'
  BY <1>1, Zenon DEF PoolStop, HeaderFirst, Excused
<1>6. Progress'
  BY <1>1, Zenon DEF PoolStop, Progress, InList, Excused
<1>7. Tracked'
  BY <1>1, Zenon DEF PoolStop, Tracked, Live, Ended
<1> QED BY <1>2, <1>3, <1>4, <1>5, <1>6, <1>7, Zenon DEF FetcherInv, TypeOK

LEMMA UpdateStep ==
  ASSUME NEW b \in Pushed, ChainTypes, WorkTypes, JobTypes, LoopTypes, Unborn,
         Indexed, Stages, Submitting, HeaderFirst, Progress, Tracked, PartsMeet,
         Awake, NoDoubleFetch, Update(b)
  PROVE  FetcherInv'
<1>1. UNCHANGED <<height, pclosed, fetching, block, parts, built, err, jpc, lpc, lw,
                  early, aside, moved>>
  BY Zenon DEF Update, wvars, hist
<1>2. WorkTypes' /\ JobTypes' /\ LoopTypes' /\ Unborn' /\ Indexed' /\ Stages' /\
      Submitting' /\ HeaderFirst' /\ Progress' /\ Tracked' /\ PartsMeet' /\
      NoDoubleFetch'
  BY <1>1, KeepWorkTypes, KeepJobTypes, KeepLoopTypes, KeepUnborn, KeepIndexed,
      KeepStages, KeepSubmitting, KeepHeaderFirst, KeepProgress, KeepTracked,
      KeepPartsMeet, KeepNoDoubleFetch, Zenon
<1>3. ChainTypes'
  BY <1>1, FetcherAssumption DEF Update, ChainTypes, Handle, Full, ChainTypes,
      Blocks
<1>4. Awake'
  BY <1>1, FetcherAssumption DEF Update, Awake, Handle, Full, ChainTypes, Blocks
<1> QED BY <1>2, <1>3, <1>4, Zenon DEF FetcherInv, TypeOK

LEMMA UpdateSignalStep ==
  ASSUME ChainTypes, WorkTypes, JobTypes, LoopTypes, Unborn, Indexed, Stages,
         Submitting, HeaderFirst, Progress, Tracked, PartsMeet, Awake,
         NoDoubleFetch, UpdateSignal
  PROVE  FetcherInv'
<1>1. UNCHANGED <<height, pclosed, fetching, fetched, block, parts, built, err, jpc,
                  lpc, lw, early, aside, moved>>
  BY Zenon DEF UpdateSignal, wvars, hist
<1>2. WorkTypes' /\ JobTypes' /\ LoopTypes' /\ Unborn' /\ Indexed' /\ Stages' /\
      Submitting' /\ HeaderFirst' /\ Progress' /\ Tracked' /\ PartsMeet' /\
      NoDoubleFetch'
  BY <1>1, KeepWorkTypes, KeepJobTypes, KeepLoopTypes, KeepUnborn, KeepIndexed,
      KeepStages, KeepSubmitting, KeepHeaderFirst, KeepProgress, KeepTracked,
      KeepPartsMeet, KeepNoDoubleFetch, Zenon
<1>3. ChainTypes'
  BY <1>1, FetcherAssumption DEF UpdateSignal, ChainTypes, Full, ChainTypes
<1>4. Awake'
  BY <1>1, FetcherAssumption DEF UpdateSignal, Awake, Full, ChainTypes
<1> QED BY <1>2, <1>3, <1>4, Zenon DEF FetcherInv, TypeOK

(* A job *)

LEMMA FetchedStep ==
  ASSUME NEW w \in Works, NEW x \in Parts, ChainTypes, WorkTypes, JobTypes,
         LoopTypes, Unborn, Indexed, Stages, Submitting, HeaderFirst, Progress,
         Tracked, PartsMeet, Awake, NoDoubleFetch, Fetched(w, x)
  PROVE  FetcherInv'
<1>1. UNCHANGED <<height, pclosed, fetchedSig, fetching, fetched, block, built, err,
                  lpc, lw, upc, early, aside, moved>>
  BY Zenon DEF Fetched, same, hist
<1>2. /\ JobTypes'
      /\ jpc[w][x] = "pool" /\ jpc'[w][x] = "build"
      /\ \A v \in Works, y \in Parts : v # w \/ y # x => jpc'[v][y] = jpc[v][y]
  BY PlaceFacts, Zenon DEF Fetched, Places
<1>3. ChainTypes' /\ LoopTypes' /\ Indexed'
  BY <1>1, KeepChainTypes, KeepLoopTypes, KeepIndexed, Zenon
<1>4. WorkTypes'
  BY <1>1, <1>2, Zenon DEF Fetched, WorkTypes, WorkTypes, Parts
<1>5. Unborn'
  BY <1>1, <1>2 DEF Fetched, Unborn, WorkTypes, Parts
<1>6. Stages'
  BY <1>1, <1>2 DEF Fetched, Stages, WorkTypes, Parts
<1>7. Submitting'
  BY <1>1, <1>2, Zenon DEF Fetched, Submitting, LoopTypes, WithWork, Parts,
      WorkTypes
<1>8. HeaderFirst'
  BY <1>1, <1>2, Zenon DEF Fetched, HeaderFirst, Excused, LoopTypes, WithWork,
      Parts, Stages, WorkTypes
<1>9. Progress'
  BY <1>1, <1>2 DEF Fetched, Progress, InList, Excused, WorkTypes, Parts
<1>10. Tracked'
  BY <1>1, <1>2, NoneSubmittedTracked, Zenon
<1>11. PartsMeet'
  BY <1>1, <1>2, Zenon DEF Fetched, PartsMeet, WorkTypes, Parts
<1>12. Awake'
  BY <1>1, <1>2 DEF Fetched, Awake, WorkTypes, Parts
<1>13. NoDoubleFetch'
  BY <1>1, <1>2, NoneSubmittedDouble, Zenon
<1> QED BY <1>2, <1>3, <1>4, <1>5, <1>6, <1>7, <1>8, <1>9, <1>10, <1>11, <1>12,
    <1>13, Zenon DEF FetcherInv, TypeOK

LEMMA AbortedStep ==
  ASSUME NEW w \in Works, NEW x \in Parts, ChainTypes, WorkTypes, JobTypes,
         LoopTypes, Unborn, Indexed, Stages, Submitting, HeaderFirst, Progress,
         Tracked, PartsMeet, Awake, NoDoubleFetch, Aborted(w, x)
  PROVE  FetcherInv'
<1>1. UNCHANGED <<height, pclosed, fetchedSig, fetching, fetched, block, parts,
                  built, lpc, lw, upc, early, aside, moved>>
  BY Zenon DEF Aborted, same, hist
<1>2. /\ JobTypes' /\ pclosed /\ jpc[w][x] = "pool"
      /\ \/ jpc'[w][x] = "none" /\ err' = err
         \/ jpc'[w][x] = "done" /\ err' = err \cup {w}
      /\ \A v \in Works, y \in Parts : v # w \/ y # x => jpc'[v][y] = jpc[v][y]
  BY PlaceFacts, Zenon DEF Aborted, Places
<1>3. ChainTypes' /\ LoopTypes' /\ Indexed'
  BY <1>1, KeepChainTypes, KeepLoopTypes, KeepIndexed, Zenon
<1>4. WorkTypes'
  BY <1>1, <1>2, Zenon DEF Aborted, WorkTypes, WorkTypes, Parts
<1>5. Unborn'
  BY <1>1, <1>2 DEF Aborted, Unborn, WorkTypes, Parts
<1>6. Stages'
  BY <1>1, <1>2 DEF Aborted, Stages, WorkTypes, Parts
<1>7. Submitting'
  BY <1>1, <1>2, Zenon DEF Aborted, Submitting, LoopTypes, WithWork, Parts,
      WorkTypes
<1>8. HeaderFirst'
  BY <1>1, <1>2, Zenon DEF Aborted, HeaderFirst, Excused, LoopTypes, WithWork,
      Parts, Stages, WorkTypes
<1>9. Progress'
  BY <1>1, <1>2, Zenon DEF Aborted, Progress, InList, Excused, WorkTypes, Parts
<1>10. Tracked'
  BY <1>1, <1>2, NoneSubmittedTracked, Zenon
<1>11. PartsMeet'
  BY <1>1, <1>2, Zenon DEF Aborted, PartsMeet, WorkTypes, Parts
<1>12. Awake'
  BY <1>1, <1>2 DEF Aborted, Awake, WorkTypes, Parts
<1>13. NoDoubleFetch'
  BY <1>1, <1>2, NoneSubmittedDouble, Zenon
<1> QED BY <1>2, <1>3, <1>4, <1>5, <1>6, <1>7, <1>8, <1>9, <1>10, <1>11, <1>12,
    <1>13, Zenon DEF FetcherInv, TypeOK

LEMMA RefetchStep ==
  ASSUME NEW w \in Works, NEW x \in Parts, ChainTypes, WorkTypes, JobTypes,
         LoopTypes, Unborn, Indexed, Stages, Submitting, HeaderFirst, Progress,
         Tracked, PartsMeet, Awake, NoDoubleFetch, Refetch(w, x)
  PROVE  FetcherInv'
<1>1. UNCHANGED <<height, pclosed, fetchedSig, fetching, fetched, block, parts,
                  built, lpc, lw, upc, early, aside, moved>>
  BY Zenon DEF Refetch, same, hist
<1>2. /\ JobTypes' /\ jpc[w][x] = "pool" /\ jpc'[w][x] = "done"
      /\ (pclosed /\ err' = err) \/ err' = err \cup {w}
      /\ \A v \in Works, y \in Parts : v # w \/ y # x => jpc'[v][y] = jpc[v][y]
  BY PlaceFacts, Zenon DEF Refetch, Places
<1>3. ChainTypes' /\ LoopTypes' /\ Indexed'
  BY <1>1, KeepChainTypes, KeepLoopTypes, KeepIndexed, Zenon
<1>4. WorkTypes'
  BY <1>1, <1>2, Zenon DEF Refetch, WorkTypes, WorkTypes, Parts
<1>5. Unborn'
  BY <1>1, <1>2 DEF Refetch, Unborn, WorkTypes, Parts
<1>6. Stages'
  BY <1>1, <1>2 DEF Refetch, Stages, WorkTypes, Parts
<1>7. Submitting'
  BY <1>1, <1>2, Zenon DEF Refetch, Submitting, LoopTypes, WithWork, Parts,
      WorkTypes
<1>8. HeaderFirst'
  BY <1>1, <1>2, Zenon DEF Refetch, HeaderFirst, Excused, LoopTypes, WithWork,
      Parts, Stages, WorkTypes
<1>9. Progress'
  BY <1>1, <1>2 DEF Refetch, Progress, InList, Excused, WorkTypes, Parts
<1>10. Tracked'
  BY <1>1, <1>2, NoneSubmittedTracked, Zenon
<1>11. PartsMeet'
  BY <1>1, <1>2, Zenon DEF Refetch, PartsMeet, WorkTypes, Parts
<1>12. Awake'
  BY <1>1, <1>2 DEF Refetch, Awake, WorkTypes, Parts
<1>13. NoDoubleFetch'
  BY <1>1, <1>2, NoneSubmittedDouble, Zenon
<1> QED BY <1>2, <1>3, <1>4, <1>5, <1>6, <1>7, <1>8, <1>9, <1>10, <1>11, <1>12,
    <1>13, Zenon DEF FetcherInv, TypeOK

LEMMA TryBuildStep ==
  ASSUME NEW w \in Works, NEW x \in Parts, ChainTypes, WorkTypes, JobTypes,
         LoopTypes, Unborn, Indexed, Stages, Submitting, HeaderFirst, Progress,
         Tracked, PartsMeet, Awake, NoDoubleFetch, TryBuild(w, x)
  PROVE  FetcherInv'
<1>1. UNCHANGED <<height, pclosed, fetchedSig, fetching, fetched, block, parts,
                  built, err, lpc, lw, upc, early, aside, moved>>
  BY Zenon DEF TryBuild, same, hist, wvars
<1>2. /\ JobTypes' /\ jpc[w][x] = "build"
      /\ jpc'[w][x] = IF w \notin built /\ parts[w] = Parts THEN "assemble" ELSE "none"
      /\ \A v \in Works, y \in Parts : v # w \/ y # x => jpc'[v][y] = jpc[v][y]
  BY PlaceFacts, Zenon DEF TryBuild, Places
<1>3. ChainTypes' /\ WorkTypes' /\ LoopTypes' /\ Indexed'
  BY <1>1, KeepChainTypes, KeepWorkTypes, KeepLoopTypes, KeepIndexed, Zenon
<1>4. Unborn'
  BY <1>1, <1>2 DEF TryBuild, Unborn, WorkTypes, Parts
<1>5. Stages'
  BY <1>1, <1>2 DEF TryBuild, Stages, WorkTypes, Parts
<1>6. Submitting'
  BY <1>1, <1>2, Zenon DEF TryBuild, Submitting, LoopTypes, WithWork, Parts,
      WorkTypes
<1>7. HeaderFirst'
  BY <1>1, <1>2, Zenon DEF TryBuild, HeaderFirst, Excused, LoopTypes, WithWork,
      Parts, Stages, WorkTypes
<1>8. Progress'
  BY <1>1, <1>2 DEF Progress, InList, Excused, Stages, WorkTypes, Parts
<1>9. Tracked'
  BY <1>1, <1>2, NoneSubmittedTracked, Zenon
<1>10. PartsMeet'
  BY <1>1, <1>2 DEF TryBuild, PartsMeet, WorkTypes, Parts
<1>11. Awake'
  BY <1>1, <1>2 DEF TryBuild, Awake, WorkTypes, Parts
<1>12. NoDoubleFetch'
  BY <1>1, <1>2, NoneSubmittedDouble, Zenon
<1> QED BY <1>2, <1>3, <1>4, <1>5, <1>6, <1>7, <1>8, <1>9, <1>10, <1>11, <1>12,
    Zenon DEF FetcherInv, TypeOK

LEMMA AssembleStep ==
  ASSUME NEW w \in Works, NEW x \in Parts, ChainTypes, WorkTypes, JobTypes,
         LoopTypes, Unborn, Indexed, Stages, Submitting, HeaderFirst, Progress,
         Tracked, PartsMeet, Awake, NoDoubleFetch, Assemble(w, x)
  PROVE  FetcherInv'
<1>1. UNCHANGED <<height, pclosed, fetchedSig, fetching, fetched, block, parts, err,
                  lpc, lw, upc, early, aside, moved>>
  BY Zenon DEF Assemble, same, hist
<1>2. /\ JobTypes'
      /\ jpc[w][x] = "assemble" /\ jpc'[w][x] = "done"
      /\ \A v \in Works, y \in Parts : v # w \/ y # x => jpc'[v][y] = jpc[v][y]
  BY PlaceFacts, Zenon DEF Assemble, Places
<1>3. ChainTypes' /\ LoopTypes' /\ Indexed'
  BY <1>1, KeepChainTypes, KeepLoopTypes, KeepIndexed, Zenon
<1>4. WorkTypes'
  BY <1>1, <1>2, Zenon DEF Assemble, WorkTypes, WorkTypes, Parts
<1>5. Unborn'
  BY <1>1, <1>2 DEF Assemble, Unborn, WorkTypes, Parts
<1>6. Stages'
  BY <1>1, <1>2 DEF Assemble, Stages, WorkTypes, Parts
<1>7. Submitting'
  BY <1>1, <1>2, Zenon DEF Assemble, Submitting, LoopTypes, WithWork, Parts,
      WorkTypes
<1>8. HeaderFirst'
  BY <1>1, <1>2, Zenon DEF Assemble, HeaderFirst, Excused, LoopTypes, WithWork,
      Parts, Stages, WorkTypes
<1>9. Progress'
  BY <1>1, <1>2 DEF Assemble, Progress, InList, Excused, WorkTypes, Parts
<1>10. Tracked'
  BY <1>1, <1>2, NoneSubmittedTracked, Zenon DEF Assemble
<1>11. PartsMeet'
  BY <1>1, <1>2, Zenon DEF Assemble, PartsMeet, WorkTypes, Parts
<1>12. Awake'
  BY <1>1, <1>2 DEF Assemble, Awake, WorkTypes, Parts
<1>13. NoDoubleFetch'
  BY <1>1, <1>2, NoneSubmittedDouble, Zenon DEF Assemble
<1> QED BY <1>2, <1>3, <1>4, <1>5, <1>6, <1>7, <1>8, <1>9, <1>10, <1>11, <1>12,
    <1>13, Zenon DEF FetcherInv, TypeOK

\* A job that moves on belongs to a work that has been created.
LEMMA MoveUnborn ==
  ASSUME NEW w \in Works, NEW x \in Parts, Unborn, jpc[w][x] # "none",
         UNCHANGED <<block, parts, built, err, fetching>>,
         \A v \in Works, y \in Parts : v # w \/ y # x => jpc'[v][y] = jpc[v][y]
  PROVE  Unborn'
<1> SUFFICES ASSUME NEW v \in Works, block[v] = 0
             PROVE  /\ parts[v] = {} /\ v \notin built \cup err
                    /\ \A y \in Parts : jpc'[v][y] = "none"
                    /\ \A b \in Blocks : fetching[b] # v
  BY Zenon DEF Unborn
<1>1. /\ parts[v] = {} /\ v \notin built \cup err
      /\ \A y \in Parts : jpc[v][y] = "none"
      /\ \A b \in Blocks : fetching[b] # v
  BY Zenon DEF Unborn
<1>2. v # w
  <2>1. jpc[v][x] = "none"
    BY <1>1, Zenon
  <2> QED BY <2>1
<1>3. \A y \in Parts : jpc'[v][y] = "none"
  BY <1>1, <1>2, Zenon
<1> QED BY <1>1, <1>3, Zenon

LEMMA WorkDoneStep ==
  ASSUME NEW w \in Works, NEW x \in Parts, ChainTypes, WorkTypes, JobTypes,
         LoopTypes, Unborn, Indexed, Stages, Submitting, HeaderFirst, Progress,
         Tracked, PartsMeet, Awake, NoDoubleFetch, WorkDone(w, x)
  PROVE  FetcherInv'
<1>1. UNCHANGED <<height, pclosed, fetching, block, parts, built, err, lpc, lw, upc,
                  early, aside, moved>>
  BY Zenon DEF WorkDone, same, hist, wvars
<1>2. /\ JobTypes' /\ jpc[w][x] = "done"
      /\ \/ jpc'[w][x] = "remove" /\ UNCHANGED <<fetched, fetchedSig>>
         \/ /\ jpc'[w][x] \in {"remove", "signal"}
            /\ w \in built /\ Handle(block[w])
      /\ \A v \in Works, y \in Parts : v # w \/ y # x => jpc'[v][y] = jpc[v][y]
  BY PlaceFacts, Zenon DEF WorkDone, Places
<1>3. WorkTypes' /\ LoopTypes' /\ Indexed'
  BY <1>1, KeepWorkTypes, KeepLoopTypes, KeepIndexed, Zenon
<1>4. ChainTypes'
  <2>1. w \in built => block[w] \in Blocks
    BY DEF Unborn, WorkTypes
  <2> QED BY <1>1, <1>2, <2>1, FetcherAssumption DEF ChainTypes, Handle, Full
<1>5. Unborn'
  BY <1>1, <1>2, MoveUnborn, Zenon
<1>6. Stages'
  BY <1>1, <1>2, FetcherAssumption DEF WorkDone, Stages, WorkTypes, Parts,
      ChainTypes, Handle, Full
<1>7. Submitting'
  BY <1>1, <1>2, Zenon DEF WorkDone, Submitting, LoopTypes, WithWork, Parts,
      WorkTypes
<1>8. HeaderFirst'
  BY <1>1, <1>2, Zenon DEF WorkDone, HeaderFirst, Excused, LoopTypes, WithWork,
      Parts, Stages, WorkTypes
<1>9. Progress'
  <2> SUFFICES ASSUME NEW v \in Works, InList(v)', ~Excused(v)'
               PROVE  /\ \A y \in Parts : jpc'[v][y] = "none" => y \in parts'[v]
                      /\ v \in built' =>
                           \E y \in Parts : jpc'[v][y] \in {"done", "signal", "remove"}
                      /\ \E y \in Parts : jpc'[v][y] # "none"
    BY Zenon DEF Progress
  <2>1. InList(v) /\ ~Excused(v)
    BY <1>1, Zenon DEF InList, Excused
  <2>2. /\ \A y \in Parts : jpc[v][y] = "none" => y \in parts[v]
        /\ v \in built => \E y \in Parts : jpc[v][y] \in {"done", "signal", "remove"}
        /\ \E y \in Parts : jpc[v][y] # "none"
    BY <2>1, Zenon DEF Progress
  <2>3. jpc'[w][x] \in {"remove", "signal"} /\ jpc'[w][x] # "none"
    BY <1>2, Zenon
  <2>4. CASE v = w
    <3>1. \A y \in Parts : jpc'[v][y] = "none" => y \in parts[v]
      BY <1>2, <2>2, <2>3, <2>4, Zenon
    <3>2. \E y \in Parts : jpc'[v][y] \in {"done", "signal", "remove"}
      BY <2>3, <2>4, Zenon
    <3> QED BY <1>1, <2>3, <2>4, <3>1, <3>2, Zenon
  <2>5. CASE v # w
    <3>1. \A y \in Parts : jpc'[v][y] = jpc[v][y]
      BY <1>2, <2>5, Zenon
    <3> QED BY <1>1, <2>2, <3>1, Zenon
  <2> QED BY <2>4, <2>5, Zenon
<1>10. Tracked'
  BY <1>1, <1>2, NoneSubmittedTracked, Zenon
<1>11. PartsMeet'
  BY <1>1, <1>2, FetcherAssumption, Zenon DEF WorkDone, PartsMeet, WorkTypes, Parts,
      ChainTypes, Handle, Full
<1>12. Awake'
  BY <1>1, <1>2, FetcherAssumption DEF WorkDone, Awake, WorkTypes, Parts,
      ChainTypes, Handle, Full
<1>13. NoDoubleFetch'
  BY <1>1, <1>2, NoneSubmittedDouble, Zenon
<1> QED BY <1>2, <1>3, <1>4, <1>5, <1>6, <1>7, <1>8, <1>9, <1>10, <1>11, <1>12,
    <1>13, Zenon DEF FetcherInv, TypeOK

LEMMA WorkSignalStep ==
  ASSUME NEW w \in Works, NEW x \in Parts, ChainTypes, WorkTypes, JobTypes,
         LoopTypes, Unborn, Indexed, Stages, Submitting, HeaderFirst, Progress,
         Tracked, PartsMeet, Awake, NoDoubleFetch, WorkSignal(w, x)
  PROVE  FetcherInv'
<1>1. UNCHANGED <<height, pclosed, fetching, fetched, block, parts, built, err, lpc,
                  lw, upc, early, aside, moved>>
  BY Zenon DEF WorkSignal, same, hist, wvars
<1>2. /\ JobTypes'
      /\ jpc[w][x] = "signal" /\ jpc'[w][x] = "remove"
      /\ \A v \in Works, y \in Parts : v # w \/ y # x => jpc'[v][y] = jpc[v][y]
  BY PlaceFacts, Zenon DEF WorkSignal, Places
<1>3. WorkTypes' /\ LoopTypes' /\ Indexed'
  BY <1>1, KeepWorkTypes, KeepLoopTypes, KeepIndexed, Zenon
<1>4. ChainTypes'
  BY <1>1, <1>2, FetcherAssumption DEF WorkSignal, ChainTypes, WorkTypes, Parts,
      ChainTypes, Full
<1>5. Unborn'
  BY <1>1, <1>2, MoveUnborn, Zenon
<1>6. Stages'
  BY <1>1, <1>2, FetcherAssumption DEF WorkSignal, Stages, WorkTypes, Parts,
      ChainTypes, Full
<1>7. Submitting'
  BY <1>1, <1>2, Zenon DEF WorkSignal, Submitting, LoopTypes, WithWork, Parts,
      WorkTypes
<1>8. HeaderFirst'
  BY <1>1, <1>2, Zenon DEF WorkSignal, HeaderFirst, Excused, LoopTypes, WithWork,
      Parts, Stages, WorkTypes
<1>9. Progress'
  BY <1>1, <1>2 DEF Progress, InList, Excused
<1>10. Tracked'
  BY <1>1, <1>2, NoneSubmittedTracked, Zenon
<1>11. PartsMeet'
  BY <1>1, <1>2, FetcherAssumption, Zenon DEF WorkSignal, PartsMeet, WorkTypes,
      Parts,
      ChainTypes, Full
<1>12. Awake'
  BY <1>1, <1>2, FetcherAssumption DEF WorkSignal, Awake, WorkTypes, Parts,
      ChainTypes, Full
<1>13. NoDoubleFetch'
  BY <1>1, <1>2, NoneSubmittedDouble, Zenon
<1> QED BY <1>2, <1>3, <1>4, <1>5, <1>6, <1>7, <1>8, <1>9, <1>10, <1>11, <1>12,
    <1>13, Zenon DEF FetcherInv, TypeOK

LEMMA RemoveWorkStep ==
  ASSUME NEW w \in Works, NEW x \in Parts, ChainTypes, WorkTypes, JobTypes,
         LoopTypes, Unborn, Indexed, Stages, Submitting, HeaderFirst, Progress,
         Tracked, PartsMeet, Awake, NoDoubleFetch, RemoveWork(w, x)
  PROVE  FetcherInv'
<1>1. UNCHANGED <<height, pclosed, fetchedSig, fetched, block, parts, built, err,
                  lpc, lw, upc, moved>>
  BY Zenon DEF RemoveWork, wvars, Leave
<1>2. /\ JobTypes'
      /\ jpc[w][x] = "remove" /\ jpc'[w][x] = "none"
      /\ \A v \in Works, y \in Parts : v # w \/ y # x => jpc'[v][y] = jpc[v][y]
  BY PlaceFacts, Zenon DEF RemoveWork, Places
<1>3. block[w] \in Blocks
  BY <1>2 DEF Unborn, WorkTypes
<1>4. /\ fetching' \in [Blocks -> Works \cup {0}]
      /\ fetching'[block[w]] = 0
      /\ \A b \in Blocks : b # block[w] => fetching'[b] = fetching[b]
  BY <1>3, Zenon DEF RemoveWork, WorkTypes
<1>5. /\ \A v \in Works : v # w => (v \in early' <=> v \in early)
      /\ \A v \in Works : v # w => (v \in aside' <=> v \in aside)
      /\ lw = w /\ lpc \in {"fetchbody", "addwork"} => w \in early'
      /\ early' \subseteq Works /\ aside' \subseteq Works
  BY Zenon DEF RemoveWork, Leave, WorkTypes
<1>6. ChainTypes' /\ LoopTypes'
  BY <1>1, KeepChainTypes, KeepLoopTypes, Zenon
<1>7. WorkTypes'
  BY <1>1, <1>2, <1>3, <1>4, <1>5, Zenon DEF WorkTypes
<1>8. Unborn'
  <2> SUFFICES ASSUME NEW v \in Works, block'[v] = 0
               PROVE  /\ parts'[v] = {} /\ v \notin built' \cup err'
                      /\ \A y \in Parts : jpc'[v][y] = "none"
                      /\ \A b \in Blocks : fetching'[b] # v
    BY Zenon DEF Unborn
  <2>1. /\ block[v] = 0 /\ parts[v] = {} /\ v \notin built \cup err
        /\ \A y \in Parts : jpc[v][y] = "none"
        /\ \A b \in Blocks : fetching[b] # v
    BY <1>1, Zenon DEF Unborn
  <2>2. v # w
    BY <1>2, <2>1, Zenon
  <2>3. \A y \in Parts : jpc'[v][y] = "none"
    BY <1>2, <2>1, <2>2, Zenon
  <2>4. v # 0
    BY FetcherAssumption
  <2>5. \A b \in Blocks : fetching'[b] # v
    BY <1>4, <2>1, <2>4, Zenon
  <2> QED BY <1>1, <2>1, <2>3, <2>5, Zenon
<1>9. Indexed'
  BY <1>1, <1>2, <1>3, <1>4, <1>5, FetcherAssumption, Zenon DEF Indexed
<1>10. Stages'
  BY <1>1, <1>2 DEF Stages
<1>11. Submitting'
  BY <1>1, <1>2, <1>3, <1>4, <1>5, FetcherAssumption, Zenon DEF Submitting,
      LoopTypes, WithWork, Parts, WorkTypes
<1>12. HeaderFirst'
  BY <1>1, <1>2, <1>3, <1>4, <1>5, Zenon DEF HeaderFirst, Excused, LoopTypes,
      WithWork, Parts
<1>13. Progress'
  <2>1. ASSUME NEW v \in Works, InList(v)', ~Excused(v)'
        PROVE  v # w /\ InList(v) /\ ~Excused(v)
    <3>1. v # w
      <4>1. ~\E b \in Blocks : fetching'[b] = w
        BY <1>4, FetcherAssumption DEF Indexed
      <4> QED BY <1>1, <1>5, <2>1, <4>1, Zenon DEF InList, Excused
    <3>2. \A b \in Blocks : fetching'[b] = v => fetching[b] = v
      BY <1>4, FetcherAssumption
    <3> QED BY <1>1, <1>5, <2>1, <3>1, <3>2, Zenon DEF InList, Excused
  <2>2. \A v \in Works, y \in Parts : v # w => jpc'[v][y] = jpc[v][y]
    BY <1>2, Zenon
  <2>3. ASSUME NEW v \in Works, InList(v)', ~Excused(v)'
        PROVE  /\ \A y \in Parts : jpc'[v][y] = "none" => y \in parts[v]
               /\ v \in built =>
                    \E y \in Parts : jpc'[v][y] \in {"done", "signal", "remove"}
               /\ \E y \in Parts : jpc'[v][y] # "none"
    <3>1. /\ \A y \in Parts : jpc[v][y] = "none" => y \in parts[v]
          /\ v \in built =>
               \E y \in Parts : jpc[v][y] \in {"done", "signal", "remove"}
          /\ \E y \in Parts : jpc[v][y] # "none"
      BY <2>1, <2>3, Zenon DEF Progress
    <3>2. \A y \in Parts : jpc'[v][y] = jpc[v][y]
      BY <2>1, <2>2, <2>3, Zenon
    <3> QED BY <3>1, <3>2, Zenon
  <2> QED BY <1>1, <2>3, Zenon DEF Progress
<1>14. Tracked'
  <2>1. w \in built \cup err \/ pclosed
    BY <1>2, Zenon DEF Stages
  <2>2. ASSUME NEW v \in Works, Live(v)', ~Ended(block[v]), ~pclosed
        PROVE  fetching'[block[v]] = v \/ (lw = v /\ lpc \in {"fetchbody", "addwork"})
    <3>1. Live(v)
      BY <1>1, <1>2, <2>2, Zenon DEF Live
    <3>2. block[v] # block[w]
      BY <2>1, <2>2, Zenon DEF Ended
    <3>3. block[v] \in Blocks
      BY <3>1 DEF Live, Unborn, WorkTypes
    <3> QED BY <1>4, <2>2, <3>1, <3>2, <3>3, Zenon DEF Tracked
  <2> QED BY <1>1, <2>2, Zenon DEF Tracked, Ended
<1>15. PartsMeet'
  BY <1>1, <1>2, <1>3, <1>4, <1>5 DEF RemoveWork, PartsMeet, WorkTypes, Parts
<1>16. Awake'
  BY <1>1, <1>2, <1>3, <1>4, <1>5 DEF RemoveWork, Awake, WorkTypes, Parts
<1>17. NoDoubleFetch'
  BY <1>1, <1>2, <1>3, <1>4, <1>5, NoneSubmittedDouble, Zenon
<1> QED BY <1>2, <1>6, <1>7, <1>8, <1>9, <1>10, <1>11, <1>12, <1>13, <1>14, <1>15,
    <1>16, <1>17, Zenon DEF FetcherInv, TypeOK

(* loop *)

\* At the top of the loop no work is at hand.
LEMMA AgainFacts ==
  ASSUME Again
  PROVE  LoopTypes' /\ Submitting' /\ HeaderFirst' /\ Awake'
BY Zenon DEF Again, LoopTypes, NoWork, WithWork, Submitting, HeaderFirst, Awake

LEMMA AgainProgress ==
  ASSUME Progress, Again,
         UNCHANGED <<fetching, early, aside, pclosed, jpc, parts, built>>
  PROVE  Progress'
BY Zenon DEF Again, Progress, InList, Excused

LEMMA AgainStages ==
  ASSUME Stages, Again, UNCHANGED <<parts, built, err, jpc, pclosed>>
  PROVE  Stages'
BY Zenon DEF Again, Stages

\* The loop turns to the fetched list without a change to a work: it begins,
\* takes a signal, or leaves an announcement alone.

LEMMA TurnStep ==
  ASSUME ChainTypes, WorkTypes, JobTypes, LoopTypes, Unborn, Indexed, Stages,
         Submitting, HeaderFirst, Progress, Tracked, PartsMeet, Awake,
         NoDoubleFetch, lpc \in {"begin", "select"}, Again, UNCHANGED <<keep,
         fetching, wvars, jpc, early, aside>>, fetchedSig' \in Nat /\ fetchedSig' <=
         SigCap
  PROVE  FetcherInv'
<1>1. UNCHANGED <<height, pclosed, fetching, fetched, block, parts, built, err, jpc,
                  upc, early, aside>>
  BY Zenon DEF keep, wvars
<1>2. WorkTypes' /\ JobTypes' /\ Unborn' /\ Indexed' /\ NoDoubleFetch'
  BY <1>1, KeepWorkTypes, KeepJobTypes, KeepUnborn, KeepIndexed, KeepNoDoubleFetch,
      Zenon
<1>3. ChainTypes'
  BY <1>1, Zenon DEF ChainTypes, Again
<1>4. LoopTypes'
  BY AgainFacts, Zenon
<1>5. Stages'
  BY <1>1, AgainStages, Zenon
<1>6. Submitting'
  BY AgainFacts, Zenon
<1>7. HeaderFirst'
  BY AgainFacts, Zenon
<1>8. Progress'
  BY <1>1, AgainProgress, Zenon
<1>9. Tracked'
  BY <1>1, Zenon DEF Tracked, Live, Ended, Again
<1>10. PartsMeet'
  BY <1>1, Zenon DEF PartsMeet, Again
<1>11. Awake'
  BY AgainFacts, Zenon
<1> QED BY <1>2, <1>3, <1>4, <1>5, <1>6, <1>7, <1>8, <1>9, <1>10, <1>11, Zenon DEF
    FetcherInv, TypeOK

LEMMA InsertNextStep ==
  ASSUME ChainTypes, WorkTypes, JobTypes, LoopTypes, Unborn, Indexed, Stages,
         Submitting, HeaderFirst, Progress, Tracked, PartsMeet, Awake,
         NoDoubleFetch, InsertNext
  PROVE  FetcherInv'
<1>1. UNCHANGED <<pclosed, fetchedSig, fetching, block, parts, built, err, jpc, lw,
                  upc, early, aside, moved>>
  BY Zenon DEF InsertNext, wvars, hist
<1>2. /\ lpc = "insert" /\ lw = 0
      /\ \/ lpc' = "insert"
         \/ lpc' = "select" /\ \A b \in fetched : b > height + 1
  BY Zenon DEF InsertNext, LoopTypes, NoWork
<1>3. WorkTypes' /\ JobTypes' /\ Unborn' /\ Indexed' /\ NoDoubleFetch'
  BY <1>1, KeepWorkTypes, KeepJobTypes, KeepUnborn, KeepIndexed, KeepNoDoubleFetch,
      Zenon
<1>4. ChainTypes'
  <2>1. fetched' \subseteq fetched
    BY Zenon DEF InsertNext, Take
  <2>2. height' \in Nat
    <3>1. ASSUME NEW b \in Blocks, Take(b) PROVE height' \in Nat
      BY <3>1, FetcherAssumption DEF Take, ChainTypes, Blocks
    <3> QED BY <3>1, Zenon DEF InsertNext, ChainTypes
  <2> QED BY <1>1, <2>1, <2>2, Zenon DEF ChainTypes
<1>5. LoopTypes'
  BY <1>1, <1>2, Zenon DEF LoopTypes, NoWork, WithWork
<1>6. Stages'
  BY <1>1, <1>2, Zenon DEF Stages
<1>7. Submitting'
  BY <1>1, <1>2, Zenon DEF Submitting
<1>8. HeaderFirst'
  BY <1>1, <1>2, Zenon DEF HeaderFirst, Excused
<1>9. Progress'
  BY <1>1, <1>2, Zenon DEF Progress, InList, Excused
<1>10. Tracked'
  BY <1>1, <1>2, Zenon DEF Tracked, Live, Ended
<1>11. PartsMeet'
  BY <1>1, <1>2, Zenon DEF PartsMeet
<1>12. Awake'
  <2>1. \A b \in fetched : b > height + 1 => ~(b <= height + 1)
    BY FetcherAssumption DEF ChainTypes, Blocks
  <2>2. lpc' = "select" => UNCHANGED <<height, fetched>>
    BY <1>2, Zenon DEF InsertNext
  <2> QED BY <1>2, <2>1, <2>2, Zenon DEF Awake
<1> QED BY <1>3, <1>4, <1>5, <1>6, <1>7, <1>8, <1>9, <1>10, <1>11, <1>12, Zenon DEF
    FetcherInv, TypeOK

LEMMA OnQuitStep ==
  ASSUME ChainTypes, WorkTypes, JobTypes, LoopTypes, Unborn, Indexed, Stages,
         Submitting, HeaderFirst, Progress, Tracked, PartsMeet, Awake,
         NoDoubleFetch, OnQuit
  PROVE  FetcherInv'
<1>1. UNCHANGED <<height, pclosed, fetchedSig, fetching, fetched, block, parts,
                  built, err, jpc, lw, upc, early, aside, moved>>
  BY Zenon DEF OnQuit, wvars, hist, keep
<1>2. lpc = "select" /\ lpc' = "ended" /\ lw = 0
  BY Zenon DEF OnQuit, LoopTypes, NoWork
<1>3. ChainTypes' /\ WorkTypes' /\ JobTypes' /\ Unborn' /\ Indexed' /\
      NoDoubleFetch'
  BY <1>1, KeepChainTypes, KeepWorkTypes, KeepJobTypes, KeepUnborn, KeepIndexed,
      KeepNoDoubleFetch, Zenon
<1>4. LoopTypes'
  BY <1>1, <1>2, Zenon DEF LoopTypes, NoWork, WithWork
<1>5. Stages'
  BY <1>1, <1>2, Zenon DEF Stages
<1>6. Submitting'
  BY <1>1, <1>2, Zenon DEF Submitting
<1>7. HeaderFirst'
  BY <1>1, <1>2, Zenon DEF HeaderFirst, Excused
<1>8. Progress'
  BY <1>1, <1>2, Zenon DEF Progress, InList, Excused
<1>9. Tracked'
  BY <1>1, <1>2, Zenon DEF Tracked, Live, Ended
<1>10. PartsMeet'
  BY <1>1, <1>2, Zenon DEF PartsMeet
<1>11. Awake'
  BY <1>1, <1>2, Zenon DEF Awake
<1> QED BY <1>3, <1>4, <1>5, <1>6, <1>7, <1>8, <1>9, <1>10, <1>11, Zenon DEF
    FetcherInv, TypeOK

\* Unborn speaks of the parts of works that are not created.
LEMMA UnbornKept ==
  ASSUME Unborn, UNCHANGED <<block, built, err, jpc, fetching>>,
         \A v \in Works : block[v] = 0 => parts'[v] = parts[v]
  PROVE  Unborn'
BY DEF Unborn

\* A header is announced for a work that is listed.

LEMMA HeaderAgainStep ==
  ASSUME NEW w \in Works, ChainTypes, WorkTypes, JobTypes, LoopTypes, Unborn,
         Indexed, Stages, Submitting, HeaderFirst, Progress, Tracked, PartsMeet,
         Awake, NoDoubleFetch, block[w] # 0, lpc = "select", lpc' = "build", lw' =
         w, parts' = [parts EXCEPT ![w] = @ \cup {"header"}], UNCHANGED <<keep,
         fetchedSig, fetching, block, built, err, jpc, hist>>
  PROVE  FetcherInv'
<1>1. UNCHANGED <<height, pclosed, fetchedSig, fetching, fetched, block, built, err,
                  jpc, upc, early, aside, moved>>
  BY Zenon DEF keep, hist
<1>2. /\ parts' \in [Works -> SUBSET Parts]
      /\ \A v \in Works : parts[v] \subseteq parts'[v] /\ (v # w => parts'[v] = parts[v])
  BY Zenon DEF WorkTypes, Parts
<1>3. ChainTypes' /\ JobTypes' /\ Indexed' /\ NoDoubleFetch'
  BY <1>1, KeepChainTypes, KeepJobTypes, KeepIndexed, KeepNoDoubleFetch, Zenon
<1>4. WorkTypes'
  BY <1>1, <1>2, Zenon DEF WorkTypes
<1>5. LoopTypes'
  BY <1>1, <1>2, Zenon DEF LoopTypes, NoWork, WithWork
<1>6. Unborn'
  <2>1. ASSUME NEW v \in Works, block[v] = 0 PROVE parts'[v] = parts[v]
    BY <1>2, <2>1, Zenon
  <2> QED BY <1>1, <2>1, UnbornKept, Zenon
<1>7. Stages'
  BY <1>1, <1>2 DEF Stages, Parts, WorkTypes
<1>8. Submitting'
  BY <1>1, <1>2, Zenon DEF Submitting
<1>9. HeaderFirst'
  BY <1>1, <1>2, Zenon DEF HeaderFirst, Excused
<1>10. Progress'
  BY <1>1, <1>2 DEF Progress, InList, Excused
<1>11. Tracked'
  BY <1>1, <1>2 DEF Tracked, Live, Ended
<1>12. PartsMeet'
  BY <1>1, <1>2, Zenon DEF PartsMeet
<1>13. Awake'
  BY <1>1, <1>2, Zenon DEF Awake
<1> QED BY <1>3, <1>4, <1>5, <1>6, <1>7, <1>8, <1>9, <1>10, <1>11, <1>12, <1>13,
    Zenon DEF FetcherInv, TypeOK

\* Two works that fetch one block, before and after a step.
LEMMA DoubleNow ==
  ASSUME NoDoubleFetch, NEW v \in Works, NEW w \in Works, v # w, block[v] = block[w],
         Live(v), Live(w)
  PROVE  Ended(block[v])
BY Zenon DEF NoDoubleFetch, Live, Ended

LEMMA DoubleNext ==
  ASSUME \A v, w \in Works : v # w /\ block'[v] = block'[w] /\ Live(v)' /\ Live(w)'
           => Ended(block[v])'
  PROVE  NoDoubleFetch'
BY Zenon DEF NoDoubleFetch, Live, Ended

\* A new work is created.

LEMMA NewWorkStep ==
  ASSUME NEW w \in Works, NEW a \in Announcements, ChainTypes, WorkTypes, JobTypes,
         LoopTypes, Unborn, Indexed, Stages, Submitting, HeaderFirst, Progress,
         Tracked, PartsMeet, Awake, NoDoubleFetch, lpc = "select", fetching[a.b] =
         0, block[w] = 0, block' = [block EXCEPT ![w] = a.b], parts' = [parts EXCEPT
         ![w] = IF a.kind = "header" THEN {"header"} ELSE {}], lpc' = (IF a.kind =
         "header" THEN "fetchbody" ELSE "fetchheader"), lw' = w, UNCHANGED <<keep,
         fetchedSig, fetching, built, err, jpc, hist>>
  PROVE  FetcherInv'
<1>1. UNCHANGED <<height, pclosed, fetchedSig, fetching, fetched, built, err, jpc,
                  upc, early, aside, moved>>
  BY Zenon DEF keep, hist
<1>2. /\ a.b \in Blocks /\ a.b # 0
      /\ block' \in [Works -> Blocks \cup {0}] /\ block'[w] = a.b
      /\ \A v \in Works : v # w => block'[v] = block[v]
  <2>1. a.b \in Announced
    BY Zenon DEF Announcements
  <2>2. a.b \in Blocks /\ a.b # 0
    <3>1. \A n \in 1..Height : n # 0
      BY FetcherAssumption
    <3> QED BY <2>1, <3>1, FetcherAssumption, Zenon DEF Blocks
  <2> QED BY <2>2, Zenon DEF WorkTypes
<1>3. /\ parts' \in [Works -> SUBSET Parts]
      /\ parts'[w] = IF a.kind = "header" THEN {"header"} ELSE {}
      /\ \A v \in Works : v # w => parts'[v] = parts[v]
  BY Zenon DEF WorkTypes, Parts
<1>4. /\ parts[w] = {} /\ w \notin built \cup err
      /\ \A x \in Parts : jpc[w][x] = "none"
      /\ \A b \in Blocks : fetching[b] # w
  BY Zenon DEF Unborn
<1>5. parts'[w] # Parts /\ "body" \notin parts'[w] /\ lw = 0
  BY <1>3 DEF Parts, LoopTypes, NoWork
<1>6. ChainTypes' /\ JobTypes'
  BY <1>1, KeepChainTypes, KeepJobTypes, Zenon
<1>7. WorkTypes'
  BY <1>1, <1>2, <1>3, <1>4, <1>5, Zenon DEF WorkTypes
<1>8. LoopTypes'
  BY <1>1, <1>2, <1>3, <1>4, <1>5, Zenon DEF LoopTypes, NoWork, WithWork
<1>9. Unborn'
  <2> SUFFICES ASSUME NEW v \in Works, block'[v] = 0
               PROVE  /\ parts'[v] = {} /\ v \notin built' \cup err'
                      /\ \A y \in Parts : jpc'[v][y] = "none"
                      /\ \A b \in Blocks : fetching'[b] # v
    BY Zenon DEF Unborn
  <2>1. v # w /\ block[v] = 0
    BY <1>2, Zenon
  <2>2. /\ parts[v] = {} /\ v \notin built \cup err
        /\ \A y \in Parts : jpc[v][y] = "none"
        /\ \A b \in Blocks : fetching[b] # v
    BY <2>1, Zenon DEF Unborn
  <2> QED BY <1>1, <1>3, <2>1, <2>2, Zenon
<1>10. Indexed'
  <2> SUFFICES ASSUME NEW b \in Blocks, fetching[b] # 0
               PROVE  block'[fetching[b]] = b
    BY <1>1, Zenon DEF Indexed
  <2>1. fetching[b] \in Works /\ fetching[b] # w
    BY <1>4, Zenon DEF WorkTypes
  <2> QED BY <1>2, <2>1, Zenon DEF Indexed
<1>11. Stages'
  <2> SUFFICES ASSUME NEW v \in Works
               PROVE  /\ v \in built' => parts'[v] = Parts
                      /\ lpc' = "assemble" /\ lw' = v => parts'[v] = Parts
                      /\ \A x \in Parts :
                           /\ jpc'[v][x] \in {"build", "assemble"} => x \in parts'[v]
                           /\ jpc'[v][x] = "assemble" => parts'[v] = Parts
                           /\ jpc'[v][x] \in {"done", "signal", "remove"} =>
                                v \in built' \cup err' \/ pclosed'
    BY Zenon DEF Stages
  <2>1. lpc' # "assemble"
    OBVIOUS
  <2>2. CASE v = w
    BY <1>1, <1>4, <2>1, <2>2, Zenon
  <2>3. CASE v # w
    <3>1. /\ v \in built => parts[v] = Parts
          /\ \A x \in Parts :
               /\ jpc[v][x] \in {"build", "assemble"} => x \in parts[v]
               /\ jpc[v][x] = "assemble" => parts[v] = Parts
               /\ jpc[v][x] \in {"done", "signal", "remove"} =>
                    v \in built \cup err \/ pclosed
      BY Zenon DEF Stages
    <3> QED BY <1>1, <1>3, <2>1, <2>3, <3>1, Zenon
  <2> QED BY <2>2, <2>3, Zenon
<1>12. Submitting'
  BY <1>1, <1>2, <1>3, <1>4, <1>5, Zenon DEF Submitting, Parts
<1>13. HeaderFirst'
  BY <1>1, <1>2, <1>3, <1>4, <1>5, Zenon DEF HeaderFirst, Excused
<1>14. Progress'
  <2>1. lpc' # "addwork"
    BY Zenon
  <2>2. ASSUME NEW v \in Works, InList(v)', ~Excused(v)'
        PROVE  v # w /\ InList(v) /\ ~Excused(v)
    BY <1>1, <1>4, <2>1, <2>2, Zenon DEF InList, Excused
  <2>3. ASSUME NEW v \in Works, InList(v)', ~Excused(v)'
        PROVE  /\ \A x \in Parts : jpc'[v][x] = "none" => x \in parts'[v]
               /\ v \in built' => \E x \in Parts : jpc'[v][x] \in {"done", "signal", "remove"}
               /\ \E x \in Parts : jpc'[v][x] # "none"
    <3>1. /\ \A x \in Parts : jpc[v][x] = "none" => x \in parts[v]
          /\ v \in built => \E x \in Parts : jpc[v][x] \in {"done", "signal", "remove"}
          /\ \E x \in Parts : jpc[v][x] # "none"
      BY <2>2, <2>3, Zenon DEF Progress
    <3>2. v \in built' <=> v \in built
      BY <1>1, Zenon
    <3>3. parts'[v] = parts[v] /\ \A x \in Parts : jpc'[v][x] = jpc[v][x]
      BY <1>1, <1>3, <2>2, <2>3, Zenon
    <3> QED BY <3>1, <3>2, <3>3, Zenon
  <2> QED BY <2>3, Zenon DEF Progress
<1>15. Tracked'
  BY <1>1, <1>2, <1>3, <1>4, <1>5, FetcherAssumption DEF Tracked, Live, Ended,
      WorkTypes
<1>16. PartsMeet'
  BY <1>1, <1>2, <1>3, <1>4, <1>5, Zenon DEF PartsMeet
<1>17. Awake'
  BY <1>1, <1>2, <1>3, <1>4, <1>5, Zenon DEF Awake
<1>18. NoDoubleFetch'
  <2>1. \A v \in Works : Live(v)' => v # w /\ Live(v)
    BY <1>1, <1>4, Zenon DEF Live
  <2>2. \A v \in Works : v # w /\ Ended(block[v]) => Ended(block[v])'
    BY <1>1, <1>2, <1>4, Zenon DEF Ended, WorkTypes
  <2>3. ASSUME NEW u \in Works, NEW v \in Works, u # v, block'[u] = block'[v], Live(u)',
               Live(v)'
        PROVE  Ended(block[u])'
    <3>1. u # w /\ v # w /\ Live(u) /\ Live(v)
      BY <2>1, <2>3, Zenon
    <3>2. block[u] = block[v]
      BY <1>2, <2>3, <3>1, Zenon
    <3> QED BY <2>2, <2>3, <3>1, <3>2, DoubleNow, Zenon
  <2> QED BY <2>3, DoubleNext, Zenon
<1> QED BY <1>6, <1>7, <1>8, <1>9, <1>10, <1>11, <1>12, <1>13, <1>14, <1>15, <1>16,
    <1>17, <1>18, Zenon DEF FetcherInv, TypeOK

LEMMA LoopBuildStep ==
  ASSUME ChainTypes, WorkTypes, JobTypes, LoopTypes, Unborn, Indexed, Stages,
         Submitting, HeaderFirst, Progress, Tracked, PartsMeet, Awake,
         NoDoubleFetch, LoopBuild
  PROVE  FetcherInv'
<1>1. UNCHANGED <<height, pclosed, fetchedSig, fetching, fetched, block, parts,
                  built, err, jpc, upc, early, aside>>
  BY Zenon DEF LoopBuild, wvars, keep, Again
<1>2. /\ lpc = "build" /\ lw \in Works /\ block[lw] # 0
      /\ \/ lpc' = "assemble" /\ lw' = lw /\ moved' = moved /\ parts[lw] = Parts
         \/ Again /\ (lw \in built \/ parts[lw] # Parts)
  BY Zenon DEF LoopBuild, LoopTypes, WithWork
<1>3. WorkTypes' /\ JobTypes' /\ Unborn' /\ Indexed' /\ NoDoubleFetch'
  BY <1>1, KeepWorkTypes, KeepJobTypes, KeepUnborn, KeepIndexed, KeepNoDoubleFetch,
      Zenon
<1>4. ChainTypes'
  BY <1>1, <1>2, Zenon DEF ChainTypes, Again
<1>5. LoopTypes'
  BY <1>1, <1>2, AgainFacts, Zenon DEF LoopTypes, NoWork, WithWork
<1>6. Stages'
  BY <1>1, <1>2, Zenon DEF Stages, Again
<1>7. Submitting'
  BY <1>1, <1>2, AgainFacts, Zenon DEF Submitting
<1>8. HeaderFirst'
  BY <1>1, <1>2, AgainFacts, Zenon DEF HeaderFirst, Excused
<1>9. Progress'
  BY <1>1, <1>2, Zenon DEF Progress, InList, Excused, Again
<1>10. Tracked'
  BY <1>1, <1>2, Zenon DEF Tracked, Live, Ended, Again
<1>11. PartsMeet'
  BY <1>1, <1>2, Zenon DEF PartsMeet, Again
<1>12. Awake'
  BY <1>1, <1>2, AgainFacts, Zenon DEF Awake
<1> QED BY <1>3, <1>4, <1>5, <1>6, <1>7, <1>8, <1>9, <1>10, <1>11, <1>12, Zenon DEF
    FetcherInv, TypeOK

LEMMA LoopAssembleStep ==
  ASSUME ChainTypes, WorkTypes, JobTypes, LoopTypes, Unborn, Indexed, Stages,
         Submitting, HeaderFirst, Progress, Tracked, PartsMeet, Awake,
         NoDoubleFetch, LoopAssemble
  PROVE  FetcherInv'
<1>1. UNCHANGED <<height, pclosed, fetchedSig, fetching, fetched, block, parts, err,
                  jpc, upc, early>>
  BY Zenon DEF LoopAssemble, keep, Again
<1>2. /\ lpc = "assemble" /\ lw \in Works /\ block[lw] # 0 /\ parts[lw] = Parts
      /\ Again /\ built' = built \cup {lw} /\ aside' = aside \cup {lw}
  BY Zenon DEF LoopAssemble, LoopTypes, WithWork, Stages
<1>3. JobTypes' /\ Indexed'
  BY <1>1, KeepJobTypes, KeepIndexed, Zenon
<1>4. ChainTypes'
  BY <1>1, <1>2, Zenon DEF ChainTypes, Again
<1>5. WorkTypes'
  BY <1>1, <1>2, Zenon DEF WorkTypes
<1>6. LoopTypes'
  BY <1>1, <1>2, AgainFacts, Zenon
<1>7. Unborn'
  <2>1. ASSUME NEW v \in Works, block'[v] = 0
        PROVE  v # lw /\ block[v] = 0
    BY <1>1, <1>2, <2>1, Zenon
  <2>2. ASSUME NEW v \in Works, block'[v] = 0
        PROVE  /\ parts'[v] = {} /\ v \notin built' \cup err'
               /\ \A x \in Parts : jpc'[v][x] = "none"
               /\ \A b \in Blocks : fetching'[b] # v
    <3>1. /\ parts[v] = {} /\ v \notin built \cup err
          /\ \A x \in Parts : jpc[v][x] = "none"
          /\ \A b \in Blocks : fetching[b] # v
      BY <2>1, <2>2, Zenon DEF Unborn
    <3> QED BY <1>1, <1>2, <2>1, <2>2, <3>1, Zenon
  <2> QED BY <2>2, Zenon DEF Unborn
<1>8. Stages'
  BY <1>1, <1>2, Zenon DEF Stages, Again
<1>9. Submitting'
  BY <1>1, <1>2, AgainFacts, Zenon
<1>10. HeaderFirst'
  BY <1>1, <1>2, AgainFacts, Zenon
<1>11. Progress'
  BY <1>1, <1>2, Zenon DEF Progress, InList, Excused, Again
<1>12. Tracked'
  BY <1>1, <1>2, Zenon DEF Tracked, Live, Ended, Again
<1>13. PartsMeet'
  BY <1>1, <1>2, Zenon DEF PartsMeet, Again
<1>14. Awake'
  BY <1>1, <1>2, AgainFacts, Zenon
<1>15. NoDoubleFetch'
  BY <1>1, <1>2, NoneSubmittedDouble, Zenon
<1> QED BY <1>3, <1>4, <1>5, <1>6, <1>7, <1>8, <1>9, <1>10, <1>11, <1>12, <1>13,
    <1>14, <1>15, Zenon DEF FetcherInv, TypeOK

\* Submit refuses a job of a stopped pool.

LEMMA RefusedStep ==
  ASSUME ChainTypes, WorkTypes, JobTypes, LoopTypes, Unborn, Indexed, Stages,
         Submitting, HeaderFirst, Progress, Tracked, PartsMeet, Awake,
         NoDoubleFetch, lpc \in {"fetchheader", "fetchbody"}, pclosed, Again,
         UNCHANGED <<keep, fetchedSig, fetching, wvars, jpc, early, aside>>
  PROVE  FetcherInv'
<1>1. UNCHANGED <<height, pclosed, fetchedSig, fetching, fetched, block, parts,
                  built, err, jpc, upc, early, aside>>
  BY Zenon DEF keep, wvars
<1>2. WorkTypes' /\ JobTypes' /\ Unborn' /\ Indexed' /\ NoDoubleFetch'
  BY <1>1, KeepWorkTypes, KeepJobTypes, KeepUnborn, KeepIndexed, KeepNoDoubleFetch,
      Zenon
<1>3. ChainTypes'
  BY <1>1, Zenon DEF ChainTypes, Again
<1>4. LoopTypes'
  BY AgainFacts, Zenon
<1>5. Stages'
  BY <1>1, AgainStages, Zenon
<1>6. Submitting'
  BY AgainFacts, Zenon
<1>7. HeaderFirst'
  BY AgainFacts, Zenon
<1>8. Progress'
  BY <1>1, AgainProgress, Zenon
<1>9. Tracked'
  BY <1>1, Zenon DEF Tracked, Live, Ended
<1>10. PartsMeet'
  BY <1>1, Zenon DEF PartsMeet, Again
<1>11. Awake'
  BY AgainFacts, Zenon
<1> QED BY <1>2, <1>3, <1>4, <1>5, <1>6, <1>7, <1>8, <1>9, <1>10, <1>11, Zenon DEF
    FetcherInv, TypeOK

LEMMA FetchHeaderStep ==
  ASSUME ChainTypes, WorkTypes, JobTypes, LoopTypes, Unborn, Indexed, Stages,
         Submitting, HeaderFirst, Progress, Tracked, PartsMeet, Awake,
         NoDoubleFetch, FetchHeader, ~pclosed
  PROVE  FetcherInv'
<1>1. UNCHANGED <<height, pclosed, fetchedSig, fetching, fetched, block, parts,
                  built, err, upc, early, aside>>
  BY Zenon DEF FetchHeader, wvars, keep, Again
<1>2. /\ JobTypes' /\ lpc = "fetchheader" /\ lw \in Works /\ block[lw] # 0
      /\ lpc' = "fetchbody" /\ lw' = lw /\ moved' = moved
      /\ jpc[lw]["header"] = "none" /\ jpc'[lw]["header"] = "pool"
      /\ \A v \in Works, y \in Parts :
           v # lw \/ y # "header" => jpc'[v][y] = jpc[v][y]
  <2>1. lw \in Works /\ block[lw] # 0 /\ "header" \in Parts /\ "pool" \in Places
    BY Zenon DEF FetchHeader, LoopTypes, WithWork, Parts, Places
  <2>2. Place(lw, "header", "pool")
    BY Zenon DEF FetchHeader
  <2>3. jpc[lw]["header"] = "none"
    BY Zenon DEF FetchHeader, Submitting
  <2>4. /\ JobTypes' /\ jpc'[lw]["header"] = "pool"
        /\ \A v \in Works, y \in Parts :
             v # lw \/ y # "header" => jpc'[v][y] = jpc[v][y]
    BY <2>1, <2>2, PlaceFacts, Zenon
  <2> QED BY <2>1, <2>3, <2>4, Zenon DEF FetchHeader
<1>3. \A v \in Works : v # lw /\ Live(v) /\ block[v] = block[lw] => Ended(block[lw])
  <2>1. fetching[block[lw]] = 0 /\ 0 \notin Works
    BY <1>2, FetcherAssumption, Zenon DEF Submitting
  <2> QED BY <1>2, <2>1, Zenon DEF Tracked
<1>4. WorkTypes' /\ Indexed'
  BY <1>1, KeepWorkTypes, KeepIndexed, Zenon
<1>5. ChainTypes'
  BY <1>1, <1>2, <1>3, Zenon DEF ChainTypes
<1>6. LoopTypes'
  BY <1>1, <1>2, <1>3, Zenon DEF LoopTypes, NoWork, WithWork
<1>7. Unborn'
  <2>1. ASSUME NEW v \in Works, block'[v] = 0
        PROVE  v # lw /\ block[v] = 0
    BY <1>1, <1>2, <2>1, Zenon
  <2>2. ASSUME NEW v \in Works, block'[v] = 0
        PROVE  /\ parts'[v] = {} /\ v \notin built' \cup err'
               /\ \A x \in Parts : jpc'[v][x] = "none"
               /\ \A b \in Blocks : fetching'[b] # v
    <3>1. /\ parts[v] = {} /\ v \notin built \cup err
          /\ \A x \in Parts : jpc[v][x] = "none"
          /\ \A b \in Blocks : fetching[b] # v
      BY <2>1, <2>2, Zenon DEF Unborn
    <3> QED BY <1>1, <1>2, <2>1, <2>2, <3>1, Zenon
  <2> QED BY <2>2, Zenon DEF Unborn
<1>8. Stages'
  <2>1. \A v \in Works, x \in Parts : jpc'[v][x] = jpc[v][x] \/ jpc'[v][x] = "pool"
    BY <1>2, Zenon
  <2>2. lpc' # "assemble" /\ UNCHANGED <<parts, built, err, pclosed>>
    BY <1>1, <1>2, Zenon
  <2> QED BY <2>1, <2>2, Zenon DEF Stages
<1>9. Submitting'
  BY <1>1, <1>2, <1>3, Zenon DEF Submitting, Parts
<1>10. HeaderFirst'
  BY <1>1, <1>2, <1>3, Zenon DEF HeaderFirst, Excused, Parts
<1>11. Progress'
  <2>1. \A b \in Blocks : fetching[b] # lw
    <3>1. fetching[block[lw]] = 0 /\ lw # 0
      BY <1>2, FetcherAssumption, Zenon DEF Submitting
    <3>2. \A b \in Blocks : fetching[b] = lw => block[lw] = b
      BY <3>1, Zenon DEF Indexed
    <3> QED BY <3>1, <3>2, Zenon
  <2>2. ASSUME NEW v \in Works, InList(v)', ~Excused(v)'
        PROVE  v # lw /\ InList(v) /\ ~Excused(v)
    BY <1>1, <1>2, <2>1, <2>2, Zenon DEF InList, Excused
  <2>3. ASSUME NEW v \in Works, InList(v)', ~Excused(v)'
        PROVE  /\ \A x \in Parts : jpc'[v][x] = "none" => x \in parts'[v]
               /\ v \in built' => \E x \in Parts : jpc'[v][x] \in {"done", "signal", "remove"}
               /\ \E x \in Parts : jpc'[v][x] # "none"
    <3>1. /\ \A x \in Parts : jpc[v][x] = "none" => x \in parts[v]
          /\ v \in built => \E x \in Parts : jpc[v][x] \in {"done", "signal", "remove"}
          /\ \E x \in Parts : jpc[v][x] # "none"
      BY <2>2, <2>3, Zenon DEF Progress
    <3>2. v \in built' <=> v \in built
      BY <1>1, Zenon
    <3>3. parts'[v] = parts[v] /\ \A x \in Parts : jpc'[v][x] = jpc[v][x]
      BY <1>1, <1>2, <2>2, <2>3, Zenon
    <3> QED BY <3>1, <3>2, <3>3, Zenon
  <2> QED BY <2>3, Zenon DEF Progress
<1>12. Tracked'
  <2>1. \A v \in Works : v # lw /\ Live(v)' => Live(v)
    BY <1>1, <1>2, Zenon DEF Live
  <2>2. \A v \in Works : Ended(block[v]) => Ended(block[v])'
    BY <1>1, Zenon DEF Ended
  <2>3. ASSUME NEW v \in Works, Live(v)', v # lw
        PROVE  Ended(block[v])' \/ pclosed' \/ fetching'[block'[v]] = v
    <3>1. Ended(block[v]) \/ pclosed \/ fetching[block[v]] = v
      BY <2>1, <2>3, Zenon DEF Tracked
    <3> QED BY <1>1, <2>2, <3>1, Zenon
  <2> QED BY <1>2, <2>3, Zenon DEF Tracked
<1>13. PartsMeet'
  BY <1>1, <1>2, <1>3, Zenon DEF PartsMeet
<1>14. Awake'
  BY <1>1, <1>2, <1>3, Zenon DEF Awake
<1>15. NoDoubleFetch'
  <2>1. \A v \in Works : v # lw /\ Live(v)' => Live(v)
    BY <1>1, <1>2, Zenon DEF Live
  <2>2. \A v \in Works : Ended(block[v]) => Ended(block[v])'
    BY <1>1, Zenon DEF Ended
  <2>3. ASSUME NEW v \in Works, NEW w \in Works, v # w, block'[v] = block'[w], Live(v)',
               Live(w)'
        PROVE  Ended(block[v])
    <3>1. block[v] = block[w]
      BY <1>1, <2>3, Zenon
    <3>2. CASE v = lw
      BY <1>3, <2>1, <2>3, <3>1, <3>2, Zenon
    <3>3. CASE w = lw
      BY <1>3, <2>1, <2>3, <3>1, <3>3, Zenon
    <3>4. CASE v # lw /\ w # lw
      BY <2>1, <2>3, <3>1, <3>4, DoubleNow, Zenon
    <3> QED BY <3>2, <3>3, <3>4, Zenon
  <2> QED BY <2>2, <2>3, DoubleNext, Zenon
<1> QED BY <1>2, <1>4, <1>5, <1>6, <1>7, <1>8, <1>9, <1>10, <1>11, <1>12, <1>13,
    <1>14, <1>15, Zenon DEF FetcherInv, TypeOK

LEMMA FetchBodyStep ==
  ASSUME ChainTypes, WorkTypes, JobTypes, LoopTypes, Unborn, Indexed, Stages,
         Submitting, HeaderFirst, Progress, Tracked, PartsMeet, Awake,
         NoDoubleFetch, FetchBody, ~pclosed
  PROVE  FetcherInv'
<1>1. UNCHANGED <<height, pclosed, fetchedSig, fetching, fetched, block, parts,
                  built, err, upc, early, aside>>
  BY Zenon DEF FetchBody, wvars, keep, Again
<1>2. /\ JobTypes' /\ lpc = "fetchbody" /\ lw \in Works /\ block[lw] # 0
      /\ lpc' = "addwork" /\ lw' = lw /\ moved' = moved
      /\ jpc[lw]["body"] = "none" /\ jpc'[lw]["body"] = "pool"
      /\ \A v \in Works, y \in Parts :
           v # lw \/ y # "body" => jpc'[v][y] = jpc[v][y]
  <2>1. lw \in Works /\ block[lw] # 0 /\ "body" \in Parts /\ "pool" \in Places
    BY Zenon DEF FetchBody, LoopTypes, WithWork, Parts, Places
  <2>2. Place(lw, "body", "pool")
    BY Zenon DEF FetchBody
  <2>3. jpc[lw]["body"] = "none"
    BY Zenon DEF FetchBody, Submitting
  <2>4. /\ JobTypes' /\ jpc'[lw]["body"] = "pool"
        /\ \A v \in Works, y \in Parts :
             v # lw \/ y # "body" => jpc'[v][y] = jpc[v][y]
    BY <2>1, <2>2, PlaceFacts, Zenon
  <2> QED BY <2>1, <2>3, <2>4, Zenon DEF FetchBody
<1>3. \A v \in Works : v # lw /\ Live(v) /\ block[v] = block[lw] => Ended(block[lw])
  <2>1. fetching[block[lw]] = 0 /\ 0 \notin Works
    BY <1>2, FetcherAssumption, Zenon DEF Submitting
  <2> QED BY <1>2, <2>1, Zenon DEF Tracked
<1>4. WorkTypes' /\ Indexed'
  BY <1>1, KeepWorkTypes, KeepIndexed, Zenon
<1>5. ChainTypes'
  BY <1>1, <1>2, <1>3, Zenon DEF ChainTypes
<1>6. LoopTypes'
  BY <1>1, <1>2, <1>3, Zenon DEF LoopTypes, NoWork, WithWork
<1>7. Unborn'
  <2>1. ASSUME NEW v \in Works, block'[v] = 0
        PROVE  v # lw /\ block[v] = 0
    BY <1>1, <1>2, <2>1, Zenon
  <2>2. ASSUME NEW v \in Works, block'[v] = 0
        PROVE  /\ parts'[v] = {} /\ v \notin built' \cup err'
               /\ \A x \in Parts : jpc'[v][x] = "none"
               /\ \A b \in Blocks : fetching'[b] # v
    <3>1. /\ parts[v] = {} /\ v \notin built \cup err
          /\ \A x \in Parts : jpc[v][x] = "none"
          /\ \A b \in Blocks : fetching[b] # v
      BY <2>1, <2>2, Zenon DEF Unborn
    <3> QED BY <1>1, <1>2, <2>1, <2>2, <3>1, Zenon
  <2> QED BY <2>2, Zenon DEF Unborn
<1>8. Stages'
  <2>1. \A v \in Works, x \in Parts : jpc'[v][x] = jpc[v][x] \/ jpc'[v][x] = "pool"
    BY <1>2, Zenon
  <2>2. lpc' # "assemble" /\ UNCHANGED <<parts, built, err, pclosed>>
    BY <1>1, <1>2, Zenon
  <2> QED BY <2>1, <2>2, Zenon DEF Stages
<1>9. Submitting'
  BY <1>1, <1>2, <1>3, Zenon DEF Submitting, Parts
<1>10. HeaderFirst'
  BY <1>1, <1>2, <1>3, Zenon DEF HeaderFirst, Excused, Parts
<1>11. Progress'
  <2>1. "body" \notin parts[lw] /\ "body" \in Parts /\ lw \notin built
    BY <1>2, Zenon DEF Submitting, Stages, Parts
  <2>2. jpc[lw]["header"] = "none" => "header" \in parts[lw] \/ Excused(lw)
    BY <1>2, Zenon DEF HeaderFirst
  <2>3. \A v \in Works : Excused(v)' <=> Excused(v)
    BY <1>1, Zenon DEF Excused
  <2>4. \A v \in Works : v # lw /\ InList(v)' => InList(v)
    BY <1>1, <1>2, Zenon DEF InList
  <2>5. ASSUME NEW v \in Works, v # lw, InList(v)', ~Excused(v)'
        PROVE  /\ \A x \in Parts : jpc'[v][x] = "none" => x \in parts'[v]
               /\ v \in built' => \E x \in Parts : jpc'[v][x] \in {"done", "signal", "remove"}
               /\ \E x \in Parts : jpc'[v][x] # "none"
    <3>1. /\ \A x \in Parts : jpc[v][x] = "none" => x \in parts[v]
          /\ v \in built => \E x \in Parts : jpc[v][x] \in {"done", "signal", "remove"}
          /\ \E x \in Parts : jpc[v][x] # "none"
      BY <2>3, <2>4, <2>5, Zenon DEF Progress
    <3>2. \A x \in Parts : jpc'[v][x] = jpc[v][x]
      BY <1>2, <2>5, Zenon
    <3> QED BY <1>1, <3>1, <3>2, Zenon
  <2>6. ASSUME ~Excused(lw)
        PROVE  /\ \A x \in Parts : jpc'[lw][x] = "none" => x \in parts'[lw]
               /\ lw \notin built' /\ \E x \in Parts : jpc'[lw][x] # "none"
    <3>1. jpc'[lw]["header"] = jpc[lw]["header"]
      BY <1>2, Zenon DEF Parts
    <3>2. jpc'[lw]["body"] # "none"
      BY <1>2
    <3> QED BY <1>1, <2>1, <2>2, <2>6, <3>1, <3>2, Zenon DEF Parts
  <2>7. ASSUME NEW v \in Works, InList(v)', ~Excused(v)'
        PROVE  /\ \A x \in Parts : jpc'[v][x] = "none" => x \in parts'[v]
               /\ v \in built' => \E x \in Parts : jpc'[v][x] \in {"done", "signal", "remove"}
               /\ \E x \in Parts : jpc'[v][x] # "none"
    <3>1. CASE v = lw
      BY <1>2, <2>3, <2>6, <2>7, <3>1, Zenon
    <3>2. CASE v # lw
      BY <2>5, <2>7, <3>2, Zenon
    <3> QED BY <3>1, <3>2, Zenon
  <2> QED BY <2>7, Zenon DEF Progress
<1>12. Tracked'
  <2>1. \A v \in Works : v # lw /\ Live(v)' => Live(v)
    BY <1>1, <1>2, Zenon DEF Live
  <2>2. \A v \in Works : Ended(block[v]) => Ended(block[v])'
    BY <1>1, Zenon DEF Ended
  <2>3. ASSUME NEW v \in Works, Live(v)', v # lw
        PROVE  Ended(block[v])' \/ pclosed' \/ fetching'[block'[v]] = v
    <3>1. Ended(block[v]) \/ pclosed \/ fetching[block[v]] = v
      BY <2>1, <2>3, Zenon DEF Tracked
    <3> QED BY <1>1, <2>2, <3>1, Zenon
  <2> QED BY <1>2, <2>3, Zenon DEF Tracked
<1>13. PartsMeet'
  BY <1>1, <1>2, <1>3, Zenon DEF PartsMeet
<1>14. Awake'
  BY <1>1, <1>2, <1>3, Zenon DEF Awake
<1>15. NoDoubleFetch'
  <2>1. \A v \in Works : v # lw /\ Live(v)' => Live(v)
    BY <1>1, <1>2, Zenon DEF Live
  <2>2. \A v \in Works : Ended(block[v]) => Ended(block[v])'
    BY <1>1, Zenon DEF Ended
  <2>3. ASSUME NEW v \in Works, NEW w \in Works, v # w, block'[v] = block'[w], Live(v)',
               Live(w)'
        PROVE  Ended(block[v])
    <3>1. block[v] = block[w]
      BY <1>1, <2>3, Zenon
    <3>2. CASE v = lw
      BY <1>3, <2>1, <2>3, <3>1, <3>2, Zenon
    <3>3. CASE w = lw
      BY <1>3, <2>1, <2>3, <3>1, <3>3, Zenon
    <3>4. CASE v # lw /\ w # lw
      BY <2>1, <2>3, <3>1, <3>4, DoubleNow, Zenon
    <3> QED BY <3>2, <3>3, <3>4, Zenon
  <2> QED BY <2>2, <2>3, DoubleNext, Zenon
<1> QED BY <1>2, <1>4, <1>5, <1>6, <1>7, <1>8, <1>9, <1>10, <1>11, <1>12, <1>13,
    <1>14, <1>15, Zenon DEF FetcherInv, TypeOK

LEMMA AddWorkStep ==
  ASSUME ChainTypes, WorkTypes, JobTypes, LoopTypes, Unborn, Indexed, Stages,
         Submitting, HeaderFirst, Progress, Tracked, PartsMeet, Awake,
         NoDoubleFetch, AddWork
  PROVE  FetcherInv'
<1>1. UNCHANGED <<height, pclosed, fetchedSig, fetched, block, parts, built, err,
                  jpc, upc, early, aside>>
  BY Zenon DEF AddWork, wvars, keep, Again
<1>2. /\ lpc = "addwork" /\ lw \in Works /\ block[lw] \in Blocks /\ Again
      /\ fetching[block[lw]] = 0
  BY Zenon DEF AddWork, LoopTypes, WithWork, WorkTypes, Submitting
<1>3. /\ fetching' \in [Blocks -> Works \cup {0}]
      /\ fetching'[block[lw]] = lw
      /\ \A b \in Blocks : b # block[lw] => fetching'[b] = fetching[b]
  BY <1>2, Zenon DEF AddWork, WorkTypes
<1>4. JobTypes' /\ NoDoubleFetch'
  BY <1>1, KeepJobTypes, KeepNoDoubleFetch, Zenon
<1>5. ChainTypes'
  BY <1>1, <1>2, <1>3, Zenon DEF ChainTypes, Again
<1>6. WorkTypes'
  BY <1>1, <1>2, <1>3, Zenon DEF WorkTypes
<1>7. LoopTypes'
  BY <1>1, <1>2, <1>3, AgainFacts, Zenon
<1>8. Unborn'
  <2> SUFFICES ASSUME NEW v \in Works, block'[v] = 0
               PROVE  /\ parts'[v] = {} /\ v \notin built' \cup err'
                      /\ \A y \in Parts : jpc'[v][y] = "none"
                      /\ \A b \in Blocks : fetching'[b] # v
    BY Zenon DEF Unborn
  <2>1. /\ block[v] = 0 /\ parts[v] = {} /\ v \notin built \cup err
        /\ \A y \in Parts : jpc[v][y] = "none"
        /\ \A b \in Blocks : fetching[b] # v
    BY <1>1, Zenon DEF Unborn
  <2>2. block[lw] # 0
    BY <1>2 DEF LoopTypes, WithWork
  <2>3. \A b \in Blocks : fetching'[b] # v
    BY <1>3, <2>1, <2>2, Zenon
  <2> QED BY <1>1, <2>1, <2>3, Zenon
<1>9. Indexed'
  BY <1>1, <1>2, <1>3, Zenon DEF Indexed
<1>10. Stages'
  BY <1>1, <1>2, <1>3, AgainStages, Zenon
<1>11. Submitting'
  BY <1>1, <1>2, <1>3, AgainFacts, Zenon
<1>12. HeaderFirst'
  BY <1>1, <1>2, <1>3, AgainFacts, Zenon
<1>13. Progress'
  <2> SUFFICES ASSUME NEW v \in Works, InList(v)', ~Excused(v)'
               PROVE  InList(v) /\ ~Excused(v)
    BY <1>1, Zenon DEF Progress
  <2>1. PICK b \in Blocks : fetching'[b] = v
    BY <1>2, Zenon DEF InList, Again
  <2>2. InList(v)
    <3>1. CASE b = block[lw]
      BY <1>2, <1>3, <2>1, <3>1, Zenon DEF InList
    <3>2. CASE b # block[lw]
      BY <1>3, <2>1, <3>2, Zenon DEF InList
    <3> QED BY <3>1, <3>2, Zenon
  <2> QED BY <1>1, <2>2, Zenon DEF Excused
<1>14. Tracked'
  <2>1. ASSUME NEW v \in Works, Live(v)
        PROVE  Ended(block[v]) \/ pclosed \/ fetching'[block[v]] = v
    <3>1. block[v] \in Blocks /\ v # 0
      BY <2>1, FetcherAssumption DEF Live, Unborn, WorkTypes
    <3> QED BY <1>2, <1>3, <2>1, <3>1, Zenon DEF Tracked
  <2>2. \A v \in Works : Live(v)' => Live(v)
    BY <1>1, Zenon DEF Live
  <2> QED BY <1>1, <2>1, <2>2, Zenon DEF Tracked, Ended
<1>15. PartsMeet'
  BY <1>1, <1>2, <1>3, Zenon DEF PartsMeet, Again
<1>16. Awake'
  BY <1>1, <1>2, <1>3, AgainFacts, Zenon
<1> QED BY <1>4, <1>5, <1>6, <1>7, <1>8, <1>9, <1>10, <1>11, <1>12, <1>13, <1>14,
    <1>15, <1>16, Zenon DEF FetcherInv, TypeOK

\* processAnnouncement: the cases of an announcement.
LEMMA OnAnnouncementStep ==
  ASSUME ChainTypes, WorkTypes, JobTypes, LoopTypes, Unborn, Indexed, Stages,
         Submitting, HeaderFirst, Progress, Tracked, PartsMeet, Awake, NoDoubleFetch,
         OnAnnouncement
  PROVE  FetcherInv'
<1>1. /\ lpc = "select" /\ fetchedSig' = fetchedSig
      /\ UNCHANGED <<keep, fetchedSig, fetching, jpc, early, aside>>
  BY Zenon DEF OnAnnouncement
<1>2. fetchedSig' \in Nat /\ fetchedSig' <= SigCap
  BY <1>1, Zenon DEF ChainTypes
<1>3. PICK a \in Announcements :
        IF fetching[a.b] # 0 THEN OnAnnouncedAgain(a)
        ELSE IF Ignored(a) THEN Again /\ UNCHANGED wvars
        ELSE NewWork(a)
  BY Zenon DEF OnAnnouncement
<1>4. CASE Again /\ UNCHANGED wvars
  BY <1>1, <1>2, <1>4, TurnStep, Zenon
<1>5. CASE fetching[a.b] # 0 /\ OnAnnouncedAgain(a)
  <2>1. a.b \in Blocks
    <3>1. a.b \in Announced
      BY Zenon DEF Announcements
    <3> QED BY <3>1, FetcherAssumption, Zenon DEF Blocks
  <2>2. fetching[a.b] \in Works /\ block[fetching[a.b]] # 0
    <3>1. block[fetching[a.b]] = a.b /\ \A n \in 1..Height : n # 0
      BY <1>5, <2>1, FetcherAssumption DEF Indexed
    <3> QED BY <1>5, <2>1, <3>1, Zenon DEF WorkTypes, Blocks
  <2>3. CASE a.kind = "header"
    BY <1>1, <1>5, <2>2, <2>3, HeaderAgainStep, Zenon DEF OnAnnouncedAgain, hist
  <2>4. CASE a.kind # "header"
    BY <1>4, <1>5, <2>4, Zenon DEF OnAnnouncedAgain, wvars
  <2> QED BY <2>3, <2>4, Zenon
<1>6. CASE fetching[a.b] = 0 /\ NewWork(a)
  <2>1. PICK w \in Works :
          /\ block[w] = 0
          /\ block' = [block EXCEPT ![w] = a.b]
          /\ parts' = [parts EXCEPT ![w] = IF a.kind = "header" THEN {"header"} ELSE {}]
          /\ lpc' = (IF a.kind = "header" THEN "fetchbody" ELSE "fetchheader")
          /\ lw' = w
          /\ UNCHANGED <<built, err, moved>>
    BY <1>6, Zenon DEF NewWork
  <2> QED BY <1>1, <1>6, <2>1, NewWorkStep, Zenon DEF hist
<1> QED BY <1>3, <1>4, <1>5, <1>6, Zenon

-----------------------------------------------------------------------------
(* The theorems *)

LEMMA FetcherInit == Init => FetcherInv
<1> SUFFICES ASSUME Init PROVE FetcherInv
  OBVIOUS
<1>1. ChainTypes /\ LoopTypes
  <2>1. 0 \in Nat /\ 0 <= SigCap
    BY FetcherAssumption
  <2> QED BY <2>1, Zenon DEF Init, ChainTypes, LoopTypes, NoWork, WithWork
<1>2. WorkTypes /\ JobTypes
  BY Zenon DEF Init, WorkTypes, JobTypes, Places
<1>3. Unborn /\ Indexed /\ Stages /\ Submitting /\ HeaderFirst /\ Awake
  BY FetcherAssumption, Zenon DEF Init, Unborn, Indexed, Stages, Submitting,
      HeaderFirst,
      Awake, Parts
<1>4. Progress
  BY FetcherAssumption, Zenon DEF Init, Progress, InList
<1>5. Tracked /\ PartsMeet /\ NoDoubleFetch
  BY Zenon DEF Init, Tracked, Live, PartsMeet, NoDoubleFetch, Parts
<1> QED BY <1>1, <1>2, <1>3, <1>4, <1>5, Zenon DEF FetcherInv, TypeOK

LEMMA FetcherUnchanged == FetcherInv /\ UNCHANGED vars => FetcherInv'
<1> SUFFICES ASSUME FetcherInv, UNCHANGED vars PROVE FetcherInv'
  OBVIOUS
<1>1. UNCHANGED <<height, pclosed, fetchedSig, fetching, fetched, block, parts,
                  built, err, jpc, lpc, lw, upc, early, aside, moved>>
  BY Zenon DEF vars, wvars, hist
<1> QED BY <1>1, KeepChainTypes, KeepWorkTypes, KeepJobTypes, KeepLoopTypes,
    KeepUnborn, KeepIndexed,
    KeepStages, KeepSubmitting, KeepHeaderFirst, KeepProgress, KeepTracked,
    KeepPartsMeet, KeepAwake, KeepNoDoubleFetch,
    Zenon DEF FetcherInv, TypeOK

LEMMA JobStepKeeps ==
  ASSUME FetcherInv, NEW w \in Works, NEW x \in Parts, JobStep(w, x)
  PROVE  FetcherInv'
<1>1. ChainTypes /\ WorkTypes /\ JobTypes /\ LoopTypes /\ Unborn /\ Indexed /\ Stages /\
      Submitting /\ HeaderFirst /\ Progress /\ Tracked /\ PartsMeet /\ Awake /\
      NoDoubleFetch
  BY Zenon DEF FetcherInv, TypeOK
<1> QED BY <1>1, FetchedStep, AbortedStep, RefetchStep, TryBuildStep, AssembleStep,
    WorkDoneStep, WorkSignalStep, RemoveWorkStep, Zenon DEF JobStep

LEMMA LoopKeeps ==
  ASSUME FetcherInv,
         \/ LoopBegin \/ InsertNext \/ OnSignal \/ OnQuit \/ OnAnnouncement
         \/ LoopBuild \/ LoopAssemble \/ FetchHeader \/ FetchBody \/ AddWork
  PROVE  FetcherInv'
<1>1. ChainTypes /\ WorkTypes /\ JobTypes /\ LoopTypes /\ Unborn /\ Indexed /\ Stages /\
      Submitting /\ HeaderFirst /\ Progress /\ Tracked /\ PartsMeet /\ Awake /\
      NoDoubleFetch
  BY Zenon DEF FetcherInv, TypeOK
<1>2. CASE LoopBegin
  <2>1. fetchedSig' \in Nat /\ fetchedSig' <= SigCap
    BY <1>1, <1>2, Zenon DEF LoopBegin, ChainTypes
  <2> QED BY <1>1, <1>2, <2>1, TurnStep, Zenon DEF LoopBegin
<1>3. CASE OnSignal
  <2>1. fetchedSig' \in Nat /\ fetchedSig' <= SigCap
    BY <1>1, <1>3, FetcherAssumption DEF OnSignal, ChainTypes
  <2> QED BY <1>1, <1>3, <2>1, TurnStep, Zenon DEF OnSignal
<1>4. CASE (FetchHeader \/ FetchBody) /\ pclosed
  BY <1>1, <1>4, RefusedStep, Zenon DEF FetchHeader, FetchBody
<1> QED BY <1>1, <1>2, <1>3, <1>4, InsertNextStep, OnQuitStep, OnAnnouncementStep,
    LoopBuildStep, LoopAssembleStep, FetchHeaderStep, FetchBodyStep, AddWorkStep, Zenon

LEMMA FetcherStep == FetcherInv /\ [Next]_vars => FetcherInv'
<1> SUFFICES ASSUME FetcherInv, [Next]_vars PROVE FetcherInv'
  OBVIOUS
<1>1. ChainTypes /\ WorkTypes /\ JobTypes /\ LoopTypes /\ Unborn /\ Indexed /\ Stages /\
      Submitting /\ HeaderFirst /\ Progress /\ Tracked /\ PartsMeet /\ Awake /\
      NoDoubleFetch
  BY Zenon DEF FetcherInv, TypeOK
<1>2. CASE UNCHANGED vars
  BY <1>2, FetcherUnchanged, Zenon
<1>3. CASE ChainGrows \/ PoolStop \/ UpdateSignal \/ \E b \in Pushed : Update(b)
  BY <1>1, <1>3, ChainGrowsStep, PoolStopStep, UpdateSignalStep, UpdateStep, Zenon
<1>4. CASE \E w \in Works, x \in Parts : JobStep(w, x)
  BY <1>4, JobStepKeeps, Zenon
<1> QED BY <1>2, <1>3, <1>4, LoopKeeps, Zenon DEF Next

\* FetcherInv holds in every state of the block fetcher (blockfetcher.go), for any
\* announcements, pushed blocks and stops of fpool.
THEOREM FetcherInvariance == Spec => []FetcherInv
BY FetcherInit, FetcherStep, PTL DEF Spec

\* The variables of the fetcher keep their types; fetchedSig never holds more than
\* its capacity, and the loop has a work at hand exactly while it handles one.
THEOREM FetcherTypes == Spec => []TypeOK
<1>1. FetcherInv => TypeOK
  BY Zenon DEF FetcherInv
<1> QED BY <1>1, FetcherInvariance, PTL

\* setheader, setbody and buildblock (blockfetcher.go): whichever job or
\* announcement brings the second part, the block is assembled.
THEOREM PartsAlwaysMeet == Spec => []PartsMeet
<1>1. FetcherInv => PartsMeet
  BY Zenon DEF FetcherInv
<1> QED BY <1>1, FetcherInvariance, PTL

\* handleFetchedBlock and loop: the loop does not wait in its select while a block
\* that it could insert is in the list, unless the chain grew under it.
THEOREM LoopAwake == Spec => []Awake
<1>1. FetcherInv => Awake
  BY Zenon DEF FetcherInv
<1> QED BY <1>1, FetcherInvariance, PTL

\* addwork and removework: a work in the fetching list has a job that will remove
\* it, but for the two exceptions and a stopped pool.
THEOREM ListAlive == Spec => []ListedIsAlive
<1>1. FetcherInv => ListedIsAlive
  <2> SUFFICES ASSUME FetcherInv, NEW b \in Blocks, fetching[b] # 0,
                      fetching[b] \notin early \cup aside, ~pclosed
               PROVE  \E x \in Parts : jpc[fetching[b]][x] # "none"
    BY Zenon DEF ListedIsAlive
  <2>1. fetching[b] \in Works
    BY Zenon DEF FetcherInv, TypeOK, WorkTypes
  <2> QED BY <2>1, Zenon DEF FetcherInv, Progress, InList, Excused
<1> QED BY <1>1, FetcherInvariance, PTL

\* processAnnouncement: two works fetch one block at a time only when a work for it
\* has ended before.
THEOREM FetchedOnce == Spec => []NoDoubleFetch
<1>1. FetcherInv => NoDoubleFetch
  BY Zenon DEF FetcherInv
<1> QED BY <1>1, FetcherInvariance, PTL
=============================================================================
